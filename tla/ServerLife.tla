----------------------------- MODULE ServerLife -----------------------------
(***************************************************************************)
(* The life of the process (main.go): it opens and migrates the database,    *)
(* and only then registers the login throttle and listens.  A restart goes   *)
(* through the start-up steps again and forgets every failed login.          *)
(***************************************************************************)
EXTENDS StartupSteps, LoginThrottle

lifeVars == <<startVars, throttleVars>>

LifeInit == StartInit /\ ThrottleInit

\* main, up to app.Listen.
Migrating == MigrateStep /\ UNCHANGED throttleVars

\* A handler behind the throttle and basicauth writes the tables.
Serving == ServeStep /\ UNCHANGED throttleVars

\* A request meets the throttle.
Throttling == phase = "serving" /\ ThrottleStep /\ UNCHANGED startVars

\* The process ends, and with it what only it knew.
Restart == Stop /\ ForgetHits

LifeNext == Migrating \/ Serving \/ Throttling \/ Restart

LifeSpec == LifeInit /\ [][LifeNext]_lifeVars

LifeTypeOK == StartTypeOK /\ ThrottleTypeOK
=============================================================================
