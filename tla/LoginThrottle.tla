---------------------------- MODULE LoginThrottle ----------------------------
(***************************************************************************)
(* AuthThrottle (internal/handlers/authlimit.go): a client address is turned *)
(* away while it has AuthFailMax failed logins in one window.                *)
(*                                                                          *)
(* A request looks at the count before its password is checked and adds to   *)
(* it afterwards, in two sections of the mutex; the requests in between are  *)
(* not seen by each other's look.                                            *)
(***************************************************************************)
EXTENDS Integers, Sequences, FiniteSets

CONSTANTS
    Clients,        \* client addresses
    Requests,       \* requests served at once
    AuthFailMax,    \* AUTH_FAIL_MAX
    Window,         \* AUTH_FAIL_WINDOW
    MaxTime,        \* bound on the clock
    NoHits          \* no entry for an address

ASSUME ThrottleAssumption ==
    /\ IsFiniteSet(Requests)
    /\ AuthFailMax \in Nat \ {0}      \* 0 turns the throttle off
    /\ Window \in Nat \ {0} /\ MaxTime \in Nat
    /\ NoHits \notin [count : Nat, first : Nat]

VARIABLES
    now,        \* the clock
    hits,       \* authThrottle.hits
    req,        \* each request: its client, when it came, where it is
    failed      \* ghost: when each failure of a client was recorded

throttleVars == <<now, hits, req, failed>>

Times == 0 .. MaxTime
NoRequest == [pc |-> "none", ip |-> NoHits, at |-> 0]

ThrottleInit ==
    /\ now = 0
    /\ hits = [c \in Clients |-> NoHits]
    /\ req = [q \in Requests |-> NoRequest]
    /\ failed = [c \in Clients |-> <<>>]

\* The entry is older than the window.
Expired(h, at) == h # NoHits /\ at - h.first > Window

\* A plausible mistake: one failure too many is let through.
AdmitOneMore(q, c) ==
    /\ req[q].pc = "none"
    /\ LET h == IF Expired(hits[c], now) THEN NoHits ELSE hits[c]
           blocked == h # NoHits /\ h.count > AuthFailMax
       IN  /\ hits' = [hits EXCEPT ![c] = h]
           /\ req' = [req EXCEPT ![q] = [pc |-> IF blocked THEN "blocked" ELSE "auth",
                                         ip |-> c, at |-> now]]
    /\ UNCHANGED <<now, failed>>

\* A plausible mistake: an expired entry still counts.
AdmitUnexpired(q, c) ==
    /\ req[q].pc = "none"
    /\ req' = [req EXCEPT ![q] =
           [pc |-> IF hits[c] # NoHits /\ hits[c].count >= AuthFailMax THEN "blocked" ELSE "auth",
            ip |-> c, at |-> now]]
    /\ UNCHANGED <<now, hits, failed>>

\* handle, up to c.Next: drop an expired entry, then look at the count.
Admit(q, c) ==
    /\ req[q].pc = "none"
    /\ LET h == IF Expired(hits[c], now) THEN NoHits ELSE hits[c]
           blocked == h # NoHits /\ h.count >= AuthFailMax
       IN  /\ hits' = [hits EXCEPT ![c] = h]
           /\ req' = [req EXCEPT ![q] = [pc |-> IF blocked THEN "blocked" ELSE "auth",
                                         ip |-> c, at |-> now]]
    /\ UNCHANGED <<now, failed>>

\* The entry with one more failure of a request that came at a given time.
Counted(h, at) ==
    IF h = NoHits \/ Expired(h, at) THEN [count |-> 1, first |-> at]
                                    ELSE [h EXCEPT !.count = @ + 1]

\* handle, after c.Next: the login failed (401) and is counted.
LoginFails(q) ==
    /\ req[q].pc = "auth"
    /\ LET c == req[q].ip
       IN  /\ hits' = [hits EXCEPT ![c] = Counted(@, req[q].at)]
           /\ failed' = [failed EXCEPT ![c] = Append(@, now)]
    /\ req' = [req EXCEPT ![q] = NoRequest]
    /\ UNCHANGED now

\* Any other response, and the 429 of a blocked request: nothing is counted.
Respond(q) ==
    /\ req[q].pc \in {"auth", "blocked"}
    /\ req' = [req EXCEPT ![q] = NoRequest]
    /\ UNCHANGED <<now, hits, failed>>

\* sweep: drop what is older than the window.  The ticker's phase is arbitrary.
Sweep ==
    /\ \E c \in Clients : Expired(hits[c], now)
    /\ hits' = [c \in Clients |-> IF Expired(hits[c], now) THEN NoHits ELSE hits[c]]
    /\ UNCHANGED <<now, req, failed>>

\* A password is compared in memory: a request meets one tick at most.
Tick ==
    /\ now < MaxTime
    /\ \A q \in Requests : req[q].pc # "none" => req[q].at = now
    /\ now' = now + 1
    /\ UNCHANGED <<hits, req, failed>>

ThrottleStep ==
    \/ \E q \in Requests : (\E c \in Clients : Admit(q, c)) \/ LoginFails(q) \/ Respond(q)
    \/ Sweep \/ Tick

\* The table of failures is gone with the process, the requests with it; the
\* clock and the ghost start again with the next one.
ForgetHits ==
    /\ now' = 0
    /\ hits' = [c \in Clients |-> NoHits]
    /\ req' = [q \in Requests |-> NoRequest]
    /\ failed' = [c \in Clients |-> <<>>]

-----------------------------------------------------------------------------

ThrottleTypeOK ==
    /\ now \in Times
    /\ hits \in [Clients -> [count : Nat, first : Times] \cup {NoHits}]
    /\ req \in [Requests -> [pc : {"none", "auth", "blocked"}, ip : Clients \cup {NoHits},
                             at : Times]]
    /\ failed \in [Clients -> Seq(Times)]

\* How many failures of a client were recorded from one time to another.
FailedIn(c, from, to) == Cardinality({i \in DOMAIN failed[c] : failed[c][i] \in from .. to})

\* Nobody is turned away but for AuthFailMax failures of its own inside one window,
\* and within a window after the last of them: what AuthThrottle promises ("blocks a
\* client IP for `window` after `max` failed authentication attempts ... inside that
\* window", authlimit.go:11-13).  Successes do not count, old failures are forgiven,
\* and a sweep or another address's failures change nothing.  The other half of the
\* promise, that the block lasts the whole window, the code does not keep: it ends a
\* window after the first of the failures (authlimit.go:46).
BlockedDeservedly ==
    \A q \in Requests : req[q].pc = "blocked" =>
        LET c == req[q].ip
        IN  \E i \in DOMAIN failed[c] :
                LET last == failed[c][i]
                IN  /\ last \in req[q].at - Window .. req[q].at
                    /\ FailedIn(c, last - Window, last) >= AuthFailMax

\* How far concurrent requests can overshoot: an address's count never exceeds
\* AuthFailMax - 1 plus the requests that were let in together.
OvershootBounded ==
    \A c \in Clients :
        hits[c] # NoHits =>
            hits[c].count + Cardinality({q \in Requests : req[q].pc = "auth" /\ req[q].ip = c})
                <= AuthFailMax - 1 + Cardinality(Requests)
=============================================================================
