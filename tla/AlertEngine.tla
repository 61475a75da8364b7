---------------------------- MODULE AlertEngine ----------------------------
(***************************************************************************)
(* Evaluating the alert rules and delivering what they fire                 *)
(* (internal/alerts/alerts.go, internal/database/alerts.go).                *)
(*                                                                          *)
(* Evaluations are started by the timer, the fetch worker, an upload and    *)
(* the "evaluate now" button, and are serialised by evalMu.  The operator's *)
(* acknowledgements are not: they fall between any two statements of an     *)
(* evaluation, and UpsertAlert is two statements.                           *)
(***************************************************************************)
EXTENDS Naturals

CONSTANTS
    Alerts,            \* the (rule, domain, key) identities that can fire
    Evaluators,        \* the goroutines that call Evaluate
    Timer,             \* the one of StartScheduler
    None,
    LastDay,           \* bound: the last day of the model's clock
    DeliveryEnabled,   \* a webhook or an email address is configured
    AlertFaults        \* the kinds of failure that may happen

AlertFaultKinds == {"db", "crash", "hang"}

ASSUME AlertAssumption ==
    /\ None \notin Evaluators \cup Alerts
    /\ Timer \in Evaluators
    /\ LastDay \in Nat
    /\ DeliveryEnabled \in BOOLEAN
    /\ AlertFaults \in SUBSET AlertFaultKinds

Days == 0 .. LastDay

VARIABLES
    row,        \* the alerts table: no row, an open one, an acknowledged one
    sent,       \* alerts_sent: <<alert, day>> keys
    holding,    \* the alerts whose condition the stored data satisfies
    day,        \* today
    lock,       \* who holds evalMu
    ev,         \* what each evaluator is doing
    handed,     \* how often an alert was handed to the channels on each day
    opened      \* the day of the evaluation that last turned an alert open

alertVars == <<row, sent, holding, day, lock, ev, handed, opened>>

-----------------------------------------------------------------------------

IdleEval == [pc |-> "idle", day |-> 0, todo |-> {}, cur |-> None,
             found |-> "none", out |-> {}]

AlertInit ==
    /\ row = [a \in Alerts |-> "none"]
    /\ sent = {}
    /\ holding = {}
    /\ day = 0
    /\ lock = None
    /\ ev = [e \in Evaluators |-> IdleEval]
    /\ handed = [a \in Alerts |-> [d \in Days |-> 0]]
    /\ opened = [a \in Alerts |-> 0]

\* Imports, DNS lookups and the passing of time change what the rules find.
DataChanges(a) ==
    /\ holding' = IF a \in holding THEN holding \ {a} ELSE holding \cup {a}
    /\ UNCHANGED <<row, sent, day, lock, ev, handed, opened>>

NextDay ==
    /\ day < LastDay
    /\ day' = day + 1
    /\ UNCHANGED <<row, sent, holding, lock, ev, handed, opened>>

\* AcknowledgeAlert updates open alerts only.
AcknowledgeAlert(a) ==
    /\ row[a] = "open"
    /\ row' = [row EXCEPT ![a] = "ack"]
    /\ UNCHANGED <<sent, holding, day, lock, ev, handed, opened>>

-----------------------------------------------------------------------------
(* EvaluateWith                                                            *)

\* The timer, a run, an upload or the operator calls Evaluate.
StartEvaluation(e) ==
    /\ ev[e].pc = "idle"
    /\ ev' = [ev EXCEPT ![e].pc = "wait"]
    /\ UNCHANGED <<row, sent, holding, day, lock, handed, opened>>

\* A plausible mistake: evaluations are not serialised.
LockNever(e) ==
    /\ ev[e].pc = "wait"
    /\ lock' = e
    /\ ev' = [ev EXCEPT ![e].pc = "rules", ![e].day = day]
    /\ UNCHANGED <<row, sent, holding, day, handed, opened>>

\* evalMu.Lock, after which ctx.Now is read.
Lock(e) ==
    /\ ev[e].pc = "wait"
    /\ lock = None
    /\ lock' = e
    /\ ev' = [ev EXCEPT ![e].pc = "rules", ![e].day = day]
    /\ UNCHANGED <<row, sent, holding, day, handed, opened>>

\* The rules find what the data holds; one whose query fails is left out.
RunRules(e) ==
    /\ ev[e].pc = "rules"
    /\ \E fired \in SUBSET holding :
          /\ fired = holding \/ "db" \in AlertFaults
          /\ ev' = [ev EXCEPT ![e].pc = "upsert", ![e].todo = fired]
    /\ UNCHANGED <<row, sent, holding, day, lock, handed, opened>>

\* UpsertAlert looks for the row of the next fired alert.
FindRow(e, a) ==
    /\ ev[e].pc = "upsert"
    /\ a \in ev[e].todo
    /\ ev' = [ev EXCEPT ![e].pc = "write", ![e].todo = @ \ {a},
                        ![e].cur = a, ![e].found = row[a]]
    /\ UNCHANGED <<row, sent, holding, day, lock, handed, opened>>

\* UpsertAlert's SELECT, INSERT or UPDATE fails: the alert is logged and skipped.
UpsertFails(e) ==
    /\ "db" \in AlertFaults
    /\ ev[e].pc = "write"
    /\ ev' = [ev EXCEPT ![e].pc = "upsert", ![e].cur = None, ![e].found = "none"]
    /\ UNCHANGED <<row, sent, holding, day, lock, handed, opened>>

\* INSERT, or UPDATE ... SET acknowledged_at = 0.  What was found before decides
\* whether to deliver.
WriteRow(e) ==
    LET a == ev[e].cur
    IN  /\ ev[e].pc = "write"
        /\ row' = [row EXCEPT ![a] = "open"]
        /\ opened' = IF row[a] = "open" THEN opened ELSE [opened EXCEPT ![a] = ev[e].day]
        /\ ev' = IF ev[e].found \in {"none", "ack"}
                 THEN [ev EXCEPT ![e].pc = "mark"]
                 ELSE [ev EXCEPT ![e].pc = "upsert", ![e].cur = None, ![e].found = "none"]
        /\ UNCHANGED <<sent, holding, day, lock, handed>>

\* A plausible mistake: the key is not looked at before delivering.
MarkAlertSentAlways(e) ==
    LET a == ev[e].cur
    IN  /\ ev[e].pc = "mark"
        /\ sent' = sent \cup {<<a, ev[e].day>>}
        /\ ev' = [ev EXCEPT ![e].pc = "upsert", ![e].cur = None, ![e].found = "none",
                            ![e].out = @ \cup {a}]
        /\ UNCHANGED <<row, holding, day, lock, handed, opened>>

\* A key already there, and an INSERT that fails, keep the alert from delivery.
MarkAlertSent(e) ==
    LET a == ev[e].cur
        key == <<a, ev[e].day>>
    IN  /\ ev[e].pc = "mark"
        /\ \/ /\ key \notin sent
              /\ sent' = sent \cup {key}
              /\ ev' = [ev EXCEPT ![e].pc = "upsert", ![e].cur = None,
                                  ![e].found = "none", ![e].out = @ \cup {a}]
           \/ /\ key \in sent \/ "db" \in AlertFaults
              /\ sent' = sent
              /\ ev' = [ev EXCEPT ![e].pc = "upsert", ![e].cur = None, ![e].found = "none"]
        /\ UNCHANGED <<row, holding, day, lock, handed, opened>>

\* deliver: the webhook and the email of everything that is to be delivered.
\* Their errors are logged, so handing over is all the engine ever does.  Pruning
\* alerts_sent afterwards drops keys 90 days old, which no day of the model is.
DeliverAlerts(e) ==
    /\ ev[e].pc = "upsert"
    /\ ev[e].todo = {}
    /\ handed' = IF DeliveryEnabled
                 THEN [a \in Alerts |-> IF a \in ev[e].out
                                        THEN [handed[a] EXCEPT ![ev[e].day] = @ + 1]
                                        ELSE handed[a]]
                 ELSE handed
    /\ ev' = [ev EXCEPT ![e].pc = "send"]
    /\ UNCHANGED <<row, sent, holding, day, lock, opened>>

\* smtp.SendMail has no timeout: a server that never answers keeps the lock held.
Hang(e) ==
    /\ "hang" \in AlertFaults
    /\ DeliveryEnabled
    /\ ev[e].pc = "send"
    /\ ev[e].out # {}
    /\ ev' = [ev EXCEPT ![e].pc = "hung"]
    /\ UNCHANGED <<row, sent, holding, day, lock, handed, opened>>

\* A plausible mistake: an early return without the deferred unlock.
UnlockForgotten(e) ==
    /\ ev[e].pc = "send"
    /\ lock' = IF holding = {} THEN lock ELSE None
    /\ ev' = [ev EXCEPT ![e] = IdleEval]
    /\ UNCHANGED <<row, sent, holding, day, handed, opened>>

\* The deferred evalMu.Unlock.
Unlock(e) ==
    /\ ev[e].pc = "send"
    /\ lock' = None
    /\ ev' = [ev EXCEPT ![e] = IdleEval]
    /\ UNCHANGED <<row, sent, holding, day, handed, opened>>

\* The process dies; the tables stay.
AlertCrash ==
    /\ "crash" \in AlertFaults
    /\ lock' = None
    /\ ev' = [e \in Evaluators |-> IdleEval]
    /\ UNCHANGED <<row, sent, holding, day, handed, opened>>

-----------------------------------------------------------------------------

EvaluatorStep(e) ==
    \/ RunRules(e)
    \/ \E a \in Alerts : FindRow(e, a)
    \/ UpsertFails(e) \/ WriteRow(e) \/ MarkAlertSent(e)
    \/ DeliverAlerts(e) \/ Unlock(e)

AlertNext ==
    \/ \E a \in Alerts : DataChanges(a) \/ AcknowledgeAlert(a)
    \/ NextDay
    \/ \E e \in Evaluators : StartEvaluation(e) \/ Lock(e) \/ EvaluatorStep(e) \/ Hang(e)
    \/ AlertCrash

AlertSpec == AlertInit /\ [][AlertNext]_alertVars

\* The timer keeps starting evaluations (ALERT_EVAL_INTERVAL > 0; nothing is
\* assumed of the others), a goroutine keeps running, and Go's mutex hands over to
\* a waiter that has waited for long (starvation mode).
AlertFairness ==
    /\ WF_alertVars(StartEvaluation(Timer))
    /\ \A e \in Evaluators :
          /\ SF_alertVars(Lock(e))
          /\ WF_alertVars(EvaluatorStep(e))

AlertFairSpec == AlertSpec /\ AlertFairness

-----------------------------------------------------------------------------

RowStates == {"none", "open", "ack"}

EvalState ==
    [pc : {"idle", "wait", "rules", "upsert", "write", "mark", "send", "hung"},
     day : Days, todo : SUBSET Alerts, cur : Alerts \cup {None},
     found : RowStates, out : SUBSET Alerts]

AlertTypeOK ==
    /\ row \in [Alerts -> RowStates]
    /\ sent \in SUBSET (Alerts \X Days)
    /\ holding \in SUBSET Alerts
    /\ day \in Days
    /\ lock \in Evaluators \cup {None}
    /\ ev \in [Evaluators -> EvalState]
    /\ handed \in [Alerts -> [Days -> Nat]]
    /\ opened \in [Alerts -> Days]

\* However evaluations, acknowledgements and restarts interleave, an alert goes
\* out once a day at most (EvaluateWith: alerts_sent "dedupes delivery to once
\* per alert per day even across acknowledge / re-open cycles").
AtMostOncePerDay == \A a \in Alerts : \A d \in Days : handed[a][d] <= 1

\* The SELECT-then-INSERT of UpsertAlert is safe: when it inserts there is still
\* no row, so UNIQUE (rule, domain, key) never refuses an alert, which would
\* otherwise be skipped.
InsertNeverClashes ==
    \A e \in Evaluators :
        ev[e].pc = "write" /\ ev[e].found = "none" => row[ev[e].cur] = "none"

\* What the Alerts page says of re-opened alerts ("re-open (and are delivered again)
\* only when the condition fires after the acknowledgement", at most once a day): once
\* no evaluation runs, every open alert has been delivered on the day it was last
\* opened.  An acknowledgement that falls into UpsertAlert is undone instead.
OpenAlertsDelivered ==
    lock = None => \A a \in Alerts : row[a] = "open" => handed[a][opened[a]] > 0

\* A condition that stays true is told of in the end.
StandingConditionDelivered ==
    \A a \in Alerts : <>[](a \in holding) => <>(\E d \in Days : handed[a][d] > 0)
=============================================================================
