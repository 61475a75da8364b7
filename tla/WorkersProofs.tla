---------------------------- MODULE WorkersProofs ----------------------------
(***************************************************************************)
(* The two workers with state of their own in the server's memory.          *)
(* AlertEngine for any alerts, any number of goroutines that evaluate and   *)
(* any number of days: evalMu is what makes UpsertAlert's two statements    *)
(* and the once-a-day rule safe.  EnrichStream for any viewers, items, jobs  *)
(* and buffer capacity, and any number of runs: a run is alone until it has  *)
(* told the status that it ended, its last event is on its way to everybody  *)
(* who waits for it, and "done" is told when nothing stale is left.          *)
(***************************************************************************)
EXTENDS AlertEngine, EnrichStream, SequenceTheorems, TLAPS

-----------------------------------------------------------------------------
(* The alert engine: the inductive invariant                                *)

\* Between Lock and Unlock.
Evaluating == {"rules", "upsert", "write", "mark", "send", "hung"}

MutualExclusion == \A e \in Evaluators : ev[e].pc \in Evaluating => lock = e

CurrentKnown == \A e \in Evaluators : ev[e].pc \in {"write", "mark"} => ev[e].cur \in Alerts

NothingOutYet == \A e \in Evaluators : ev[e].pc \in {"idle", "wait", "rules"} => ev[e].out = {}

\* What was handed over has its key, and was handed over once.
HandedHasKey ==
    \A a \in Alerts : \A d \in Days :
        handed[a][d] = 0 \/ (handed[a][d] = 1 /\ <<a, d>> \in sent)

\* What is about to be handed over has its key, but was not handed over that day.
OutIsFresh ==
    \A e \in Evaluators :
        ev[e].pc \in {"upsert", "write", "mark"} =>
            \A a \in ev[e].out : <<a, ev[e].day>> \in sent /\ handed[a][ev[e].day] = 0

AlertInv ==
    /\ AlertTypeOK
    /\ MutualExclusion
    /\ CurrentKnown
    /\ NothingOutYet
    /\ InsertNeverClashes
    /\ HandedHasKey
    /\ OutIsFresh

LEMMA IdleEvalTyped == IdleEval \in EvalState
BY AlertAssumption DEF IdleEval, EvalState, RowStates, Days

\* Every step of an evaluator leaves it well-typed.
LEMMA EvaluatorsTyped ==
    ASSUME AlertTypeOK, CurrentKnown, NEW e \in Evaluators,
           \/ StartEvaluation(e) \/ Lock(e) \/ RunRules(e) \/ UpsertFails(e) \/ WriteRow(e)
           \/ MarkAlertSent(e) \/ DeliverAlerts(e) \/ Hang(e) \/ Unlock(e)
           \/ \E a \in Alerts : FindRow(e, a)
    PROVE  ev' \in [Evaluators -> EvalState]
<1>1. ev \in [Evaluators -> EvalState] /\ ev[e] \in EvalState /\ day \in Days
  BY DEF AlertTypeOK
<1>2. CASE StartEvaluation(e)
  BY <1>1, <1>2 DEF StartEvaluation, EvalState
<1>3. CASE DeliverAlerts(e)
  <2>1. ev' = [ev EXCEPT ![e].pc = "send"]
    BY <1>3 DEF DeliverAlerts
  <2> QED
    BY <1>1, <2>1 DEF EvalState
<1>4. CASE Hang(e)
  BY <1>1, <1>4 DEF Hang, EvalState
<1>5. CASE Lock(e)
  BY <1>1, <1>5 DEF Lock, EvalState
<1>6. CASE RunRules(e)
  <2>1. PICK fired \in SUBSET Alerts : ev' = [ev EXCEPT ![e].pc = "upsert", ![e].todo = fired]
    BY <1>6 DEF RunRules, AlertTypeOK
  <2> QED
    BY <1>1, <2>1 DEF EvalState
<1>7. ASSUME NEW a \in Alerts, FindRow(e, a) PROVE ev' \in [Evaluators -> EvalState]
  <2>1. ev[e].todo \ {a} \in SUBSET Alerts /\ row[a] \in RowStates
    BY <1>1 DEF EvalState, AlertTypeOK
  <2>2. \A t \in SUBSET Alerts : \A f \in RowStates :
           [ev EXCEPT ![e].pc = "write", ![e].todo = t, ![e].cur = a, ![e].found = f]
              \in [Evaluators -> EvalState]
    BY <1>1 DEF EvalState
  <2>3. ev' = [ev EXCEPT ![e].pc = "write", ![e].todo = ev[e].todo \ {a},
                         ![e].cur = a, ![e].found = row[a]]
    BY <1>7 DEF FindRow
  <2> QED
    BY <2>1, <2>2, <2>3
<1>8. CASE UpsertFails(e) \/ WriteRow(e) \/ MarkAlertSent(e)
  <2>1. ev[e].cur \in Alerts
    BY <1>8 DEF UpsertFails, WriteRow, MarkAlertSent, CurrentKnown
  <2>2. \/ ev' = [ev EXCEPT ![e].pc = "mark"]
        \/ ev' = [ev EXCEPT ![e].pc = "upsert", ![e].cur = None, ![e].found = "none"]
        \/ ev' = [ev EXCEPT ![e].pc = "upsert", ![e].cur = None, ![e].found = "none",
                            ![e].out = ev[e].out \cup {ev[e].cur}]
    BY <1>8 DEF UpsertFails, WriteRow, MarkAlertSent
  <2>3. [ev EXCEPT ![e].pc = "mark"] \in [Evaluators -> EvalState]
    BY <1>1 DEF EvalState
  <2>4. [ev EXCEPT ![e].pc = "upsert", ![e].cur = None, ![e].found = "none"]
           \in [Evaluators -> EvalState]
    BY <1>1 DEF EvalState, RowStates
  <2>5. \A o \in SUBSET Alerts :
           [ev EXCEPT ![e].pc = "upsert", ![e].cur = None, ![e].found = "none", ![e].out = o]
              \in [Evaluators -> EvalState]
    BY <1>1 DEF EvalState, RowStates
  <2>6. ev[e].out \cup {ev[e].cur} \in SUBSET Alerts
    BY <1>1, <2>1 DEF EvalState
  <2>7. [ev EXCEPT ![e].pc = "upsert", ![e].cur = None, ![e].found = "none",
                   ![e].out = ev[e].out \cup {ev[e].cur}] \in [Evaluators -> EvalState]
    BY <2>5, <2>6
  <2> QED
    BY <2>2, <2>3, <2>4, <2>7, Zenon
<1>9. CASE Unlock(e)
  BY <1>1, <1>9, IdleEvalTyped DEF Unlock
<1> QED
  BY <1>2, <1>3, <1>4, <1>5, <1>6, <1>7, <1>8, <1>9

LEMMA AlertInitInv == AlertInit => AlertInv
BY AlertAssumption
DEF AlertInit, AlertInv, AlertTypeOK, EvalState, RowStates, IdleEval, MutualExclusion, Evaluating,
    CurrentKnown, NothingOutYet, InsertNeverClashes, HandedHasKey, OutIsFresh, Days

-----------------------------------------------------------------------------
(* The steps around the evaluations                                         *)

\* What the evaluators do is untouched, tables may only lose "no row" nowhere.
LEMMA EvaluatorsKept ==
    ASSUME AlertInv, AlertTypeOK', UNCHANGED <<sent, lock, ev, handed>>,
           \A a \in Alerts : row[a] = "none" => row'[a] = "none"
    PROVE  AlertInv'
<1>1. MutualExclusion' /\ CurrentKnown' /\ NothingOutYet'
  BY DEF AlertInv, MutualExclusion, CurrentKnown, NothingOutYet
<1>2. InsertNeverClashes'
  BY DEF AlertInv, InsertNeverClashes, CurrentKnown
<1>3. HandedHasKey' /\ OutIsFresh'
  BY DEF AlertInv, HandedHasKey, OutIsFresh
<1> QED
  BY <1>1, <1>2, <1>3 DEF AlertInv

LEMMA WorldInv ==
    ASSUME AlertInv, NextDay \/ \E a \in Alerts : DataChanges(a) \/ AcknowledgeAlert(a)
    PROVE  AlertInv'
<1>1. CASE NextDay
  <2>1. AlertTypeOK'
    BY <1>1, AlertAssumption DEF NextDay, AlertInv, AlertTypeOK, Days
  <2> QED
    BY <1>1, <2>1, EvaluatorsKept DEF NextDay
<1>2. ASSUME NEW a \in Alerts, DataChanges(a) PROVE AlertInv'
  <2>1. AlertTypeOK'
    BY <1>2 DEF DataChanges, AlertInv, AlertTypeOK
  <2> QED
    BY <1>2, <2>1, EvaluatorsKept DEF DataChanges
<1>3. ASSUME NEW a \in Alerts, AcknowledgeAlert(a) PROVE AlertInv'
  <2>1. AlertTypeOK'
    BY <1>3 DEF AcknowledgeAlert, AlertInv, AlertTypeOK, RowStates
  <2>2. \A b \in Alerts : row[b] = "none" => row'[b] = "none"
    BY <1>3 DEF AcknowledgeAlert, AlertInv, AlertTypeOK
  <2> QED
    BY <1>3, <2>1, <2>2, EvaluatorsKept DEF AcknowledgeAlert
<1> QED
  BY <1>1, <1>2, <1>3

\* An evaluator that is not evaluating afterwards has nothing to answer for; the
\* tables are as they were.
LEMMA OutsideInv ==
    ASSUME AlertInv, AlertTypeOK', NEW e \in Evaluators, UNCHANGED <<row, sent, handed>>,
           \A o \in Evaluators \ {e} : ev'[o] = ev[o] /\ (ev[o].pc \in Evaluating => lock' = o),
           ev'[e].pc \in {"idle", "wait", "rules"}, ev'[e].out = {},
           ev'[e].pc = "rules" => lock' = e
    PROVE  AlertInv'
<1>1. MutualExclusion'
  BY DEF MutualExclusion, Evaluating
<1>2. CurrentKnown' /\ NothingOutYet'
  BY DEF AlertInv, CurrentKnown, NothingOutYet
<1>3. InsertNeverClashes'
  BY DEF AlertInv, InsertNeverClashes
<1>4. HandedHasKey' /\ OutIsFresh'
  BY DEF AlertInv, HandedHasKey, OutIsFresh
<1> QED
  BY <1>1, <1>2, <1>3, <1>4 DEF AlertInv

LEMMA StartLockUnlockInv ==
    ASSUME AlertInv, NEW e \in Evaluators, StartEvaluation(e) \/ Lock(e) \/ Unlock(e)
    PROVE  AlertInv'
<1> USE DEF AlertTypeOK
<1>1. CASE StartEvaluation(e)
  <2>1. AlertTypeOK'
    BY <1>1, EvaluatorsTyped DEF StartEvaluation, AlertInv
  <2>2. ev'[e].pc = "wait" /\ ev'[e].out = {}
    BY <1>1 DEF StartEvaluation, AlertInv, NothingOutYet
  <2>3. \A o \in Evaluators \ {e} : ev'[o] = ev[o] /\ (ev[o].pc \in Evaluating => lock' = o)
    BY <1>1 DEF StartEvaluation, AlertInv, MutualExclusion
  <2> QED
    BY <1>1, <2>1, <2>2, <2>3, OutsideInv DEF StartEvaluation
<1>2. CASE Lock(e)
  <2>1. AlertTypeOK'
    BY <1>2, EvaluatorsTyped DEF Lock, AlertInv
  <2>2. ev'[e].pc = "rules" /\ ev'[e].out = {} /\ lock' = e
    BY <1>2 DEF Lock, AlertInv, NothingOutYet
  <2>3. \A o \in Evaluators : ev[o].pc \notin Evaluating
    BY <1>2, AlertAssumption DEF Lock, AlertInv, MutualExclusion
  <2>4. \A o \in Evaluators \ {e} : ev'[o] = ev[o]
    BY <1>2 DEF Lock, AlertInv
  <2> QED
    BY <1>2, <2>1, <2>2, <2>3, <2>4, OutsideInv DEF Lock
<1>3. CASE Unlock(e)
  <2>1. AlertTypeOK'
    BY <1>3, EvaluatorsTyped DEF Unlock, AlertInv
  <2>2. ev'[e].pc = "idle" /\ ev'[e].out = {}
    BY <1>3 DEF Unlock, AlertInv, IdleEval
  <2>3. \A o \in Evaluators \ {e} : ev'[o] = ev[o] /\ ev[o].pc \notin Evaluating
    BY <1>3 DEF Unlock, AlertInv, MutualExclusion, Evaluating
  <2> QED
    BY <1>3, <2>1, <2>2, <2>3, OutsideInv DEF Unlock
<1> QED
  BY <1>1, <1>2, <1>3

LEMMA CrashInv ==
    ASSUME AlertInv, AlertCrash
    PROVE  AlertInv'
<1>1. AlertTypeOK'
  BY IdleEvalTyped DEF AlertCrash, AlertInv, AlertTypeOK, EvalState
<1>2. \A o \in Evaluators : ev'[o].pc = "idle" /\ ev'[o].out = {}
  BY DEF AlertCrash, IdleEval
<1>3. HandedHasKey'
  BY DEF AlertCrash, AlertInv, HandedHasKey
<1> QED
  BY <1>1, <1>2, <1>3 DEF AlertInv, MutualExclusion, Evaluating, CurrentKnown, NothingOutYet,
                          InsertNeverClashes, OutIsFresh

-----------------------------------------------------------------------------
(* The steps under the lock                                                 *)

\* The one evaluator that holds the lock moves on and keeps it: all others are
\* outside, so only what it says of itself has to be shown.
LEMMA HolderInv ==
    ASSUME AlertInv, AlertTypeOK', NEW e \in Evaluators, ev[e].pc \in Evaluating, lock' = lock,
           \A o \in Evaluators \ {e} : ev'[o] = ev[o],
           ev'[e].pc \in Evaluating \ {"rules"},
           ev'[e].pc \in {"write", "mark"} => ev'[e].cur \in Alerts,
           ev'[e].pc = "write" /\ ev'[e].found = "none" => row'[ev'[e].cur] = "none",
           ev'[e].pc \in {"upsert", "write", "mark"} =>
              \A a \in ev'[e].out : <<a, ev'[e].day>> \in sent' /\ handed'[a][ev'[e].day] = 0,
           HandedHasKey'
    PROVE  AlertInv'
<1>1. lock = e /\ \A o \in Evaluators \ {e} : ev'[o].pc \notin Evaluating
  BY DEF AlertInv, MutualExclusion
<1>2. MutualExclusion'
  BY <1>1 DEF MutualExclusion
<1>3. CurrentKnown' /\ InsertNeverClashes' /\ OutIsFresh'
  BY <1>1 DEF CurrentKnown, InsertNeverClashes, OutIsFresh, Evaluating
<1>4. NothingOutYet'
  BY DEF AlertInv, NothingOutYet, Evaluating
<1> QED
  BY <1>2, <1>3, <1>4 DEF AlertInv

LEMMA RunRulesInv ==
    ASSUME AlertInv, NEW e \in Evaluators, RunRules(e)
    PROVE  AlertInv'
<1>1. PICK fired \in SUBSET holding :
         ev' = [ev EXCEPT ![e].pc = "upsert", ![e].todo = fired]
  BY DEF RunRules
<1>2. AlertTypeOK'
  BY EvaluatorsTyped DEF RunRules, AlertInv, AlertTypeOK
<1>3. ev'[e].pc = "upsert" /\ ev'[e].out = {} /\ \A o \in Evaluators \ {e} : ev'[o] = ev[o]
  BY <1>1 DEF RunRules, AlertInv, AlertTypeOK, NothingOutYet
<1>4. HandedHasKey'
  BY DEF RunRules, AlertInv, HandedHasKey
<1> QED
  BY <1>2, <1>3, <1>4, HolderInv DEF RunRules, Evaluating

LEMMA FindRowInv ==
    ASSUME AlertInv, NEW e \in Evaluators, NEW a \in Alerts, FindRow(e, a)
    PROVE  AlertInv'
<1>1. AlertTypeOK'
  BY EvaluatorsTyped DEF FindRow, AlertInv, AlertTypeOK
<1>2. /\ ev'[e].pc = "write" /\ ev'[e].cur = a /\ ev'[e].found = row[a]
      /\ ev'[e].out = ev[e].out /\ ev'[e].day = ev[e].day
      /\ \A o \in Evaluators \ {e} : ev'[o] = ev[o]
  BY DEF FindRow, AlertInv, AlertTypeOK
<1>3. HandedHasKey'
  BY DEF FindRow, AlertInv, HandedHasKey
<1>4. \A b \in ev[e].out : <<b, ev[e].day>> \in sent' /\ handed'[b][ev[e].day] = 0
  BY DEF FindRow, AlertInv, OutIsFresh
<1> QED
  <2>1. ev[e].pc \in Evaluating /\ lock' = lock /\ row' = row
    BY DEF FindRow, Evaluating
  <2>2. ev'[e].pc \in Evaluating \ {"rules"}
    BY <1>2 DEF Evaluating
  <2> QED
    BY <1>1, <1>2, <1>3, <1>4, <2>1, <2>2, HolderInv

LEMMA UpsertFailsInv ==
    ASSUME AlertInv, NEW e \in Evaluators, UpsertFails(e)
    PROVE  AlertInv'
<1>1. AlertTypeOK'
  BY EvaluatorsTyped DEF UpsertFails, AlertInv, AlertTypeOK
<1>2. /\ ev'[e].pc = "upsert" /\ ev'[e].out = ev[e].out /\ ev'[e].day = ev[e].day
      /\ \A o \in Evaluators \ {e} : ev'[o] = ev[o]
  BY DEF UpsertFails, AlertInv, AlertTypeOK
<1>3. HandedHasKey'
  BY DEF UpsertFails, AlertInv, HandedHasKey
<1>4. \A b \in ev[e].out : <<b, ev[e].day>> \in sent' /\ handed'[b][ev[e].day] = 0
  BY DEF UpsertFails, AlertInv, OutIsFresh
<1> QED
  BY <1>1, <1>2, <1>3, <1>4, HolderInv DEF UpsertFails, Evaluating

LEMMA WriteRowInv ==
    ASSUME AlertInv, NEW e \in Evaluators, WriteRow(e)
    PROVE  AlertInv'
<1>1. ev[e].cur \in Alerts /\ ev[e].day \in Days
  BY DEF WriteRow, AlertInv, CurrentKnown, AlertTypeOK, EvalState
<1>2. row' \in [Alerts -> RowStates] /\ opened' \in [Alerts -> Days]
  BY <1>1 DEF WriteRow, AlertInv, AlertTypeOK, RowStates
<1>3. /\ ev'[e].pc \in {"mark", "upsert"} /\ ev'[e].out = ev[e].out
      /\ ev'[e].day = ev[e].day /\ (ev'[e].pc = "mark" => ev'[e].cur = ev[e].cur)
      /\ \A o \in Evaluators \ {e} : ev'[o] = ev[o]
  BY DEF WriteRow, AlertInv, AlertTypeOK
<1>4. AlertTypeOK'
  BY <1>2, EvaluatorsTyped DEF WriteRow, AlertInv, AlertTypeOK
<1>5. HandedHasKey'
  BY DEF WriteRow, AlertInv, HandedHasKey
<1>6. \A b \in ev[e].out : <<b, ev[e].day>> \in sent' /\ handed'[b][ev[e].day] = 0
  BY DEF WriteRow, AlertInv, OutIsFresh
<1> QED
  <2>1. ev[e].pc \in Evaluating /\ lock' = lock
    BY DEF WriteRow, Evaluating
  <2>2. ev'[e].pc \in Evaluating \ {"rules"} /\ ev'[e].pc # "write"
    BY <1>3 DEF Evaluating
  <2> QED
    BY <1>1, <1>3, <1>4, <1>5, <1>6, <2>1, <2>2, HolderInv

LEMMA MarkAlertSentInv ==
    ASSUME AlertInv, NEW e \in Evaluators, MarkAlertSent(e)
    PROVE  AlertInv'
<1> DEFINE a == ev[e].cur
           key == <<a, ev[e].day>>
<1>1. a \in Alerts /\ ev[e].day \in Days /\ ev[e].pc = "mark" /\ handed' = handed /\ lock' = lock
  BY DEF MarkAlertSent, AlertInv, CurrentKnown, AlertTypeOK, EvalState
<1>2. sent \subseteq sent' /\ sent' \in SUBSET (Alerts \X Days)
  BY <1>1 DEF MarkAlertSent, AlertInv, AlertTypeOK
<1>3. HandedHasKey'
  BY <1>1, <1>2 DEF AlertInv, HandedHasKey
<1>4. /\ ev'[e].pc = "upsert" /\ ev'[e].day = ev[e].day
      /\ \A o \in Evaluators \ {e} : ev'[o] = ev[o]
  BY DEF MarkAlertSent, AlertInv, AlertTypeOK, EvalState
<1>5. AlertTypeOK'
  BY <1>1, <1>2, EvaluatorsTyped DEF MarkAlertSent, AlertInv, AlertTypeOK
<1>6. \A b \in ev[e].out : <<b, ev[e].day>> \in sent' /\ handed'[b][ev[e].day] = 0
  BY <1>1, <1>2 DEF AlertInv, OutIsFresh
<1>7. \/ ev'[e].out = ev[e].out
      \/ ev'[e].out = ev[e].out \cup {a} /\ key \notin sent /\ key \in sent'
  BY DEF MarkAlertSent, AlertInv, AlertTypeOK, EvalState
<1>8. key \notin sent => handed[a][ev[e].day] = 0
  BY <1>1 DEF AlertInv, HandedHasKey
<1>9. \A b \in ev'[e].out : <<b, ev'[e].day>> \in sent' /\ handed'[b][ev'[e].day] = 0
  BY <1>1, <1>4, <1>6, <1>7, <1>8
<1> QED
  BY <1>1, <1>3, <1>4, <1>5, <1>9, HolderInv DEF Evaluating

LEMMA DeliverInv ==
    ASSUME AlertInv, NEW e \in Evaluators, DeliverAlerts(e)
    PROVE  AlertInv'
<1>1. ev[e].pc = "upsert" /\ ev[e].day \in Days /\ sent' = sent /\ lock' = lock
  BY DEF DeliverAlerts, AlertInv, AlertTypeOK, EvalState
<1>2. ev'[e].pc = "send" /\ \A o \in Evaluators \ {e} : ev'[o] = ev[o]
  BY DEF DeliverAlerts, AlertInv, AlertTypeOK
<1>3. \A a \in ev[e].out : <<a, ev[e].day>> \in sent /\ handed[a][ev[e].day] = 0
  BY <1>1 DEF AlertInv, OutIsFresh
<1>4. handed' \in [Alerts -> [Days -> Nat]]
  <2>1. handed \in [Alerts -> [Days -> Nat]]
    BY DEF AlertInv, AlertTypeOK
  <2>2. \A a \in Alerts : [handed[a] EXCEPT ![ev[e].day] = handed[a][ev[e].day] + 1] \in [Days -> Nat]
    BY <1>1, <2>1
  <2> QED
    BY <2>1, <2>2 DEF DeliverAlerts
<1>5. \A a \in Alerts : \A d \in Days :
         handed'[a][d] = handed[a][d]
         \/ (a \in ev[e].out /\ d = ev[e].day /\ handed'[a][d] = handed[a][d] + 1)
  BY <1>1 DEF DeliverAlerts, AlertInv, AlertTypeOK
<1>6. HandedHasKey'
  <2> SUFFICES ASSUME NEW a \in Alerts, NEW d \in Days
               PROVE  handed'[a][d] = 0 \/ (handed'[a][d] = 1 /\ <<a, d>> \in sent)
    BY <1>1 DEF HandedHasKey
  <2>1. CASE handed'[a][d] = handed[a][d]
    BY <2>1 DEF AlertInv, HandedHasKey
  <2>2. CASE a \in ev[e].out /\ d = ev[e].day /\ handed'[a][d] = handed[a][d] + 1
    BY <1>3, <2>2
  <2> QED
    BY <1>5, <2>1, <2>2
<1>7. AlertTypeOK'
  BY <1>4, EvaluatorsTyped DEF DeliverAlerts, AlertInv, AlertTypeOK
<1> QED
  BY <1>1, <1>2, <1>6, <1>7, HolderInv DEF Evaluating

LEMMA HangInv ==
    ASSUME AlertInv, NEW e \in Evaluators, Hang(e)
    PROVE  AlertInv'
<1>1. AlertTypeOK'
  BY EvaluatorsTyped DEF Hang, AlertInv, AlertTypeOK
<1>2. ev'[e].pc = "hung" /\ \A o \in Evaluators \ {e} : ev'[o] = ev[o]
  BY DEF Hang, AlertInv, AlertTypeOK
<1>3. HandedHasKey'
  BY DEF Hang, AlertInv, HandedHasKey
<1> QED
  BY <1>1, <1>2, <1>3, HolderInv DEF Hang, Evaluating

-----------------------------------------------------------------------------

THEOREM AlertInvariant == AlertSpec => []AlertInv
<1>1. AlertInv /\ [AlertNext]_alertVars => AlertInv'
  <2> SUFFICES ASSUME AlertInv, [AlertNext]_alertVars PROVE AlertInv'
    OBVIOUS
  <2>1. CASE UNCHANGED alertVars
    BY <2>1, EvaluatorsKept DEF alertVars, AlertInv, AlertTypeOK
  <2>2. ASSUME NEW e \in Evaluators, EvaluatorStep(e) PROVE AlertInv'
    BY <2>2, RunRulesInv, FindRowInv, UpsertFailsInv, WriteRowInv, MarkAlertSentInv, DeliverInv,
       StartLockUnlockInv DEF EvaluatorStep
  <2> QED
    BY <2>1, <2>2, WorldInv, StartLockUnlockInv, HangInv, CrashInv DEF AlertNext
<1> QED
  BY <1>1, AlertInitInv, PTL DEF AlertSpec

\* The engine's tables and what each evaluation is doing have their types.
THEOREM AlertTyping == AlertSpec => []AlertTypeOK
<1>1. AlertInv => AlertTypeOK
  BY DEF AlertInv
<1> QED
  BY <1>1, AlertInvariant, PTL

\* UpsertAlert's SELECT-then-INSERT is safe without a transaction, for any number
\* of concurrent callers of Evaluate: UNIQUE (rule, domain, key) never refuses it.
THEOREM AlertInsertSafe == AlertSpec => []InsertNeverClashes
<1>1. AlertInv => InsertNeverClashes
  BY DEF AlertInv
<1> QED
  BY <1>1, AlertInvariant, PTL

\* However often an alert is acknowledged and re-opened, and wherever the process
\* dies, alerts_sent keeps it from being delivered twice on a day.
THEOREM AlertOncePerDay == AlertSpec => []AtMostOncePerDay
<1>1. AlertInv => AtMostOncePerDay
  <2> SUFFICES ASSUME HandedHasKey, NEW a \in Alerts, NEW d \in Days PROVE handed[a][d] <= 1
    BY DEF AlertInv, AtMostOncePerDay
  <2>1. handed[a][d] = 0 \/ handed[a][d] = 1
    BY DEF HandedHasKey
  <2> QED
    BY <2>1
<1> QED
  BY <1>1, AlertInvariant, PTL

-----------------------------------------------------------------------------
(* The enrichment worker: the inductive invariant                           *)

Events == [run : Runs, kind : {"progress", "done", "error"}, count : Nat]

RunState ==
    [pc : {"none", "list", "snap", "send", "work", "finish", "over"}, job : Nat,
     todo : SUBSET Items, count : Nat, msg : {"progress", "done", "error"},
     to : SUBSET Viewers]

ViewerState == [pc : {"off", "sub", "watch", "closed"}, saw : Nat, view : Nat, by : Nat]

ClearState == [pc : {"idle", "checked", "delete"}, left : SUBSET (1 .. Jobs), recent : BOOLEAN]

StreamTypeOK ==
    /\ running \in BOOLEAN
    /\ started \in 0 .. MaxRuns
    /\ run \in [Runs -> RunState]
    /\ subs \in SUBSET Viewers
    /\ buf \in [Viewers -> Seq(Events)]
    /\ vw \in [Viewers -> ViewerState]
    /\ cached \in SUBSET Items
    /\ clr \in ClearState
    /\ dropped \in SUBSET Viewers
    /\ disturbed \in BOOLEAN

\* Where a run is decides what its next event says.
MessageFits ==
    \A r \in Runs :
        /\ run[r].pc \in {"list", "work"} => run[r].msg = "progress"
        /\ run[r].pc \in {"finish", "over"} => run[r].msg \in Terminal
        /\ run[r].msg = "done" => run[r].job > Jobs

\* The status describes the run that was started last, and only it may work.
StatusTellsWork ==
    /\ \A r \in Runs : run[r].pc = "none" <=> r > started
    /\ \A r \in Runs : Working(r) => r = started /\ running
    /\ running => started \in Runs /\ Working(started)

\* A channel stays registered as long as its stream is open.
OpenIsRegistered == \A v \in Viewers : vw[v].pc \in {"sub", "watch"} => v \in subs

\* A run that will still send its last event to a viewer.
WillTell(r, v) ==
    \/ Working(r)
    \/ run[r].msg \in Terminal /\ run[r].pc = "snap"
    \/ run[r].msg \in Terminal /\ run[r].pc = "send" /\ v \in run[r].to

NobodyForgotten ==
    \A v \in Viewers :
        vw[v].pc = "watch" /\ v \notin dropped =>
            HasTerminal(v) \/ \E r \in Runs : WillTell(r, v)

\* What the last run has left behind is fresh, and what of its present job is not
\* is still on its list.
BehindIsFresh ==
    started > 0 /\ ~disturbed =>
        \A x \in Items :
            /\ JobOf[x] < run[started].job => x \in cached
            /\ JobOf[x] = run[started].job /\ run[started].pc # "list" =>
                   x \in cached \cup run[started].todo \/ run[started].msg = "error"

StreamInv ==
    /\ StreamTypeOK
    /\ MessageFits
    /\ StatusTellsWork
    /\ OpenIsRegistered
    /\ NobodyForgotten
    /\ BehindIsFresh

LEMMA StreamInitInv == EnrichInit => StreamInv
<1> SUFFICES ASSUME EnrichInit PROVE StreamInv
  OBVIOUS
<1>1. StreamTypeOK
  <2>1. run \in [Runs -> RunState]
    BY DEF EnrichInit, NoRun, RunState
  <2>2. buf \in [Viewers -> Seq(Events)]
    BY DEF EnrichInit
  <2>3. vw \in [Viewers -> ViewerState] /\ clr \in ClearState
    BY DEF EnrichInit, ViewerState, ClearState
  <2>4. running \in BOOLEAN /\ disturbed \in BOOLEAN
    BY DEF EnrichInit
  <2>5. started \in 0 .. MaxRuns /\ subs \in SUBSET Viewers /\ dropped \in SUBSET Viewers
    BY EnrichAssumption DEF EnrichInit
  <2> QED
    BY <2>1, <2>2, <2>3, <2>4, <2>5, Zenon DEF EnrichInit, StreamTypeOK
<1>2. MessageFits /\ StatusTellsWork
  BY EnrichAssumption DEF EnrichInit, MessageFits, StatusTellsWork, Working, NoRun, Runs, Terminal
<1>3. OpenIsRegistered /\ NobodyForgotten /\ BehindIsFresh
  BY DEF EnrichInit, OpenIsRegistered, NobodyForgotten, BehindIsFresh
<1> QED
  BY <1>1, <1>2, <1>3 DEF StreamInv

\* A viewer's channel keeps a terminal event until the stream ends by it.
LEMMA AppendKeepsTerminal ==
    ASSUME StreamTypeOK, NEW v \in Viewers, NEW e \in Events,
           buf' = [buf EXCEPT ![v] = Append(@, e)]
    PROVE  /\ buf' \in [Viewers -> Seq(Events)]
           /\ \A w \in Viewers : HasTerminal(w) => HasTerminal(w)'
           /\ e.kind \in Terminal => HasTerminal(v)'
<1>1. buf[v] \in Seq(Events) /\ buf'[v] = Append(buf[v], e)
  BY DEF StreamTypeOK
<1>2. \A i \in DOMAIN buf[v] : i \in DOMAIN buf'[v] /\ buf'[v][i] = buf[v][i]
  BY <1>1
<1>3. Len(buf[v]) + 1 \in DOMAIN buf'[v] /\ buf'[v][Len(buf[v]) + 1] = e
  BY <1>1
<1>4. \A w \in Viewers : w # v => buf'[w] = buf[w]
  BY DEF StreamTypeOK
<1> QED
  BY <1>1, <1>2, <1>3, <1>4 DEF HasTerminal, StreamTypeOK

LEMMA TailKeepsTerminal ==
    ASSUME StreamTypeOK, NEW v \in Viewers, buf[v] # <<>>, Head(buf[v]).kind \notin Terminal,
           buf' = [buf EXCEPT ![v] = Tail(@)]
    PROVE  /\ buf' \in [Viewers -> Seq(Events)]
           /\ \A w \in Viewers : HasTerminal(w) => HasTerminal(w)'
<1>1. buf[v] \in Seq(Events) /\ buf'[v] = Tail(buf[v])
  BY DEF StreamTypeOK
<1>2. Len(buf'[v]) = Len(buf[v]) - 1 /\ Len(buf[v]) \in Nat
  <2>1. Len(Tail(buf[v])) = Len(buf[v]) - 1
    BY <1>1, HeadTailProperties, Zenon
  <2>2. Len(buf'[v]) = Len(buf[v]) - 1
    BY <1>1, <2>1, Zenon
  <2>3. Len(buf[v]) \in Nat
    BY <1>1
  <2> QED
    BY <2>2, <2>3
<1>3. buf'[v] \in Seq(Events) /\ \A i \in 1 .. Len(buf[v]) - 1 : buf'[v][i] = buf[v][i + 1]
  <2>1. Tail(buf[v]) \in Seq(Events)
    BY <1>1, HeadTailProperties, Zenon
  <2>2. \A i \in 1 .. Len(Tail(buf[v])) : Tail(buf[v])[i] = buf[v][i + 1]
    BY <1>1, HeadTailProperties, Zenon
  <2> QED
    BY <1>1, <1>2, <2>1, <2>2
<1>4. \A i \in DOMAIN buf[v] :
         i # 1 => \E k \in DOMAIN buf'[v] : buf'[v][k] = buf[v][i]
  <2> SUFFICES ASSUME NEW i \in DOMAIN buf[v], i # 1
               PROVE  i - 1 \in DOMAIN buf'[v] /\ buf'[v][i - 1] = buf[v][i]
    OBVIOUS
  <2>1. i \in 1 .. Len(buf[v]) /\ i - 1 \in 1 .. Len(buf[v]) - 1 /\ (i - 1) + 1 = i
    BY <1>1, <1>2
  <2> QED
    BY <1>2, <1>3, <2>1
<1>5. \A w \in Viewers : w # v => buf'[w] = buf[w]
  BY DEF StreamTypeOK
<1>6. buf[v][1] = Head(buf[v])
  BY <1>1
<1>7. HasTerminal(v) => HasTerminal(v)'
  BY <1>4, <1>6 DEF HasTerminal
<1>8. buf' \in [Viewers -> Seq(Events)]
  BY <1>1, <1>3 DEF StreamTypeOK
<1>9. \A w \in Viewers : HasTerminal(w) => HasTerminal(w)'
  BY <1>5, <1>7 DEF HasTerminal
<1> QED
  BY <1>8, <1>9

-----------------------------------------------------------------------------
(* The steps of a run                                                       *)

\* What a step of a run that touches no channel must show of the run.
LEMMA RunMoved ==
    ASSUME StreamInv, NEW r \in Runs, NEW s \in RunState, run[r].pc # "none", s.pc # "none",
           run' = [run EXCEPT ![r] = s], UNCHANGED <<started, subs, buf, vw, dropped, clr>>,
           running' \in BOOLEAN, cached' \in SUBSET Items, disturbed' \in BOOLEAN,
           s.pc \in {"list", "work"} => s.msg = "progress",
           s.pc \in {"finish", "over"} => s.msg \in Terminal,
           s.msg = "done" => s.job > Jobs,
           Working(r)' => Working(r),
           IF Working(r) /\ ~Working(r)' THEN running' = FALSE ELSE running' = running,
           BehindIsFresh',
           \A v \in subs : WillTell(r, v) => WillTell(r, v)'
    PROVE  StreamInv'
<1>1. StreamTypeOK'
  <2>1. run' \in [Runs -> RunState]
    BY DEF StreamInv, StreamTypeOK
  <2> QED
    BY <2>1, Zenon DEF StreamInv, StreamTypeOK
<1>2. OpenIsRegistered'
  BY DEF StreamInv, OpenIsRegistered
<1>3. run'[r] = s /\ \A q \in Runs : q # r => run'[q] = run[q]
  BY DEF StreamInv, StreamTypeOK
<1>4. NobodyForgotten'
  <2> SUFFICES ASSUME NEW v \in Viewers, vw[v].pc = "watch", v \notin dropped
               PROVE  HasTerminal(v) \/ \E q \in Runs : WillTell(q, v)'
    BY DEF NobodyForgotten, HasTerminal
  <2>1. v \in subs
    BY DEF StreamInv, OpenIsRegistered
  <2>2. \A q \in Runs : q # r => (WillTell(q, v) => WillTell(q, v)')
    BY <1>3 DEF WillTell, Working
  <2> QED
    BY <2>1, <2>2 DEF StreamInv, NobodyForgotten
<1>5. MessageFits'
  BY <1>3 DEF StreamInv, MessageFits
<1>6. StatusTellsWork'
  <2>1. \A q \in Runs : q # r => (Working(q)' <=> Working(q))
    BY <1>3 DEF Working
  <2>2. \A q \in Runs : Working(q)' => q = started /\ running'
    BY <2>1 DEF StreamInv, StatusTellsWork
  <2>3. \A q \in Runs : run'[q].pc = "none" <=> q > started
    BY <1>3 DEF StreamInv, StatusTellsWork
  <2>4. running' => started \in Runs /\ Working(started)'
    BY <2>1 DEF StreamInv, StatusTellsWork
  <2> QED
    BY <2>2, <2>3, <2>4 DEF StatusTellsWork
<1> QED
  BY <1>1, <1>2, <1>4, <1>5, <1>6 DEF StreamInv

\* The work of the last run is told of as before.
LEMMA SameWork ==
    ASSUME StreamInv, NEW r \in Runs, NEW s \in RunState, run' = [run EXCEPT ![r] = s],
           UNCHANGED <<started, cached, disturbed>>,
           s.job = run[r].job, s.todo = run[r].todo,
           run[r].pc # "list" \/ s.msg = "error",
           run[r].msg = "error" => s.msg = "error"
    PROVE  BehindIsFresh'
<1>1. run'[r] = s /\ \A q \in Runs : q # r => run'[q] = run[q]
  BY DEF StreamInv, StreamTypeOK
<1>2. started > 0 => started \in Runs
  BY EnrichAssumption DEF StreamInv, StreamTypeOK, Runs
<1> QED
  BY <1>1, <1>2 DEF StreamInv, BehindIsFresh

LEMMA ListJobInv ==
    ASSUME StreamInv, NEW r \in Runs, ListJob(r)
    PROVE  StreamInv'
<1> DEFINE todo == {x \in Items \ cached : JobOf[x] = run[r].job}
           s == [run[r] EXCEPT !.pc = "snap", !.todo = todo]
<1>1. run[r] \in RunState /\ s \in RunState
  BY DEF StreamInv, StreamTypeOK, RunState
<1>2. run' = [run EXCEPT ![r] = s]
  BY DEF ListJob
<1>3. s.pc = "snap" /\ s.msg = "progress" /\ s.job = run[r].job /\ s.todo = todo
  BY <1>1 DEF ListJob, RunState, StreamInv, MessageFits
<1> HIDE DEF s
<1>4. run'[r] = s
  BY <1>2 DEF StreamInv, StreamTypeOK
<1>5. Working(r) /\ Working(r)'
  BY <1>3, <1>4 DEF ListJob, Working, StreamInv, MessageFits, Terminal
<1>6. BehindIsFresh'
  <2>1. r = started
    BY <1>5 DEF StreamInv, StatusTellsWork
  <2> QED
    BY <1>3, <1>4, <2>1 DEF StreamInv, BehindIsFresh, ListJob
<1>7. \A v \in subs : WillTell(r, v)'
  BY <1>5 DEF WillTell
<1>8. /\ run[r].pc # "none" /\ UNCHANGED <<started, subs, buf, vw, dropped, clr>>
      /\ running' = running /\ cached' = cached /\ disturbed' = disturbed
  BY DEF ListJob, viewVars
<1>9. running' \in BOOLEAN /\ cached' \in SUBSET Items /\ disturbed' \in BOOLEAN
  BY <1>8 DEF StreamInv, StreamTypeOK
<1> QED
  BY <1>1, <1>2, <1>3, <1>5, <1>6, <1>7, <1>8, <1>9, RunMoved

LEMMA ListFailsInv ==
    ASSUME StreamInv, NEW r \in Runs, ListFails(r)
    PROVE  StreamInv'
<1> DEFINE s == [run[r] EXCEPT !.pc = "finish", !.msg = "error"]
<1>1. run[r] \in RunState /\ s \in RunState
  BY DEF StreamInv, StreamTypeOK, RunState
<1>2. run' = [run EXCEPT ![r] = s]
  BY DEF ListFails
<1>3. s.pc = "finish" /\ s.msg = "error" /\ s.job = run[r].job /\ s.todo = run[r].todo
  BY <1>1 DEF RunState
<1> HIDE DEF s
<1>4. run'[r] = s
  BY <1>2 DEF StreamInv, StreamTypeOK
<1>5. Working(r) /\ Working(r)' /\ "error" \in Terminal
  BY <1>3, <1>4 DEF ListFails, Working, StreamInv, MessageFits, Terminal
<1>6. BehindIsFresh'
  BY <1>1, <1>2, <1>3, SameWork DEF ListFails
<1>7. \A v \in subs : WillTell(r, v)'
  BY <1>5 DEF WillTell
<1>8. /\ run[r].pc # "none" /\ UNCHANGED <<started, subs, buf, vw, dropped, clr>>
      /\ running' = running /\ cached' = cached /\ disturbed' = disturbed
  BY DEF ListFails, viewVars
<1>9. running' \in BOOLEAN /\ cached' \in SUBSET Items /\ disturbed' \in BOOLEAN
  BY <1>8 DEF StreamInv, StreamTypeOK
<1> QED
  BY <1>1, <1>2, <1>3, <1>5, <1>6, <1>7, <1>8, <1>9, RunMoved

LEMMA JobsOverInv ==
    ASSUME StreamInv, NEW r \in Runs, JobsOver(r)
    PROVE  StreamInv'
<1> DEFINE s == [run[r] EXCEPT !.pc = "finish", !.msg = "done"]
<1>1. run[r] \in RunState /\ s \in RunState
  BY DEF StreamInv, StreamTypeOK, RunState
<1>2. run' = [run EXCEPT ![r] = s]
  BY DEF JobsOver
<1>3. s.pc = "finish" /\ s.msg = "done" /\ s.job = run[r].job /\ s.job > Jobs
  BY <1>1 DEF RunState, JobsOver
<1> HIDE DEF s
<1>4. run'[r] = s
  BY <1>2 DEF StreamInv, StreamTypeOK
<1>5. Working(r) /\ Working(r)' /\ "done" \in Terminal
  BY <1>3, <1>4 DEF JobsOver, Working, StreamInv, MessageFits, Terminal
<1>6. BehindIsFresh'
  <2>1. r = started
    BY <1>5 DEF StreamInv, StatusTellsWork
  <2>2. \A x \in Items : JobOf[x] \in 1 .. Jobs
    BY EnrichAssumption
  <2>3. \A x \in Items : JobOf[x] # s.job
    BY <1>1, <1>3, <2>2, EnrichAssumption DEF RunState
  <2> QED
    BY <1>3, <1>4, <2>1, <2>3 DEF StreamInv, BehindIsFresh, JobsOver
<1>7. \A v \in subs : WillTell(r, v)'
  BY <1>5 DEF WillTell
<1>8. /\ run[r].pc # "none" /\ UNCHANGED <<started, subs, buf, vw, dropped, clr>>
      /\ running' = running /\ cached' = cached /\ disturbed' = disturbed
  BY DEF JobsOver, viewVars
<1>9. running' \in BOOLEAN /\ cached' \in SUBSET Items /\ disturbed' \in BOOLEAN
  BY <1>8 DEF StreamInv, StreamTypeOK
<1> QED
  BY <1>1, <1>2, <1>3, <1>5, <1>6, <1>7, <1>8, <1>9, RunMoved

LEMMA FinishInv ==
    ASSUME StreamInv, NEW r \in Runs, Finish(r)
    PROVE  StreamInv'
<1> DEFINE s == [run[r] EXCEPT !.pc = "snap"]
<1>1. run[r] \in RunState /\ s \in RunState
  BY DEF StreamInv, StreamTypeOK, RunState
<1>2. run' = [run EXCEPT ![r] = s]
  BY DEF Finish
<1>3. /\ s.pc = "snap" /\ s.msg = run[r].msg /\ s.msg \in Terminal /\ s.job = run[r].job
      /\ s.todo = run[r].todo
  BY <1>1 DEF RunState, Finish, StreamInv, MessageFits
<1> HIDE DEF s
<1>4. run'[r] = s
  BY <1>2 DEF StreamInv, StreamTypeOK
<1>5. /\ Working(r) /\ ~Working(r)' /\ (s.msg = "done" => s.job > Jobs)
  BY <1>3, <1>4 DEF Finish, Working, StreamInv, MessageFits, Terminal
<1>6. BehindIsFresh'
  <2>1. run[r].pc # "list" /\ UNCHANGED <<started, cached, disturbed>>
    BY DEF Finish
  <2> QED
    BY <1>1, <1>2, <1>3, <2>1, SameWork
<1>7. \A v \in subs : WillTell(r, v)'
  BY <1>3, <1>4 DEF WillTell
<1>8. /\ run[r].pc # "none" /\ UNCHANGED <<started, subs, buf, vw, dropped, clr>>
      /\ running' = FALSE /\ cached' = cached /\ disturbed' = disturbed
  BY DEF Finish, viewVars
<1>9. running' \in BOOLEAN /\ cached' \in SUBSET Items /\ disturbed' \in BOOLEAN
  BY <1>8 DEF StreamInv, StreamTypeOK
<1> QED
  BY <1>1, <1>2, <1>3, <1>5, <1>6, <1>7, <1>8, <1>9, RunMoved

LEMMA SnapshotInv ==
    ASSUME StreamInv, NEW r \in Runs, Snapshot(r)
    PROVE  StreamInv'
<1> DEFINE s == [run[r] EXCEPT !.pc = "send", !.to = subs]
<1>1. run[r] \in RunState /\ s \in RunState
  BY DEF StreamInv, StreamTypeOK, RunState
<1>2. run' = [run EXCEPT ![r] = s]
  BY DEF Snapshot
<1>3. /\ s.pc = "send" /\ s.msg = run[r].msg /\ s.job = run[r].job /\ s.todo = run[r].todo
      /\ s.to = subs
  BY <1>1 DEF RunState
<1> HIDE DEF s
<1>4. run'[r] = s
  BY <1>2 DEF StreamInv, StreamTypeOK
<1>5. (Working(r)' <=> Working(r)) /\ (s.msg = "done" => s.job > Jobs)
  BY <1>3, <1>4 DEF Snapshot, Working, StreamInv, MessageFits
<1>6. BehindIsFresh'
  <2>1. run[r].pc # "list" /\ UNCHANGED <<started, cached, disturbed>>
    BY DEF Snapshot
  <2> QED
    BY <1>1, <1>2, <1>3, <2>1, SameWork
<1>7. \A v \in subs : WillTell(r, v) => WillTell(r, v)'
  BY <1>3, <1>4, <1>5 DEF WillTell, Snapshot
<1>8. /\ run[r].pc # "none" /\ UNCHANGED <<started, subs, buf, vw, dropped, clr>>
      /\ running' = running /\ cached' = cached /\ disturbed' = disturbed
  BY DEF Snapshot, viewVars
<1>9. running' \in BOOLEAN /\ cached' \in SUBSET Items /\ disturbed' \in BOOLEAN
  BY <1>8 DEF StreamInv, StreamTypeOK
<1> QED
  BY <1>1, <1>2, <1>3, <1>5, <1>6, <1>7, <1>8, <1>9, RunMoved

\* One item is counted, and stored unless that fails.
LEMMA WorkItemInv ==
    ASSUME StreamInv, NEW r \in Runs, NEW x \in Items, WorkItem(r, x)
    PROVE  StreamInv'
<1> DEFINE s == [run[r] EXCEPT !.pc = "snap", !.todo = @ \ {x}, !.count = @ + 1]
<1>1. run[r] \in RunState /\ s \in RunState
  <2>1. run[r] \in RunState
    BY DEF StreamInv, StreamTypeOK
  <2>2. run[r].todo \ {x} \in SUBSET Items /\ run[r].count + 1 \in Nat
    BY <2>1 DEF RunState
  <2>3. \A t \in SUBSET Items : \A n \in Nat :
           [run[r] EXCEPT !.pc = "snap", !.todo = t, !.count = n] \in RunState
    BY <2>1 DEF RunState
  <2>4. s = [run[r] EXCEPT !.pc = "snap", !.todo = run[r].todo \ {x},
                           !.count = run[r].count + 1]
    BY <2>1 DEF RunState
  <2> QED
    BY <2>1, <2>2, <2>3, <2>4, Zenon
<1>2. run' = [run EXCEPT ![r] = s]
  BY DEF WorkItem
<1>3. /\ s.pc = "snap" /\ s.msg = "progress" /\ s.job = run[r].job
      /\ s.todo = run[r].todo \ {x} /\ run[r].msg = "progress"
  BY <1>1 DEF RunState, WorkItem, StreamInv, MessageFits
<1> HIDE DEF s
<1>4. run'[r] = s
  BY <1>2 DEF StreamInv, StreamTypeOK
<1>5. Working(r) /\ Working(r)'
  BY <1>3, <1>4 DEF WorkItem, Working, Terminal
<1>6. \/ cached' = cached \cup {x} /\ disturbed' = disturbed
      \/ cached' = cached /\ disturbed' = TRUE
  BY DEF WorkItem
<1>7. BehindIsFresh'
  <2>1. r = started /\ started' = started
    BY <1>5 DEF StreamInv, StatusTellsWork, WorkItem
  <2> QED
    BY <1>3, <1>4, <1>6, <2>1 DEF StreamInv, BehindIsFresh, WorkItem
<1>8. \A v \in subs : WillTell(r, v)'
  BY <1>5 DEF WillTell
<1>9. /\ run[r].pc # "none" /\ UNCHANGED <<started, subs, buf, vw, dropped, clr>>
      /\ running' = running
  BY DEF WorkItem, viewVars
<1>10. running' \in BOOLEAN /\ cached' \in SUBSET Items
  BY <1>6, <1>9 DEF StreamInv, StreamTypeOK
<1>11. disturbed' \in BOOLEAN
  BY <1>6 DEF StreamInv, StreamTypeOK
<1> QED
  BY <1>1, <1>2, <1>3, <1>5, <1>7, <1>8, <1>9, <1>10, <1>11, RunMoved

\* Everybody was told: the run goes on or is over.
LEMMA PublishedInv ==
    ASSUME StreamInv, NEW r \in Runs, Published(r)
    PROVE  StreamInv'
<1> DEFINE ended == run[r].msg \in Terminal
           listed == run[r].todo = {} /\ ~ended
           s == [run[r] EXCEPT
                   !.pc = IF ended THEN "over" ELSE IF run[r].todo = {} THEN "list" ELSE "work",
                   !.job = IF listed THEN @ + 1 ELSE @]
<1>1. run[r] \in RunState /\ s \in RunState
  <2>1. run[r] \in RunState
    BY DEF StreamInv, StreamTypeOK
  <2>2. \A p \in {"over", "list", "work"} : \A j \in Nat :
           [run[r] EXCEPT !.pc = p, !.job = j] \in RunState
    BY <2>1 DEF RunState
  <2>3. run[r].job \in Nat /\ run[r].job + 1 \in Nat
    BY <2>1 DEF RunState
  <2> QED
    BY <2>1, <2>2, <2>3
<1>2. run' = [run EXCEPT ![r] = s]
  BY DEF Published
<1>3. /\ s.pc = IF ended THEN "over" ELSE IF run[r].todo = {} THEN "list" ELSE "work"
      /\ s.msg = run[r].msg /\ s.todo = run[r].todo
      /\ s.job = IF listed THEN run[r].job + 1 ELSE run[r].job
      /\ run[r].job \in Nat
      /\ ~ended => s.msg = "progress"
  BY <1>1 DEF RunState, Terminal
<1> HIDE DEF s
<1>4. run'[r] = s
  BY <1>2 DEF StreamInv, StreamTypeOK
<1>5. Working(r)' <=> Working(r)
  BY <1>3, <1>4 DEF Published, Working, Terminal
<1>6. s.msg = "done" => s.job > Jobs
  BY <1>3, EnrichAssumption DEF StreamInv, MessageFits
<1>7. BehindIsFresh'
  <2>1. CASE listed
    <3>1. r = started /\ UNCHANGED <<started, cached, disturbed>>
      BY <2>1 DEF Published, Working, StreamInv, StatusTellsWork
    <3>2. \A x \in Items : JobOf[x] \in Int
      BY EnrichAssumption
    <3>3. s.pc = "list" /\ s.job = run[r].job + 1
      BY <1>3, <2>1
    <3> QED
      BY <1>3, <1>4, <2>1, <3>1, <3>2, <3>3
      DEF StreamInv, BehindIsFresh, Published, Terminal
  <2>2. CASE ~listed
    <3>1. run[r].pc # "list" /\ UNCHANGED <<started, cached, disturbed>>
      BY DEF Published
    <3>2. s.job = run[r].job
      BY <1>3, <2>2
    <3> QED
      BY <1>1, <1>2, <1>3, <3>1, <3>2, SameWork
  <2> QED
    BY <2>1, <2>2
<1>8. \A v \in subs : WillTell(r, v) => WillTell(r, v)'
  BY <1>3, <1>4, <1>5 DEF WillTell, Published
<1>9. /\ run[r].pc # "none" /\ s.pc # "none"
      /\ UNCHANGED <<started, subs, buf, vw, dropped, clr>>
      /\ running' = running /\ cached' = cached /\ disturbed' = disturbed
      /\ s.pc \in {"list", "work"} => s.msg = "progress"
      /\ s.pc \in {"finish", "over"} => s.msg \in Terminal
  BY <1>3 DEF Published, viewVars
<1>10. running' \in BOOLEAN /\ cached' \in SUBSET Items /\ disturbed' \in BOOLEAN
  BY <1>9 DEF StreamInv, StreamTypeOK
<1> QED
  BY <1>1, <1>2, <1>5, <1>6, <1>7, <1>8, <1>9, <1>10, RunMoved

\* A send: the viewer has the event, or it is known that it was dropped.
LEMMA SendInv ==
    ASSUME StreamInv, NEW r \in Runs, NEW v \in Viewers, Send(r, v)
    PROVE  StreamInv'
<1> DEFINE s == [run[r] EXCEPT !.to = @ \ {v}]
<1>1. run[r] \in RunState /\ s \in RunState
  BY DEF StreamInv, StreamTypeOK, RunState
<1>2. run' = [run EXCEPT ![r] = s]
  BY DEF Send
<1>3. /\ s.pc = "send" /\ run[r].pc = "send" /\ s.msg = run[r].msg /\ s.job = run[r].job
      /\ s.todo = run[r].todo /\ s.to = run[r].to \ {v}
  BY <1>1 DEF RunState, Send
<1> HIDE DEF s
<1>4. run'[r] = s /\ \A q \in Runs : q # r => run'[q] = run[q]
  BY <1>2 DEF StreamInv, StreamTypeOK
<1>5. UNCHANGED <<running, started, cached, disturbed, subs, vw, clr>>
  BY DEF Send
<1>6. \A q \in Runs : Working(q)' <=> Working(q)
  BY <1>3, <1>4 DEF Working
<1>7. EventOf(r) \in Events /\ EventOf(r).kind = run[r].msg
  BY <1>1 DEF EventOf, Events, RunState
<1>8. /\ buf' \in [Viewers -> Seq(Events)] /\ dropped \subseteq dropped'
      /\ dropped' \in SUBSET Viewers
      /\ \A w \in Viewers : HasTerminal(w) => HasTerminal(w)'
      /\ vw[v].pc = "watch" /\ run[r].msg \in Terminal => HasTerminal(v)' \/ v \in dropped'
  <2>1. CASE buf' = [buf EXCEPT ![v] = IF vw[v].pc = "closed" THEN @ ELSE Append(@, EventOf(r))]
             /\ dropped' = dropped
    <3>1. CASE vw[v].pc = "closed"
      <4>1. buf' = buf
        BY <2>1, <3>1 DEF StreamInv, StreamTypeOK
      <4>2. \A w \in Viewers : HasTerminal(w) => HasTerminal(w)'
        BY <4>1 DEF HasTerminal
      <4> QED
        BY <2>1, <3>1, <4>1, <4>2 DEF StreamInv, StreamTypeOK
    <3>2. CASE vw[v].pc # "closed"
      <4>1. buf' = [buf EXCEPT ![v] = Append(@, EventOf(r))]
        BY <2>1, <3>2
      <4>2. StreamTypeOK
        BY DEF StreamInv
      <4>3. /\ buf' \in [Viewers -> Seq(Events)]
            /\ \A w \in Viewers : HasTerminal(w) => HasTerminal(w)'
            /\ EventOf(r).kind \in Terminal => HasTerminal(v)'
        BY <1>7, <4>1, <4>2, AppendKeepsTerminal
      <4> QED
        BY <1>7, <2>1, <4>2, <4>3 DEF StreamTypeOK
    <3> QED
      BY <3>1, <3>2
  <2>2. CASE dropped' = dropped \cup {v} /\ buf' = buf
    <3>1. \A w \in Viewers : HasTerminal(w) => HasTerminal(w)'
      BY <2>2 DEF HasTerminal
    <3> QED
      BY <2>2, <3>1 DEF StreamInv, StreamTypeOK
  <2> QED
    BY <2>1, <2>2 DEF Send
<1>9. StreamTypeOK'
  <2>1. run' \in [Runs -> RunState]
    BY <1>1, <1>2 DEF StreamInv, StreamTypeOK
  <2> QED
    BY <1>5, <1>8, <2>1, Zenon DEF StreamInv, StreamTypeOK
<1>10. MessageFits' /\ OpenIsRegistered'
  BY <1>3, <1>4, <1>5 DEF StreamInv, MessageFits, OpenIsRegistered
<1>11. StatusTellsWork'
  BY <1>3, <1>4, <1>5, <1>6 DEF StreamInv, StatusTellsWork
<1>12. NobodyForgotten'
  <2> SUFFICES ASSUME NEW w \in Viewers, vw[w].pc = "watch", w \notin dropped'
               PROVE  HasTerminal(w)' \/ \E q \in Runs : WillTell(q, w)'
    BY <1>5 DEF NobodyForgotten
  <2>1. CASE HasTerminal(w)
    BY <1>8, <2>1
  <2>2. ASSUME NEW q \in Runs, WillTell(q, w)
        PROVE  HasTerminal(w)' \/ WillTell(q, w)'
    <3>1. CASE q # r
      BY <1>4, <1>6, <2>2, <3>1 DEF WillTell
    <3>2. CASE q = r /\ Working(r)
      BY <1>6, <3>2 DEF WillTell
    <3>3. CASE q = r /\ run[r].msg \in Terminal /\ w \in run[r].to
      BY <1>3, <1>4, <1>8, <3>3 DEF WillTell
    <3> QED
      BY <1>3, <2>2, <3>1, <3>2, <3>3 DEF WillTell
  <2> QED
    BY <1>8, <2>1, <2>2 DEF StreamInv, NobodyForgotten
<1>13. BehindIsFresh'
  <2>1. run[r].pc # "list" /\ UNCHANGED <<started, cached, disturbed>>
    BY <1>3, <1>5
  <2>2. s.msg = run[r].msg
    BY <1>3
  <2> QED
    BY <1>1, <1>2, <1>3, <2>1, <2>2, SameWork
<1> QED
  BY <1>9, <1>10, <1>11, <1>12, <1>13 DEF StreamInv

\* A new run is the only one at work: the one before it has cleared Running.
LEMMA TriggerInv ==
    ASSUME StreamInv, Trigger
    PROVE  StreamInv'
<1>0. started + 1 \in Runs
  BY EnrichAssumption DEF Trigger, StreamInv, StreamTypeOK, Runs
<1> PICK r \in Runs : r = started + 1
  BY <1>0
<1> DEFINE s == [NoRun EXCEPT !.pc = "list", !.job = 1]
<1>1. started \in Nat /\ MaxRuns \in Nat
  BY EnrichAssumption DEF StreamInv, StreamTypeOK
<1>2. s \in RunState /\ s.pc = "list" /\ s.job = 1 /\ s.msg = "progress"
  BY DEF NoRun, RunState
<1>3. run' = [run EXCEPT ![r] = s] /\ started' = r /\ running' = TRUE /\ disturbed' = FALSE
  BY DEF Trigger
<1> HIDE DEF s
<1>4. run'[r] = s /\ \A q \in Runs : q # r => run'[q] = run[q]
  BY <1>1, <1>3 DEF StreamInv, StreamTypeOK
<1>5. UNCHANGED <<subs, buf, vw, dropped, cached, clr>>
  BY DEF Trigger, viewVars
<1>6. Working(r)' /\ \A q \in Runs : ~Working(q) /\ (q # r => ~Working(q)')
  <2>1. \A q \in Runs : ~Working(q)
    BY DEF Trigger, StreamInv, StatusTellsWork
  <2>2. \A q \in Runs : q # r => (Working(q)' <=> Working(q))
    BY <1>4 DEF Working
  <2>3. Working(r)'
    BY <1>2, <1>4 DEF Working, Terminal
  <2> QED
    BY <2>1, <2>2, <2>3
<1>7. StreamTypeOK'
  <2>1. run' \in [Runs -> RunState]
    BY <1>2, <1>3 DEF StreamInv, StreamTypeOK
  <2>2. started' \in 0 .. MaxRuns
    BY <1>1, <1>3 DEF Runs
  <2>3. running' \in BOOLEAN /\ disturbed' \in BOOLEAN
    BY <1>3
  <2> QED
    BY <1>5, <2>1, <2>2, <2>3, Zenon DEF StreamInv, StreamTypeOK
<1>8. MessageFits' /\ OpenIsRegistered'
  BY <1>2, <1>4, <1>5 DEF StreamInv, MessageFits, OpenIsRegistered
<1>9. StatusTellsWork'
  <2>1. \A q \in Runs : run'[q].pc = "none" <=> q > started'
    BY <1>1, <1>2, <1>3, <1>4 DEF StreamInv, StatusTellsWork, Runs
  <2>2. \A q \in Runs : Working(q)' => q = started' /\ running'
    BY <1>3, <1>6
  <2> QED
    BY <1>1, <1>3, <1>6, <2>1, <2>2 DEF StatusTellsWork
<1>10. NobodyForgotten'
  BY <1>1, <1>6 DEF NobodyForgotten, WillTell
<1>11. BehindIsFresh'
  <2>1. \A x \in Items : JobOf[x] \in Int /\ ~(JobOf[x] < 1)
    BY EnrichAssumption
  <2> QED
    BY <1>2, <1>3, <1>4, <2>1 DEF BehindIsFresh
<1> QED
  BY <1>7, <1>8, <1>9, <1>10, <1>11 DEF StreamInv

-----------------------------------------------------------------------------
(* The steps of the viewers and of the cache's owner                        *)

LEMMA SubscribeInv ==
    ASSUME StreamInv, NEW v \in Viewers, Subscribe(v)
    PROVE  StreamInv'
<1> DEFINE s == [vw[v] EXCEPT !.pc = "sub"]
<1>1. vw[v] \in ViewerState /\ s \in ViewerState /\ s.pc = "sub"
  BY DEF StreamInv, StreamTypeOK, ViewerState
<1>2. vw' = [vw EXCEPT ![v] = s] /\ subs' = subs \cup {v}
  BY DEF Subscribe
<1> HIDE DEF s
<1>3. vw'[v] = s /\ \A w \in Viewers : w # v => vw'[w] = vw[w]
  BY <1>2 DEF StreamInv, StreamTypeOK
<1>4. UNCHANGED <<running, started, run, cached, disturbed, buf, dropped, clr>>
  BY DEF Subscribe, runVars
<1>5. StreamTypeOK'
  <2>1. vw' \in [Viewers -> ViewerState] /\ subs' \in SUBSET Viewers
    BY <1>1, <1>2 DEF StreamInv, StreamTypeOK
  <2> QED
    BY <1>4, <2>1, Zenon DEF StreamInv, StreamTypeOK
<1>6. MessageFits' /\ StatusTellsWork' /\ BehindIsFresh'
  BY <1>4 DEF StreamInv, MessageFits, StatusTellsWork, Working, BehindIsFresh
<1>7. OpenIsRegistered'
  BY <1>1, <1>2, <1>3 DEF StreamInv, OpenIsRegistered
<1>8. NobodyForgotten'
  <2>1. \A w \in Viewers : HasTerminal(w)' <=> HasTerminal(w)
    BY <1>4 DEF HasTerminal
  <2>2. \A w \in Viewers : \A q \in Runs : WillTell(q, w)' <=> WillTell(q, w)
    BY <1>4 DEF WillTell, Working
  <2> QED
    BY <1>1, <1>3, <1>4, <2>1, <2>2 DEF StreamInv, NobodyForgotten
<1> QED
  BY <1>5, <1>6, <1>7, <1>8 DEF StreamInv

\* A stream that ends: nothing is owed to it any more.
LEMMA StreamEnds ==
    ASSUME StreamInv, NEW v \in Viewers, NEW s \in ViewerState, s.pc = "closed",
           vw' = [vw EXCEPT ![v] = s], subs' = subs \ {v}, buf' = [buf EXCEPT ![v] = <<>>],
           UNCHANGED <<running, started, run, cached, disturbed, dropped, clr>>
    PROVE  StreamInv'
<1>1. vw'[v] = s /\ \A w \in Viewers : w # v => vw'[w] = vw[w] /\ buf'[w] = buf[w]
  BY DEF StreamInv, StreamTypeOK
<1>2. StreamTypeOK'
  <2>1. vw' \in [Viewers -> ViewerState] /\ subs' \in SUBSET Viewers
    BY DEF StreamInv, StreamTypeOK
  <2>2. <<>> \in Seq(Events)
    OBVIOUS
  <2>3. buf' \in [Viewers -> Seq(Events)]
    BY <2>2 DEF StreamInv, StreamTypeOK
  <2> QED
    BY <2>1, <2>3, Zenon DEF StreamInv, StreamTypeOK
<1>3. MessageFits' /\ StatusTellsWork' /\ BehindIsFresh'
  BY DEF StreamInv, MessageFits, StatusTellsWork, Working, BehindIsFresh
<1>4. OpenIsRegistered'
  BY <1>1 DEF StreamInv, OpenIsRegistered
<1>5. NobodyForgotten'
  <2>1. \A w \in Viewers : w # v => (HasTerminal(w)' <=> HasTerminal(w))
    BY <1>1 DEF HasTerminal
  <2>2. \A w \in Viewers : \A q \in Runs : WillTell(q, w)' <=> WillTell(q, w)
    BY DEF WillTell, Working
  <2> QED
    BY <1>1, <2>1, <2>2 DEF StreamInv, NobodyForgotten
<1> QED
  BY <1>2, <1>3, <1>4, <1>5 DEF StreamInv

\* A stream that goes on: its channel keeps a terminal event, or a run will send one.
LEMMA StreamGoesOn ==
    ASSUME StreamInv, NEW v \in Viewers, NEW s \in ViewerState, s.pc = "watch",
           vw[v].pc \in {"sub", "watch"}, vw' = [vw EXCEPT ![v] = s],
           vw[v].pc = "watch" \/ running,
           buf' \in [Viewers -> Seq(Events)],
           \A w \in Viewers : HasTerminal(w) => HasTerminal(w)',
           UNCHANGED <<running, started, run, cached, disturbed, subs, dropped, clr>>
    PROVE  StreamInv'
<1>1. vw'[v] = s /\ \A w \in Viewers : w # v => vw'[w] = vw[w]
  BY DEF StreamInv, StreamTypeOK
<1>2. StreamTypeOK'
  <2>1. vw' \in [Viewers -> ViewerState]
    BY DEF StreamInv, StreamTypeOK
  <2> QED
    BY <2>1, Zenon DEF StreamInv, StreamTypeOK
<1>3. MessageFits' /\ StatusTellsWork' /\ BehindIsFresh'
  BY DEF StreamInv, MessageFits, StatusTellsWork, Working, BehindIsFresh
<1>4. OpenIsRegistered'
  BY <1>1 DEF StreamInv, OpenIsRegistered
<1>5. NobodyForgotten'
  <2>1. \A w \in Viewers : \A q \in Runs : WillTell(q, w)' <=> WillTell(q, w)
    BY DEF WillTell, Working
  <2>2. CASE vw[v].pc = "watch"
    BY <1>1, <2>1, <2>2 DEF StreamInv, NobodyForgotten
  <2>3. CASE running
    <3>1. started \in Runs /\ Working(started)'
      BY <2>3 DEF StreamInv, StatusTellsWork, Working
    <3> QED
      BY <1>1, <2>1, <3>1 DEF NobodyForgotten, WillTell
  <2> QED
    BY <2>2, <2>3
<1> QED
  BY <1>2, <1>3, <1>4, <1>5 DEF StreamInv

LEMMA ReadStatusInv ==
    ASSUME StreamInv, NEW v \in Viewers, ReadStatus(v)
    PROVE  StreamInv'
<1>1. vw[v] \in ViewerState /\ started \in Nat /\ StatusCount \in Nat
  <2>1. vw[v] \in ViewerState /\ started \in Nat
    BY EnrichAssumption DEF StreamInv, StreamTypeOK
  <2>2. started # 0 => started \in Runs
    BY EnrichAssumption DEF StreamInv, StreamTypeOK, Runs
  <2>3. started # 0 => run[started] \in RunState
    BY <2>2 DEF StreamInv, StreamTypeOK
  <2> QED
    BY <2>1, <2>3 DEF StatusCount, RunState
<1>2. CASE running
  <2> DEFINE s == [vw[v] EXCEPT !.pc = "watch", !.saw = started, !.view = StatusCount]
  <2>1. s \in ViewerState /\ s.pc = "watch"
    BY <1>1 DEF ViewerState
  <2>2. vw' = [vw EXCEPT ![v] = s] /\ buf' = buf /\ vw[v].pc = "sub"
        /\ UNCHANGED <<running, started, run, cached, disturbed, subs, dropped, clr>>
    BY <1>2 DEF ReadStatus, runVars
  <2>3. buf' \in [Viewers -> Seq(Events)] /\ \A w \in Viewers : HasTerminal(w) => HasTerminal(w)'
    BY <2>2 DEF HasTerminal, StreamInv, StreamTypeOK
  <2> HIDE DEF s
  <2> QED
    BY <1>2, <2>1, <2>2, <2>3, StreamGoesOn
<1>3. CASE ~running
  <2> DEFINE s == [vw[v] EXCEPT !.pc = "closed", !.view = StatusCount]
  <2>1. s \in ViewerState /\ s.pc = "closed"
    BY <1>1 DEF ViewerState
  <2>2. vw' = [vw EXCEPT ![v] = s] /\ buf' = [buf EXCEPT ![v] = <<>>] /\ subs' = subs \ {v}
        /\ UNCHANGED <<running, started, run, cached, disturbed, dropped, clr>>
    BY <1>3 DEF ReadStatus, runVars
  <2> HIDE DEF s
  <2> QED
    BY <2>1, <2>2, StreamEnds
<1> QED
  BY <1>2, <1>3

LEMMA ForwardInv ==
    ASSUME StreamInv, NEW v \in Viewers, Forward(v)
    PROVE  StreamInv'
<1> DEFINE e == Head(buf[v])
<1>1. vw[v] \in ViewerState /\ vw[v].pc = "watch" /\ buf[v] \in Seq(Events) /\ buf[v] # <<>>
  BY DEF StreamInv, StreamTypeOK, Forward
<1>2. e \in Events
  BY <1>1, HeadTailProperties, Zenon
<1>3. e.run \in Nat /\ e.count \in Nat
  BY <1>2, EnrichAssumption DEF Events, Runs
<1>4. UNCHANGED <<running, started, run, cached, disturbed, dropped, clr>>
  BY DEF Forward, runVars
<1>5. CASE e.kind \in Terminal
  <2> DEFINE s == [vw[v] EXCEPT !.pc = "closed", !.by = e.run]
  <2>1. s \in ViewerState /\ s.pc = "closed"
    BY <1>1, <1>3 DEF ViewerState
  <2>2. vw' = [vw EXCEPT ![v] = s] /\ buf' = [buf EXCEPT ![v] = <<>>] /\ subs' = subs \ {v}
    BY <1>5 DEF Forward
  <2> HIDE DEF s, e
  <2> QED
    BY <1>4, <2>1, <2>2, StreamEnds
<1>6. CASE e.kind \notin Terminal
  <2> DEFINE s == [vw[v] EXCEPT !.view = IF e.run = vw[v].saw THEN e.count ELSE @]
  <2>1. s \in ViewerState /\ s.pc = "watch"
    BY <1>1, <1>3 DEF ViewerState
  <2>2. vw' = [vw EXCEPT ![v] = s] /\ buf' = [buf EXCEPT ![v] = Tail(@)] /\ subs' = subs
    BY <1>6 DEF Forward
  <2>3. StreamTypeOK
    BY DEF StreamInv
  <2>4. /\ buf' \in [Viewers -> Seq(Events)]
        /\ \A w \in Viewers : HasTerminal(w) => HasTerminal(w)'
    BY <1>1, <1>6, <2>2, <2>3, TailKeepsTerminal
  <2> HIDE DEF s, e
  <2> QED
    BY <1>1, <1>4, <2>1, <2>2, <2>4, StreamGoesOn
<1> QED
  BY <1>5, <1>6

\* Clearing touches no run and no channel; what it deletes is noted.
LEMMA ClearInv ==
    ASSUME StreamInv, ClearStep \/ MinutePasses
    PROVE  StreamInv'
<1>1. UNCHANGED <<running, started, run, subs, buf, vw, dropped>>
  BY DEF ClearStep, ClearRequested, ClearLocked, DeleteTable, DeleteFails, MinutePasses,
         runVars, viewVars
<1>2. \/ cached' = cached /\ disturbed' = disturbed
      \/ cached' \subseteq cached /\ disturbed' = TRUE
  BY DEF ClearStep, ClearRequested, ClearLocked, DeleteTable, DeleteFails, MinutePasses, runVars
<1>3. clr' \in ClearState
  <2>1. clr \in ClearState /\ ClearedJobs \in SUBSET (1 .. Jobs)
    BY EnrichAssumption DEF StreamInv, StreamTypeOK
  <2>2. CASE ClearRequested \/ ClearLocked \/ DeleteFails \/ MinutePasses
    BY <2>1, <2>2 DEF ClearRequested, ClearLocked, DeleteFails, MinutePasses, ClearState
  <2>3. CASE DeleteTable
    <3>1. PICK j \in clr.left :
             clr' = IF clr.left = {j} THEN [pc |-> "idle", left |-> {}, recent |-> TRUE]
                    ELSE [clr EXCEPT !.left = @ \ {j}]
      BY <2>3 DEF DeleteTable
    <3>2. clr.left \ {j} \in SUBSET (1 .. Jobs)
      BY <2>1 DEF ClearState
    <3>3. \A t \in SUBSET (1 .. Jobs) : [clr EXCEPT !.left = t] \in ClearState
      BY <2>1 DEF ClearState
    <3>4. [clr EXCEPT !.left = @ \ {j}] = [clr EXCEPT !.left = clr.left \ {j}]
      BY <2>1 DEF ClearState
    <3>5. [clr EXCEPT !.left = @ \ {j}] \in ClearState
      BY <3>2, <3>3, <3>4
    <3>6. [pc |-> "idle", left |-> {}, recent |-> TRUE] \in ClearState
      BY DEF ClearState
    <3> QED
      BY <3>1, <3>5, <3>6
  <2> QED
    BY <2>2, <2>3 DEF ClearStep
<1>4. StreamTypeOK'
  <2>1. cached' \in SUBSET Items /\ disturbed' \in BOOLEAN
    BY <1>2 DEF StreamInv, StreamTypeOK
  <2> QED
    BY <1>1, <1>3, <2>1, Zenon DEF StreamInv, StreamTypeOK
<1>5. MessageFits' /\ StatusTellsWork' /\ OpenIsRegistered'
  BY <1>1 DEF StreamInv, MessageFits, StatusTellsWork, Working, OpenIsRegistered
<1>6. NobodyForgotten'
  BY <1>1 DEF StreamInv, NobodyForgotten, HasTerminal, WillTell, Working
<1>7. BehindIsFresh'
  BY <1>1, <1>2 DEF StreamInv, BehindIsFresh
<1> QED
  BY <1>4, <1>5, <1>6, <1>7 DEF StreamInv

-----------------------------------------------------------------------------
(* The theorems                                                             *)

LEMMA StreamStepInv ==
    ASSUME StreamInv, [EnrichNext]_enrichVars
    PROVE  StreamInv'
<1>1. CASE Trigger
  BY <1>1, TriggerInv
<1>2. ASSUME NEW r \in Runs, RunStep(r) PROVE StreamInv'
  BY <1>2, ListJobInv, ListFailsInv, JobsOverInv, WorkItemInv, FinishInv, SnapshotInv, SendInv,
     PublishedInv DEF RunStep
<1>3. ASSUME NEW v \in Viewers, ViewerStep(v) PROVE StreamInv'
  BY <1>3, SubscribeInv, ReadStatusInv, ForwardInv DEF ViewerStep
<1>4. CASE ClearStep \/ MinutePasses
  BY <1>4, ClearInv
<1>5. CASE UNCHANGED enrichVars
  <2>1. UNCHANGED <<running, started, run, subs, buf, vw, cached, clr, dropped, disturbed>>
    BY <1>5 DEF enrichVars
  <2>2. StreamTypeOK' /\ MessageFits' /\ OpenIsRegistered' /\ BehindIsFresh'
    BY <2>1, Zenon DEF StreamInv, StreamTypeOK, MessageFits, OpenIsRegistered, BehindIsFresh
  <2>3. StatusTellsWork' /\ NobodyForgotten'
    BY <2>1 DEF StreamInv, StatusTellsWork, NobodyForgotten, HasTerminal, WillTell, Working
  <2> QED
    BY <2>2, <2>3 DEF StreamInv
<1> QED
  BY <1>1, <1>2, <1>3, <1>4, <1>5 DEF EnrichNext

LEMMA StreamInvariant == EnrichSpec => []StreamInv
BY StreamInitInv, StreamStepInv, PTL DEF EnrichSpec

\* Type correctness of the worker, its viewers and the clear request.
THEOREM StreamTyping == EnrichSpec => []StreamTypeOK
<1>1. StreamInv => StreamTypeOK
  BY DEF StreamInv
<1> QED
  BY <1>1, StreamInvariant, PTL

\* Two runs never work side by side, and Running tells of the one that does
\* (EnrichWorker.Trigger and finish), for any number of triggers and viewers.
THEOREM OneRunAtATimeAlways == EnrichSpec => []OneRunAtATime
<1>1. StreamInv => OneRunAtATime
  BY DEF StreamInv, StatusTellsWork, OneRunAtATime
<1> QED
  BY <1>1, StreamInvariant, PTL

\* Subscribing before reading the status is enough: a viewer that lost no event to
\* a full buffer is never left waiting, whatever the interleaving of the end of a
\* run, the start of the next and the viewer's own steps.
THEOREM NoOrphanAlways == EnrichSpec => []NoOrphanUnlessDropped
<1>1. StreamInv => NoOrphanUnlessDropped
  BY DEF StreamInv, NobodyForgotten, WillTell, NoOrphanUnlessDropped, AllQuiet, Working
<1> QED
  BY <1>1, StreamInvariant, PTL

\* "done" is the truth, for any number of jobs and items: nothing stale is left
\* unless it was deleted or could not be stored since the run began.
THEOREM DoneMeansCachedAlways == EnrichSpec => []DoneMeansCached
<1>1. StreamInv => DoneMeansCached
  <2> SUFFICES ASSUME StreamInv, started > 0, run[started].msg = "done", ~disturbed
               PROVE  cached = Items
    BY DEF DoneMeansCached
  <2>1. started \in Runs
    BY EnrichAssumption DEF StreamInv, StreamTypeOK, Runs
  <2>2. run[started].job > Jobs /\ run[started].job \in Nat
    BY <2>1 DEF StreamInv, MessageFits, StreamTypeOK, RunState
  <2>3. \A x \in Items : JobOf[x] < run[started].job
    BY <2>2, EnrichAssumption
  <2> QED
    BY <2>3 DEF StreamInv, BehindIsFresh, StreamTypeOK
<1> QED
  BY <1>1, StreamInvariant, PTL
=============================================================================
