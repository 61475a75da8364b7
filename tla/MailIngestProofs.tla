-------------------------- MODULE MailIngestProofs --------------------------
(***************************************************************************)
(* ReportStore for any set of attachments and importers: the tables and the *)
(* ingest log agree in every reachable state.  MailIngest for any accounts, *)
(* messages, attachments and failures: what holds of two racing importers   *)
(* holds of the whole mailbox fetch, the caches of examined messages are    *)
(* sound, and the fetch keeps the at-most-once promise.                     *)
(***************************************************************************)
EXTENDS MailIngest, TLAPS

-----------------------------------------------------------------------------
(* The store: typing                                                        *)

LEMMA OutcomesTyped ==
    \A a \in Attachments : Outcomes(a) \subseteq Statuses
BY DEF Outcomes, Statuses

LEMMA DecidedTyped ==
    ASSUME NEW r \in ImportState, NEW a \in Attachments, NEW s \in Statuses
    PROVE  Decided(r, a, s) \in ImportState
<1>1. \A t \in SUBSET Attachments : \A p \in SUBSET (Attachments \X Statuses) :
         [r EXCEPT !.todo = t, !.pending = p] \in ImportState
  BY DEF ImportState
<1>2. r.todo \ {a} \in SUBSET Attachments
  BY DEF ImportState
<1>3. {<<a, s>>} \in SUBSET (Attachments \X Statuses)
  OBVIOUS
<1> QED
  BY <1>1, <1>2, <1>3 DEF Decided

LEMMA EndedTyped ==
    ASSUME NEW r \in ImportState, NEW how \in {"done", "failed"}
    PROVE  Ended(r, how) \in ImportState
BY DEF Ended, ImportState

LEMMA CountedTyped ==
    ASSUME NEW r \in ImportState, NEW s
    PROVE  Counted(r, s) \in ImportState
<1> DEFINE n == r.imported + (IF s = "ok" THEN 1 ELSE 0)
           d == r.duplicates + (IF s \in {"duplicate", "duplicate_range"} THEN 1 ELSE 0)
           f == r.failed + (IF s = "parse_error" THEN 1 ELSE 0)
<1>1. n \in Nat /\ d \in Nat /\ f \in Nat
  BY DEF ImportState
<1>2. \A x, y, z \in Nat :
         [r EXCEPT !.pending = {}, !.imported = x, !.duplicates = y, !.failed = z]
             \in ImportState
  BY DEF ImportState
<1> HIDE DEF n, d, f
<1>3. [r EXCEPT !.pending = {}, !.imported = n, !.duplicates = d, !.failed = f]
         \in ImportState
  BY <1>1, <1>2
<1> QED
  BY <1>3 DEF Counted, n, d, f

LEMMA StoreInitTyped == StoreInit => StoreTypeOK
BY DEF StoreInit, StoreTypeOK, ImportState, IdleImport

LEMMA StoreStepTyped == StoreTypeOK /\ [StoreNext]_storeVars => StoreTypeOK'
<1> SUFFICES ASSUME StoreTypeOK, [StoreNext]_storeVars PROVE StoreTypeOK'
  OBVIOUS
<1> USE DEF StoreTypeOK
<1>1. ASSUME NEW i \in Importers, NEW batch \in SUBSET Attachments, BeginImport(i, batch)
      PROVE StoreTypeOK'
  BY <1>1 DEF BeginImport, IdleImport, ImportState
<1>2. ASSUME NEW i \in Importers, SaveOne(i)
      PROVE StoreTypeOK'
  <2>0. PICK a \in imp[i].todo : \E s \in Outcomes(a) :
           /\ rows' = IF s = "ok" THEN [rows EXCEPT ![a] = @ + 1] ELSE rows
           /\ imp' = [imp EXCEPT ![i] = Decided(@, a, s)]
    BY <1>2 DEF SaveOne
  <2>1. PICK s \in Outcomes(a) :
           /\ rows' = IF s = "ok" THEN [rows EXCEPT ![a] = @ + 1] ELSE rows
           /\ imp' = [imp EXCEPT ![i] = Decided(@, a, s)]
    BY <2>0
  <2>2. a \in Attachments /\ s \in Statuses
    BY OutcomesTyped DEF ImportState
  <2>3. Decided(imp[i], a, s) \in ImportState
    BY <2>2, DecidedTyped
  <2>4. rows' \in [Attachments -> Nat]
    BY <2>1, <2>2
  <2>5. imp' \in [Importers -> ImportState]
    BY <2>1, <2>3
  <2> QED
    BY <1>2, <2>4, <2>5 DEF SaveOne
<1>3. ASSUME NEW i \in Importers, SaveFails(i)
      PROVE StoreTypeOK'
  BY <1>3, EndedTyped DEF SaveFails
<1>4. ASSUME NEW i \in Importers, RecordOne(i)
      PROVE StoreTypeOK'
  <2>1. imp' \in [Importers -> ImportState]
    <3>1. PICK e \in imp[i].pending : imp' = [imp EXCEPT ![i] = Counted(@, e[2])]
      BY <1>4 DEF RecordOne
    <3> QED
      BY <3>1, CountedTyped
  <2>2. events' \in [Attachments -> [Statuses -> Nat]]
    <3>1. PICK e \in imp[i].pending :
             \/ events' = [events EXCEPT ![e[1]] = Bumped(@, e[2])]
             \/ UNCHANGED events
      BY <1>4 DEF RecordOne
    <3>2. e[1] \in Attachments /\ e[2] \in Statuses
      BY DEF ImportState
    <3>3. Bumped(events[e[1]], e[2]) \in [Statuses -> Nat]
      BY <3>2 DEF Bumped
    <3> QED
      BY <3>1, <3>2, <3>3
  <2> QED
    BY <1>4, <2>1, <2>2 DEF RecordOne
<1>5. ASSUME NEW i \in Importers, ReturnResult(i)
      PROVE StoreTypeOK'
  BY <1>5, EndedTyped DEF ReturnResult
<1>6. ASSUME NEW i \in Importers, EndImport(i)
      PROVE StoreTypeOK'
  BY <1>6 DEF EndImport, IdleImport, ImportState
<1>7. CASE StoreCrash
  BY <1>7 DEF StoreCrash, IdleImport, ImportState
<1>8. CASE UNCHANGED storeVars
  BY <1>8 DEF storeVars
<1> QED
  BY <1>1, <1>2, <1>3, <1>4, <1>5, <1>6, <1>7, <1>8 DEF StoreNext, ImportStep

\* The tables, the log and the importers have their types in every reachable state.
THEOREM StoreTyping == StoreSpec => []StoreTypeOK
BY StoreInitTyped, StoreStepTyped, PTL DEF StoreSpec

-----------------------------------------------------------------------------
(* The inductive invariant.  Between the commit of a report and the event    *)
(* that tells of it, what was decided is only in an importer's `pending`:    *)
(* the three properties follow from what holds of those decisions.           *)

\* Another TLS report with this report's id covers another window.
IdReused(a) ==
    /\ FormatOf[a] = "tlsrpt"
    /\ \E b \in Stored(a) : WindowOf[b] # WindowOf[a]

\* An importer has one decision in hand at most.
OneDecision == \A i \in Importers : \A p, q \in imp[i].pending : p = q

\* An import that is not logged yet has its row, no event, and one importer.
ImportsPending ==
    \A i \in Importers : \A a \in Attachments :
        Pending(i, a, "ok") =>
            /\ rows[a] > 0
            /\ events[a]["ok"] = 0
            /\ \A j \in Importers : Pending(j, a, "ok") => j = i

\* A refusal, logged or not, has its reason, and the reason stays.
Refused(a, s) == events[a][s] > 0 \/ \E i \in Importers : Pending(i, a, s)

RefusalsStand ==
    \A a \in Attachments :
        /\ Refused(a, "duplicate") => IsStored(a)
        /\ Refused(a, "duplicate_range") => IdReused(a)
        /\ Refused(a, "parse_error") => FormatOf[a] = "junk"

JunkNeverStored == \A a \in Attachments : FormatOf[a] = "junk" => rows[a] = 0

StoreInv ==
    /\ OneRowPerReport
    /\ LogBackedByRows
    /\ OneDecision
    /\ ImportsPending
    /\ RefusalsStand
    /\ JunkNeverStored

LEMMA StoreInitInv == StoreInit => StoreInv
BY DEF StoreInit, StoreInv, OneRowPerReport, LogBackedByRows, OneDecision, ImportsPending,
       RefusalsStand, Refused, JunkNeverStored, Pending, IdleImport, Statuses

\* A step that writes neither table and decides nothing new.
LEMMA QuietStep ==
    ASSUME StoreInv, UNCHANGED <<rows, events>>,
           \A i \in Importers : imp'[i].pending \subseteq imp[i].pending
    PROVE  StoreInv'
<1> USE DEF StoreInv
<1>1. \A i \in Importers : \A a, s : Pending(i, a, s)' => Pending(i, a, s)
  BY DEF Pending
<1>2. OneRowPerReport' /\ LogBackedByRows' /\ JunkNeverStored'
  BY DEF OneRowPerReport, LogBackedByRows, JunkNeverStored
<1>3. OneDecision'
  BY DEF OneDecision
<1>4. ImportsPending'
  BY <1>1 DEF ImportsPending
<1>5. \A a \in Attachments : \A s : Refused(a, s)' => Refused(a, s)
  BY <1>1 DEF Refused
<1>6. RefusalsStand'
  BY <1>5 DEF RefusalsStand, IsStored, IdReused, Stored
<1> QED
  BY <1>2, <1>3, <1>4, <1>6

LEMMA SaveOneInv ==
    ASSUME StoreTypeOK, StoreInv, NEW i \in Importers, SaveOne(i)
    PROVE  StoreInv'
<1> USE DEF StoreInv
<1>0. PICK a \in imp[i].todo : \E s \in Outcomes(a) :
         /\ rows' = IF s = "ok" THEN [rows EXCEPT ![a] = @ + 1] ELSE rows
         /\ imp' = [imp EXCEPT ![i] = Decided(@, a, s)]
  BY DEF SaveOne
<1>1. PICK s \in Outcomes(a) :
         /\ rows' = IF s = "ok" THEN [rows EXCEPT ![a] = @ + 1] ELSE rows
         /\ imp' = [imp EXCEPT ![i] = Decided(@, a, s)]
  BY <1>0
<1>2. a \in Attachments /\ s \in Statuses
  BY OutcomesTyped DEF StoreTypeOK, ImportState
<1>3. events' = events
  BY DEF SaveOne
<1>4. imp'[i].pending = {<<a, s>>} /\ \A j \in Importers \ {i} : imp'[j] = imp[j]
  BY <1>1 DEF StoreTypeOK, ImportState, Decided
<1>5. \A b \in Attachments : /\ rows[b] \in Nat /\ rows'[b] \in Nat
                             /\ rows'[b] >= rows[b]
                             /\ b # a => rows'[b] = rows[b]
  BY <1>1, <1>2 DEF StoreTypeOK
<1>6. \A b \in Attachments : Stored(b) \subseteq Stored(b)'
  BY <1>5 DEF Stored, SameReport
<1>7. s = "ok" => FormatOf[a] # "junk" /\ ~IsStored(a)
  BY DEF Outcomes
<1>8. s = "ok" => rows[a] = 0 /\ rows'[a] = 1
  BY <1>1, <1>2, <1>5, <1>7 DEF IsStored, Stored, SameReport, StoreTypeOK
<1>9. s # "ok" => rows' = rows
  BY <1>1
<1>10. OneRowPerReport'
  BY <1>2, <1>5, <1>7, <1>8, <1>9 DEF OneRowPerReport, IsStored, Stored, SameReport
<1>11. LogBackedByRows'
  BY <1>3, <1>5 DEF LogBackedByRows, StoreTypeOK, Statuses
<1>12. OneDecision'
  BY <1>4 DEF OneDecision
<1>13. JunkNeverStored'
  BY <1>5, <1>7, <1>9 DEF JunkNeverStored
<1>14. ImportsPending'
  <2> SUFFICES ASSUME NEW j \in Importers, NEW b \in Attachments, Pending(j, b, "ok")'
               PROVE  /\ rows'[b] > 0
                      /\ events'[b]["ok"] = 0
                      /\ \A k \in Importers : Pending(k, b, "ok")' => k = j
    BY DEF ImportsPending
  <2>1. CASE s = "ok" /\ b = a
    <3>1. \A k \in Importers : ~Pending(k, a, "ok")
      BY <1>2, <1>8, <2>1 DEF ImportsPending
    <3>2. events[a]["ok"] = 0
      BY <1>2, <1>8, <2>1 DEF LogBackedByRows, StoreTypeOK, Statuses
    <3>3. \A k \in Importers : Pending(k, a, "ok")' => k = i
      BY <1>4, <3>1 DEF Pending
    <3> QED
      BY <1>3, <1>8, <2>1, <3>2, <3>3
  <2>2. CASE ~(s = "ok" /\ b = a)
    <3>1. \A k \in Importers : Pending(k, b, "ok")' => k # i /\ Pending(k, b, "ok")
      BY <1>4, <2>2 DEF Pending
    <3> QED
      BY <1>3, <1>5, <3>1 DEF ImportsPending
  <2> QED
    BY <2>1, <2>2
<1>15. RefusalsStand'
  <2>1. \A b \in Attachments : \A t : Refused(b, t)' => Refused(b, t) \/ (b = a /\ t = s)
    BY <1>3, <1>4 DEF Refused, Pending
  <2>2. s = "duplicate" => IsStored(a)
    BY DEF Outcomes
  <2>3. s = "duplicate_range" => IdReused(a)
    BY DEF Outcomes, IdReused
  <2>4. s = "parse_error" => FormatOf[a] = "junk"
    BY DEF Outcomes
  <2> QED
    BY <1>6, <2>1, <2>2, <2>3, <2>4 DEF RefusalsStand, IsStored, IdReused
<1> QED
  BY <1>10, <1>11, <1>12, <1>13, <1>14, <1>15

LEMMA RecordOneInv ==
    ASSUME StoreTypeOK, StoreInv, NEW i \in Importers, RecordOne(i)
    PROVE  StoreInv'
<1> USE DEF StoreInv
<1>1. PICK e \in imp[i].pending :
         /\ \/ events' = [events EXCEPT ![e[1]] = Bumped(@, e[2])]
            \/ UNCHANGED events
         /\ imp' = [imp EXCEPT ![i] = Counted(@, e[2])]
  BY DEF RecordOne
<1>2. PICK a \in Attachments : e[1] = a
  BY DEF StoreTypeOK, ImportState
<1>3. PICK s \in Statuses : e[2] = s
  BY DEF StoreTypeOK, ImportState
<1>4. Pending(i, a, s)
  <2>1. imp[i].pending \subseteq Attachments \X Statuses
    BY DEF StoreTypeOK, ImportState
  <2>2. e = <<e[1], e[2]>>
    BY <2>1
  <2> QED
    BY <1>2, <1>3, <2>2 DEF Pending
<1>5. rows' = rows
  BY DEF RecordOne
<1>6. imp'[i].pending = {} /\ \A j \in Importers \ {i} : imp'[j] = imp[j]
  BY <1>1 DEF StoreTypeOK, ImportState, Counted
<1>7. \A b \in Attachments : \A t \in Statuses :
         /\ events[b][t] \in Nat
         /\ events'[b][t] \in {events[b][t], events[b][t] + 1}
         /\ b # a \/ t # s => events'[b][t] = events[b][t]
  BY <1>1, <1>2, <1>3 DEF StoreTypeOK, Bumped
<1>8. \A j \in Importers : \A b, t : Pending(j, b, t)' => j # i /\ Pending(j, b, t)
  BY <1>6 DEF Pending
<1>9. OneRowPerReport' /\ JunkNeverStored'
  BY <1>5 DEF OneRowPerReport, JunkNeverStored
<1>10. OneDecision'
  BY <1>6 DEF OneDecision
<1>11. LogBackedByRows'
  <2>1. s = "ok" => rows[a] > 0 /\ events[a]["ok"] = 0
    BY <1>4 DEF ImportsPending
  <2> QED
    BY <1>5, <1>7, <2>1 DEF LogBackedByRows, StoreTypeOK, Statuses
<1>12. ImportsPending'
  <2> SUFFICES ASSUME NEW j \in Importers, NEW b \in Attachments, Pending(j, b, "ok")'
               PROVE  /\ rows'[b] > 0
                      /\ events'[b]["ok"] = 0
                      /\ \A k \in Importers : Pending(k, b, "ok")' => k = j
    BY DEF ImportsPending
  <2>1. Pending(j, b, "ok") /\ j # i
    BY <1>8
  <2>2. b # a \/ s # "ok"
    BY <1>4, <2>1 DEF ImportsPending
  <2>3. events'[b]["ok"] = 0
    BY <1>7, <2>1, <2>2 DEF ImportsPending, Statuses
  <2> QED
    BY <1>5, <1>8, <2>1, <2>3 DEF ImportsPending
<1>13. RefusalsStand'
  <2>1. \A b \in Attachments : \A t \in Statuses : Refused(b, t)' => Refused(b, t)
    BY <1>4, <1>7, <1>8 DEF Refused
  <2> QED
    BY <1>5, <2>1 DEF RefusalsStand, Statuses, IsStored, IdReused, Stored
<1> QED
  BY <1>9, <1>10, <1>11, <1>12, <1>13

LEMMA StoreStepInv == StoreTypeOK /\ StoreInv /\ [StoreNext]_storeVars => StoreInv'
<1> SUFFICES ASSUME StoreTypeOK, StoreInv, [StoreNext]_storeVars PROVE StoreInv'
  OBVIOUS
<1>1. ASSUME NEW i \in Importers, NEW batch \in SUBSET Attachments, BeginImport(i, batch)
      PROVE StoreInv'
  BY <1>1, QuietStep DEF BeginImport, IdleImport, StoreTypeOK
<1>2. ASSUME NEW i \in Importers, SaveFails(i) \/ ReturnResult(i)
      PROVE StoreInv'
  BY <1>2, QuietStep DEF SaveFails, ReturnResult, Ended, StoreTypeOK, ImportState
<1>3. ASSUME NEW i \in Importers, EndImport(i)
      PROVE StoreInv'
  BY <1>3, QuietStep DEF EndImport, IdleImport, StoreTypeOK
<1>4. CASE StoreCrash
  BY <1>4, QuietStep DEF StoreCrash, IdleImport
<1>5. CASE UNCHANGED storeVars
  BY <1>5, QuietStep DEF storeVars
<1> QED
  BY <1>1, <1>2, <1>3, <1>4, <1>5, SaveOneInv, RecordOneInv DEF StoreNext, ImportStep

THEOREM StoreInvariant == StoreSpec => []StoreInv
<1>1. StoreTypeOK /\ StoreInv /\ [StoreNext]_storeVars => StoreInv'
  BY StoreStepInv
<1> QED
  BY <1>1, StoreInitInv, StoreTyping, PTL DEF StoreSpec

-----------------------------------------------------------------------------
(* The properties, for any attachments, importers and failures              *)

\* No two importers, whatever they race on, give a report two rows: UNIQUE
\* (org_name, report_id) and the duplicate answer of SaveReportAt.
THEOREM StoreOneRow == StoreSpec => []OneRowPerReport
<1>1. StoreInv => OneRowPerReport
  BY DEF StoreInv
<1> QED
  BY <1>1, StoreInvariant, PTL

\* The ingest log never claims more imports than there are rows: the event of an
\* import is written once, by the importer whose transaction committed the row.
THEOREM StoreLogBacked == StoreSpec => []LogBackedByRows
<1>1. StoreInv => LogBackedByRows
  BY DEF StoreInv
<1> QED
  BY <1>1, StoreInvariant, PTL

\* Every refusal in the log still has its reason in the tables.
THEOREM StoreRefusals == StoreSpec => []RefusalsExplained
<1>1. StoreInv => RefusalsExplained
  BY DEF StoreInv, RefusalsExplained, RefusalsStand, Refused, IdReused, JunkNeverStored
<1> QED
  BY <1>1, StoreInvariant, PTL

-----------------------------------------------------------------------------
(* A call of SaveAttachments from the outside: what its steps do to the call  *)
(* itself, for the modules whose steps contain them.                         *)

LEMMA SaveOneEffect ==
    ASSUME StoreTypeOK, NEW i \in Importers, SaveOne(i)
    PROVE  \E a \in imp[i].todo : \E s \in Outcomes(a) :
              /\ rows' = IF s = "ok" THEN [rows EXCEPT ![a] = @ + 1] ELSE rows
              /\ imp'[i].state = "busy"
              /\ imp'[i].todo = imp[i].todo \ {a}
              /\ imp'[i].pending = {<<a, s>>}
              /\ imp'[i].imported = imp[i].imported
              /\ imp'[i].failed = imp[i].failed
              /\ \A j \in Importers \ {i} : imp'[j] = imp[j]
<1>1. PICK a \in imp[i].todo : \E s \in Outcomes(a) :
         /\ rows' = IF s = "ok" THEN [rows EXCEPT ![a] = @ + 1] ELSE rows
         /\ imp' = [imp EXCEPT ![i] = Decided(@, a, s)]
  BY DEF SaveOne
<1>2. PICK s \in Outcomes(a) :
         /\ rows' = IF s = "ok" THEN [rows EXCEPT ![a] = @ + 1] ELSE rows
         /\ imp' = [imp EXCEPT ![i] = Decided(@, a, s)]
  BY <1>1
<1>3. imp'[i] = Decided(imp[i], a, s) /\ \A j \in Importers \ {i} : imp'[j] = imp[j]
  BY <1>2 DEF StoreTypeOK
<1>4. imp[i] \in ImportState /\ imp[i].state = "busy"
  BY DEF StoreTypeOK, SaveOne
<1>5. /\ imp'[i].state = "busy" /\ imp'[i].todo = imp[i].todo \ {a}
      /\ imp'[i].pending = {<<a, s>>} /\ imp'[i].imported = imp[i].imported
      /\ imp'[i].failed = imp[i].failed
  BY <1>3, <1>4 DEF Decided, ImportState
<1> QED
  BY <1>2, <1>3, <1>5

LEMMA RecordOneEffect ==
    ASSUME StoreTypeOK, NEW i \in Importers, RecordOne(i)
    PROVE  /\ \E e \in imp[i].pending :
                 /\ imp'[i].imported = imp[i].imported + (IF e[2] = "ok" THEN 1 ELSE 0)
                 /\ imp'[i].failed = imp[i].failed + (IF e[2] = "parse_error" THEN 1 ELSE 0)
           /\ imp'[i].state = "busy"
           /\ imp'[i].todo = imp[i].todo
           /\ imp'[i].pending = {}
           /\ \A j \in Importers \ {i} : imp'[j] = imp[j]
           /\ rows' = rows
<1>1. PICK e \in imp[i].pending : imp' = [imp EXCEPT ![i] = Counted(@, e[2])]
  BY DEF RecordOne
<1>2. imp'[i] = Counted(imp[i], e[2]) /\ \A j \in Importers \ {i} : imp'[j] = imp[j]
  BY <1>1 DEF StoreTypeOK
<1>3. imp[i] \in ImportState /\ imp[i].state = "busy" /\ rows' = rows
  BY DEF StoreTypeOK, RecordOne
<1>4. /\ imp'[i].state = "busy" /\ imp'[i].todo = imp[i].todo /\ imp'[i].pending = {}
      /\ imp'[i].imported = imp[i].imported + (IF e[2] = "ok" THEN 1 ELSE 0)
      /\ imp'[i].failed = imp[i].failed + (IF e[2] = "parse_error" THEN 1 ELSE 0)
  BY <1>2, <1>3 DEF Counted, ImportState
<1> QED
  BY <1>2, <1>3, <1>4

LEMMA EndedEffect ==
    ASSUME StoreTypeOK, NEW i \in Importers, SaveFails(i) \/ ReturnResult(i)
    PROVE  /\ imp'[i].state = IF SaveFails(i) THEN "failed" ELSE "done"
           /\ imp'[i].todo = {}
           /\ imp'[i].pending = {} /\ imp[i].pending = {}
           /\ imp'[i].imported = imp[i].imported
           /\ imp'[i].failed = imp[i].failed
           /\ \A j \in Importers \ {i} : imp'[j] = imp[j]
           /\ rows' = rows
<1>1. ASSUME NEW how, imp' = [imp EXCEPT ![i] = Ended(@, how)]
      PROVE  /\ imp'[i].state = how
             /\ imp'[i].todo = {}
             /\ imp'[i].pending = imp[i].pending
             /\ imp'[i].imported = imp[i].imported
             /\ imp'[i].failed = imp[i].failed
             /\ \A j \in Importers \ {i} : imp'[j] = imp[j]
  BY <1>1 DEF Ended, StoreTypeOK, ImportState
<1>2. CASE SaveFails(i)
  BY <1>1, <1>2 DEF SaveFails
<1>3. CASE ReturnResult(i) /\ ~SaveFails(i)
  BY <1>1, <1>3 DEF ReturnResult
<1> QED
  BY <1>2, <1>3

\* No row is ever removed: a report that is stored stays stored.
LEMMA StoredStays ==
    ASSUME StoreTypeOK, [StoreNext]_storeVars, NEW a \in Attachments, IsStored(a)
    PROVE  IsStored(a)'
<1>1. \A b \in Attachments : rows[b] > 0 => rows'[b] > 0
  <2>1. ASSUME NEW i \in Importers, SaveOne(i)
        PROVE  \A b \in Attachments : rows[b] > 0 => rows'[b] > 0
    <3>1. PICK c \in imp[i].todo : rows' = rows \/ rows' = [rows EXCEPT ![c] = @ + 1]
      BY <2>1 DEF SaveOne
    <3> QED
      BY <3>1 DEF StoreTypeOK
  <2>2. CASE rows' = rows
    BY <2>2 DEF StoreTypeOK
  <2> QED
    BY <2>1, <2>2 DEF StoreNext, storeVars, BeginImport, ImportStep, SaveFails, RecordOne,
                      ReturnResult, EndImport, StoreCrash
<1>2. Stored(a) \subseteq Stored(a)'
  BY <1>1 DEF Stored, SameReport
<1> QED
  BY <1>2 DEF IsStored

\* Between calls an importer holds nothing; a call that is over has nothing left to
\* do and nothing undecided, and only a database error makes it fail.
CallShape ==
    \A i \in Importers :
        /\ imp[i].state = "idle" => imp[i] = IdleImport
        /\ imp[i].state \in {"done", "failed"} => imp[i].todo = {} /\ imp[i].pending = {}
        /\ imp[i].state = "failed" => "db" \in Faults

LEMMA CallShapeStep == StoreTypeOK /\ CallShape /\ [StoreNext]_storeVars => CallShape'
<1> SUFFICES ASSUME StoreTypeOK, CallShape, [StoreNext]_storeVars PROVE CallShape'
  OBVIOUS
<1>1. ASSUME NEW i \in Importers, NEW batch \in SUBSET Attachments, BeginImport(i, batch)
      PROVE  CallShape'
  BY <1>1 DEF BeginImport, IdleImport, StoreTypeOK, CallShape
<1>2. ASSUME NEW i \in Importers, SaveOne(i) PROVE CallShape'
  BY <1>2, SaveOneEffect DEF CallShape
<1>3. ASSUME NEW i \in Importers, RecordOne(i) PROVE CallShape'
  BY <1>3, RecordOneEffect DEF CallShape
<1>4. ASSUME NEW i \in Importers, SaveFails(i) \/ ReturnResult(i) PROVE CallShape'
  BY <1>4, EndedEffect DEF CallShape, SaveFails
<1>5. ASSUME NEW i \in Importers, EndImport(i) PROVE CallShape'
  BY <1>5 DEF EndImport, IdleImport, StoreTypeOK, CallShape
<1>6. CASE StoreCrash
  BY <1>6 DEF StoreCrash, IdleImport, CallShape
<1>7. CASE UNCHANGED storeVars
  BY <1>7 DEF storeVars, CallShape
<1> QED
  BY <1>1, <1>2, <1>3, <1>4, <1>5, <1>6, <1>7 DEF StoreNext, ImportStep

LEMMA StoreCalls == StoreSpec => []CallShape
<1>1. StoreInit => CallShape
  BY DEF StoreInit, CallShape, IdleImport
<1> QED
  BY <1>1, CallShapeStep, StoreTyping, PTL DEF StoreSpec

-----------------------------------------------------------------------------
(* The mailbox fetch uses the store as ReportStore says                     *)

LEMMA StoreStepAllowed ==
    ASSUME NEW i \in Importers, StoreStep(i)
    PROVE  StoreNext
BY DEF StoreStep, StoreNext

\* Every step of the fetch, of an upload and of a crash is a step of the store or
\* leaves it alone.
LEMMA StoreSteps == TypeOK /\ [Next]_vars => [StoreNext]_storeVars
<1> SUFFICES ASSUME TypeOK, [Next]_vars PROVE [StoreNext]_storeVars
  OBVIOUS
<1> USE IngestAssumption
<1>1. ASSUME NEW m \in Messages, Deliver(m) PROVE UNCHANGED storeVars
  BY <1>1 DEF Deliver
<1>2. CASE TriggerAll
  BY <1>2 DEF TriggerAll
<1>3. CASE WorkerStep
  <2>1. CASE ListAccounts \/ \E acc \in Accounts : StartAccount(acc)
    BY <2>1 DEF ListAccounts, StartAccount
  <2>2. CASE ConnectFails \/ ImapMove \/ ImapMoveFails \/ \E S \in SUBSET Messages : ImapScan(S)
    BY <2>2 DEF ConnectFails, ImapMove, ImapMoveFails, ImapScan
  <2>3. CASE GraphList \/ GraphMove \/ GraphMoveFails \/ GraphDone
             \/ \E m \in Messages : GraphSkip(m) \/ \E kept \in SUBSET Parts(m) : GraphFetch(m, kept)
    BY <2>3 DEF GraphList, GraphMove, GraphMoveFails, GraphDone, GraphSkip, GraphFetch
  <2>4. CASE MarkSeen
    <3>1. run.hand \in SUBSET Attachments
      BY DEF TypeOK, MailTypeOK, RunState
    <3> QED
      BY <2>4, <3>1 DEF MarkSeen, StoreNext
  <2>5. CASE MarkSeenFails \/ LoopDone \/ EvaluateInRun \/ FinishRun
    BY <2>5 DEF MarkSeenFails, LoopDone, EvaluateInRun, FinishRun
  <2>6. CASE StoreStep("fetch")
    BY <2>6, StoreStepAllowed
  <2>7. CASE AccountOk \/ ImportFailed
    BY <2>7 DEF AccountOk, ImportFailed, StoreNext
  <2> QED
    BY <1>3, <2>1, <2>2, <2>3, <2>4, <2>5, <2>6, <2>7 DEF WorkerStep
<1>4. CASE UploadStep
  <2>1. ASSUME NEW batch \in SUBSET UploadFiles, UploadFile(batch) PROVE StoreNext
    BY <2>1 DEF UploadFile, StoreNext
  <2>2. CASE StoreStep("upload")
    BY <2>2, StoreStepAllowed
  <2>3. CASE UploadFileDone \/ UploadFails
    BY <2>3 DEF UploadFileDone, UploadFails, StoreNext
  <2>4. CASE UploadRejected \/ UploadDone \/ EvaluateAfterUpload
    BY <2>4 DEF UploadRejected, UploadDone, EvaluateAfterUpload
  <2> QED
    BY <1>4, <2>1, <2>2, <2>3, <2>4 DEF UploadStep
<1>5. CASE Crash
  BY <1>5 DEF Crash, StoreNext
<1>6. CASE UNCHANGED vars
  BY <1>6 DEF vars
<1> QED
  BY <1>1, <1>2, <1>3, <1>4, <1>5, <1>6 DEF Next

-----------------------------------------------------------------------------
(* Typing                                                                   *)

LEMMA AccountFailedTyped ==
    ASSUME MailTypeOK, AccountFailed
    PROVE  /\ run' \in RunState
           /\ status' \in [Accounts -> {"never", "running", "ok", "error"}]
BY DEF MailTypeOK, AccountFailed, SetStatus, IdleRun, RunState, PCs

LEMMA IdleRunTyped == IdleRun \in RunState
BY DEF IdleRun, RunState, PCs

LEMMA MailInitTyped == Init => MailTypeOK
<1> SUFFICES ASSUME Init PROVE MailTypeOK
  OBVIOUS
<1>1. run \in RunState
  BY IdleRunTyped DEF Init
<1>2. MaxUploads \in 0 .. MaxUploads
  BY IngestAssumption
<1>3. upl \in UploadState
  BY <1>2 DEF Init, UploadState
<1> QED
  BY <1>1, <1>3 DEF Init, MailTypeOK

LEMMA WorkerTyped == TypeOK /\ WorkerStep => MailTypeOK'
<1> SUFFICES ASSUME TypeOK, WorkerStep PROVE MailTypeOK'
  OBVIOUS
<1> USE DEF TypeOK, MailTypeOK, RunState, PCs
<1>1. CASE ListAccounts
  BY <1>1 DEF ListAccounts, mailVars
<1>2. ASSUME NEW acc \in Accounts, StartAccount(acc) PROVE MailTypeOK'
  BY <1>2 DEF StartAccount, SetStatus
<1>3. CASE ConnectFails
  BY <1>3, AccountFailedTyped DEF ConnectFails
<1>4. ASSUME NEW S \in SUBSET Messages, ImapScan(S) PROVE MailTypeOK'
  BY <1>4 DEF ImapScan, mailVars, Unseen, Inbox, PartsOf
<1>5. CASE ImapMove
  BY <1>5 DEF ImapMove
<1>6. CASE ImapMoveFails
  <2>1. mail' \in [Messages -> {"absent", "inbox", "processed"}]
    BY <1>6 DEF ImapMoveFails
  <2> QED
    BY <1>6, <2>1, AccountFailedTyped DEF ImapMoveFails
<1>7. CASE GraphList
  BY <1>7 DEF GraphList, mailVars, Unseen, Inbox
<1>8. ASSUME NEW m \in Messages, GraphSkip(m) PROVE MailTypeOK'
  BY <1>8 DEF GraphSkip, mailVars
<1>9. ASSUME NEW m \in Messages, NEW kept \in SUBSET Parts(m), GraphFetch(m, kept)
      PROVE MailTypeOK'
  <2>1. kept \subseteq Attachments
    BY DEF Parts
  <2>2. run.work \ {m} \in SUBSET Messages /\ run.free \cup {m} \in SUBSET Messages
        /\ run.hand \cup kept \in SUBSET Attachments /\ {m} \in SUBSET Messages
    BY <2>1
  <2>3. run' \in RunState
    <3>1. \A w, f \in SUBSET Messages : [run EXCEPT !.work = w, !.free = f] \in RunState
      OBVIOUS
    <3>2. \A w, d \in SUBSET Messages : \A h \in SUBSET Attachments :
             [run EXCEPT !.pc = "graphmove", !.work = w, !.hand = h, !.done = d] \in RunState
      OBVIOUS
    <3>3. CASE kept = {}
      <4>1. run' = [run EXCEPT !.work = run.work \ {m}, !.free = run.free \cup {m}]
        BY <1>9, <3>3 DEF GraphFetch
      <4> QED
        BY <2>2, <3>1, <4>1
    <3>4. CASE kept # {}
      <4>1. run' = [run EXCEPT !.pc = "graphmove", !.work = run.work \ {m},
                               !.hand = run.hand \cup kept, !.done = {m}]
        BY <1>9, <3>4 DEF GraphFetch
      <4> QED
        BY <2>2, <3>2, <4>1
    <3> QED
      BY <3>3, <3>4
  <2> QED
    BY <1>9, <2>3 DEF GraphFetch, mailVars
<1>10. CASE GraphMove
  BY <1>10 DEF GraphMove
<1>11. CASE GraphMoveFails
  <2>1. mail' \in [Messages -> {"absent", "inbox", "processed"}]
    BY <1>11 DEF GraphMoveFails
  <2> QED
    BY <1>11, <2>1, AccountFailedTyped DEF GraphMoveFails
<1>12. CASE GraphDone
  BY <1>12 DEF GraphDone, mailVars
<1>13. CASE MarkSeen
  BY <1>13 DEF MarkSeen
<1>14. CASE MarkSeenFails
  BY <1>14, AccountFailedTyped DEF MarkSeenFails
<1>15. CASE StoreStep("fetch")
  BY <1>15 DEF StoreStep, mailVars
<1>16. CASE AccountOk
  <2>1. imp["fetch"].imported \in Nat
    BY IngestAssumption DEF StoreTypeOK, ImportState
  <2>2. run.total + imp["fetch"].imported \in Nat
    BY <2>1
  <2>3. run' \in RunState
    BY <1>16, <2>2 DEF AccountOk, IdleRun
  <2> QED
    BY <1>16, <2>3 DEF AccountOk, SetStatus
<1>17. CASE ImportFailed
  BY <1>17, AccountFailedTyped DEF ImportFailed
<1>18. CASE LoopDone
  BY <1>18 DEF LoopDone, mailVars
<1>19. CASE EvaluateInRun
  BY <1>19 DEF EvaluateInRun, mailVars
<1>20. CASE FinishRun
  BY <1>20 DEF FinishRun, mailVars, IdleRun
<1> QED
  BY <1>1, <1>2, <1>3, <1>4, <1>5, <1>6, <1>7, <1>8, <1>9, <1>10, <1>11, <1>12, <1>13,
     <1>14, <1>15, <1>16, <1>17, <1>18, <1>19, <1>20 DEF WorkerStep

LEMMA UploadTyped == TypeOK /\ UploadStep => MailTypeOK'
<1> SUFFICES ASSUME TypeOK, UploadStep PROVE MailTypeOK'
  OBVIOUS
<1> USE DEF TypeOK, MailTypeOK, UploadState
<1>1. ASSUME NEW batch \in SUBSET UploadFiles, UploadFile(batch) PROVE MailTypeOK'
  <2>1. upl.left - 1 \in 0 .. MaxUploads
    BY <1>1, IngestAssumption DEF UploadFile
  <2>2. upl' \in UploadState
    BY <1>1, <2>1 DEF UploadFile
  <2> QED
    BY <1>1, <2>2 DEF UploadFile, mailVars
<1>2. CASE StoreStep("upload")
  BY <1>2 DEF StoreStep, mailVars
<1>3. CASE UploadFileDone
  <2>1. imp["upload"].imported \in Nat
    BY IngestAssumption DEF StoreTypeOK, ImportState
  <2>2. upl.imported + imp["upload"].imported \in Nat
    BY <2>1
  <2>3. upl' \in UploadState
    BY <1>3, <2>2 DEF UploadFileDone
  <2> QED
    BY <1>3, <2>3 DEF UploadFileDone, mailVars
<1>4. CASE UploadFails
  BY <1>4 DEF UploadFails, mailVars
<1>5. CASE UploadRejected
  BY <1>5 DEF UploadRejected, mailVars
<1>6. CASE UploadDone
  BY <1>6 DEF UploadDone, mailVars
<1>7. CASE EvaluateAfterUpload
  BY <1>7 DEF EvaluateAfterUpload, mailVars
<1> QED
  BY <1>1, <1>2, <1>3, <1>4, <1>5, <1>6, <1>7 DEF UploadStep

LEMMA MailStepTyped == TypeOK /\ [Next]_vars => TypeOK'
<1> SUFFICES ASSUME TypeOK, [Next]_vars PROVE TypeOK'
  OBVIOUS
<1>1. StoreTypeOK'
  BY StoreSteps, StoreStepTyped DEF TypeOK
<1>2. MailTypeOK'
  <2>1. ASSUME NEW m \in Messages, Deliver(m) PROVE MailTypeOK'
    BY <2>1 DEF Deliver, TypeOK, MailTypeOK
  <2>2. CASE TriggerAll
    BY <2>2 DEF TriggerAll, TypeOK, MailTypeOK, mailVars, IdleRun, RunState, PCs
  <2>3. CASE Crash
    BY <2>3 DEF Crash, TypeOK, MailTypeOK, mailVars, IdleRun, RunState, UploadState, PCs
  <2>4. CASE UNCHANGED vars
    BY <2>4 DEF vars, TypeOK, MailTypeOK, mailVars
  <2> QED
    BY <2>1, <2>2, <2>3, <2>4, WorkerTyped, UploadTyped DEF Next
<1> QED
  BY <1>1, <1>2 DEF TypeOK

\* Tables, log, mailboxes, caches and what is in progress have their types.
THEOREM MailTyping == Spec => []TypeOK
<1>1. Init => TypeOK
  BY StoreInitTyped, MailInitTyped DEF Init, TypeOK
<1> QED
  BY <1>1, MailStepTyped, PTL DEF Spec

-----------------------------------------------------------------------------
(* The store's theorems, for the whole mailbox fetch                        *)

\* The mailbox fetch and the uploads are two importers of ReportStore: nothing the
\* worker, the mail paths or a crash does reaches around SaveAttachments.
THEOREM MailImplementsStore == Spec => StoreSpec
<1>1. Init => StoreInit
  BY DEF Init
<1> QED
  BY <1>1, StoreSteps, MailTyping, PTL DEF Spec, StoreSpec

\* A report has one row at most, whatever the fetch, the uploads and crashes do.
THEOREM MailOneRow == Spec => []OneRowPerReport
BY MailImplementsStore, StoreOneRow, PTL

\* The ingest log of a whole installation never claims more imports than rows.
THEOREM MailLogBacked == Spec => []LogBackedByRows
BY MailImplementsStore, StoreLogBacked, PTL

\* Every refusal it tells of has its reason in the tables.
THEOREM MailRefusals == Spec => []RefusalsExplained
BY MailImplementsStore, StoreRefusals, PTL

-----------------------------------------------------------------------------
(* What a fetch has in hand.  The messages to move are still in the inbox,   *)
(* the files to import come from messages that were moved or are about to    *)
(* be, and what an IMAP fetch will remember as report-free is report-free.   *)

Handling == {"move", "graph", "graphmove", "mark", "save"}

InInbox == {m \in Messages : mail[m] = "inbox"}
Processed == {m \in Messages : mail[m] = "processed"}

NothingInHand ==
    run.pc \notin Handling =>
        run.work = {} /\ run.hand = {} /\ run.done = {} /\ run.free = {}

FreeIsReportFree ==
    run.acc \in Accounts /\ ProviderOf[run.acc] = "imap" =>
        /\ run.pc \notin {"graph", "graphmove"}
        /\ \A m \in run.free : Parts(m) = {}

ToMoveInInbox ==
    /\ run.pc \in {"move", "graphmove"} => run.done \subseteq InInbox
    /\ run.pc \in {"graph", "graphmove"} => run.work \subseteq InInbox
    /\ run.pc = "graphmove" => run.work \cap run.done = {}

HandFromMoved ==
    \A a \in run.hand :
        \/ MessageOf[a] \in Processed
        \/ run.pc \in {"move", "graphmove"} /\ MessageOf[a] \in run.done

\* Nothing reaches the tables before its mail is moved, or but by an upload.
ImportsFromMoved ==
    /\ \A a \in imp["fetch"].todo : MessageOf[a] \in Processed
    /\ imp["upload"].todo \subseteq UploadFiles

HandInv == NothingInHand /\ FreeIsReportFree /\ ToMoveInInbox /\ HandFromMoved

LEMMA EmptyHand ==
    ASSUME run'.work = {}, run'.hand = {}, run'.done = {}, run'.free = {},
           run'.pc \notin {"graph", "graphmove"}
    PROVE  HandInv'
BY DEF HandInv, NothingInHand, FreeIsReportFree, ToMoveInInbox, HandFromMoved

LEMMA AccountFailedHand ==
    ASSUME AccountFailed
    PROVE  HandInv'
BY EmptyHand DEF AccountFailed, IdleRun

LEMMA SameHand ==
    ASSUME HandInv, run' = run,
           \A m \in Messages : mail[m] # "absent" => mail'[m] = mail[m]
    PROVE  HandInv'
<1>1. InInbox \subseteq InInbox' /\ Processed \subseteq Processed'
  BY DEF InInbox, Processed
<1> QED
  BY <1>1 DEF HandInv, NothingInHand, FreeIsReportFree, ToMoveInInbox, HandFromMoved

LEMMA ImapScanHand ==
    ASSUME TypeOK, HandInv, NEW S \in SUBSET Messages, ImapScan(S)
    PROVE  HandInv'
<1> DEFINE got == Unseen(run.acc) \ S
           carrying == {m \in got : Parts(m) # {}}
<1>1. run' = [run EXCEPT !.pc = "move", !.hand = PartsOf(carrying),
                         !.done = carrying, !.free = got \ carrying]
  BY DEF ImapScan
<1>2. run'.pc = "move" /\ run'.hand = PartsOf(carrying) /\ run'.done = carrying
      /\ run'.free = got \ carrying /\ run'.acc = run.acc /\ run'.work = run.work
  BY <1>1 DEF TypeOK, MailTypeOK, RunState
<1>3. carrying \subseteq InInbox' /\ \A m \in got \ carrying : Parts(m) = {}
  BY DEF Unseen, Inbox, InInbox, ImapScan, mailVars
<1>4. \A a \in PartsOf(carrying) : MessageOf[a] \in carrying
  BY DEF PartsOf
<1> HIDE DEF got, carrying
<1> QED
  BY <1>2, <1>3, <1>4
  DEF HandInv, Handling, NothingInHand, FreeIsReportFree, ToMoveInInbox, HandFromMoved

LEMMA MoveHand ==
    ASSUME TypeOK, HandInv, ImapMove \/ GraphMove
    PROVE  HandInv'
<1> DEFINE moved(m) == IF m \in run.done THEN "processed" ELSE mail[m]
<1>1. mail' = [m \in Messages |-> moved(m)]
  BY DEF ImapMove, GraphMove
<1>2. Processed \subseteq Processed' /\ run.done \subseteq Processed'
  BY <1>1 DEF Processed, TypeOK, MailTypeOK, RunState
<1>3. \A a \in run.hand : MessageOf[a] \in Processed'
  BY <1>2 DEF HandInv, HandFromMoved
<1>4. CASE ImapMove
  <2>1. run' = [run EXCEPT !.pc = "mark"]
    BY <1>4 DEF ImapMove
  <2>2. run'.pc = "mark" /\ run'.hand = run.hand /\ run'.free = run.free
        /\ run'.acc = run.acc
    BY <2>1 DEF TypeOK, MailTypeOK, RunState
  <2> QED
    BY <1>3, <2>2
    DEF HandInv, Handling, NothingInHand, FreeIsReportFree, ToMoveInInbox, HandFromMoved
<1>5. CASE GraphMove
  <2>1. run.pc = "graphmove" /\ run' = [run EXCEPT !.pc = "graph", !.done = {}]
    BY <1>5 DEF GraphMove
  <2>2. run'.pc = "graph" /\ run'.hand = run.hand /\ run'.free = run.free /\ run'.done = {}
        /\ run'.work = run.work /\ run'.acc = run.acc
    BY <2>1 DEF TypeOK, MailTypeOK, RunState
  <2>3. run.work \subseteq InInbox'
    BY <1>1, <2>1 DEF HandInv, ToMoveInInbox, InInbox, TypeOK, MailTypeOK
  <2> QED
    BY <1>3, <2>1, <2>2, <2>3
    DEF HandInv, Handling, NothingInHand, FreeIsReportFree, ToMoveInInbox, HandFromMoved
<1> QED
  BY <1>4, <1>5

LEMMA GraphFetchHand ==
    ASSUME TypeOK, HandInv, NEW m \in Messages, NEW kept \in SUBSET Parts(m),
           GraphFetch(m, kept)
    PROVE  HandInv'
<1>1. run.pc = "graph" /\ m \in run.work /\ mail' = mail
  BY DEF GraphFetch, mailVars
<1>2. InInbox' = InInbox /\ Processed' = Processed
  BY <1>1 DEF InInbox, Processed
<1>3. \A a \in run.hand : MessageOf[a] \in Processed
  BY <1>1 DEF HandInv, HandFromMoved
<1>4. run.work \subseteq InInbox /\ ~(run.acc \in Accounts /\ ProviderOf[run.acc] = "imap")
  BY <1>1 DEF HandInv, ToMoveInInbox, FreeIsReportFree
<1>5. CASE kept = {}
  <2>1. run' = [run EXCEPT !.work = run.work \ {m}, !.free = run.free \cup {m}]
    BY <1>5 DEF GraphFetch
  <2>2. run'.pc = run.pc /\ run'.acc = run.acc /\ run'.hand = run.hand
        /\ run'.work = run.work \ {m}
    BY <2>1 DEF TypeOK, MailTypeOK, RunState
  <2>3. run'.done = run.done
    BY <2>1 DEF TypeOK, MailTypeOK, RunState
  <2> QED
    BY <1>1, <1>2, <1>3, <1>4, <2>2, <2>3
    DEF HandInv, Handling, NothingInHand, FreeIsReportFree, ToMoveInInbox, HandFromMoved
<1>6. CASE kept # {}
  <2>1. run' = [run EXCEPT !.pc = "graphmove", !.work = run.work \ {m},
                           !.hand = run.hand \cup kept, !.done = {m}]
    BY <1>6 DEF GraphFetch
  <2>2. run'.pc = "graphmove" /\ run'.acc = run.acc /\ run'.hand = run.hand \cup kept
        /\ run'.work = run.work \ {m} /\ run'.done = {m}
    BY <2>1 DEF TypeOK, MailTypeOK, RunState
  <2>3. \A a \in kept : MessageOf[a] = m
    BY DEF Parts
  <2> QED
    BY <1>1, <1>2, <1>3, <1>4, <2>2, <2>3
    DEF HandInv, Handling, NothingInHand, FreeIsReportFree, ToMoveInInbox, HandFromMoved
<1> QED
  BY <1>5, <1>6

LEMMA WorkerHand == TypeOK /\ HandInv /\ WorkerStep => HandInv'
<1> SUFFICES ASSUME TypeOK, HandInv, WorkerStep PROVE HandInv'
  OBVIOUS
<1>1. CASE ListAccounts \/ LoopDone \/ EvaluateInRun \/ \E acc \in Accounts : StartAccount(acc)
  <2>1. run.pc \in {"list", "next", "eval"}
    BY <1>1 DEF ListAccounts, LoopDone, EvaluateInRun, StartAccount
  <2>2. run'.pc \notin {"graph", "graphmove"}
    BY <1>1 DEF ListAccounts, LoopDone, EvaluateInRun, StartAccount,
                TypeOK, MailTypeOK, RunState
  <2>3. run'.work = run.work /\ run'.hand = run.hand
    BY <1>1 DEF ListAccounts, LoopDone, EvaluateInRun, StartAccount,
                TypeOK, MailTypeOK, RunState
  <2>4. run'.done = run.done /\ run'.free = run.free
    BY <1>1 DEF ListAccounts, LoopDone, EvaluateInRun, StartAccount,
                TypeOK, MailTypeOK, RunState
  <2> QED
    BY <2>1, <2>2, <2>3, <2>4, EmptyHand DEF HandInv, NothingInHand, Handling
<1>2. CASE ConnectFails \/ ImapMoveFails \/ GraphMoveFails \/ MarkSeenFails \/ ImportFailed
  BY <1>2, AccountFailedHand
  DEF ConnectFails, ImapMoveFails, GraphMoveFails, MarkSeenFails, ImportFailed
<1>3. CASE GraphList
  <2>1. run.pc = "scan" /\ ProviderOf[run.acc] = "graph"
        /\ run' = [run EXCEPT !.pc = "graph", !.work = Unseen(run.acc)] /\ mail' = mail
    BY <1>3 DEF GraphList, mailVars
  <2>2. run'.pc = "graph" /\ run'.acc = run.acc /\ run'.hand = run.hand
        /\ run'.work = Unseen(run.acc)
    BY <2>1 DEF TypeOK, MailTypeOK, RunState
  <2>3. run.hand = {} /\ Unseen(run.acc) \subseteq InInbox'
    BY <2>1 DEF HandInv, NothingInHand, Handling, Unseen, Inbox, InInbox
  <2> QED
    BY <2>1, <2>2, <2>3
    DEF HandInv, Handling, NothingInHand, FreeIsReportFree, ToMoveInInbox, HandFromMoved
<1>4. ASSUME NEW m \in Messages, GraphSkip(m) PROVE HandInv'
  <2>1. run.pc = "graph" /\ run' = [run EXCEPT !.work = run.work \ {m}] /\ mail' = mail
    BY <1>4 DEF GraphSkip, mailVars
  <2>2. run'.pc = "graph" /\ run'.acc = run.acc /\ run'.hand = run.hand
        /\ run'.work = run.work \ {m}
    BY <2>1 DEF TypeOK, MailTypeOK, RunState
  <2> QED
    BY <2>1, <2>2 DEF HandInv, Handling, NothingInHand, FreeIsReportFree, ToMoveInInbox,
                      HandFromMoved, InInbox, Processed
<1>5. CASE GraphDone \/ MarkSeen
  <2>1. run.pc \in {"graph", "mark"} /\ run'.pc \in {"mark", "save"} /\ mail' = mail
    BY <1>5 DEF GraphDone, MarkSeen, mailVars, TypeOK, MailTypeOK, RunState
  <2>2. run'.acc = run.acc /\ run'.hand = run.hand /\ run'.free = run.free
    BY <1>5 DEF GraphDone, MarkSeen, TypeOK, MailTypeOK, RunState
  <2>3. \A a \in run.hand : MessageOf[a] \in Processed'
    BY <2>1 DEF HandInv, HandFromMoved, Processed
  <2>4. FreeIsReportFree'
    BY <2>1, <2>2 DEF HandInv, FreeIsReportFree
  <2>5. HandFromMoved'
    BY <2>2, <2>3 DEF HandFromMoved
  <2> QED
    BY <2>1, <2>4, <2>5 DEF HandInv, Handling, NothingInHand, ToMoveInInbox
<1>6. CASE StoreStep("fetch")
  BY <1>6, SameHand DEF StoreStep, mailVars
<1>7. CASE AccountOk
  BY <1>7, EmptyHand DEF AccountOk, IdleRun
<1>8. CASE FinishRun
  BY <1>8, EmptyHand DEF FinishRun, IdleRun
<1> QED
  BY <1>1, <1>2, <1>3, <1>4, <1>5, <1>6, <1>7, <1>8, ImapScanHand, MoveHand,
     GraphFetchHand
  DEF WorkerStep

LEMMA HandStep == TypeOK /\ HandInv /\ [Next]_vars => HandInv'
<1> SUFFICES ASSUME TypeOK, HandInv, [Next]_vars PROVE HandInv'
  OBVIOUS
<1>1. ASSUME NEW m \in Messages, Deliver(m) PROVE HandInv'
  BY <1>1, SameHand DEF Deliver, TypeOK, MailTypeOK
<1>2. CASE TriggerAll \/ Crash
  BY <1>2, EmptyHand DEF TriggerAll, Crash, IdleRun
<1>3. CASE UploadStep
  <2>1. run' = run /\ mail' = mail
    BY <1>3 DEF UploadStep, UploadFile, StoreStep, UploadFileDone, UploadFails,
                UploadRejected, UploadDone, EvaluateAfterUpload, mailVars
  <2> QED
    BY <2>1, SameHand
<1>4. CASE UNCHANGED vars
  BY <1>4, SameHand DEF vars, mailVars
<1> QED
  BY <1>1, <1>2, <1>3, <1>4, WorkerHand DEF Next

-----------------------------------------------------------------------------
(* The caches of examined messages                                          *)

\* Only MarkSeen writes the caches.
LEMMA SeenKept ==
    ASSUME [Next]_vars, ~MarkSeen
    PROVE  seen' = seen
<1>1. CASE WorkerStep
  BY <1>1
  DEF WorkerStep, ListAccounts, StartAccount, ConnectFails, ImapScan, ImapMove, ImapMoveFails,
      GraphList, GraphSkip, GraphFetch, GraphMove, GraphMoveFails, GraphDone, MarkSeenFails,
      StoreStep, AccountOk, ImportFailed, LoopDone, EvaluateInRun, FinishRun, mailVars
<1>2. CASE UploadStep
  BY <1>2 DEF UploadStep, UploadFile, StoreStep, UploadFileDone, UploadFails,
              UploadRejected, UploadDone, EvaluateAfterUpload, mailVars
<1>3. CASE TriggerAll \/ Crash \/ UNCHANGED vars \/ \E m \in Messages : Deliver(m)
  BY <1>3 DEF TriggerAll, Crash, Deliver, vars, mailVars
<1> QED
  BY <1>1, <1>2, <1>3 DEF Next

LEMMA SeenStep == TypeOK /\ HandInv /\ ImapSeenIsReportFree /\ [Next]_vars
                    => ImapSeenIsReportFree'
<1> SUFFICES ASSUME TypeOK, HandInv, ImapSeenIsReportFree, [Next]_vars
             PROVE  ImapSeenIsReportFree'
  OBVIOUS
<1>1. CASE MarkSeen
  <2>1. seen' = [seen EXCEPT ![run.acc] = seen[run.acc] \cup run.free]
    BY <1>1 DEF MarkSeen
  <2> QED
    BY <2>1 DEF ImapSeenIsReportFree, HandInv, FreeIsReportFree, TypeOK, MailTypeOK
<1>2. CASE ~MarkSeen
  BY <1>2, SeenKept DEF ImapSeenIsReportFree
<1> QED
  BY <1>1, <1>2

THEOREM MailInHand == Spec => [](HandInv /\ ImapSeenIsReportFree)
<1>1. Init => HandInv /\ ImapSeenIsReportFree
  BY DEF Init, IdleRun, HandInv, NothingInHand, FreeIsReportFree, ToMoveInInbox,
         HandFromMoved, ImapSeenIsReportFree
<1>2. TypeOK /\ HandInv /\ ImapSeenIsReportFree /\ [Next]_vars
         => (HandInv /\ ImapSeenIsReportFree)'
  BY HandStep, SeenStep
<1> QED
  BY <1>1, <1>2, MailTyping, PTL DEF Spec

\* An IMAP account's cache never holds a message that carries a report, wherever a
\* fetch fails or the process dies (imap.FetchReports marks what it has downloaded
\* and found report-free).
THEOREM MailSeenReportFree == Spec => []ImapSeenIsReportFree
BY MailInHand, PTL

-----------------------------------------------------------------------------
(* With no attachment failing to decode, the caches of both providers        *)

\* What a run is about to remember as examined carries no report.
FreeCarriesNothing == \A m \in run.free : Parts(m) = {}

\* Only the two scans add to it.
LEMMA FreeShrinks ==
    ASSUME TypeOK, [Next]_vars,
           ~\E S \in SUBSET Messages : ImapScan(S),
           ~\E m \in Messages : \E kept \in SUBSET Parts(m) : GraphFetch(m, kept)
    PROVE  run'.free \subseteq run.free
<1>2. CASE AccountFailed \/ AccountOk \/ FinishRun \/ TriggerAll \/ Crash
  <2>1. CASE AccountFailed
    BY <2>1 DEF AccountFailed, IdleRun
  <2>2. CASE AccountOk
    BY <2>2 DEF AccountOk, IdleRun
  <2>3. CASE FinishRun \/ TriggerAll \/ Crash
    BY <2>3 DEF FinishRun, TriggerAll, Crash, IdleRun
  <2> QED
    BY <1>2, <2>1, <2>2, <2>3
<1>3. CASE WorkerStep /\ ~(AccountFailed \/ AccountOk \/ FinishRun)
  BY <1>3
  DEF WorkerStep, ListAccounts, StartAccount, ConnectFails, ImapMove, ImapMoveFails,
      GraphList, GraphSkip, GraphMove, GraphMoveFails, GraphDone, MarkSeen, MarkSeenFails,
      StoreStep, ImportFailed, LoopDone, EvaluateInRun, TypeOK, MailTypeOK, RunState
<1>4. CASE UploadStep
  BY <1>4 DEF UploadStep, UploadFile, StoreStep, UploadFileDone, UploadFails,
              UploadRejected, UploadDone, EvaluateAfterUpload
<1>5. CASE UNCHANGED vars \/ \E m \in Messages : Deliver(m)
  BY <1>5 DEF vars, Deliver
<1> QED
  BY <1>2, <1>3, <1>4, <1>5 DEF Next

LEMMA FreeStep ==
    ASSUME "decode" \notin Faults, TypeOK, FreeCarriesNothing, [Next]_vars
    PROVE  FreeCarriesNothing'
<1>1. ASSUME NEW S \in SUBSET Messages, ImapScan(S) PROVE FreeCarriesNothing'
  <2> DEFINE got == Unseen(run.acc) \ S
             carrying == {m \in got : Parts(m) # {}}
  <2>1. run' = [run EXCEPT !.pc = "move", !.hand = PartsOf(carrying),
                           !.done = carrying, !.free = got \ carrying]
    BY <1>1 DEF ImapScan
  <2>2. run'.free = got \ carrying
    BY <2>1 DEF TypeOK, MailTypeOK, RunState
  <2> QED
    BY <2>2 DEF FreeCarriesNothing, Parts
<1>2. ASSUME NEW m \in Messages, NEW kept \in SUBSET Parts(m), GraphFetch(m, kept)
      PROVE  FreeCarriesNothing'
  <2>1. kept = Parts(m)
    BY <1>2 DEF GraphFetch
  <2>2. CASE kept = {}
    <3>1. run'.free = run.free \cup {m}
      BY <1>2, <2>2 DEF GraphFetch, TypeOK, MailTypeOK, RunState
    <3> QED
      BY <2>1, <2>2, <3>1 DEF FreeCarriesNothing, Parts
  <2>3. CASE kept # {}
    <3>1. run'.free = run.free
      BY <1>2, <2>3 DEF GraphFetch, TypeOK, MailTypeOK, RunState
    <3> QED
      BY <3>1 DEF FreeCarriesNothing, Parts
  <2> QED
    BY <2>2, <2>3
<1>3. CASE run'.free \subseteq run.free
  BY <1>3 DEF FreeCarriesNothing, Parts
<1> QED
  BY <1>1, <1>2, <1>3, FreeShrinks

\* Unless an attachment fails to decode, neither the IMAP nor the Graph cache of
\* examined messages ever holds a message that carries a report, whatever else
\* fails (graph.FetchReports takes a message for report-free only when none of its
\* attachments could be read).
THEOREM MailSeenExact ==
    ASSUME "decode" \notin Faults
    PROVE  Spec => []SeenIsReportFree
<1>1. Init => FreeCarriesNothing /\ SeenIsReportFree
  BY DEF Init, IdleRun, FreeCarriesNothing, SeenIsReportFree
<1>2. TypeOK /\ FreeCarriesNothing /\ SeenIsReportFree /\ [Next]_vars
         => FreeCarriesNothing' /\ SeenIsReportFree'
  <2> SUFFICES ASSUME TypeOK, FreeCarriesNothing, SeenIsReportFree, [Next]_vars
               PROVE  SeenIsReportFree'
    BY FreeStep
  <2>1. CASE MarkSeen
    <3>1. seen' = [seen EXCEPT ![run.acc] = seen[run.acc] \cup run.free]
      BY <2>1 DEF MarkSeen
    <3> QED
      BY <3>1 DEF SeenIsReportFree, FreeCarriesNothing, Parts, TypeOK, MailTypeOK
  <2>2. CASE ~MarkSeen
    BY <2>2, SeenKept DEF SeenIsReportFree, Parts
  <2> QED
    BY <2>1, <2>2
<1> QED
  BY <1>1, <1>2, MailTyping, PTL DEF Spec

-----------------------------------------------------------------------------
(* The status of the accounts, while neither a crash nor a failing status     *)
(* write leaves one behind.                                                  *)

\* The run holds an account exactly between StartAccount and the account's end.
BetweenAccounts == {"idle", "list", "next", "eval", "finish"}

HoldsAccount == run.acc = None <=> run.pc \in BetweenAccounts

LEMMA StatusStep ==
    ASSUME Faults \cap {"crash", "status"} = {},
           TypeOK, StatusTruthful, HoldsAccount, [Next]_vars
    PROVE  StatusTruthful' /\ HoldsAccount'
<1> USE IngestAssumption DEF BetweenAccounts
<1> DEFINE Fails == ConnectFails \/ ImapMoveFails \/ GraphMoveFails \/ MarkSeenFails
                    \/ ImportFailed
<1>1. ASSUME NEW acc \in Accounts, StartAccount(acc) PROVE StatusTruthful' /\ HoldsAccount'
  <2>1. status' = [status EXCEPT ![acc] = "running"]
    BY <1>1 DEF StartAccount, SetStatus
  <2>2. run.acc = None /\ run'.acc = acc /\ run'.pc = "scan"
    BY <1>1 DEF StartAccount, HoldsAccount, TypeOK, MailTypeOK, RunState
  <2> QED
    BY <2>1, <2>2 DEF StatusTruthful, HoldsAccount, TypeOK, MailTypeOK
<1>2. CASE Fails \/ AccountOk
  <2>1. run.pc \notin BetweenAccounts
    BY <1>2 DEF ConnectFails, ImapMoveFails, GraphMoveFails, MarkSeenFails, ImportFailed,
                AccountOk
  <2>2. run.acc \in Accounts
    BY <2>1 DEF HoldsAccount, TypeOK, MailTypeOK, RunState
  <2>3. status' = [status EXCEPT ![run.acc] = "error"]
        \/ status' = [status EXCEPT ![run.acc] = "ok"]
    BY <1>2 DEF ConnectFails, ImapMoveFails, GraphMoveFails, MarkSeenFails, ImportFailed,
                AccountOk, AccountFailed, SetStatus
  <2>4. run'.acc = None /\ run'.pc = "next"
    BY <1>2 DEF ConnectFails, ImapMoveFails, GraphMoveFails, MarkSeenFails, ImportFailed,
                AccountOk, AccountFailed, IdleRun
  <2> QED
    BY <2>2, <2>3, <2>4 DEF StatusTruthful, HoldsAccount, TypeOK, MailTypeOK
<1>3. ASSUME status' = status, run'.acc = run.acc,
             run'.pc \in BetweenAccounts <=> run.pc \in BetweenAccounts
      PROVE  StatusTruthful' /\ HoldsAccount'
  BY <1>3 DEF StatusTruthful, HoldsAccount
<1>4. CASE TriggerAll \/ FinishRun
  BY <1>3, <1>4 DEF TriggerAll, FinishRun, mailVars, IdleRun, HoldsAccount
<1>5. CASE ListAccounts \/ LoopDone \/ EvaluateInRun
  BY <1>3, <1>5 DEF ListAccounts, LoopDone, EvaluateInRun, mailVars, TypeOK, MailTypeOK, RunState
<1>6. CASE ImapMove \/ GraphMove
  BY <1>3, <1>6 DEF ImapMove, GraphMove, TypeOK, MailTypeOK, RunState
<1>7. CASE GraphList \/ GraphDone \/ MarkSeen
  BY <1>3, <1>7 DEF GraphList, GraphDone, MarkSeen, mailVars, TypeOK, MailTypeOK, RunState
<1>8. ASSUME NEW S \in SUBSET Messages, ImapScan(S) PROVE StatusTruthful' /\ HoldsAccount'
  <2>1. status' = status /\ run.pc = "scan"
    BY <1>8 DEF ImapScan, mailVars
  <2>2. run'.acc = run.acc /\ run'.pc = "move"
    BY <1>8 DEF ImapScan, TypeOK, MailTypeOK, RunState
  <2> QED
    BY <1>3, <2>1, <2>2
<1>9. ASSUME NEW m \in Messages, GraphSkip(m) PROVE StatusTruthful' /\ HoldsAccount'
  BY <1>3, <1>9 DEF GraphSkip, mailVars, TypeOK, MailTypeOK, RunState
<1>10. ASSUME NEW m \in Messages, NEW kept \in SUBSET Parts(m), GraphFetch(m, kept)
       PROVE  StatusTruthful' /\ HoldsAccount'
  BY <1>3, <1>10 DEF GraphFetch, mailVars, TypeOK, MailTypeOK, RunState
<1>11. CASE UploadStep \/ StoreStep("fetch") \/ UNCHANGED vars \/ \E m \in Messages : Deliver(m)
  BY <1>3, <1>11 DEF UploadStep, UploadFile, StoreStep, UploadFileDone, UploadFails,
                     UploadRejected, UploadDone, EvaluateAfterUpload, Deliver, vars, mailVars
<1>12. ~Crash
  BY DEF Crash
<1> QED
  BY <1>1, <1>2, <1>4, <1>5, <1>6, <1>7, <1>8, <1>9, <1>10, <1>11, <1>12 DEF Next, WorkerStep

\* The Accounts page shows "running" on exactly the account the run is working on,
\* however its connections, downloads, moves and imports fail: every way out of
\* runAll's loop body writes a status.
THEOREM MailStatusTruthful ==
    ASSUME Faults \cap {"crash", "status"} = {}
    PROVE  Spec => []StatusTruthful
<1>1. Init => StatusTruthful /\ HoldsAccount
  BY IngestAssumption DEF Init, IdleRun, StatusTruthful, HoldsAccount, BetweenAccounts
<1>2. TypeOK /\ StatusTruthful /\ HoldsAccount /\ [Next]_vars
         => StatusTruthful' /\ HoldsAccount'
  BY StatusStep
<1> QED
  BY <1>1, <1>2, MailTyping, PTL DEF Spec

-----------------------------------------------------------------------------
(* The two calls of SaveAttachments, seen from their callers                 *)

\* The run's importer is in a call exactly while the run waits for it, and so is the
\* upload's.
CallsMatch ==
    /\ run.pc = "save" <=> imp["fetch"].state # "idle"
    /\ upl.state = "import" <=> imp["upload"].state # "idle"

\* A step of a call stays in it and leaves the other one alone.
LEMMA ImportStepCalls ==
    ASSUME TypeOK, NEW i \in Importers, ImportStep(i)
    PROVE  /\ imp[i].state # "idle" /\ imp'[i].state # "idle"
           /\ \A j \in Importers \ {i} : imp'[j] = imp[j]
<1> USE DEF TypeOK
<1>1. imp[i].state = "busy"
  BY DEF ImportStep, SaveOne, SaveFails, RecordOne, ReturnResult
<1>2. CASE SaveOne(i)
  BY <1>1, <1>2, SaveOneEffect
<1>3. CASE RecordOne(i)
  BY <1>1, <1>3, RecordOneEffect
<1>4. CASE SaveFails(i) \/ ReturnResult(i)
  <2>1. imp'[i].state \in {"failed", "done"} /\ \A j \in Importers \ {i} : imp'[j] = imp[j]
    BY <1>4, EndedEffect
  <2> QED
    BY <1>1, <2>1
<1> QED
  BY <1>2, <1>3, <1>4 DEF ImportStep

LEMMA WorkerCalls == TypeOK /\ CallsMatch /\ WorkerStep => CallsMatch'
<1> SUFFICES ASSUME TypeOK, CallsMatch, WorkerStep PROVE CallsMatch'
  OBVIOUS
<1> USE IngestAssumption DEF TypeOK, MailTypeOK, RunState, CallsMatch
<1>1. ASSUME UNCHANGED <<imp, upl>>, run.pc # "save", run'.pc # "save" PROVE CallsMatch'
  BY <1>1
<1>2. CASE ListAccounts \/ LoopDone \/ EvaluateInRun
  BY <1>1, <1>2 DEF ListAccounts, LoopDone, EvaluateInRun, storeVars
<1>12. CASE FinishRun
  BY <1>1, <1>12 DEF FinishRun, IdleRun, storeVars
<1>3. ASSUME NEW acc \in Accounts, StartAccount(acc) PROVE CallsMatch'
  BY <1>1, <1>3 DEF StartAccount, storeVars
<1>4. CASE ConnectFails \/ ImapMoveFails \/ GraphMoveFails \/ MarkSeenFails
  BY <1>1, <1>4 DEF ConnectFails, ImapMoveFails, GraphMoveFails, MarkSeenFails, AccountFailed,
                    IdleRun, storeVars
<1>5. ASSUME NEW S \in SUBSET Messages, ImapScan(S) PROVE CallsMatch'
  <2>1. run.pc = "scan" /\ run'.pc = "move" /\ UNCHANGED <<imp, upl>>
    BY <1>5 DEF ImapScan, storeVars
  <2> QED
    BY <1>1, <2>1
<1>6. CASE ImapMove \/ GraphList \/ GraphMove \/ GraphDone
  BY <1>1, <1>6 DEF ImapMove, GraphList, GraphMove, GraphDone, storeVars
<1>7. ASSUME NEW m \in Messages, GraphSkip(m) PROVE CallsMatch'
  BY <1>1, <1>7 DEF GraphSkip, storeVars
<1>8. ASSUME NEW m \in Messages, NEW kept \in SUBSET Parts(m), GraphFetch(m, kept)
      PROVE  CallsMatch'
  BY <1>1, <1>8 DEF GraphFetch, storeVars
<1>9. CASE MarkSeen
  BY <1>9 DEF MarkSeen, BeginImport, StoreTypeOK, IdleImport
<1>10. CASE StoreStep("fetch")
  <2>1. imp["fetch"].state # "idle" /\ imp'["fetch"].state # "idle"
        /\ imp'["upload"] = imp["upload"]
    BY <1>10, ImportStepCalls DEF StoreStep
  <2> QED
    BY <1>10, <2>1 DEF StoreStep
<1>11. CASE AccountOk \/ ImportFailed
  <2>1. EndImport("fetch") /\ run'.pc = "next" /\ upl' = upl
    <3>1. CASE AccountOk
      BY <3>1 DEF AccountOk, IdleRun
    <3>2. CASE ImportFailed
      BY <3>2 DEF ImportFailed, AccountFailed, IdleRun
    <3> QED
      BY <1>11, <3>1, <3>2
  <2>2. imp'["fetch"].state = "idle" /\ imp'["upload"] = imp["upload"]
    BY <2>1 DEF EndImport, StoreTypeOK, IdleImport
  <2> QED
    BY <2>1, <2>2
<1> QED
  BY <1>2, <1>3, <1>4, <1>5, <1>6, <1>7, <1>8, <1>9, <1>10, <1>11, <1>12 DEF WorkerStep

LEMMA UploadCalls == TypeOK /\ CallsMatch /\ UploadStep => CallsMatch'
<1> SUFFICES ASSUME TypeOK, CallsMatch, UploadStep PROVE CallsMatch'
  OBVIOUS
<1> USE IngestAssumption DEF TypeOK, MailTypeOK, UploadState, CallsMatch
<1>1. ASSUME NEW batch \in SUBSET UploadFiles, UploadFile(batch) PROVE CallsMatch'
  BY <1>1 DEF UploadFile, BeginImport, StoreTypeOK, IdleImport
<1>2. CASE StoreStep("upload")
  <2>1. imp["upload"].state # "idle" /\ imp'["upload"].state # "idle"
        /\ imp'["fetch"] = imp["fetch"]
    BY <1>2, ImportStepCalls DEF StoreStep
  <2> QED
    BY <1>2, <2>1 DEF StoreStep
<1>3. CASE UploadFileDone \/ UploadFails
  <2>1. EndImport("upload") /\ run' = run /\ upl'.state # "import"
    BY <1>3 DEF UploadFileDone, UploadFails
  <2>2. imp'["upload"].state = "idle" /\ imp'["fetch"] = imp["fetch"]
    BY <2>1 DEF EndImport, StoreTypeOK, IdleImport
  <2> QED
    BY <2>1, <2>2
<1>4. CASE UploadRejected \/ UploadDone \/ EvaluateAfterUpload
  BY <1>4 DEF UploadRejected, UploadDone, EvaluateAfterUpload, storeVars
<1> QED
  BY <1>1, <1>2, <1>3, <1>4 DEF UploadStep

\* The callers and their calls agree in every reachable state, and so do the calls
\* with the store.
LEMMA MailCalls == Spec => [](CallsMatch /\ CallShape)
<1>1. Init => CallsMatch
  BY IngestAssumption DEF Init, StoreInit, IdleImport, IdleRun, CallsMatch
<1>2. TypeOK /\ CallsMatch /\ [Next]_vars => CallsMatch'
  <2> SUFFICES ASSUME TypeOK, CallsMatch, [Next]_vars PROVE CallsMatch'
    OBVIOUS
  <2>1. CASE TriggerAll
    BY <2>1 DEF TriggerAll, IdleRun, CallsMatch, storeVars
  <2>2. CASE Crash
    BY <2>2, IngestAssumption DEF Crash, StoreCrash, IdleRun, IdleImport, CallsMatch,
                                  TypeOK, MailTypeOK, UploadState
  <2>3. CASE UNCHANGED vars \/ \E m \in Messages : Deliver(m)
    BY <2>3 DEF vars, Deliver, CallsMatch, storeVars
  <2> QED
    BY <2>1, <2>2, <2>3, WorkerCalls, UploadCalls DEF Next
<1>3. Spec => []CallShape
  BY MailImplementsStore, StoreCalls, PTL
<1> QED
  BY <1>1, <1>2, <1>3, MailTyping, PTL DEF Spec

-----------------------------------------------------------------------------
(* The at-most-once promise                                                 *)

LEMMA ImportStepTodo ==
    ASSUME TypeOK, NEW i \in Importers, ImportStep(i)
    PROVE  \A j \in Importers : imp'[j].todo \subseteq imp[j].todo
<1> USE DEF TypeOK, StoreTypeOK, ImportState
<1>1. CASE SaveOne(i)
  <2>1. PICK a \in imp[i].todo : \E s \in Outcomes(a) : imp' = [imp EXCEPT ![i] = Decided(@, a, s)]
    BY <1>1 DEF SaveOne
  <2>2. PICK s \in Outcomes(a) : imp' = [imp EXCEPT ![i] = Decided(@, a, s)]
    BY <2>1
  <2>3. Decided(imp[i], a, s).todo = imp[i].todo \ {a}
    BY DEF Decided
  <2> QED
    BY <2>2, <2>3
<1>2. CASE RecordOne(i)
  <2>1. PICK e \in imp[i].pending : imp' = [imp EXCEPT ![i] = Counted(@, e[2])]
    BY <1>2 DEF RecordOne
  <2>2. Counted(imp[i], e[2]).todo = imp[i].todo
    BY DEF Counted
  <2> QED
    BY <2>1, <2>2
<1>3. CASE SaveFails(i) \/ ReturnResult(i)
  BY <1>3 DEF SaveFails, ReturnResult, Ended
<1> QED
  BY <1>1, <1>2, <1>3 DEF ImportStep

\* The steps that leave the mailboxes alone.
LEMMA MailKept ==
    ASSUME TypeOK, [Next]_vars,
           ~\E m \in Messages : Deliver(m),
           ~ImapMove, ~GraphMove, ~ImapMoveFails, ~GraphMoveFails
    PROVE  mail' = mail
<1>1. CASE WorkerStep
  BY <1>1 DEF WorkerStep, ListAccounts, StartAccount, ConnectFails, ImapScan, GraphList,
              GraphSkip, GraphFetch, GraphDone, MarkSeen, MarkSeenFails,
              StoreStep, AccountOk, ImportFailed, LoopDone, EvaluateInRun, FinishRun, mailVars
<1>2. CASE UploadStep
  BY <1>2 DEF UploadStep, UploadFile, StoreStep, UploadFileDone, UploadFails,
              UploadRejected, UploadDone, EvaluateAfterUpload, mailVars
<1>3. CASE TriggerAll \/ Crash \/ UNCHANGED vars
  BY <1>3 DEF TriggerAll, Crash, vars, mailVars
<1> QED
  BY <1>1, <1>2, <1>3 DEF Next

\* A message in the inbox that is among those being moved leaves it; the others stay.
LEMMA MoveTakes ==
    ASSUME TypeOK, HandInv, ImapMove \/ GraphMove \/ ImapMoveFails \/ GraphMoveFails
    PROVE  \E S \in SUBSET InInbox :
              /\ InInbox' = InInbox \ S
              /\ Processed' = Processed \cup S
<1>1. run.done \subseteq InInbox
  BY DEF HandInv, ToMoveInInbox, ImapMove, GraphMove, ImapMoveFails, GraphMoveFails
<1>2. PICK S \in SUBSET run.done :
         mail' = [m \in Messages |-> IF m \in S THEN "processed" ELSE mail[m]]
  BY DEF ImapMove, GraphMove, ImapMoveFails, GraphMoveFails
<1>3. S \in SUBSET InInbox
  BY <1>1
<1>4. InInbox' = InInbox \ S
  BY <1>2, <1>3 DEF InInbox
<1>5. Processed' = Processed \cup S
  BY <1>2, <1>3 DEF InInbox, Processed
<1> QED
  BY <1>3, <1>4, <1>5

LEMMA ProcessedGrows == TypeOK /\ HandInv /\ [Next]_vars => Processed \subseteq Processed'
<1> SUFFICES ASSUME TypeOK, HandInv, [Next]_vars PROVE Processed \subseteq Processed'
  OBVIOUS
<1>1. ASSUME NEW m \in Messages, Deliver(m) PROVE Processed \subseteq Processed'
  BY <1>1 DEF Deliver, Processed, TypeOK, MailTypeOK
<1>2. CASE mail' = mail
  BY <1>2 DEF Processed
<1> QED
  BY <1>1, <1>2, MailKept, MoveTakes

LEMMA ImportsStep == TypeOK /\ HandInv /\ ImportsFromMoved /\ [Next]_vars => ImportsFromMoved'
<1> SUFFICES ASSUME TypeOK, HandInv, ImportsFromMoved, [Next]_vars PROVE ImportsFromMoved'
  OBVIOUS
<1> USE IngestAssumption
<1>1. CASE MarkSeen
  <2>1. imp' = [imp EXCEPT !["fetch"] = [IdleImport EXCEPT !.state = "busy", !.todo = run.hand]]
    BY <1>1 DEF MarkSeen, BeginImport
  <2>2. imp'["fetch"].todo = run.hand /\ imp'["upload"] = imp["upload"]
    BY <2>1 DEF TypeOK, StoreTypeOK, IdleImport
  <2>3. \A a \in run.hand : MessageOf[a] \in Processed
    BY <1>1 DEF MarkSeen, HandInv, HandFromMoved
  <2> QED
    BY <2>2, <2>3, ProcessedGrows DEF ImportsFromMoved
<1>2. ASSUME NEW batch \in SUBSET UploadFiles, UploadFile(batch) PROVE ImportsFromMoved'
  <2>1. imp' = [imp EXCEPT !["upload"] = [IdleImport EXCEPT !.state = "busy", !.todo = batch]]
    BY <1>2 DEF UploadFile, BeginImport
  <2>2. imp'["upload"].todo = batch /\ imp'["fetch"] = imp["fetch"]
    BY <2>1 DEF TypeOK, StoreTypeOK, IdleImport
  <2> QED
    BY <2>2, ProcessedGrows DEF ImportsFromMoved
<1>3. ASSUME ~MarkSeen, ~\E batch \in SUBSET UploadFiles : UploadFile(batch)
      PROVE  \A j \in Importers : imp'[j].todo \subseteq imp[j].todo
  <2>1. ASSUME NEW i \in Importers, EndImport(i)
        PROVE  \A j \in Importers : imp'[j].todo \subseteq imp[j].todo
    BY <2>1 DEF EndImport, IdleImport, TypeOK, StoreTypeOK
  <2>2. ASSUME NEW i \in Importers, StoreStep(i)
        PROVE  \A j \in Importers : imp'[j].todo \subseteq imp[j].todo
    BY <2>2, ImportStepTodo DEF StoreStep
  <2>3. CASE WorkerStep
    BY <1>3, <2>1, <2>2, <2>3
    DEF WorkerStep, ListAccounts, StartAccount, ConnectFails, ImapScan, ImapMove, ImapMoveFails,
        GraphList, GraphSkip, GraphFetch, GraphMove, GraphMoveFails, GraphDone, MarkSeenFails,
        AccountOk, ImportFailed, LoopDone, EvaluateInRun, FinishRun, storeVars
  <2>4. CASE UploadStep
    BY <1>3, <2>1, <2>2, <2>4 DEF UploadStep, UploadFileDone, UploadFails,
                                 UploadRejected, UploadDone, EvaluateAfterUpload, storeVars
  <2>5. CASE Crash
    BY <2>5 DEF Crash, StoreCrash, IdleImport
  <2>6. CASE TriggerAll \/ UNCHANGED vars \/ \E m \in Messages : Deliver(m)
    BY <2>6 DEF TriggerAll, Deliver, vars, storeVars
  <2> QED
    BY <2>3, <2>4, <2>5, <2>6 DEF Next
<1>4. ASSUME ~MarkSeen, ~\E batch \in SUBSET UploadFiles : UploadFile(batch)
      PROVE  ImportsFromMoved'
  BY <1>3, <1>4, ProcessedGrows DEF ImportsFromMoved
<1> QED
  BY <1>1, <1>2, <1>4

LEMMA MailImportsFromMoved == Spec => []ImportsFromMoved
<1>1. Init => ImportsFromMoved
  BY IngestAssumption DEF Init, StoreInit, ImportsFromMoved, IdleImport
<1> QED
  BY <1>1, ImportsStep, MailTyping, MailInHand, PTL DEF Spec

\* What an importer stores is a report no row carries, out of mail already moved or
\* of an uploaded file.
LEMMA SaveOneImports ==
    ASSUME TypeOK, ImportsFromMoved, NEW i \in Importers, SaveOne(i), mail' = mail
    PROVE  [Promise!Next]_(Promise!promiseVars)
<1> USE IngestAssumption
<1>1. PICK a \in imp[i].todo : \E s \in Outcomes(a) :
         rows' = IF s = "ok" THEN [rows EXCEPT ![a] = @ + 1] ELSE rows
  BY DEF SaveOne
<1>2. PICK s \in Outcomes(a) :
         rows' = IF s = "ok" THEN [rows EXCEPT ![a] = @ + 1] ELSE rows
  BY <1>1
<1>3. a \in Attachments
  BY DEF TypeOK, StoreTypeOK, ImportState
<1>4. CASE s = "ok"
  <2>1. ~IsStored(a)
    BY <1>4 DEF Outcomes
  <2>2. \A b \in {x \in Attachments : rows[x] > 0} :
           [x \in Attachments |-> <<FormatOf[x], IdOf[x]>>][b]
              # [x \in Attachments |-> <<FormatOf[x], IdOf[x]>>][a]
    BY <1>3, <2>1 DEF IsStored, Stored, SameReport
  <2>3. MessageOf[a] \in {m \in Messages : mail[m] = "processed"} \/ a \in UploadFiles
    BY <1>1 DEF ImportsFromMoved, Processed
  <2>4. \A b \in Attachments : rows'[b] > 0 <=> rows[b] > 0 \/ b = a
    BY <1>2, <1>3, <1>4 DEF TypeOK, StoreTypeOK
  <2>5. {x \in Attachments : rows'[x] > 0} = {x \in Attachments : rows[x] > 0} \cup {a}
    BY <1>3, <2>4
  <2>6. Promise!Import(a)
    BY <2>2, <2>3, <2>5 DEF Promise!Import
  <2> QED
    BY <1>3, <2>6 DEF Promise!Next
<1>5. CASE s # "ok"
  BY <1>2, <1>5 DEF Promise!promiseVars
<1> QED
  BY <1>4, <1>5

LEMMA PromiseStep == TypeOK /\ HandInv /\ ImportsFromMoved /\ [Next]_vars
                       => [Promise!Next]_(Promise!promiseVars)
<1> SUFFICES ASSUME TypeOK, HandInv, ImportsFromMoved, [Next]_vars
             PROVE  [Promise!Next]_(Promise!promiseVars)
  OBVIOUS
<1>1. ASSUME NEW m \in Messages, Deliver(m) PROVE [Promise!Next]_(Promise!promiseVars)
  <2>1. m \notin InInbox \cup Processed /\ InInbox' = InInbox \cup {m}
    BY <1>1 DEF Deliver, InInbox, Processed, TypeOK, MailTypeOK
  <2>2. Processed' = Processed /\ rows' = rows
    BY <1>1 DEF Deliver, Processed, TypeOK, MailTypeOK, storeVars
  <2>3. Promise!Deliver(m)
    BY <2>1, <2>2 DEF Promise!Deliver, InInbox, Processed
  <2> QED
    BY <2>3 DEF Promise!Next
<1>2. CASE ImapMove \/ GraphMove \/ ImapMoveFails \/ GraphMoveFails
  <2>1. PICK S \in SUBSET InInbox : InInbox' = InInbox \ S /\ Processed' = Processed \cup S
    BY <1>2, MoveTakes
  <2>2. rows' = rows
    BY <1>2 DEF ImapMove, GraphMove, ImapMoveFails, GraphMoveFails, storeVars
  <2>3. CASE S = {}
    BY <2>1, <2>2, <2>3 DEF Promise!promiseVars, InInbox, Processed
  <2>4. CASE S # {}
    <3>1. Promise!Take(S)
      BY <2>1, <2>2, <2>4 DEF Promise!Take, InInbox, Processed
    <3> QED
      BY <3>1 DEF Promise!Next, InInbox
  <2> QED
    BY <2>3, <2>4
<1>3. ASSUME NEW i \in Importers, SaveOne(i), mail' = mail
      PROVE  [Promise!Next]_(Promise!promiseVars)
  BY <1>3, SaveOneImports
<1>4. CASE mail' = mail /\ rows' = rows
  BY <1>4 DEF Promise!promiseVars
<1>5. [StoreNext]_storeVars
  BY StoreSteps
<1>6. rows' = rows \/ \E i \in Importers : SaveOne(i)
  BY <1>5 DEF StoreNext, storeVars, BeginImport, ImportStep, SaveFails, RecordOne,
              ReturnResult, EndImport, StoreCrash
<1> QED
  BY <1>1, <1>2, <1>3, <1>4, <1>6, MailKept

\* Fetching mailboxes promises no more than AtMostOnceIngest, and keeps it: a message
\* leaves its mailbox once, and a report is stored once, after its mail was moved.
THEOREM MailKeepsPromise == Spec => KeepsPromise
<1>1. Init => Promise!Init
  BY DEF Init, StoreInit, Promise!Init
<1> QED
  BY <1>1, MailImportsFromMoved, PromiseStep, MailTyping, MailInHand, PTL DEF Spec, KeepsPromise, Promise!Spec

-----------------------------------------------------------------------------
(* Nothing that was moved is lost, when no move, decoding or database        *)
(* statement fails and the process lives.                                    *)

\* Where a report is between its mail's move and its row: in the run's hand, or in
\* the batch SaveAttachments still has to do.
InRunsHand(a) == run.pc \in {"move", "graph", "graphmove", "mark"} /\ a \in run.hand

AccountedFor(a) == IsStored(a) \/ InRunsHand(a) \/ a \in imp["fetch"].todo

MovedReport(a) ==
    /\ MessageOf[a] \in Messages
    /\ mail[MessageOf[a]] = "processed"
    /\ FormatOf[a] # "junk"

MovedAccounted == \A a \in Attachments : MovedReport(a) => AccountedFor(a)

\* All that the messages to be moved carry has been downloaded.
DownloadedFirst == run.pc \in {"move", "graphmove"} => PartsOf(run.done) \subseteq run.hand

\* A step that moves no mail and takes nothing out of the run's hand or of the batch.
LEMMA KeepsAccount ==
    ASSUME TypeOK, MovedAccounted, [Next]_vars,
           Processed' \subseteq Processed,
           \A a \in Attachments : InRunsHand(a) => InRunsHand(a)',
           \A a \in imp["fetch"].todo : FormatOf[a] # "junk" =>
               a \in imp'["fetch"].todo \/ IsStored(a)'
    PROVE  MovedAccounted'
<1> SUFFICES ASSUME NEW a \in Attachments, MovedReport(a)' PROVE AccountedFor(a)'
  BY DEF MovedAccounted
<1>1. MovedReport(a)
  BY DEF MovedReport, Processed
<1>2. AccountedFor(a)
  BY <1>1 DEF MovedAccounted
<1>3. IsStored(a) => IsStored(a)'
  BY StoreSteps, StoredStays DEF TypeOK
<1> QED
  BY <1>1, <1>2, <1>3 DEF AccountedFor, MovedReport

\* What SaveAttachments decides of a report that parses leaves it stored.
LEMMA DecidedIsStored ==
    ASSUME TypeOK, CallShape, NEW i \in Importers, ImportStep(i), "db" \notin Faults
    PROVE  \A a \in imp["fetch"].todo : FormatOf[a] # "junk" =>
               a \in imp'["fetch"].todo \/ IsStored(a)'
<1> USE IngestAssumption DEF TypeOK
<1>1. CASE i # "fetch"
  <2>1. imp'["fetch"] = imp["fetch"]
    BY <1>1, ImportStepCalls
  <2> QED
    BY <2>1
<1>2. CASE i = "fetch" /\ SaveOne(i)
  <2>1. PICK b \in imp[i].todo : \E s \in Outcomes(b) :
           /\ rows' = IF s = "ok" THEN [rows EXCEPT ![b] = @ + 1] ELSE rows
           /\ imp'[i].todo = imp[i].todo \ {b}
    BY <1>2, SaveOneEffect
  <2>2. PICK s \in Outcomes(b) :
           /\ rows' = IF s = "ok" THEN [rows EXCEPT ![b] = @ + 1] ELSE rows
           /\ imp'[i].todo = imp[i].todo \ {b}
    BY <2>1
  <2>3. b \in Attachments
    BY DEF StoreTypeOK, ImportState
  <2>4. ASSUME FormatOf[b] # "junk" PROVE IsStored(b)'
    <3>1. CASE s = "ok"
      <4>1. rows'[b] > 0
        BY <2>2, <2>3, <3>1 DEF StoreTypeOK
      <4> QED
        BY <2>3, <4>1 DEF IsStored, Stored, SameReport
    <3>2. CASE s # "ok"
      <4>1. IsStored(b)
        BY <2>4, <3>2 DEF Outcomes
      <4>2. rows' = rows
        BY <2>2, <3>2
      <4> QED
        BY <4>1, <4>2 DEF IsStored, Stored
    <3> QED
      BY <3>1, <3>2
  <2> QED
    BY <1>2, <2>2, <2>4
<1>3. CASE i = "fetch" /\ RecordOne(i)
  BY <1>3, RecordOneEffect
<1>4. CASE i = "fetch" /\ ReturnResult(i)
  BY <1>4 DEF ReturnResult
<1>5. ~SaveFails(i)
  BY DEF SaveFails
<1> QED
  BY <1>1, <1>2, <1>3, <1>4, <1>5 DEF ImportStep

NothingLost == Faults \cap {"crash", "move", "db", "decode"} = {}

LEMMA DownloadedStep ==
    ASSUME NothingLost, TypeOK, DownloadedFirst, [Next]_vars
    PROVE  DownloadedFirst'
<1> USE DEF NothingLost, TypeOK, MailTypeOK, RunState
<1>1. ASSUME NEW S \in SUBSET Messages, ImapScan(S) PROVE DownloadedFirst'
  <2> DEFINE got == Unseen(run.acc) \ S
             carrying == {m \in got : Parts(m) # {}}
  <2>1. run' = [run EXCEPT !.pc = "move", !.hand = PartsOf(carrying),
                           !.done = carrying, !.free = got \ carrying]
    BY <1>1 DEF ImapScan
  <2>2. run'.hand = PartsOf(carrying) /\ run'.done = carrying
    BY <2>1
  <2> HIDE DEF carrying
  <2> QED
    BY <2>2 DEF DownloadedFirst, PartsOf
<1>2. ASSUME NEW m \in Messages, NEW kept \in SUBSET Parts(m), GraphFetch(m, kept)
      PROVE  DownloadedFirst'
  <2>1. kept = Parts(m) /\ run.pc = "graph"
    BY <1>2 DEF GraphFetch
  <2>2. CASE kept = {}
    <3>1. run'.pc = "graph"
      BY <1>2, <2>1, <2>2 DEF GraphFetch
    <3> QED
      BY <3>1 DEF DownloadedFirst
  <2>3. CASE kept # {}
    <3>1. run' = [run EXCEPT !.pc = "graphmove", !.work = run.work \ {m},
                             !.hand = run.hand \cup kept, !.done = {m}]
      BY <1>2, <2>3 DEF GraphFetch
    <3>2. run'.hand = run.hand \cup Parts(m) /\ run'.done = {m}
      BY <2>1, <3>1
    <3> QED
      BY <3>2 DEF DownloadedFirst, PartsOf, Parts
  <2> QED
    BY <2>2, <2>3
<1>3. ASSUME run'.pc \notin {"move", "graphmove"} \/ run' = run PROVE DownloadedFirst'
  BY <1>3 DEF DownloadedFirst, PartsOf
<1>4. CASE WorkerStep
  <2>1. CASE ListAccounts \/ LoopDone \/ EvaluateInRun \/ \E acc \in Accounts : StartAccount(acc)
    BY <1>3, <2>1 DEF ListAccounts, LoopDone, EvaluateInRun, StartAccount
  <2>2. CASE AccountFailed
    BY <1>3, <2>2 DEF AccountFailed, IdleRun
  <2>3. CASE ImapMove \/ GraphList \/ GraphMove \/ GraphDone \/ MarkSeen
    BY <1>3, <2>3 DEF ImapMove, GraphList, GraphMove, GraphDone, MarkSeen
  <2>4. ASSUME NEW m \in Messages, GraphSkip(m) PROVE DownloadedFirst'
    BY <1>3, <2>4 DEF GraphSkip
  <2>5. CASE AccountOk
    BY <1>3, <2>5 DEF AccountOk, IdleRun
  <2>6. CASE FinishRun
    BY <1>3, <2>6 DEF FinishRun, IdleRun
  <2>7. CASE StoreStep("fetch")
    BY <1>3, <2>7 DEF StoreStep
  <2>8. ConnectFails \/ ImapMoveFails \/ GraphMoveFails \/ MarkSeenFails \/ ImportFailed
           => AccountFailed
    BY DEF ConnectFails, ImapMoveFails, GraphMoveFails, MarkSeenFails, ImportFailed
  <2> QED
    BY <1>1, <1>2, <1>4, <2>1, <2>2, <2>3, <2>4, <2>5, <2>6, <2>7, <2>8 DEF WorkerStep
<1>5. CASE UploadStep \/ UNCHANGED vars \/ \E m \in Messages : Deliver(m)
  BY <1>3, <1>5 DEF UploadStep, UploadFile, StoreStep, UploadFileDone, UploadFails,
                    UploadRejected, UploadDone, EvaluateAfterUpload, Deliver, vars
<1>6. CASE TriggerAll
  BY <1>3, <1>6 DEF TriggerAll, IdleRun
<1>7. ~Crash
  BY DEF Crash
<1> QED
  BY <1>1, <1>2, <1>4, <1>5, <1>6, <1>7 DEF Next

LEMMA MovedStep ==
    ASSUME NothingLost, TypeOK, HandInv, CallsMatch, CallShape, MovedAccounted,
           DownloadedFirst, [Next]_vars
    PROVE  MovedAccounted'
<1> USE IngestAssumption
<1>1. CASE ImapMove \/ GraphMove
  <2>1. run.pc \in {"move", "graphmove"} /\ run'.hand = run.hand /\ UNCHANGED <<rows, imp>>
    BY <1>1 DEF ImapMove, GraphMove, storeVars, TypeOK, MailTypeOK, RunState
  <2>2. run'.pc \in {"mark", "graph"}
    BY <1>1 DEF ImapMove, GraphMove, TypeOK, MailTypeOK, RunState
  <2>3. mail' = [m \in Messages |-> IF m \in run.done THEN "processed" ELSE mail[m]]
    BY <1>1 DEF ImapMove, GraphMove
  <2> SUFFICES ASSUME NEW a \in Attachments, MovedReport(a)' PROVE AccountedFor(a)'
    BY DEF MovedAccounted
  <2>4. CASE MessageOf[a] \in run.done
    <3>1. a \in run.hand
      BY <2>1, <2>4 DEF DownloadedFirst, PartsOf
    <3> QED
      BY <2>1, <2>2, <3>1 DEF AccountedFor, InRunsHand
  <2>5. CASE MessageOf[a] \notin run.done
    <3>1. MovedReport(a)
      BY <2>3, <2>5 DEF MovedReport
    <3> QED
      BY <2>1, <2>2, <3>1 DEF MovedAccounted, AccountedFor, InRunsHand, IsStored, Stored
  <2> QED
    BY <2>4, <2>5
<1>2. CASE MarkSeen
  <2>1. imp'["fetch"].todo = run.hand
    BY <1>2 DEF MarkSeen, BeginImport, IdleImport, TypeOK, StoreTypeOK
  <2>2. rows' = rows /\ mail' = mail
    BY <1>2 DEF MarkSeen, BeginImport
  <2>3. imp["fetch"].todo = {}
    BY <1>2 DEF MarkSeen, BeginImport, CallShape, IdleImport
  <2> QED
    BY <2>1, <2>2, <2>3 DEF MovedAccounted, MovedReport, AccountedFor, InRunsHand, IsStored, Stored
<1> DEFINE HandKept == \A a \in Attachments : InRunsHand(a) => InRunsHand(a)'
           BatchKept == \A a \in imp["fetch"].todo : FormatOf[a] # "junk" =>
                           a \in imp'["fetch"].todo \/ IsStored(a)'
<1>3. CASE ~ImapMove /\ ~GraphMove /\ ~MarkSeen
  <2>1. ~ImapMoveFails /\ ~GraphMoveFails /\ ~MarkSeenFails /\ ~ImportFailed /\ ~Crash
    BY DEF NothingLost, ImapMoveFails, GraphMoveFails, MarkSeenFails, ImportFailed, CallShape, Crash
  <2>2. Processed' \subseteq Processed
    <3>1. ASSUME NEW m \in Messages, Deliver(m) PROVE Processed' \subseteq Processed
      BY <3>1 DEF Deliver, Processed, TypeOK, MailTypeOK
    <3>2. CASE mail' = mail
      BY <3>2 DEF Processed
    <3> QED
      BY <1>3, <2>1, <3>1, <3>2, MailKept
  <2>3. HandKept
    <3>1. CASE run.pc \notin {"move", "graph", "graphmove", "mark"} \/ run' = run
      BY <3>1 DEF InRunsHand
    <3>2. CASE GraphDone \/ \E m \in Messages : GraphSkip(m)
      BY <3>2 DEF InRunsHand, GraphDone, GraphSkip, TypeOK, MailTypeOK, RunState
    <3>3. ASSUME NEW m \in Messages, NEW kept \in SUBSET Parts(m), GraphFetch(m, kept)
          PROVE  HandKept
      <4>1. CASE kept = {}
        <5>1. run.pc = "graph" /\ run'.pc = "graph" /\ run'.hand = run.hand
          BY <3>3, <4>1 DEF GraphFetch, TypeOK, MailTypeOK, RunState
        <5> QED
          BY <5>1 DEF InRunsHand
      <4>2. CASE kept # {}
        <5>1. run'.pc = "graphmove" /\ run'.hand = run.hand \cup kept
          BY <3>3, <4>2 DEF GraphFetch, TypeOK, MailTypeOK, RunState
        <5> QED
          BY <5>1 DEF InRunsHand
      <4> QED
        BY <4>1, <4>2
    <3>4. CASE WorkerStep
      BY <1>3, <2>1, <3>1, <3>2, <3>3, <3>4
      DEF WorkerStep, ListAccounts, StartAccount, ConnectFails, ImapScan, GraphList,
          StoreStep, AccountOk, LoopDone, EvaluateInRun, FinishRun
    <3>5. CASE UploadStep \/ UNCHANGED vars \/ TriggerAll \/ \E m \in Messages : Deliver(m)
      BY <3>1, <3>5 DEF UploadStep, UploadFile, StoreStep, UploadFileDone, UploadFails,
                        UploadRejected, UploadDone, EvaluateAfterUpload, Deliver, vars, TriggerAll
    <3> QED
      BY <2>1, <3>4, <3>5 DEF Next
  <2>4. BatchKept
    <3>1. CASE imp' = imp
      BY <3>1
    <3>2. ASSUME NEW i \in Importers, StoreStep(i) PROVE BatchKept
      <4>1. "db" \notin Faults
        BY DEF NothingLost
      <4> QED
        BY <3>2, <4>1, DecidedIsStored DEF StoreStep
    <3>3. CASE AccountOk
      <4>1. imp["fetch"].todo = {}
        BY <3>3 DEF AccountOk, CallShape
      <4> QED
        BY <4>1
    <3>4. CASE UploadFileDone \/ UploadFails \/ \E batch \in SUBSET UploadFiles : UploadFile(batch)
      <4>1. imp'["fetch"] = imp["fetch"]
        BY <3>4 DEF UploadFileDone, UploadFails, UploadFile, BeginImport, EndImport,
                    TypeOK, StoreTypeOK
      <4> QED
        BY <4>1
    <3>5. CASE WorkerStep
      BY <1>3, <2>1, <3>1, <3>2, <3>3, <3>5
      DEF WorkerStep, ListAccounts, StartAccount, ConnectFails, ImapScan, GraphList, GraphSkip,
          GraphFetch, GraphDone, LoopDone, EvaluateInRun, FinishRun, storeVars
    <3>6. CASE UploadStep
      BY <3>1, <3>2, <3>4, <3>6
      DEF UploadStep, UploadRejected, UploadDone, EvaluateAfterUpload, storeVars
    <3>7. CASE UNCHANGED vars \/ TriggerAll \/ \E m \in Messages : Deliver(m)
      BY <3>1, <3>7 DEF Deliver, vars, TriggerAll, storeVars
    <3> QED
      BY <2>1, <3>5, <3>6, <3>7 DEF Next
  <2> QED
    BY <2>2, <2>3, <2>4, KeepsAccount
<1> QED
  BY <1>1, <1>2, <1>3

\* A message is moved away only when its reports are in hand, and what is in hand
\* reaches the tables: with no failing move, decoding or database statement, and no
\* crash in between, no moved report that parses is missing once the run is over
\* (both FetchReports move before SaveAttachments stores).
THEOREM MailMovedImported ==
    ASSUME NothingLost
    PROVE  Spec => []MovedReportsImported
<1>1. Init => MovedAccounted /\ DownloadedFirst
  BY DEF Init, IdleRun, MovedAccounted, MovedReport, DownloadedFirst
<1>2. /\ TypeOK /\ HandInv /\ CallsMatch /\ CallShape /\ MovedAccounted /\ DownloadedFirst
      /\ [Next]_vars
      => MovedAccounted' /\ DownloadedFirst'
  BY MovedStep, DownloadedStep
<1>3. CallsMatch /\ CallShape /\ MovedAccounted => MovedReportsImported
  <2> SUFFICES ASSUME CallsMatch, CallShape, MovedAccounted, run.pc = "idle",
                      NEW a \in Attachments, MovedReport(a)
               PROVE  IsStored(a)
    BY DEF MovedReportsImported, MovedReport
  <2>1. imp["fetch"].todo = {}
    BY IngestAssumption DEF CallsMatch, CallShape, IdleImport
  <2> QED
    BY <2>1 DEF MovedAccounted, AccountedFor, InRunsHand
<1> QED
  BY <1>1, <1>2, <1>3, MailTyping, MailInHand, MailCalls, PTL DEF Spec

-----------------------------------------------------------------------------
(* Every import is followed by an evaluation, when the process lives, no       *)
(* database statement fails and every uploaded file of a form is imported.    *)

\* Who still has to start the evaluation of what was stored: the run, by its total;
\* a call whose Result counts an import, or is about to; the form; or the goroutine.
RunOwes == run.total > 0 /\ run.pc \notin {"idle", "list", "finish"}

CallOwes(i) == imp[i].imported > 0 \/ \E e \in imp[i].pending : e[2] = "ok"

FreshOwed ==
    fresh # {} =>
        RunOwes \/ CallOwes("fetch") \/ CallOwes("upload") \/ upl.imported > 0 \/ evalDue

\* Nothing an uploaded file carries was refused by the parser.
UploadParses ==
    imp["upload"].failed = 0 /\ \A e \in imp["upload"].pending : e[2] # "parse_error"

\* The count of a form is reset with it.
ClosedFormEmpty == upl.state = "idle" => upl.imported = 0

EvaluationKept ==
    /\ Faults \cap {"crash", "db", "reject"} = {}
    /\ \A a \in UploadFiles : FormatOf[a] # "junk"

\* A step of a call keeps what it owes, and what it stores it owes.
LEMMA CallStepOwes ==
    ASSUME TypeOK, OneDecision, NEW i \in Importers, ImportStep(i)
    PROVE  /\ \A k \in Importers : CallOwes(k) => CallOwes(k)'
           /\ (\E a \in Attachments : rows'[a] > rows[a]) => CallOwes(i)'
<1> USE DEF TypeOK, CallOwes
<1>0. imp[i].imported \in Nat
  BY DEF StoreTypeOK, ImportState
<1>1. CASE SaveOne(i)
  <2>1. \E a \in imp[i].todo : \E s \in Outcomes(a) :
           /\ rows' = IF s = "ok" THEN [rows EXCEPT ![a] = @ + 1] ELSE rows
           /\ imp'[i].pending = {<<a, s>>}
           /\ imp'[i].imported = imp[i].imported
           /\ \A j \in Importers \ {i} : imp'[j] = imp[j]
    BY <1>1, SaveOneEffect
  <2>4. PICK a, s :
           /\ rows' = IF s = "ok" THEN [rows EXCEPT ![a] = @ + 1] ELSE rows
           /\ imp'[i].pending = {<<a, s>>}
           /\ imp'[i].imported = imp[i].imported
           /\ \A j \in Importers \ {i} : imp'[j] = imp[j]
    BY <2>1
  <2>2. imp[i].pending = {}
    BY <1>1 DEF SaveOne
  <2>3. s # "ok" => \A b \in Attachments : ~(rows'[b] > rows[b])
    BY <2>4 DEF StoreTypeOK
  <2> QED
    BY <2>2, <2>3, <2>4
<1>2. CASE RecordOne(i)
  <2>1. PICK e \in imp[i].pending :
           imp'[i].imported = imp[i].imported + (IF e[2] = "ok" THEN 1 ELSE 0)
    BY <1>2, RecordOneEffect
  <2>2. rows' = rows /\ \A j \in Importers \ {i} : imp'[j] = imp[j]
    BY <1>2, RecordOneEffect
  <2>3. CallOwes(i) => imp'[i].imported > 0
    BY <1>0, <2>1 DEF OneDecision
  <2>4. \A b \in Attachments : ~(rows'[b] > rows[b])
    BY <2>2 DEF StoreTypeOK
  <2> QED
    BY <2>2, <2>3, <2>4
<1>3. CASE SaveFails(i) \/ ReturnResult(i)
  <2>1. /\ imp'[i].imported = imp[i].imported /\ imp[i].pending = {} /\ rows' = rows
        /\ \A j \in Importers \ {i} : imp'[j] = imp[j]
    BY <1>3, EndedEffect
  <2>2. \A b \in Attachments : ~(rows'[b] > rows[b])
    BY <2>1 DEF StoreTypeOK
  <2> QED
    BY <2>1, <2>2
<1> QED
  BY <1>1, <1>2, <1>3 DEF ImportStep

\* Only the upload's own steps touch its call.
LEMMA UploadCallKept ==
    ASSUME TypeOK, [Next]_vars, ~UploadStep, ~Crash
    PROVE  imp'["upload"] = imp["upload"] /\ upl' = upl /\ evalDue' = evalDue
<1> USE IngestAssumption
<1>1. CASE WorkerStep
  <2>1. UNCHANGED <<upl, evalDue>>
    BY <1>1
    DEF WorkerStep, ListAccounts, StartAccount, ConnectFails, ImapScan, ImapMove, ImapMoveFails,
        GraphList, GraphSkip, GraphFetch, GraphMove, GraphMoveFails, GraphDone, MarkSeen,
        MarkSeenFails, StoreStep, AccountOk, ImportFailed, LoopDone, EvaluateInRun, FinishRun
  <2>2. CASE StoreStep("fetch")
    <3>1. imp'["upload"] = imp["upload"]
      BY <2>2, ImportStepCalls DEF StoreStep
    <3> QED
      BY <2>1, <3>1
  <2>3. CASE MarkSeen \/ AccountOk \/ ImportFailed
    <3>1. imp'["upload"] = imp["upload"]
      BY <2>3 DEF MarkSeen, AccountOk, ImportFailed, BeginImport, EndImport, TypeOK, StoreTypeOK
    <3> QED
      BY <2>1, <3>1
  <2>4. CASE imp' = imp
    BY <2>1, <2>4
  <2> QED
    BY <1>1, <2>2, <2>3, <2>4
    DEF WorkerStep, ListAccounts, StartAccount, ConnectFails, ImapScan, ImapMove, ImapMoveFails,
        GraphList, GraphSkip, GraphFetch, GraphMove, GraphMoveFails, GraphDone,
        MarkSeenFails, LoopDone, EvaluateInRun, FinishRun, storeVars
<1>2. CASE TriggerAll \/ UNCHANGED vars \/ \E m \in Messages : Deliver(m)
  BY <1>2 DEF TriggerAll, Deliver, vars, storeVars
<1> QED
  BY <1>1, <1>2 DEF Next

LEMMA UploadParsesStep ==
    ASSUME EvaluationKept, TypeOK, ImportsFromMoved, UploadParses, ClosedFormEmpty, [Next]_vars
    PROVE  UploadParses' /\ ClosedFormEmpty'
<1> USE IngestAssumption
<1>1. ~Crash
  BY DEF EvaluationKept, Crash
<1>2. CASE ~UploadStep
  BY <1>1, <1>2, UploadCallKept DEF UploadParses, ClosedFormEmpty
<1>3. CASE StoreStep("upload")
  <2>1. upl' = upl /\ ImportStep("upload")
    BY <1>3 DEF StoreStep
  <2>2. CASE SaveOne("upload")
    <3>0. \E a \in imp["upload"].todo : \E s \in Outcomes(a) :
             imp'["upload"].pending = {<<a, s>>} /\ imp'["upload"].failed = imp["upload"].failed
      BY <2>2, SaveOneEffect DEF TypeOK
    <3>1. PICK a, s :
             /\ a \in imp["upload"].todo /\ s \in Outcomes(a)
             /\ imp'["upload"].pending = {<<a, s>>} /\ imp'["upload"].failed = imp["upload"].failed
      BY <3>0
    <3>2. a \in UploadFiles
      BY <3>1 DEF ImportsFromMoved
    <3>3. s # "parse_error"
      BY <3>1, <3>2 DEF EvaluationKept, Outcomes
    <3> QED
      BY <2>1, <3>1, <3>3 DEF UploadParses, ClosedFormEmpty
  <2>3. CASE RecordOne("upload")
    <3>1. imp'["upload"].pending = {} /\ imp'["upload"].failed = 0
      BY <2>3, RecordOneEffect DEF UploadParses, TypeOK
    <3> QED
      BY <2>1, <3>1 DEF UploadParses, ClosedFormEmpty
  <2>4. CASE SaveFails("upload") \/ ReturnResult("upload")
    <3>1. imp'["upload"].pending = {} /\ imp'["upload"].failed = imp["upload"].failed
      BY <2>4, EndedEffect DEF TypeOK
    <3> QED
      BY <2>1, <3>1 DEF UploadParses, ClosedFormEmpty
  <2> QED
    BY <2>1, <2>2, <2>3, <2>4 DEF ImportStep
<1>4. ASSUME NEW batch \in SUBSET UploadFiles, UploadFile(batch)
      PROVE  UploadParses' /\ ClosedFormEmpty'
  BY <1>4 DEF UploadFile, BeginImport, IdleImport, TypeOK, StoreTypeOK, MailTypeOK, UploadState,
              UploadParses, ClosedFormEmpty
<1>5. CASE UploadFileDone \/ UploadFails
  <2>1. imp'["upload"] = IdleImport
    BY <1>5 DEF UploadFileDone, UploadFails, EndImport, TypeOK, StoreTypeOK
  <2>2. upl'.state = "idle" => upl'.imported = 0
    BY <1>5 DEF UploadFileDone, UploadFails, TypeOK, MailTypeOK, UploadState
  <2> QED
    BY <2>1, <2>2 DEF UploadParses, ClosedFormEmpty, IdleImport
<1>6. CASE UploadRejected \/ UploadDone \/ EvaluateAfterUpload
  BY <1>6 DEF UploadRejected, UploadDone, EvaluateAfterUpload, storeVars, UploadParses,
              ClosedFormEmpty, TypeOK, MailTypeOK, UploadState
<1> QED
  BY <1>2, <1>3, <1>4, <1>5, <1>6 DEF UploadStep

\* Fetching leaves the run's total alone.
LEMMA MoveTotal ==
    ASSUME TypeOK, ImapMove \/ GraphList \/ GraphMove \/ GraphDone
    PROVE  run'.total = run.total
<1>1. \A x, y : [run EXCEPT !.pc = x].total = run.total
                 /\ [run EXCEPT !.pc = x, !.work = y].total = run.total
                 /\ [run EXCEPT !.pc = x, !.done = y].total = run.total
  BY DEF TypeOK, MailTypeOK, RunState
<1>2. CASE ImapMove
  BY <1>1, <1>2 DEF ImapMove
<1>3. CASE GraphList
  BY <1>1, <1>3 DEF GraphList
<1>4. CASE GraphMove
  BY <1>1, <1>4 DEF GraphMove
<1>5. CASE GraphDone
  BY <1>1, <1>5 DEF GraphDone
<1> QED
  BY <1>2, <1>3, <1>4, <1>5

LEMMA GraphFetchTotal ==
    ASSUME TypeOK, NEW m \in Messages, NEW kept \in SUBSET Parts(m), GraphFetch(m, kept)
    PROVE  run'.total = run.total
<1>1. \A x, y, z, w :
         /\ [run EXCEPT !.work = x, !.free = y].total = run.total
         /\ [run EXCEPT !.pc = w, !.work = x, !.hand = y, !.done = z].total = run.total
  BY DEF TypeOK, MailTypeOK, RunState
<1>2. CASE kept = {}
  <2>1. run' = [run EXCEPT !.work = run.work \ {m}, !.free = run.free \cup {m}]
    BY <1>2 DEF GraphFetch
  <2> QED
    BY <1>1, <2>1
<1>3. CASE kept # {}
  <2>1. run' = [run EXCEPT !.pc = "graphmove", !.work = run.work \ {m},
                           !.hand = run.hand \cup kept, !.done = {m}]
    BY <1>3 DEF GraphFetch
  <2> QED
    BY <1>1, <2>1
<1> QED
  BY <1>2, <1>3

LEMMA WorkerOwes ==
    ASSUME EvaluationKept, TypeOK, OneDecision, CallsMatch, CallShape, FreshOwed, WorkerStep
    PROVE  FreshOwed'
<1> USE IngestAssumption DEF TypeOK, MailTypeOK, RunState
<1> DEFINE OthersOwe == CallOwes("fetch") \/ CallOwes("upload") \/ upl.imported > 0 \/ evalDue
<1>1. ASSUME UNCHANGED <<imp, upl, fresh, evalDue>>, RunOwes => RunOwes' PROVE FreshOwed'
  BY <1>1 DEF FreshOwed, CallOwes
<1>2. CASE ListAccounts \/ FinishRun
  <2>1. run.pc \in {"list", "finish"} /\ UNCHANGED <<imp, upl, fresh, evalDue>>
    BY <1>2 DEF ListAccounts, FinishRun, storeVars
  <2> QED
    BY <1>1, <2>1 DEF RunOwes
<1>3. ASSUME NEW acc \in Accounts, StartAccount(acc) PROVE FreshOwed'
  BY <1>1, <1>3 DEF StartAccount, storeVars, RunOwes
<1>4. CASE ConnectFails \/ ImapMoveFails \/ GraphMoveFails \/ MarkSeenFails
  <2>1. AccountFailed /\ UNCHANGED <<imp, upl, fresh, evalDue>>
    BY <1>4 DEF ConnectFails, ImapMoveFails, GraphMoveFails, MarkSeenFails, storeVars
  <2>2. run'.pc = "next" /\ run'.total = run.total
    BY <2>1 DEF AccountFailed, IdleRun
  <2> QED
    BY <1>1, <2>1, <2>2 DEF RunOwes
<1>5. ASSUME NEW S \in SUBSET Messages, ImapScan(S) PROVE FreshOwed'
  <2>1. run'.pc = "move" /\ run'.total = run.total /\ UNCHANGED <<imp, upl, fresh, evalDue>>
    BY <1>5 DEF ImapScan, storeVars
  <2> QED
    BY <1>1, <2>1 DEF RunOwes
<1>6. CASE ImapMove \/ GraphList \/ GraphMove \/ GraphDone
  <2>1. UNCHANGED <<imp, upl, fresh, evalDue>>
    BY <1>6 DEF ImapMove, GraphList, GraphMove, GraphDone, storeVars
  <2>2. run'.total = run.total
    BY <1>6, MoveTotal
  <2>3. run'.pc \notin {"idle", "list", "finish"}
    BY <1>6 DEF ImapMove, GraphList, GraphMove, GraphDone
  <2> QED
    BY <1>1, <2>1, <2>2, <2>3 DEF RunOwes
<1>7. ASSUME NEW m \in Messages, GraphSkip(m) PROVE FreshOwed'
  BY <1>1, <1>7 DEF GraphSkip, storeVars, RunOwes
<1>8. ASSUME NEW m \in Messages, NEW kept \in SUBSET Parts(m), GraphFetch(m, kept)
      PROVE  FreshOwed'
  <2>1. run'.pc \in {"graph", "graphmove"} /\ UNCHANGED <<imp, upl, fresh, evalDue>>
    BY <1>8 DEF GraphFetch, storeVars
  <2>2. run'.total = run.total
    BY <1>8, GraphFetchTotal
  <2> QED
    BY <1>1, <2>1, <2>2 DEF RunOwes
<1>9. CASE MarkSeen
  <2>1. BeginImport("fetch", run.hand) /\ run'.pc = "save" /\ run'.total = run.total
        /\ UNCHANGED <<upl, fresh, evalDue>>
    BY <1>9 DEF MarkSeen
  <2>2. ~CallOwes("fetch") /\ imp'["upload"] = imp["upload"]
    BY <2>1 DEF BeginImport, CallShape, IdleImport, CallOwes, StoreTypeOK
  <2>3. RunOwes => RunOwes'
    BY <2>1 DEF RunOwes
  <2> QED
    BY <2>1, <2>2, <2>3 DEF FreshOwed, CallOwes
<1>10. CASE StoreStep("fetch")
  <2>1. /\ \A k \in Importers : CallOwes(k) => CallOwes(k)'
        /\ fresh' = fresh \/ CallOwes("fetch")'
    <3>1. /\ \A k \in Importers : CallOwes(k) => CallOwes(k)'
          /\ (\E a \in Attachments : rows'[a] > rows[a]) => CallOwes("fetch")'
      BY <1>10, CallStepOwes DEF StoreStep
    <3> QED
      BY <1>10, <3>1 DEF StoreStep
  <2>2. UNCHANGED <<run, upl, evalDue>>
    BY <1>10 DEF StoreStep
  <2> QED
    BY <2>1, <2>2 DEF FreshOwed, RunOwes
<1>11. CASE AccountOk
  <2>1. /\ imp["fetch"].state = "done" /\ EndImport("fetch") /\ UNCHANGED <<upl, fresh, evalDue>>
        /\ run'.pc = "next" /\ run'.total = run.total + imp["fetch"].imported
    BY <1>11 DEF AccountOk, IdleRun
  <2>2. imp'["upload"] = imp["upload"] /\ imp["fetch"].imported \in Nat
    BY <2>1 DEF EndImport, StoreTypeOK, ImportState
  <2>3. RunOwes \/ CallOwes("fetch") => RunOwes'
    BY <2>1, <2>2 DEF CallShape, CallOwes, RunOwes
  <2> QED
    BY <2>1, <2>2, <2>3 DEF FreshOwed, CallOwes
<1>12. ~ImportFailed
  BY DEF ImportFailed, CallShape, EvaluationKept
<1>13. CASE LoopDone
  <2>1. UNCHANGED <<imp, upl, fresh, evalDue>> /\ run'.total = run.total
        /\ run'.pc = IF run.total > 0 THEN "eval" ELSE "finish"
    BY <1>13 DEF LoopDone, storeVars
  <2> QED
    BY <1>1, <2>1 DEF RunOwes
<1>14. CASE EvaluateInRun
  BY <1>14 DEF EvaluateInRun, FreshOwed
<1> QED
  BY <1>2, <1>3, <1>4, <1>5, <1>6, <1>7, <1>8, <1>9, <1>10, <1>11, <1>12, <1>13, <1>14
  DEF WorkerStep

LEMMA UploadOwes ==
    ASSUME EvaluationKept, TypeOK, OneDecision, CallsMatch, CallShape, UploadParses,
           FreshOwed, UploadStep
    PROVE  FreshOwed'
<1> USE IngestAssumption DEF TypeOK, MailTypeOK, UploadState
<1>1. ASSUME NEW batch \in SUBSET UploadFiles, UploadFile(batch) PROVE FreshOwed'
  <2>1. BeginImport("upload", batch) /\ upl'.imported = upl.imported
        /\ UNCHANGED <<run, fresh, evalDue>>
    BY <1>1 DEF UploadFile
  <2>2. ~CallOwes("upload") /\ imp'["fetch"] = imp["fetch"]
    BY <2>1 DEF BeginImport, CallShape, IdleImport, CallOwes, StoreTypeOK
  <2> QED
    BY <2>1, <2>2 DEF FreshOwed, CallOwes, RunOwes
<1>2. CASE StoreStep("upload")
  <2>1. /\ \A k \in Importers : CallOwes(k) => CallOwes(k)'
        /\ fresh' = fresh \/ CallOwes("upload")'
    <3>1. /\ \A k \in Importers : CallOwes(k) => CallOwes(k)'
          /\ (\E a \in Attachments : rows'[a] > rows[a]) => CallOwes("upload")'
      BY <1>2, CallStepOwes DEF StoreStep
    <3> QED
      BY <1>2, <3>1 DEF StoreStep
  <2>2. UNCHANGED <<run, upl, evalDue>>
    BY <1>2 DEF StoreStep
  <2> QED
    BY <2>1, <2>2 DEF FreshOwed, RunOwes
<1>3. CASE UploadFileDone
  <2>1. imp["upload"].state = "done" /\ EndImport("upload") /\ UNCHANGED <<run, fresh, evalDue>>
    BY <1>3 DEF UploadFileDone
  <2>2. upl'.imported = upl.imported + imp["upload"].imported
    BY <1>3 DEF UploadFileDone, UploadParses
  <2>3. imp'["fetch"] = imp["fetch"] /\ imp["upload"].imported \in Nat
    BY <2>1 DEF EndImport, StoreTypeOK, ImportState
  <2>4. upl.imported > 0 \/ CallOwes("upload") => upl'.imported > 0
    BY <2>1, <2>2, <2>3 DEF CallShape, CallOwes
  <2> QED
    BY <2>1, <2>3, <2>4 DEF FreshOwed, CallOwes, RunOwes
<1>4. ~UploadFails /\ ~UploadRejected
  BY DEF UploadFails, UploadRejected, CallShape, EvaluationKept
<1>5. CASE UploadDone
  <2>1. evalDue' = (evalDue \/ upl.imported > 0) /\ UNCHANGED <<imp, run, fresh>>
    BY <1>5 DEF UploadDone, storeVars
  <2> QED
    BY <2>1 DEF FreshOwed, CallOwes, RunOwes
<1>6. CASE EvaluateAfterUpload
  BY <1>6 DEF EvaluateAfterUpload, FreshOwed
<1> QED
  BY <1>1, <1>2, <1>3, <1>4, <1>5, <1>6 DEF UploadStep

\* The alert rules see every stored report: whatever the interleaving of a run with
\* uploads and with the evaluations both start, once all of them are over nothing
\* fresh is left (runAll evaluates when its total is positive, HandleUploadSubmit when
\* its form imported something).  The hypothesis names what the code lets slip: a
\* crash, a database error after earlier imports, a form that a later file ends.
THEOREM MailEvaluated ==
    ASSUME EvaluationKept
    PROVE  Spec => []EvaluatedAfterImport
<1>1. Init => FreshOwed /\ UploadParses /\ ClosedFormEmpty
  BY IngestAssumption DEF Init, StoreInit, IdleImport, FreshOwed, UploadParses, ClosedFormEmpty
<1>2. /\ TypeOK /\ OneDecision /\ ImportsFromMoved /\ CallsMatch /\ CallShape
      /\ FreshOwed /\ UploadParses /\ ClosedFormEmpty /\ [Next]_vars
      => FreshOwed' /\ UploadParses' /\ ClosedFormEmpty'
  <2> SUFFICES ASSUME TypeOK, OneDecision, ImportsFromMoved, CallsMatch, CallShape,
                      FreshOwed, UploadParses, ClosedFormEmpty, [Next]_vars
               PROVE  FreshOwed'
    BY UploadParsesStep
  <2>1. CASE TriggerAll
    BY <2>1 DEF TriggerAll, storeVars, FreshOwed, CallOwes, RunOwes
  <2>2. CASE UNCHANGED vars \/ \E m \in Messages : Deliver(m)
    BY <2>2 DEF vars, Deliver, storeVars, FreshOwed, CallOwes, RunOwes
  <2>3. ~Crash
    BY DEF EvaluationKept, Crash
  <2> QED
    BY <2>1, <2>2, <2>3, WorkerOwes, UploadOwes DEF Next
<1>3. CallsMatch /\ CallShape /\ FreshOwed /\ ClosedFormEmpty => EvaluatedAfterImport
  <2> SUFFICES ASSUME CallsMatch, CallShape, FreshOwed, ClosedFormEmpty,
                      run.pc = "idle", upl.state = "idle", ~evalDue
               PROVE  fresh = {}
    BY DEF EvaluatedAfterImport
  <2>1. imp["fetch"] = IdleImport /\ imp["upload"] = IdleImport
    BY IngestAssumption DEF CallsMatch, CallShape
  <2>2. ~CallOwes("fetch") /\ ~CallOwes("upload")
    BY <2>1 DEF CallOwes, IdleImport
  <2> QED
    BY <2>2 DEF FreshOwed, RunOwes, ClosedFormEmpty
<1>4. Spec => []OneDecision
  <2>1. StoreInv => OneDecision
    BY DEF StoreInv
  <2> QED
    BY <2>1, MailImplementsStore, StoreInvariant, PTL
<1> QED
  BY <1>1, <1>2, <1>3, <1>4, MailTyping, MailImportsFromMoved, MailCalls, PTL DEF Spec
=============================================================================
