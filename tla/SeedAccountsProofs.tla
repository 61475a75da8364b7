------------------------- MODULE SeedAccountsProofs -------------------------
(***************************************************************************)
(* A message an account's cache says was examined is accounted for, and a    *)
(* message has at most one verdict, for every number of accounts, requests,  *)
(* messages and UIDVALIDITY values.                                          *)
(*                                                                          *)
(* ExaminedAccountedFor is not inductive: it speaks of the UIDVALIDITY the    *)
(* mailbox has now, while a run writes the UIDs of the one it selected.  The *)
(* invariant below speaks of every UIDVALIDITY, and of the messages the run  *)
(* has done but not yet marked.                                              *)
(***************************************************************************)
EXTENDS SeedAccounts, TLAPS

Accounted(m) == verdicts[m] > 0 \/ m \in lost

\* The part of the types the argument needs.
StoresOK ==
    /\ verdicts \in [Messages -> 0 .. 1]
    /\ mailbox \subseteq Messages
    /\ epoch \in Epochs
    /\ pass \in [todo : {pass.todo}, epoch : Epochs,
                 work : SUBSET Messages, done : SUBSET Messages]

\* Whatever UIDVALIDITY an entry was written under, its message is accounted for.
SeenAccounted ==
    \A i \in Ids : \A e \in Epochs : \A m \in Messages :
        <<e, UidOf[e][m]>> \in seen[i] => Accounted(m)

\* So is what the run is about to mark.
DoneAccounted == \A m \in pass.done : Accounted(m)

SeedInv ==
    /\ StoresOK
    /\ DOMAIN seen = Ids
    /\ SeenAccounted
    /\ DoneAccounted

\* Steps that touch neither the verdicts nor the caches, and leave the run's
\* messages in hand as they are or drop them.
LEMMA SeedFrame ==
    ASSUME SeedInv, UNCHANGED <<seen, verdicts, mailbox, epoch, lost>>,
           pass' \in {pass, NoPass} \/ \E t : pass' = [NoPass EXCEPT !.todo = t]
    PROVE  SeedInv'
BY AccountsAssumption
   DEF SeedInv, StoresOK, SeenAccounted, DoneAccounted, Accounted, NoPass

\* The caches of an account may lose entries at any time: they are deleted with
\* it, and purged when the mailbox was renumbered.
LEMMA SeenShrinks ==
    ASSUME SeedInv, DOMAIN seen' = Ids, \A i \in Ids : seen'[i] \subseteq seen[i],
           UNCHANGED <<verdicts, mailbox, epoch, lost, pass>>
    PROVE  SeedInv'
BY DEF SeedInv, StoresOK, SeenAccounted, DoneAccounted, Accounted

LEMMA RecordKeepsSeedInv ==
    ASSUME SeedInv, NEW m \in Messages, Record(m)
    PROVE  SeedInv'
<1>1. /\ verdicts' \in [Messages -> 0 .. 1]
      /\ \A n \in Messages : Accounted(n) => Accounted(n)'
      /\ Accounted(m)'
  BY DEF SeedInv, StoresOK, Record, Accounted
<1>2. /\ pass' = [pass EXCEPT !.work = @ \ {m}, !.done = @ \cup {m}]
      /\ UNCHANGED <<seen, mailbox, epoch>>
  BY DEF Record
<1>3. /\ pass'.done = pass.done \cup {m}
      /\ pass' \in [todo : {pass'.todo}, epoch : Epochs,
                    work : SUBSET Messages, done : SUBSET Messages]
  BY <1>2 DEF SeedInv, StoresOK
<1> QED BY <1>1, <1>2, <1>3 DEF SeedInv, StoresOK, SeenAccounted, DoneAccounted

LEMMA MarkKeepsSeedInv ==
    ASSUME SeedInv, Mark
    PROVE  SeedInv'
<1> DEFINE r == proc["run"].id
           marked == {<<pass.epoch, UidOf[pass.epoch][m]>> : m \in pass.done}
<1>1. /\ UNCHANGED <<verdicts, mailbox, epoch, lost, pass>>
      /\ \/ seen' = [seen EXCEPT ![r] = @ \cup marked]
         \/ UNCHANGED seen
  BY DEF Mark
<1>2. DOMAIN seen' = Ids
  BY <1>1 DEF SeedInv
<1>3. \A i \in Ids : seen'[i] \subseteq seen[i] \cup marked
  BY <1>1 DEF SeedInv
<1>4. ASSUME NEW e \in Epochs, NEW m \in Messages, <<e, UidOf[e][m]>> \in marked
      PROVE  Accounted(m)
  <2>1. PICK n \in pass.done : <<e, UidOf[e][m]>> = <<pass.epoch, UidOf[pass.epoch][n]>>
    BY <1>4
  <2>2. m = n
    BY <2>1, AccountsAssumption DEF SeedInv, StoresOK
  <2> QED BY <2>1, <2>2 DEF SeedInv, DoneAccounted
<1>5. SeenAccounted'
  <2> SUFFICES ASSUME NEW i \in Ids, NEW e \in Epochs, NEW m \in Messages,
                      <<e, UidOf[e][m]>> \in seen'[i]
               PROVE  Accounted(m)
    BY <1>1 DEF SeenAccounted, Accounted
  <2>1. CASE <<e, UidOf[e][m]>> \in seen[i]
    BY <2>1 DEF SeedInv, SeenAccounted
  <2>2. CASE <<e, UidOf[e][m]>> \in marked
    BY <2>2, <1>4
  <2> QED BY <1>3, <2>1, <2>2
<1> QED BY <1>1, <1>2, <1>5 DEF SeedInv, StoresOK, DoneAccounted, Accounted

LEMMA ScanKeepsSeedInv ==
    ASSUME SeedInv, Scan
    PROVE  SeedInv'
<1> DEFINE r == proc["run"].id
           work == {m \in mailbox :
                       <<epoch, UidOf[epoch][m]>> \notin {x \in seen[r] : x[1] = epoch}}
<1>1. /\ UNCHANGED <<verdicts, mailbox, epoch, lost>>
      /\ \/ seen' = [seen EXCEPT ![r] = {x \in seen[r] : x[1] = epoch}]
         \/ UNCHANGED seen
      /\ \/ pass' = [pass EXCEPT !.epoch = epoch, !.work = work]
         \/ UNCHANGED pass
  BY DEF Scan
<1>2. /\ DOMAIN seen' = Ids
      /\ \A i \in Ids : seen'[i] \subseteq seen[i]
  BY <1>1 DEF SeedInv
<1>3. /\ pass'.done = pass.done
      /\ pass' \in [todo : {pass'.todo}, epoch : Epochs,
                    work : SUBSET Messages, done : SUBSET Messages]
  <2>1. work \subseteq Messages
    BY DEF SeedInv, StoresOK
  <2> HIDE DEF work
  <2> QED BY <1>1, <2>1 DEF SeedInv, StoresOK
<1> QED BY <1>1, <1>2, <1>3
        DEF SeedInv, StoresOK, SeenAccounted, DoneAccounted, Accounted

LEMMA SeedInit == AccInit => SeedInv
BY AccountsAssumption
   DEF AccInit, SeedInv, StoresOK, SeenAccounted, DoneAccounted, NoPass

LEMMA SeedStep == SeedInv /\ [AccNext]_accVars => SeedInv'
<1> SUFFICES ASSUME SeedInv, [AccNext]_accVars
             PROVE  SeedInv'
  OBVIOUS
<1>1. CASE UNCHANGED accVars
  BY <1>1, SeedFrame DEF accVars
<1>2. CASE CreateAccount
  BY <1>2, SeedFrame DEF CreateAccount
<1>3. ASSUME NEW m \in Messages, Arrive(m)
      PROVE  SeedInv'
  BY <1>3 DEF Arrive, SeedInv, StoresOK, SeenAccounted, DoneAccounted, Accounted
<1>4. CASE ResetUids
  BY <1>4 DEF ResetUids, SeedInv, StoresOK, SeenAccounted, DoneAccounted, Accounted
<1>5. ASSUME NEW r \in Requests, RequestStep(r)
      PROVE  SeedInv'
  <2>1. CASE DeleteSeen(r)
    <3>1. DOMAIN seen' = Ids /\ \A i \in Ids : seen'[i] \subseteq seen[i]
      BY <2>1 DEF DeleteSeen, SeedInv
    <3> QED BY <2>1, <3>1, SeenShrinks DEF DeleteSeen
  <2>2. ASSUME NEW i \in Ids, NEW pc, Request(r, pc, i)
        PROVE  SeedInv'
    BY <2>2, SeedFrame DEF Request
  <2>3. CASE Toggle(r) \/ DeleteRow(r) \/ Invalidate(r) \/ Exchange(r) \/ UpdateSecret(r)
    BY <2>3, SeedFrame DEF Toggle, DeleteRow, Invalidate, Exchange, UpdateSecret
  <2> QED BY <1>5, <2>1, <2>2, <2>3 DEF RequestStep
<1>6. ASSUME NEW p \in Procs, TokenStep(p)
      PROVE  SeedInv'
  BY <1>6, SeedFrame DEF TokenStep, LookupToken, Grant, StoreToken
<1>7. CASE PassStep
  <2>1. CASE StartPass \/ PassOver \/ \E a \in pass.todo : NextAccount(a)
    BY <2>1, SeedFrame DEF StartPass, PassOver, NextAccount
  <2>2. CASE Scan
    BY <2>2, ScanKeepsSeedInv
  <2>3. CASE Mark
    BY <2>3, MarkKeepsSeedInv
  <2>4. CASE \E m \in Messages : Record(m)
    BY <2>4, RecordKeepsSeedInv
  <2> QED BY <1>7, <2>1, <2>2, <2>3, <2>4 DEF PassStep
<1>8. ASSUME NEW i \in Ids, Expire(i)
      PROVE  SeedInv'
  BY <1>8, SeedFrame DEF Expire
<1>9. CASE AccCrash
  BY <1>9, SeedFrame DEF AccCrash
<1> QED BY <1>1, <1>2, <1>3, <1>4, <1>5, <1>6, <1>7, <1>8, <1>9 DEF AccNext

\* Whatever happens to the accounts and the mailbox, a message that an account's
\* cache makes the worker skip has its verdict on record, or could not be stored.
THEOREM ExaminedAccountedForAlways == AccSpec => []ExaminedAccountedFor
<1>1. SeedInv => ExaminedAccountedFor
  BY DEF SeedInv, StoresOK, SeenAccounted, Accounted, ExaminedAccountedFor
<1> QED BY <1>1, SeedInit, SeedStep, PTL DEF AccSpec

\* However often a message is read, under however many accounts, it has at most
\* one verdict.
THEOREM OneVerdictAlways == AccSpec => []OneVerdictPerMessage
<1>1. SeedInv => OneVerdictPerMessage
  BY DEF SeedInv, StoresOK, OneVerdictPerMessage
<1> QED BY <1>1, SeedInit, SeedStep, PTL DEF AccSpec

-----------------------------------------------------------------------------
(* What an id that was never given out looks like.                         *)

Pcs == {"idle", "toggle", "delete", "deleteRow", "exchange", "update", "invalidate",
        "lookup", "grant", "store", "next", "scan", "record"}
ProcRow == [pc : Pcs, id : Ids \cup {0}, row : AccountRow]

IdTypes ==
    /\ acct \in [Ids -> AccountRow]
    /\ created \in 0 .. MaxAccounts /\ issued \in 0 .. MaxSecrets
    /\ DOMAIN seen = Ids
    /\ cache \in [Ids -> Secrets \cup {NoToken}]
    /\ proc \in [Procs -> ProcRow]
    /\ DOMAIN pass = {"todo", "epoch", "work", "done"}
    /\ pass.todo \subseteq [id : Ids, row : AccountRow]

Untouched(i) ==
    /\ ~acct[i].there
    /\ seen[i] = {}
    /\ cache[i] = NoToken
    /\ \A p \in Procs : proc[p].id # i
    /\ \A a \in pass.todo : a.id # i

IdInv ==
    /\ IdTypes
    /\ \A i \in Ids : i > created => Untouched(i)

LEMMA NoAccountOK == NoAccount \in AccountRow
BY DEF NoAccount, AccountRow

\* A row stays a row of the same account when one column of it is set.
LEMMA RowSet ==
    ASSUME NEW row \in AccountRow, NEW e \in BOOLEAN, NEW x \in Secrets \cup {NoToken}
    PROVE  /\ [row EXCEPT !.enabled = e] \in AccountRow
           /\ [row EXCEPT !.enabled = e].there = row.there
           /\ [row EXCEPT !.secret = x] \in AccountRow
           /\ [row EXCEPT !.secret = x].there = row.there
BY DEF AccountRow

LEMMA RestingOK == Resting \in ProcRow /\ Resting.id = 0
BY NoAccountOK DEF Resting, ProcRow, Pcs

LEMMA IdInit == AccInit => IdInv
<1> SUFFICES ASSUME AccInit PROVE IdInv
  OBVIOUS
<1>1. IdTypes
  BY AccountsAssumption, NoAccountOK, RestingOK DEF AccInit, IdTypes, NoPass, Secrets
<1>2. \A i \in Ids : Untouched(i)
  BY AccountsAssumption, RestingOK DEF AccInit, Untouched, NoPass, NoAccount, Ids
<1> QED BY <1>1, <1>2 DEF IdInv

\* A step leaves the processes at the accounts they were at, or sends them home.
ProcKeeps ==
    /\ proc' \in [Procs -> ProcRow]
    /\ \A q \in Procs : proc'[q].id \in {0, proc[q].id}

LEMMA GoToKeeps ==
    ASSUME IdInv, NEW p \in Procs, NEW pc \in Pcs, GoTo(p, pc)
    PROVE  ProcKeeps
<1>1. proc[p] \in ProcRow
  BY DEF IdInv, IdTypes
<1>2. /\ [proc[p] EXCEPT !.pc = pc] \in ProcRow
      /\ [proc[p] EXCEPT !.pc = pc].id = proc[p].id
  BY <1>1 DEF ProcRow
<1>3. proc' = [proc EXCEPT ![p] = [proc[p] EXCEPT !.pc = pc]]
  BY DEF GoTo
<1> HIDE DEF ProcRow
<1> QED BY <1>2, <1>3 DEF IdInv, IdTypes, ProcKeeps

LEMMA RestKeeps ==
    ASSUME IdInv, NEW p \in Procs, Rest(p)
    PROVE  ProcKeeps
BY RestingOK DEF Rest, IdInv, IdTypes, ProcKeeps

LEMMA NextOfPassKeeps ==
    ASSUME IdInv, NextOfPass
    PROVE  ProcKeeps
<1>1. /\ [Resting EXCEPT !.pc = "next"] \in ProcRow
      /\ [Resting EXCEPT !.pc = "next"].id = 0
  BY RestingOK DEF ProcRow, Pcs
<1> QED BY <1>1 DEF NextOfPass, IdInv, IdTypes, ProcKeeps

\* Steps that write only at the account a process is at.
LEMMA IdFrame ==
    ASSUME IdInv, ProcKeeps, UNCHANGED created,
           issued' \in 0 .. MaxSecrets,
           acct' \in [Ids -> AccountRow],
           cache' \in [Ids -> Secrets \cup {NoToken}],
           DOMAIN seen' = Ids,
           DOMAIN pass' = DOMAIN pass,
           pass'.todo \subseteq pass.todo,
           NEW p \in Procs,
           \A i \in Ids \ {proc[p].id} :
               /\ acct'[i].there => acct[i].there
               /\ seen'[i] \subseteq seen[i]
               /\ cache'[i] \in {cache[i], NoToken}
    PROVE  IdInv'
<1>1. IdTypes'
  BY DEF IdInv, IdTypes, ProcKeeps
<1>2. ASSUME NEW i \in Ids, i > created
      PROVE  Untouched(i)'
  <2>1. Untouched(i) /\ i # proc[p].id
    BY <1>2 DEF IdInv, Untouched
  <2>2. i # 0
    BY AccountsAssumption DEF Ids
  <2> QED BY <2>1, <2>2 DEF Untouched, ProcKeeps
<1> QED BY <1>1, <1>2 DEF IdInv

LEMMA IdStep == IdInv /\ [AccNext]_accVars => IdInv'
<1> SUFFICES ASSUME IdInv, [AccNext]_accVars
             PROVE  IdInv'
  OBVIOUS
<1>0. /\ IdTypes
      /\ "run" \in Procs /\ \A r \in Requests : r \in Procs
  BY DEF IdInv, Procs
<1>1. CASE UNCHANGED accVars
  BY <1>1 DEF accVars, IdInv, IdTypes, Untouched
<1>2. CASE CreateAccount
  <2>1. /\ created < MaxAccounts /\ created + 1 \in Ids
        /\ created' = created + 1
        /\ issued + 1 \in Secrets
    BY <1>0, <1>2, AccountsAssumption DEF CreateAccount, NewId, IdTypes, Ids, Secrets
  <2>2. [there |-> TRUE, enabled |-> TRUE, secret |-> issued + 1] \in AccountRow
    BY <2>1 DEF AccountRow
  <2>3. acct' = [acct EXCEPT ![created + 1] = [there |-> TRUE, enabled |-> TRUE,
                                               secret |-> issued + 1]]
    BY <1>2, <2>1 DEF CreateAccount, NewId
  <2>4. IdTypes'
    BY <1>0, <1>2, <2>1, <2>2, <2>3, AccountsAssumption DEF CreateAccount, IdTypes, Secrets
  <2>5. ASSUME NEW i \in Ids, i > created'
        PROVE  Untouched(i)'
    <3>1. Untouched(i) /\ i # created + 1
      BY <1>0, <2>1, <2>5 DEF IdInv, IdTypes, Ids
    <3> QED BY <1>0, <1>2, <2>3, <3>1 DEF CreateAccount, Untouched, IdTypes
  <2> QED BY <2>4, <2>5 DEF IdInv
<1>3. CASE ResetUids \/ \E m \in Messages : Arrive(m)
  BY <1>3 DEF Arrive, ResetUids, IdInv, IdTypes, Untouched
<1>4. ASSUME NEW r \in Requests, RequestStep(r)
      PROVE  IdInv'
  <2>1. ASSUME NEW i \in Ids, NEW pc \in {"toggle", "delete", "exchange", "lookup"},
               Request(r, pc, i)
        PROVE  IdInv'
    <3>1. [pc |-> pc, id |-> i, row |-> acct[i]] \in ProcRow
      BY <1>0 DEF IdTypes, ProcRow, Pcs
    <3>2. IdTypes'
      BY <1>0, <2>1, <3>1 DEF Request, IdTypes
    <3>3. ASSUME NEW k \in Ids, k > created PROVE Untouched(k)'
      <4>1. Untouched(k) /\ k # i
        BY <2>1, <3>3 DEF Request, IdInv, Untouched
      <4> QED BY <1>0, <2>1, <4>1 DEF Request, Untouched, IdTypes
    <3> QED BY <2>1, <3>2, <3>3 DEF Request, IdInv
  <2>2. CASE Toggle(r)
    <3>1. ProcKeeps
      BY <1>0, <2>2, RestKeeps DEF Toggle
    <3>2. /\ acct' \in [Ids -> AccountRow]
          /\ \A i \in Ids : acct'[i].there = acct[i].there
      <4> DEFINE k == proc[r].id
                 e == IF acct[k].there THEN ~proc[r].row.enabled ELSE acct[k].enabled
      <4>1. acct' = [acct EXCEPT ![k] = [acct[k] EXCEPT !.enabled = e]]
        BY <2>2 DEF Toggle
      <4>2. \A i \in Ids : i = k => e \in BOOLEAN
        BY <1>0 DEF IdTypes, AccountRow
      <4>3. \A i \in Ids : i = k => /\ [acct[k] EXCEPT !.enabled = e] \in AccountRow
                                    /\ [acct[k] EXCEPT !.enabled = e].there = acct[k].there
        BY <1>0, <4>2, RowSet DEF IdTypes
      <4> HIDE DEF e
      <4> QED BY <1>0, <4>1, <4>3 DEF IdTypes
    <3> QED BY <1>0, <2>2, <3>1, <3>2, IdFrame DEF Toggle, IdTypes
  <2>3. CASE DeleteSeen(r)
    <3>1. ProcKeeps
      BY <1>0, <2>3, GoToKeeps DEF DeleteSeen, Pcs
    <3> QED BY <1>0, <2>3, <3>1, IdFrame DEF DeleteSeen, IdTypes
  <2>4. CASE DeleteRow(r)
    <3>1. ProcKeeps
      BY <1>0, <2>4, GoToKeeps, RestKeeps DEF DeleteRow, Pcs
    <3>2. /\ acct' \in [Ids -> AccountRow]
          /\ \A i \in Ids : acct'[i].there => acct[i].there
      BY <1>0, <2>4, NoAccountOK DEF DeleteRow, IdTypes, NoAccount
    <3> QED BY <1>0, <2>4, <3>1, <3>2, IdFrame DEF DeleteRow, IdTypes
  <2>5. CASE Invalidate(r)
    <3>1. ProcKeeps
      BY <1>0, <2>5, RestKeeps DEF Invalidate
    <3> QED BY <1>0, <2>5, <3>1, IdFrame DEF Invalidate, IdTypes
  <2>6. CASE Exchange(r)
    <3>1. CASE Rest(r) /\ UNCHANGED issued
      <4>1. ProcKeeps
        BY <1>0, <3>1, RestKeeps
      <4> QED BY <1>0, <2>6, <3>1, <4>1, IdFrame DEF Exchange, IdTypes
    <3>2. CASE /\ issued < MaxSecrets /\ issued' = issued + 1
               /\ proc' = [proc EXCEPT ![r] = [pc |-> "update", id |-> @.id,
                              row |-> [@.row EXCEPT !.secret = issued + 1]]]
      <4>1. issued + 1 \in Secrets /\ issued' \in 0 .. MaxSecrets
        BY <1>0, <3>2, AccountsAssumption DEF IdTypes, Secrets
      <4>2. /\ proc[r] \in ProcRow
            /\ [pc |-> "update", id |-> proc[r].id,
                row |-> [proc[r].row EXCEPT !.secret = issued + 1]] \in ProcRow
        BY <1>0, <4>1 DEF IdTypes, ProcRow, Pcs, AccountRow
      <4>3. ProcKeeps
        BY <1>0, <3>2, <4>2 DEF ProcKeeps, IdTypes
      <4> QED BY <1>0, <2>6, <4>1, <4>3, IdFrame DEF Exchange, IdTypes
    <3> QED BY <2>6, <3>1, <3>2 DEF Exchange
  <2>7. CASE UpdateSecret(r)
    <3>1. ProcKeeps
      BY <1>0, <2>7, GoToKeeps, RestKeeps DEF UpdateSecret, Pcs
    <3>2. /\ acct' \in [Ids -> AccountRow]
          /\ \A i \in Ids : acct'[i].there = acct[i].there
      <4> DEFINE k == proc[r].id
                 x == IF acct[k].there THEN proc[r].row.secret ELSE acct[k].secret
      <4>1. \/ acct' = [acct EXCEPT ![k] = [acct[k] EXCEPT !.secret = x]]
            \/ acct' = acct
        BY <2>7 DEF UpdateSecret
      <4>2. \A i \in Ids : i = k => x \in Secrets \cup {NoToken}
        BY <1>0 DEF IdTypes, ProcRow, AccountRow
      <4>3. \A i \in Ids : i = k => /\ [acct[k] EXCEPT !.secret = x] \in AccountRow
                                    /\ [acct[k] EXCEPT !.secret = x].there = acct[k].there
        BY <1>0, <4>2, RowSet DEF IdTypes
      <4> HIDE DEF x
      <4> QED BY <1>0, <4>1, <4>3 DEF IdTypes
    <3> QED BY <1>0, <2>7, <3>1, <3>2, IdFrame DEF UpdateSecret, IdTypes
  <2> QED BY <1>4, <2>1, <2>2, <2>3, <2>4, <2>5, <2>6, <2>7 DEF RequestStep
<1>5. ASSUME NEW p \in Procs, TokenStep(p)
      PROVE  IdInv'
  <2>1. ASSUME GotToken(p) \/ NoTokenFor(p) \/ GoTo(p, "grant") \/ GoTo(p, "store")
        PROVE  ProcKeeps
    BY <2>1, GoToKeeps, RestKeeps, NextOfPassKeeps DEF GotToken, NoTokenFor, Pcs
  <2>2. CASE LookupToken(p) \/ Grant(p)
    <3>1. ProcKeeps
      BY <2>1, <2>2 DEF LookupToken, Grant
    <3> QED BY <1>0, <2>2, <3>1, IdFrame DEF LookupToken, Grant, IdTypes
  <2>3. CASE StoreToken(p)
    <3>1. ProcKeeps
      BY <2>1, <2>3 DEF StoreToken
    <3>2. cache' \in [Ids -> Secrets \cup {NoToken}]
      BY <1>0, <2>3 DEF StoreToken, IdTypes, ProcRow, AccountRow
    <3> QED BY <1>0, <2>3, <3>1, <3>2, IdFrame DEF StoreToken, IdTypes
  <2> QED BY <1>5, <2>2, <2>3 DEF TokenStep
<1>6. CASE PassStep
  <2>1. CASE StartPass
    <3>1. CASE UNCHANGED <<proc, pass>>
      BY <2>1, <3>1 DEF StartPass, IdInv, IdTypes, Untouched
    <3>2. CASE /\ NextOfPass
               /\ pass' = [NoPass EXCEPT !.todo = {[id |-> i, row |-> acct[i]] : i \in Enabled}]
      <4>1. ProcKeeps
        BY <3>2, NextOfPassKeeps
      <4>2. /\ pass'.todo = {[id |-> i, row |-> acct[i]] : i \in Enabled}
            /\ DOMAIN pass' = DOMAIN NoPass
            /\ DOMAIN NoPass = {"todo", "epoch", "work", "done"}
        BY <3>2 DEF NoPass
      <4>3. IdTypes'
        BY <1>0, <2>1, <4>1, <4>2 DEF StartPass, IdTypes, ProcKeeps, Enabled
      <4>4. ASSUME NEW i \in Ids, i > created PROVE Untouched(i)'
        <5>1. Untouched(i) /\ i # 0
          BY <4>4, AccountsAssumption DEF IdInv, Ids
        <5> QED BY <2>1, <4>1, <4>2, <5>1 DEF StartPass, Untouched, ProcKeeps, Enabled
      <4> QED BY <2>1, <4>3, <4>4 DEF StartPass, IdInv
    <3> QED BY <2>1, <3>1, <3>2 DEF StartPass
  <2>2. ASSUME NEW a \in pass.todo, NextAccount(a)
        PROVE  IdInv'
    <3>1. /\ [pc |-> "lookup", id |-> a.id, row |-> a.row] \in ProcRow
          /\ pass'.todo \subseteq pass.todo
          /\ DOMAIN pass' = {"todo", "epoch", "work", "done"}
      BY <1>0, <2>2 DEF NextAccount, NoPass, IdTypes, ProcRow, Pcs
    <3>2. IdTypes'
      BY <1>0, <2>2, <3>1 DEF NextAccount, IdTypes
    <3>3. ASSUME NEW i \in Ids, i > created PROVE Untouched(i)'
      <4>1. Untouched(i) /\ a.id # i
        BY <3>3 DEF IdInv, Untouched
      <4> QED BY <1>0, <2>2, <3>1, <4>1 DEF NextAccount, Untouched, IdTypes
    <3> QED BY <2>2, <3>2, <3>3 DEF NextAccount, IdInv
  <2>3. CASE PassOver
    <3>1. ProcKeeps
      BY <1>0, <2>3, RestKeeps DEF PassOver
    <3> QED BY <1>0, <2>3, <3>1, IdFrame DEF PassOver, IdTypes
  <2>4. CASE Scan
    <3>1. ProcKeeps /\ DOMAIN seen' = Ids
      BY <1>0, <2>4, GoToKeeps, NextOfPassKeeps DEF Scan, Pcs, IdTypes
    <3>2. pass'.todo \subseteq pass.todo
      <4> DEFINE work == {m \in mailbox : <<epoch, UidOf[epoch][m]>> \notin
                             {x \in seen[proc["run"].id] : x[1] = epoch}}
      <4>1. \/ pass' = [pass EXCEPT !.epoch = epoch, !.work = work]
            \/ UNCHANGED pass
        BY <2>4 DEF Scan
      <4> HIDE DEF work
      <4> QED BY <1>0, <4>1 DEF IdTypes
    <3>3. \A i \in Ids \ {proc["run"].id} : seen'[i] \subseteq seen[i]
      BY <1>0, <2>4 DEF Scan, IdTypes
    <3> QED BY <1>0, <2>4, <3>1, <3>2, <3>3, IdFrame DEF Scan, IdTypes
  <2>5. CASE Mark
    <3>1. ProcKeeps /\ DOMAIN seen' = Ids
      BY <1>0, <2>5, NextOfPassKeeps DEF Mark, IdTypes
    <3>2. \A i \in Ids \ {proc["run"].id} : seen'[i] \subseteq seen[i]
      BY <1>0, <2>5 DEF Mark, IdTypes
    <3> QED BY <1>0, <2>5, <3>1, <3>2, IdFrame DEF Mark, IdTypes
  <2>6. ASSUME NEW m \in Messages, Record(m)
        PROVE  IdInv'
    <3>1. pass'.todo = pass.todo /\ DOMAIN pass' = DOMAIN pass
      BY <1>0, <2>6 DEF Record, IdTypes
    <3> QED BY <2>6, <3>1 DEF Record, IdInv, IdTypes, Untouched
  <2> QED BY <1>6, <2>1, <2>2, <2>3, <2>4, <2>5, <2>6 DEF PassStep
<1>7. ASSUME NEW i \in Ids, Expire(i)
      PROVE  IdInv'
  <2>1. ProcKeeps
    BY <1>0, <1>7 DEF Expire, ProcKeeps, IdTypes
  <2> QED BY <1>0, <1>7, <2>1, IdFrame DEF Expire, IdTypes
<1>8. CASE AccCrash
  <2>1. ProcKeeps
    BY <1>0, <1>8, RestingOK DEF AccCrash, ProcKeeps
  <2>2. pass'.todo \subseteq pass.todo /\ DOMAIN pass' = DOMAIN pass
    BY <1>0, <1>8 DEF AccCrash, NoPass, IdTypes
  <2> QED BY <1>0, <1>8, <2>1, <2>2, IdFrame DEF AccCrash, IdTypes
<1> QED BY <1>1, <1>2, <1>3, <1>4, <1>5, <1>6, <1>7, <1>8 DEF AccNext

\* An account that appears is one whose id was never used: no cache rows, no token
\* and no process of a deleted account can reach it.
THEOREM NewAccountStartsCleanAlways == AccSpec => NewAccountStartsClean
<1>1. ASSUME IdInv, IdInv', [AccNext]_accVars, NEW i \in Ids, ~acct[i].there, acct'[i].there
      PROVE  StartsClean(i)
  <2>1. CASE CreateAccount
    <3>1. /\ NewId = created + 1 /\ created \in Nat
          /\ acct' = [acct EXCEPT ![NewId] = [there |-> TRUE, enabled |-> TRUE,
                                              secret |-> issued + 1]]
          /\ UNCHANGED <<seen, cache, proc>>
      BY <1>1, <2>1, AccountsAssumption DEF CreateAccount, NewId, IdInv, IdTypes
    <3>2. i = created + 1
      BY <1>1, <3>1 DEF IdInv, IdTypes
    <3>3. Untouched(i)
      BY <1>1, <3>1, <3>2 DEF IdInv, Ids
    <3> QED BY <3>1, <3>3 DEF StartsClean, Untouched
  <2>2. CASE ~CreateAccount
    <3>1. \A r \in Requests : Toggle(r) \/ DeleteRow(r) \/ UpdateSecret(r)
                                => \A k \in Ids : acct'[k].there => acct[k].there
      BY <1>1 DEF Toggle, DeleteRow, UpdateSecret, NoAccount, IdInv, IdTypes, AccountRow
    <3>2. \/ acct' = acct
          \/ \E r \in Requests : Toggle(r) \/ DeleteRow(r) \/ UpdateSecret(r)
      BY <1>1, <2>2
         DEF AccNext, accVars, Arrive, ResetUids, RequestStep, Request, DeleteSeen,
             Invalidate, Exchange, TokenStep, LookupToken, Grant, StoreToken, PassStep,
             StartPass, PassOver, Scan, Mark, NextAccount, Record, Expire, AccCrash
    <3> QED BY <1>1, <3>1, <3>2
  <2> QED BY <2>1, <2>2
<1>2. IdInv /\ IdInv' /\ [AccNext]_accVars => [\A i \in Ids : StartsClean(i)]_accVars
  BY <1>1 DEF StartsClean
<1> QED BY <1>2, IdInit, IdStep, PTL DEF AccSpec, NewAccountStartsClean

-----------------------------------------------------------------------------
(* The token cache.  StaleTokenFromOverlap is not inductive: a stale token    *)
(* enters the cache at the end of a request that read the account before its  *)
(* secret changed.  The invariant says of such a request, or of an account    *)
(* listed for a run, what the property says of the token: the change is on    *)
(* record in overlap, or its Invalidate is still to come.                     *)

Asking == {"lookup", "grant", "store"}

InvalidateDue(i) == \E r \in Requests : At(r, "invalidate") /\ proc[r].id = i

TokenStale(i) == cache[i] \notin {NoToken, acct[i].secret}

StaleOnRecord ==
    \A i \in Ids : acct[i].there /\ (TokenStale(i) \/ Stale(i)) => i \in overlap \/ InvalidateDue(i)

\* No account appears, none changes its secret, no token is stored, and nobody comes to
\* hold an old row.
LEMMA StaleFrame ==
    ASSUME StaleOnRecord, overlap \subseteq overlap',
           \A i \in Ids : acct'[i].there =>
               /\ acct[i].there /\ acct'[i].secret = acct[i].secret
               /\ cache'[i] \in {cache[i], NoToken}
               /\ Stale(i)' => Stale(i)
               /\ InvalidateDue(i) => InvalidateDue(i)'
    PROVE  StaleOnRecord'
BY DEF StaleOnRecord, TokenStale

\* A process that is not about to invalidate moves on with the row it holds.
MovesOn(p) ==
    /\ proc[p].pc # "invalidate"
    /\ \A q \in Procs \ {p} : proc'[q] = proc[q]
    /\ proc'[p].pc \in Asking =>
          proc[p].pc \in Asking /\ proc'[p].id = proc[p].id /\ proc'[p].row = proc[p].row

LEMMA MovesOnKeeps ==
    ASSUME IdInv, NEW p \in Procs, MovesOn(p), pass'.todo \subseteq pass.todo,
           NEW i \in Ids, acct'[i].secret = acct[i].secret
    PROVE  /\ Stale(i)' => Stale(i)
           /\ InvalidateDue(i) => InvalidateDue(i)'
<1>1. ASSUME NEW q \in Procs, proc'[q].pc \in Asking, proc'[q].id = i,
             proc'[q].row.secret # acct[i].secret
      PROVE  Stale(i)
  BY <1>1 DEF MovesOn, Stale, Asking
<1>2. ASSUME NEW a \in pass'.todo, a.id = i, a.row.secret # acct[i].secret
      PROVE  Stale(i)
  BY <1>2 DEF Stale
<1>3. Stale(i)' => Stale(i)
  BY <1>1, <1>2 DEF Stale, Asking
<1>4. InvalidateDue(i) => InvalidateDue(i)'
  BY DEF MovesOn, InvalidateDue, At, Procs
<1> QED
  BY <1>3, <1>4

LEMMA GoToMovesOn ==
    ASSUME IdInv, NEW p \in Procs, NEW pc, GoTo(p, pc), ~At(p, "invalidate"),
           pc \in Asking => proc[p].pc \in Asking
    PROVE  MovesOn(p)
<1> DEFINE x == [proc[p] EXCEPT !.pc = pc]
<1>1. x.pc = pc /\ x.id = proc[p].id /\ x.row = proc[p].row
  BY DEF IdInv, IdTypes, ProcRow
<1>2. proc' = [proc EXCEPT ![p] = x] /\ DOMAIN proc = Procs
  BY DEF GoTo, IdInv, IdTypes
<1> HIDE DEF x
<1> QED
  BY <1>1, <1>2 DEF MovesOn, At

LEMMA RestMovesOn ==
    ASSUME IdInv, NEW p \in Procs, Rest(p), ~At(p, "invalidate")
    PROVE  MovesOn(p)
BY DEF Rest, Resting, Asking, MovesOn, At, IdInv, IdTypes

LEMMA NextOfPassMovesOn ==
    ASSUME IdInv, NextOfPass, ~At("run", "invalidate")
    PROVE  MovesOn("run")
<1> DEFINE x == [Resting EXCEPT !.pc = "next"]
<1>1. x.pc = "next" /\ "next" \notin Asking
  BY DEF Resting, Asking
<1>2. proc' = [proc EXCEPT !["run"] = x] /\ DOMAIN proc = Procs /\ "run" \in Procs
  BY DEF NextOfPass, IdInv, IdTypes, Procs
<1> HIDE DEF x
<1> QED
  BY <1>1, <1>2 DEF MovesOn, At

\* The steps in which a process moves on, without a change of the accounts' secrets or a
\* new token.
LEMMA StaleMove ==
    ASSUME IdInv, StaleOnRecord, NEW p \in Procs, MovesOn(p), pass'.todo \subseteq pass.todo,
           overlap' = overlap,
           \A i \in Ids : /\ acct'[i].there => /\ acct[i].there
                                             /\ acct'[i].secret = acct[i].secret
                         /\ cache'[i] \in {cache[i], NoToken}
    PROVE  StaleOnRecord'
<1>1. ASSUME NEW i \in Ids, acct'[i].there
      PROVE  /\ Stale(i)' => Stale(i)
             /\ InvalidateDue(i) => InvalidateDue(i)'
  BY <1>1, MovesOnKeeps
<1> QED
  BY <1>1, StaleFrame

LEMMA StaleStep == IdInv /\ StaleOnRecord /\ [AccNext]_accVars => StaleOnRecord'
<1> SUFFICES ASSUME IdInv, StaleOnRecord, [AccNext]_accVars
             PROVE  StaleOnRecord'
  OBVIOUS
<1>0. /\ IdTypes
      /\ "run" \in Procs /\ \A r \in Requests : r \in Procs
  BY DEF IdInv, Procs
<1>1. CASE UNCHANGED accVars
  BY <1>1, StaleFrame DEF accVars, Stale, InvalidateDue, At
<1>2. CASE CreateAccount
  <2>1. /\ NewId = created + 1 /\ created + 1 > created
        /\ acct' = [acct EXCEPT ![NewId] = [there |-> TRUE, enabled |-> TRUE,
                                           secret |-> issued + 1]]
        /\ UNCHANGED <<cache, proc, pass, overlap>>
    BY <1>0, <1>2, AccountsAssumption DEF CreateAccount, NewId, IdTypes
  <2>2. ASSUME NEW i \in Ids, acct'[i].there, (TokenStale(i) \/ Stale(i))'
        PROVE  i \in overlap' \/ InvalidateDue(i)'
    <3>1. CASE i = created + 1
      <4>1. Untouched(i)
        BY <2>1, <3>1 DEF IdInv
      <4> QED BY <2>1, <2>2, <4>1 DEF Untouched, TokenStale, Stale
    <3>2. CASE i # created + 1
      <4>1. acct'[i] = acct[i]
        BY <1>0, <2>1, <3>2 DEF IdTypes
      <4> QED BY <2>1, <2>2, <4>1 DEF StaleOnRecord, TokenStale, Stale, InvalidateDue, At
    <3> QED BY <3>1, <3>2
  <2> QED BY <2>2 DEF StaleOnRecord
<1>3. CASE ResetUids \/ \E m \in Messages : Arrive(m)
  BY <1>3, StaleFrame DEF Arrive, ResetUids, Stale, InvalidateDue, At
<1>4. ASSUME NEW r \in Requests, RequestStep(r)
      PROVE  StaleOnRecord'
  <2>1. ASSUME NEW i \in Ids, NEW pc \in {"toggle", "delete", "exchange", "lookup"},
               Request(r, pc, i)
        PROVE  StaleOnRecord'
    <3>1. /\ At(r, "idle")
          /\ proc' = [proc EXCEPT ![r] = [pc |-> pc, id |-> i, row |-> acct[i]]]
          /\ UNCHANGED <<acct, cache, pass, overlap>>
      BY <2>1 DEF Request
    <3>2. /\ \A q \in Procs \ {r} : proc'[q] = proc[q]
          /\ proc'[r] = [pc |-> pc, id |-> i, row |-> acct[i]]
      BY <1>0, <3>1 DEF IdTypes
    <3>3. ASSUME NEW k \in Ids
          PROVE  Stale(k)' => Stale(k)
      <4>1. ASSUME NEW q \in Procs, proc'[q].pc \in Asking, proc'[q].id = k,
                   proc'[q].row.secret # acct[k].secret
            PROVE  Stale(k)
        BY <3>2, <4>1 DEF Stale, Asking
      <4> QED BY <3>1, <4>1 DEF Stale, Asking
    <3>4. ASSUME NEW k \in Ids
          PROVE  InvalidateDue(k) => InvalidateDue(k)'
      BY <1>0, <3>1, <3>2 DEF InvalidateDue, At
    <3> QED BY <3>1, <3>3, <3>4, StaleFrame
  <2>2. CASE Toggle(r)
    <3>1. MovesOn(r)
      BY <1>0, <2>2, RestMovesOn DEF Toggle, At
    <3>2. \A i \in Ids : acct'[i].there = acct[i].there /\ acct'[i].secret = acct[i].secret
      BY <1>0, <2>2 DEF Toggle, IdTypes, AccountRow
    <3> QED BY <1>0, <2>2, <3>1, <3>2, StaleMove DEF Toggle
  <2>3. CASE DeleteSeen(r)
    <3>1. MovesOn(r)
      BY <1>0, <2>3, GoToMovesOn DEF DeleteSeen, At, Asking
    <3> QED BY <1>0, <2>3, <3>1, StaleMove DEF DeleteSeen
  <2>4. CASE DeleteRow(r)
    <3>1. MovesOn(r)
      BY <1>0, <2>4, GoToMovesOn, RestMovesOn DEF DeleteRow, At, Asking
    <3>2. \A i \in Ids : acct'[i].there => acct[i].there /\ acct'[i].secret = acct[i].secret
      BY <1>0, <2>4 DEF DeleteRow, IdTypes, NoAccount
    <3> QED BY <1>0, <2>4, <3>1, <3>2, StaleMove DEF DeleteRow
  <2>5. CASE Invalidate(r)
    <3> DEFINE k == proc[r].id
    <3>1. /\ At(r, "invalidate")
          /\ cache' = [cache EXCEPT ![k] = NoToken]
          /\ overlap' = IF Stale(k) THEN overlap \cup {k} ELSE overlap \ {k}
          /\ proc' = [proc EXCEPT ![r] = Resting]
          /\ UNCHANGED <<acct, pass>>
      BY <2>5 DEF Invalidate, Rest
    <3>2. /\ \A q \in Procs \ {r} : proc'[q] = proc[q]
          /\ proc'[r] = Resting /\ Resting.pc \notin Asking
      BY <1>0, <3>1 DEF IdTypes, Resting, Asking
    <3>3. ASSUME NEW i \in Ids
          PROVE  Stale(i)' => Stale(i)
      <4>1. ASSUME NEW q \in Procs, proc'[q].pc \in Asking, proc'[q].id = i,
                   proc'[q].row.secret # acct[i].secret
            PROVE  Stale(i)
        BY <3>2, <4>1 DEF Stale, Asking
      <4> QED BY <3>1, <4>1 DEF Stale, Asking
    <3>4. ASSUME NEW i \in Ids, acct'[i].there, (TokenStale(i) \/ Stale(i))'
          PROVE  i \in overlap' \/ InvalidateDue(i)'
      <4>1. CASE i = k
        <5>1. Stale(i)
          BY <1>0, <3>1, <3>3, <3>4, <4>1 DEF TokenStale, IdTypes
        <5> QED BY <3>1, <4>1, <5>1
      <4>2. CASE i # k
        <5>1. i \in overlap \/ InvalidateDue(i)
          BY <1>0, <3>1, <3>3, <3>4, <4>2 DEF TokenStale, IdTypes, StaleOnRecord
        <5>2. InvalidateDue(i) => InvalidateDue(i)'
          BY <1>0, <3>2, <4>2 DEF InvalidateDue, At
        <5> QED BY <3>1, <4>2, <5>1, <5>2
      <4> QED BY <4>1, <4>2
    <3> QED BY <3>4 DEF StaleOnRecord
  <2>6. CASE Exchange(r)
    <3>1. MovesOn(r)
      <4>1. CASE Rest(r)
        BY <1>0, <2>6, <4>1, RestMovesOn DEF Exchange, At
      <4>2. CASE proc' = [proc EXCEPT ![r] = [pc |-> "update", id |-> @.id,
                              row |-> [@.row EXCEPT !.secret = issued + 1]]]
        <5> DEFINE x == [pc |-> "update", id |-> proc[r].id,
                         row |-> [proc[r].row EXCEPT !.secret = issued + 1]]
        <5>1. x.pc \notin Asking
          BY DEF Asking
        <5>2. proc' = [proc EXCEPT ![r] = x]
          BY <4>2
        <5> HIDE DEF x
        <5> QED BY <1>0, <2>6, <5>1, <5>2 DEF MovesOn, Exchange, At, IdTypes
      <4> QED BY <2>6, <4>1, <4>2 DEF Exchange
    <3> QED BY <1>0, <2>6, <3>1, StaleMove DEF Exchange
  <2>7. CASE UpdateSecret(r)
    <3>1. CASE Rest(r) /\ UNCHANGED acct
      <4>1. MovesOn(r)
        BY <1>0, <2>7, <3>1, RestMovesOn DEF UpdateSecret, At
      <4> QED BY <1>0, <2>7, <3>1, <4>1, StaleMove DEF UpdateSecret
    <3>2. CASE ~(Rest(r) /\ UNCHANGED acct)
      <4> DEFINE k == proc[r].id
                 s == IF acct[k].there THEN proc[r].row.secret ELSE acct[k].secret
      <4>1. /\ acct' = [acct EXCEPT ![k] = [acct[k] EXCEPT !.secret = s]]
            /\ GoTo(r, "invalidate") /\ At(r, "update")
            /\ UNCHANGED <<cache, pass, overlap>>
        BY <2>7, <3>2 DEF UpdateSecret
      <4>2. proc'[r].pc = "invalidate" /\ proc'[r].id = k
        BY <1>0, <4>1 DEF GoTo, IdTypes, ProcRow
      <4>3. MovesOn(r)
        BY <1>0, <4>1, GoToMovesOn DEF At, Asking
      <4>4. \A i \in Ids : i # k => acct'[i] = acct[i]
        BY <1>0, <4>1 DEF IdTypes
      <4>5. ASSUME NEW i \in Ids, acct'[i].there, (TokenStale(i) \/ Stale(i))'
            PROVE  i \in overlap' \/ InvalidateDue(i)'
        <5>1. CASE i = k
          BY <4>2, <5>1 DEF InvalidateDue, At
        <5>2. CASE i # k
          <6>1. /\ Stale(i)' => Stale(i)
                /\ InvalidateDue(i) => InvalidateDue(i)'
            BY <1>0, <4>1, <4>3, <4>4, <5>2, MovesOnKeeps
          <6> QED BY <4>1, <4>4, <4>5, <5>2, <6>1 DEF StaleOnRecord, TokenStale
        <5> QED BY <5>1, <5>2
      <4> QED BY <4>5 DEF StaleOnRecord
    <3> QED BY <3>1, <3>2
  <2> QED BY <1>4, <2>1, <2>2, <2>3, <2>4, <2>5, <2>6, <2>7 DEF RequestStep
<1>5. ASSUME NEW p \in Procs, TokenStep(p)
      PROVE  StaleOnRecord'
  <2>1. ASSUME \/ GotToken(p) \/ NoTokenFor(p) \/ GoTo(p, "store") \/ GoTo(p, "grant"),
               proc[p].pc \in Asking
        PROVE  MovesOn(p)
    <3>1. ~At(p, "invalidate")
      BY <2>1 DEF At, Asking
    <3>2. CASE NextOfPass /\ p = "run"
      BY <3>1, <3>2, NextOfPassMovesOn
    <3>3. CASE Rest(p)
      BY <3>1, <3>3, RestMovesOn
    <3>4. CASE \E pc \in {"scan", "store", "grant"} : GoTo(p, pc)
      BY <2>1, <3>1, <3>4, GoToMovesOn
    <3> QED BY <2>1, <3>2, <3>3, <3>4 DEF GotToken, NoTokenFor
  <2>2. CASE LookupToken(p) \/ Grant(p)
    <3>1. MovesOn(p)
      BY <2>1, <2>2 DEF LookupToken, Grant, At, Asking
    <3> QED BY <1>0, <2>2, <3>1, StaleMove DEF LookupToken, Grant
  <2>3. CASE StoreToken(p)
    <3> DEFINE k == proc[p].id
    <3>1. /\ MovesOn(p) /\ proc[p].pc = "store"
          /\ cache' = [cache EXCEPT ![k] = proc[p].row.secret]
          /\ UNCHANGED <<acct, pass, overlap>>
      BY <2>1, <2>3 DEF StoreToken, At, Asking
    <3>2. ASSUME NEW i \in Ids, acct'[i].there, (TokenStale(i) \/ Stale(i))'
          PROVE  i \in overlap' \/ InvalidateDue(i)'
      <4>1. /\ Stale(i)' => Stale(i)
            /\ InvalidateDue(i) => InvalidateDue(i)'
        BY <3>1, MovesOnKeeps
      <4>2. TokenStale(i)' => TokenStale(i) \/ Stale(i)
        <5>1. CASE i = k
          BY <1>0, <3>1, <5>1 DEF TokenStale, Stale, IdTypes
        <5>2. CASE i # k
          BY <1>0, <3>1, <5>2 DEF TokenStale, IdTypes
        <5> QED BY <5>1, <5>2
      <4> QED BY <3>1, <3>2, <4>1, <4>2 DEF StaleOnRecord
    <3> QED BY <3>2 DEF StaleOnRecord
  <2> QED BY <1>5, <2>2, <2>3 DEF TokenStep
<1>6. CASE PassStep
  <2>1. CASE StartPass
    <3>1. CASE UNCHANGED <<proc, pass>>
      BY <2>1, <3>1, StaleFrame DEF StartPass, Stale, InvalidateDue, At
    <3>2. CASE /\ NextOfPass
               /\ pass' = [NoPass EXCEPT !.todo = {[id |-> i, row |-> acct[i]] : i \in Enabled}]
      <4>1. /\ MovesOn("run") /\ UNCHANGED <<acct, cache, overlap>>
        BY <1>0, <2>1, <3>2, NextOfPassMovesOn DEF StartPass, At
      <4>2. \A a \in pass'.todo : a.row = acct[a.id]
        BY <3>2 DEF NoPass
      <4>3. ASSUME NEW i \in Ids
            PROVE  /\ Stale(i)' => Stale(i)
                   /\ InvalidateDue(i) => InvalidateDue(i)'
        <5>1. ASSUME NEW q \in Procs, proc'[q].pc \in Asking, proc'[q].id = i,
                     proc'[q].row.secret # acct[i].secret
              PROVE  Stale(i)
          BY <4>1, <5>1 DEF MovesOn, Stale, Asking
        <5>2. Stale(i)' => Stale(i)
          BY <4>1, <4>2, <5>1 DEF Stale, Asking
        <5>3. InvalidateDue(i) => InvalidateDue(i)'
          BY <1>0, <4>1 DEF MovesOn, InvalidateDue, At
        <5> QED BY <5>2, <5>3
      <4> QED BY <4>1, <4>3, StaleFrame
    <3> QED BY <2>1, <3>1, <3>2 DEF StartPass
  <2>2. ASSUME NEW a \in pass.todo, NextAccount(a)
        PROVE  StaleOnRecord'
    <3>1. /\ At("run", "next")
          /\ proc' = [proc EXCEPT !["run"] = [pc |-> "lookup", id |-> a.id, row |-> a.row]]
          /\ UNCHANGED <<acct, cache, overlap>>
      BY <2>2 DEF NextAccount
    <3>2. /\ \A q \in Procs \ {"run"} : proc'[q] = proc[q]
          /\ proc'["run"] = [pc |-> "lookup", id |-> a.id, row |-> a.row]
          /\ pass'.todo \subseteq pass.todo
      BY <1>0, <2>2, <3>1 DEF IdTypes, NextAccount, NoPass
    <3>3. ASSUME NEW i \in Ids
          PROVE  /\ Stale(i)' => Stale(i)
                 /\ InvalidateDue(i) => InvalidateDue(i)'
      <4>1. ASSUME NEW q \in Procs, proc'[q].pc \in Asking, proc'[q].id = i,
                   proc'[q].row.secret # acct[i].secret
            PROVE  Stale(i)
        <5>1. CASE q = "run"
          BY <3>2, <4>1, <5>1 DEF Stale
        <5>2. CASE q # "run"
          BY <3>2, <4>1, <5>2 DEF Stale, Asking
        <5> QED BY <5>1, <5>2
      <4>2. Stale(i)' => Stale(i)
        BY <3>1, <3>2, <4>1 DEF Stale, Asking
      <4>3. InvalidateDue(i) => InvalidateDue(i)'
        BY <1>0, <3>1, <3>2 DEF InvalidateDue, At
      <4> QED BY <4>2, <4>3
    <3> QED BY <3>1, <3>3, StaleFrame
  <2>3. CASE PassOver
    <3>1. MovesOn("run")
      BY <1>0, <2>3, RestMovesOn DEF PassOver, At
    <3> QED BY <1>0, <2>3, <3>1, StaleMove DEF PassOver
  <2>4. CASE Scan
    <3>1. MovesOn("run")
      BY <1>0, <2>4, GoToMovesOn, NextOfPassMovesOn DEF Scan, At, Asking
    <3>2. pass'.todo \subseteq pass.todo
      <4> DEFINE work == {m \in mailbox : <<epoch, UidOf[epoch][m]>> \notin
                             {x \in seen[proc["run"].id] : x[1] = epoch}}
      <4>1. \/ pass' = [pass EXCEPT !.epoch = epoch, !.work = work]
            \/ UNCHANGED pass
        BY <2>4 DEF Scan
      <4> HIDE DEF work
      <4> QED BY <1>0, <4>1 DEF IdTypes
    <3> QED BY <1>0, <2>4, <3>1, <3>2, StaleMove DEF Scan
  <2>5. CASE Mark
    <3>1. MovesOn("run")
      BY <1>0, <2>5, NextOfPassMovesOn DEF Mark, At
    <3> QED BY <1>0, <2>5, <3>1, StaleMove DEF Mark
  <2>6. ASSUME NEW m \in Messages, Record(m)
        PROVE  StaleOnRecord'
    <3>1. pass'.todo = pass.todo
      BY <1>0, <2>6 DEF Record, IdTypes
    <3> QED BY <2>6, <3>1, StaleFrame DEF Record, Stale, InvalidateDue, At
  <2> QED BY <1>6, <2>1, <2>2, <2>3, <2>4, <2>5, <2>6 DEF PassStep
<1>7. ASSUME NEW i \in Ids, Expire(i)
      PROVE  StaleOnRecord'
  <2>1. \A k \in Ids : cache'[k] \in {cache[k], NoToken}
    BY <1>0, <1>7 DEF Expire, IdTypes
  <2> QED BY <1>7, <2>1, StaleFrame DEF Expire, Stale, InvalidateDue, At
<1>8. CASE AccCrash
  <2>1. \A i \in Ids : ~TokenStale(i)' /\ ~Stale(i)'
    BY <1>8 DEF AccCrash, TokenStale, Stale, NoPass, Resting
  <2> QED BY <2>1 DEF StaleOnRecord
<1> QED BY <1>1, <1>2, <1>3, <1>4, <1>5, <1>6, <1>7, <1>8 DEF AccNext

LEMMA StaleInit == AccInit => StaleOnRecord
BY DEF AccInit, StaleOnRecord, TokenStale, Stale, NoPass, Resting

\* Whatever requests, runs, expiries and crashes do to one another, a token granted for a
\* secret the account no longer has is in the cache only when somebody held the old row
\* while the secret changed, or the Invalidate of that change is still to come.
THEOREM TokenStaleFromOverlapAlways == AccSpec => []StaleTokenFromOverlap
<1>1. StaleOnRecord => StaleTokenFromOverlap
  BY DEF StaleOnRecord, TokenStale, InvalidateDue, StaleTokenFromOverlap
<1> QED
  BY <1>1, IdInit, IdStep, StaleInit, StaleStep, PTL DEF AccSpec
=============================================================================
