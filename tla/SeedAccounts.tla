---------------------------- MODULE SeedAccounts ----------------------------
(***************************************************************************)
(* Mail accounts under administration while they are being read:             *)
(* internal/handlers/accounts.go (create, delete, toggle, test, the Google   *)
(* consent callback), the token cache of internal/mailauth/mailauth.go, and  *)
(* the fetch worker on seed mailboxes (internal/ingest/worker.go,            *)
(* internal/imap/seed.go), which are read for BIMI verdicts.                 *)
(*                                                                          *)
(* Every handler, and the worker, acts on the account as it read it; the row *)
(* may have changed or gone since.  The accounts here are OAuth accounts of  *)
(* one IMAP mailbox: the operator may delete an account and add it again.    *)
(***************************************************************************)
EXTENDS Integers, FiniteSets

CONSTANTS
    Messages,      \* what can arrive in the mailbox
    Epochs,        \* bound: the UIDVALIDITY values 0 .. n of the mailbox
    UidOf,         \* the UID of a message under a UIDVALIDITY
    Requests,      \* HTTP requests served at once
    MaxAccounts,   \* bound: accounts ever created
    MaxSecrets,    \* bound: secrets ever issued
    AccFaults      \* "grant", "imap", "db", "crash"

Ids == 1 .. MaxAccounts
Uids == Nat
Secrets == 1 .. MaxSecrets
NoToken == 0
Procs == {"run"} \cup Requests

ASSUME AccountsAssumption ==
    /\ "run" \notin Requests
    /\ 0 \in Epochs /\ MaxAccounts \in Nat /\ MaxSecrets \in Nat
    /\ \A e \in Epochs : \A m, n \in Messages : UidOf[e][m] = UidOf[e][n] => m = n
    /\ AccFaults \subseteq {"grant", "imap", "db", "crash"}

VARIABLES
    acct,       \* the accounts table: there, enabled, secret
    created,    \* how many ids the table has given out (AUTOINCREMENT)
    issued,     \* how many secrets have been issued
    seen,       \* imap_seen: <<uidvalidity, uid>> of each account
    verdicts,   \* bimi_verdicts: rows of each message
    mailbox,    \* the messages in the mailbox
    epoch,      \* its UIDVALIDITY
    cache,      \* Manager.cache: the secret a cached token was granted for
    proc,       \* each process: where it is and the account row it read
    pass,       \* the worker's run: accounts to do, messages in hand
    lost,       \* ghost: messages whose verdicts could not be stored
    overlap     \* ghost: accounts whose secret changed under a token request

accVars == <<acct, created, issued, seen, verdicts, mailbox, epoch, cache, proc, pass,
             lost, overlap>>

NoAccount == [there |-> FALSE, enabled |-> FALSE, secret |-> NoToken]
Resting == [pc |-> "idle", id |-> 0, row |-> NoAccount]
NoPass == [todo |-> {}, epoch |-> 0, work |-> {}, done |-> {}]

AccInit ==
    /\ acct = [i \in Ids |-> NoAccount]
    /\ created = 0 /\ issued = 0
    /\ seen = [i \in Ids |-> {}]
    /\ verdicts = [m \in Messages |-> 0]
    /\ mailbox = {} /\ epoch = 0
    /\ cache = [i \in Ids |-> NoToken]
    /\ proc = [p \in Procs |-> Resting]
    /\ pass = NoPass
    /\ lost = {} /\ overlap = {}

At(p, pc) == proc[p].pc = pc
GoTo(p, pc) == proc' = [proc EXCEPT ![p].pc = pc]
Rest(p) == proc' = [proc EXCEPT ![p] = Resting]

-----------------------------------------------------------------------------
(* The mail server                                                         *)

Arrive(m) ==
    /\ m \notin mailbox
    /\ mailbox' = mailbox \cup {m}
    /\ UNCHANGED <<acct, created, issued, seen, verdicts, epoch, cache, proc, pass, lost,
                   overlap>>

\* The server assigns new UIDs (the mailbox was rebuilt or moved).
ResetUids ==
    /\ epoch + 1 \in Epochs
    /\ epoch' = epoch + 1
    /\ UNCHANGED <<acct, created, issued, seen, verdicts, mailbox, cache, proc, pass, lost,
                   overlap>>

-----------------------------------------------------------------------------
(* HandleAccountCreate                                                     *)

\* A plausible mistake: without AUTOINCREMENT the id of a deleted row is reused.
NewIdReused == IF \E i \in Ids : ~acct[i].there
               THEN CHOOSE i \in Ids : ~acct[i].there /\ \A k \in Ids : k < i => acct[k].there
               ELSE 0

\* The id SQLite gives the next row; 0 once the bound is reached.
NewId == IF created < MaxAccounts THEN created + 1 ELSE 0

CreateAccount ==
    /\ issued < MaxSecrets /\ NewId # 0
    /\ acct' = [acct EXCEPT ![NewId] = [there |-> TRUE, enabled |-> TRUE,
                                       secret |-> issued + 1]]
    /\ created' = IF NewId > created THEN NewId ELSE created
    /\ issued' = issued + 1
    /\ UNCHANGED <<seen, verdicts, mailbox, epoch, cache, proc, pass, lost, overlap>>

\* Every other handler reads the account first (accountFromParam).
Request(r, pc, i) ==
    /\ At(r, "idle") /\ acct[i].there
    /\ proc' = [proc EXCEPT ![r] = [pc |-> pc, id |-> i, row |-> acct[i]]]
    /\ UNCHANGED <<acct, created, issued, seen, verdicts, mailbox, epoch, cache, pass, lost,
                   overlap>>

-----------------------------------------------------------------------------
(* HandleAccountToggle, HandleAccountDelete                                *)

\* SetAccountEnabled to the opposite of what was read.
Toggle(r) ==
    /\ At(r, "toggle")
    /\ acct' = [acct EXCEPT ![proc[r].id].enabled =
                   IF acct[proc[r].id].there THEN ~proc[r].row.enabled ELSE @]
    /\ Rest(r)
    /\ UNCHANGED <<created, issued, seen, verdicts, mailbox, epoch, cache, pass, lost, overlap>>

\* DeleteAccount: the seen caches, then the row, then Manager.Invalidate.
DeleteSeen(r) ==
    /\ At(r, "delete")
    /\ seen' = [seen EXCEPT ![proc[r].id] = {}]
    /\ GoTo(r, "deleteRow")
    /\ UNCHANGED <<acct, created, issued, verdicts, mailbox, epoch, cache, pass, lost, overlap>>

\* When the row cannot be deleted the handler returns and the token stays.
DeleteRow(r) ==
    /\ At(r, "deleteRow")
    /\ \/ acct' = [acct EXCEPT ![proc[r].id] = NoAccount] /\ GoTo(r, "invalidate")
       \/ "db" \in AccFaults /\ Rest(r) /\ UNCHANGED acct
    /\ UNCHANGED <<created, issued, seen, verdicts, mailbox, epoch, cache, pass, lost, overlap>>

\* Somebody holds a row of the account that is not its row any more, and has not
\* stored the token it asks for: a request, or the worker, whose list may be old.
Stale(i) ==
    \/ \E p \in Procs : /\ proc[p].pc \in {"lookup", "grant", "store"}
                        /\ proc[p].id = i /\ proc[p].row.secret # acct[i].secret
    \/ \E a \in pass.todo : a.id = i /\ a.row.secret # acct[i].secret

Invalidate(r) ==
    LET i == proc[r].id
    IN  /\ At(r, "invalidate")
        /\ cache' = [cache EXCEPT ![i] = NoToken]
        /\ overlap' = IF Stale(i) THEN overlap \cup {i} ELSE overlap \ {i}
        /\ Rest(r)
        /\ UNCHANGED <<acct, created, issued, seen, verdicts, mailbox, epoch, pass, lost>>

-----------------------------------------------------------------------------
(* HandleGoogleCallback                                                    *)

\* GoogleExchangeCode; when it fails the request ends.
Exchange(r) ==
    /\ At(r, "exchange")
    /\ \/ /\ issued < MaxSecrets
          /\ issued' = issued + 1
          /\ proc' = [proc EXCEPT ![r] = [pc |-> "update", id |-> @.id,
                                         row |-> [@.row EXCEPT !.secret = issued + 1]]]
       \/ Rest(r) /\ UNCHANGED issued
    /\ UNCHANGED <<acct, created, seen, verdicts, mailbox, epoch, cache, pass, lost, overlap>>

\* A plausible mistake: the token of the old secret is left to expire.
UpdateSecretOnly(r) ==
    /\ At(r, "update")
    /\ acct' = [acct EXCEPT ![proc[r].id].secret =
                   IF acct[proc[r].id].there THEN proc[r].row.secret ELSE @]
    /\ Rest(r)
    /\ UNCHANGED <<created, issued, seen, verdicts, mailbox, epoch, cache, pass, lost, overlap>>

\* UpdateAccountSecret; an account that was deleted meanwhile has no row to update.
UpdateSecret(r) ==
    /\ At(r, "update")
    /\ \/ /\ acct' = [acct EXCEPT ![proc[r].id].secret =
                          IF acct[proc[r].id].there THEN proc[r].row.secret ELSE @]
          /\ GoTo(r, "invalidate")
       \/ "db" \in AccFaults /\ Rest(r) /\ UNCHANGED acct
    /\ UNCHANGED <<created, issued, seen, verdicts, mailbox, epoch, cache, pass, lost, overlap>>

-----------------------------------------------------------------------------
(* Manager.AccessToken, for the worker and for HandleAccountTest           *)

\* With the token the worker goes on to the mailbox; a test has nothing to change.
GotToken(p) == IF p = "run" THEN GoTo(p, "scan") ELSE Rest(p)
\* Without it the worker goes on to the next account.
NextOfPass == proc' = [proc EXCEPT !["run"] = [Resting EXCEPT !.pc = "next"]]
NoTokenFor(p) == IF p = "run" THEN NextOfPass ELSE Rest(p)

LookupToken(p) ==
    /\ At(p, "lookup")
    /\ IF cache[proc[p].id] # NoToken THEN GotToken(p) ELSE GoTo(p, "grant")
    /\ UNCHANGED <<acct, created, issued, seen, verdicts, mailbox, epoch, cache, pass, lost,
                   overlap>>

\* The token endpoint is asked without the lock.
Grant(p) ==
    /\ At(p, "grant")
    /\ \/ GoTo(p, "store")
       \/ "grant" \in AccFaults /\ NoTokenFor(p)
    /\ UNCHANGED <<acct, created, issued, seen, verdicts, mailbox, epoch, cache, pass, lost,
                   overlap>>

StoreToken(p) ==
    /\ At(p, "store")
    /\ cache' = [cache EXCEPT ![proc[p].id] = proc[p].row.secret]
    /\ GotToken(p)
    /\ UNCHANGED <<acct, created, issued, seen, verdicts, mailbox, epoch, pass, lost, overlap>>

\* Within a minute of its expiry a cached token is not used any more.
Expire(i) ==
    /\ cache[i] # NoToken
    /\ cache' = [cache EXCEPT ![i] = NoToken]
    /\ UNCHANGED <<acct, created, issued, seen, verdicts, mailbox, epoch, proc, pass, lost,
                   overlap>>

-----------------------------------------------------------------------------
(* The worker on seed mailboxes: runAll, ingestSeed, FetchSeedVerdicts     *)

Enabled == {i \in Ids : acct[i].there /\ acct[i].enabled}

\* ListEnabledAccounts: the rows as they are now, for the whole run; without any
\* the run ends at once.
StartPass ==
    /\ At("run", "idle")
    /\ IF Enabled = {}
       THEN UNCHANGED <<proc, pass>>
       ELSE /\ NextOfPass
            /\ pass' = [NoPass EXCEPT !.todo = {[id |-> i, row |-> acct[i]] : i \in Enabled}]
    /\ UNCHANGED <<acct, created, issued, seen, verdicts, mailbox, epoch, cache, lost, overlap>>

NextAccount(a) ==
    /\ At("run", "next") /\ a \in pass.todo
    /\ proc' = [proc EXCEPT !["run"] = [pc |-> "lookup", id |-> a.id, row |-> a.row]]
    /\ pass' = [NoPass EXCEPT !.todo = pass.todo \ {a}]
    /\ UNCHANGED <<acct, created, issued, seen, verdicts, mailbox, epoch, cache, lost, overlap>>

PassOver ==
    /\ At("run", "next") /\ pass.todo = {}
    /\ Rest("run")
    /\ UNCHANGED <<acct, created, issued, seen, verdicts, mailbox, epoch, cache, pass, lost,
                   overlap>>

\* Select, GetSeenUIDs (which drops the rows of another UIDVALIDITY), search, and
\* the headers of what has not been examined.  The server may fail at each.
Scan ==
    LET i == proc["run"].id
        mine == {x \in seen[i] : x[1] = epoch}
        work == {m \in mailbox : <<epoch, UidOf[epoch][m]>> \notin mine}
    IN  /\ At("run", "scan")
        /\ \/ /\ seen' = [seen EXCEPT ![i] = mine]
              /\ work # {}
              /\ GoTo("run", "record")
              /\ pass' = [pass EXCEPT !.epoch = epoch, !.work = work]
           \/ /\ work = {} \/ "imap" \in AccFaults
              /\ seen' = [seen EXCEPT ![i] = mine]
              /\ NextOfPass /\ UNCHANGED pass
           \/ /\ "imap" \in AccFaults
              /\ NextOfPass /\ UNCHANGED <<seen, pass>>
        /\ UNCHANGED <<acct, created, issued, verdicts, mailbox, epoch, cache, lost, overlap>>

\* A plausible mistake: nothing keeps a message from being recorded again.
RecordBlindly(m) ==
    /\ At("run", "record") /\ m \in pass.work
    /\ verdicts' = [verdicts EXCEPT ![m] = @ + 1]
    /\ pass' = [pass EXCEPT !.work = @ \ {m}, !.done = @ \cup {m}]
    /\ UNCHANGED <<acct, created, issued, seen, mailbox, epoch, cache, proc, lost, overlap>>

\* RecordSeedVerdicts and SaveBIMIVerdict: a message and receiver on record are
\* left alone.  A failure is logged, and the message counts as examined.
Record(m) ==
    /\ At("run", "record") /\ m \in pass.work
    /\ \/ /\ verdicts' = [verdicts EXCEPT ![m] = IF @ = 0 THEN 1 ELSE @]
          /\ UNCHANGED lost
       \/ /\ "db" \in AccFaults
          /\ lost' = lost \cup {m}
          /\ UNCHANGED verdicts
    /\ pass' = [pass EXCEPT !.work = @ \ {m}, !.done = @ \cup {m}]
    /\ UNCHANGED <<acct, created, issued, seen, mailbox, epoch, cache, proc, overlap>>

\* A plausible mistake: what was fetched is marked before it is recorded.
MarkFetched ==
    /\ At("run", "record")
    /\ seen' = [seen EXCEPT ![proc["run"].id] =
                   @ \cup {<<pass.epoch, UidOf[pass.epoch][m]>> : m \in pass.done \cup pass.work}]
    /\ IF pass.work = {} THEN NextOfPass ELSE UNCHANGED proc
    /\ UNCHANGED <<acct, created, issued, verdicts, mailbox, epoch, cache, pass, lost, overlap>>

\* MarkUIDsSeen, one transaction; the account may be gone.
Mark ==
    /\ At("run", "record") /\ pass.work = {}
    /\ \/ seen' = [seen EXCEPT ![proc["run"].id] =
                      @ \cup {<<pass.epoch, UidOf[pass.epoch][m]>> : m \in pass.done}]
       \/ "db" \in AccFaults /\ UNCHANGED seen
    /\ NextOfPass
    /\ UNCHANGED <<acct, created, issued, verdicts, mailbox, epoch, cache, pass, lost, overlap>>

-----------------------------------------------------------------------------

\* The process dies: the token cache is in memory.
AccCrash ==
    /\ "crash" \in AccFaults
    /\ \E p \in Procs : ~At(p, "idle")
    /\ cache' = [i \in Ids |-> NoToken]
    /\ proc' = [p \in Procs |-> Resting]
    /\ pass' = NoPass
    /\ overlap' = {}
    /\ UNCHANGED <<acct, created, issued, seen, verdicts, mailbox, epoch, lost>>

RequestStep(r) ==
    \/ \E i \in Ids, pc \in {"toggle", "delete", "exchange", "lookup"} : Request(r, pc, i)
    \/ Toggle(r) \/ DeleteSeen(r) \/ DeleteRow(r) \/ Invalidate(r)
    \/ Exchange(r) \/ UpdateSecret(r)

TokenStep(p) == LookupToken(p) \/ Grant(p) \/ StoreToken(p)

PassStep ==
    \/ StartPass \/ PassOver \/ Scan \/ Mark
    \/ \E a \in pass.todo : NextAccount(a)
    \/ \E m \in Messages : Record(m)

AccNext ==
    \/ CreateAccount
    \/ \E m \in Messages : Arrive(m)
    \/ ResetUids
    \/ \E r \in Requests : RequestStep(r)
    \/ \E p \in Procs : TokenStep(p)
    \/ PassStep
    \/ \E i \in Ids : Expire(i)
    \/ AccCrash

AccSpec == AccInit /\ [][AccNext]_accVars

-----------------------------------------------------------------------------

AccountRow == [there : BOOLEAN, enabled : BOOLEAN, secret : Secrets \cup {NoToken}]

AccTypeOK ==
    /\ acct \in [Ids -> AccountRow]
    /\ created \in 0 .. MaxAccounts /\ issued \in 0 .. MaxSecrets
    /\ \A i \in Ids : seen[i] \subseteq Epochs \X Nat
    /\ verdicts \in [Messages -> Nat]
    /\ mailbox \subseteq Messages /\ epoch \in Epochs
    /\ cache \in [Ids -> Secrets \cup {NoToken}]
    /\ \A p \in Procs : proc[p].row \in AccountRow /\ proc[p].id \in Ids \cup {0}
    /\ pass.work \cup pass.done \subseteq Messages
    /\ lost \subseteq Messages /\ overlap \subseteq Ids
    /\ \A i \in Ids : acct[i].there => i <= created /\ acct[i].secret # NoToken
    /\ \A i \in Ids : ~acct[i].there => acct[i] = NoAccount

\* Whatever is deleted, added again, renumbered or cut short by a crash: a message
\* that an account's cache says was examined has its verdict on record, or its
\* verdict could not be stored (FetchSeedVerdicts, MarkUIDsSeen).
ExaminedAccountedFor ==
    \A i \in Ids : \A m \in mailbox :
        <<epoch, UidOf[epoch][m]>> \in seen[i] => verdicts[m] > 0 \/ m \in lost

\* However often a message is read again, its verdict is on record once
\* (SaveBIMIVerdict: "re-recording has to be free of consequence").
OneVerdictPerMessage == \A m \in Messages : verdicts[m] <= 1

\* An account starts out with nothing of a deleted one, though a run that was
\* reading the deleted one may still write its cache and its token: a mailbox that
\* is removed and added again is read in full, with its own credentials.
StartsClean(i) ==
    ~acct[i].there /\ acct'[i].there =>
        /\ seen'[i] = {} /\ cache'[i] = NoToken
        /\ \A p \in Procs : proc'[p].pc # "idle" => proc'[p].id # i

NewAccountStartsClean == [][\A i \in Ids : StartsClean(i)]_accVars

\* A token of a superseded secret is in the cache only when somebody held the old
\* row while the secret changed: a request that reads the account afterwards uses
\* the new one (Invalidate: "e.g. after secrets change").
StaleTokenFromOverlap ==
    \A i \in Ids :
        acct[i].there /\ cache[i] \notin {NoToken, acct[i].secret} =>
            \/ i \in overlap
            \/ \E r \in Requests : At(r, "invalidate") /\ proc[r].id = i
=============================================================================
