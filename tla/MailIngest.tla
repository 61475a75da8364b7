----------------------------- MODULE MailIngest -----------------------------
(***************************************************************************)
(* Fetching the mailboxes: the worker of internal/ingest/worker.go, the two *)
(* mail paths it drives (internal/imap/fetch.go and internal/graph/fetch.go)*)
(* and the upload handler (internal/handlers/upload.go), around the report  *)
(* store of module ReportStore, whose importers they are.                   *)
(*                                                                          *)
(* A mailbox is on a remote server: a message that was moved stays moved    *)
(* whatever happens to this process.  Everything in `run` and `upl` is in   *)
(* memory and is gone after a crash.                                        *)
(***************************************************************************)
EXTENDS ReportStore

CONSTANTS
    Accounts,      \* the configured mail accounts
    ProviderOf,    \* "imap" or "graph"
    Messages,      \* the messages that can arrive
    AccountOf,     \* whose inbox a message arrives in
    MessageOf,     \* the message that carries an attachment; None for an upload
    None,
    UploadFiles,   \* the files an operator may upload
    MaxUploads     \* bound: how many files are uploaded in a behaviour

FaultKinds == {"connect", "fetch", "decode", "move", "db", "event", "crash", "reject",
               "status"}

ASSUME IngestAssumption ==
    /\ Importers = {"fetch", "upload"}
    /\ ProviderOf \in [Accounts -> {"imap", "graph"}]
    /\ AccountOf \in [Messages -> Accounts]
    /\ MessageOf \in [Attachments -> Messages \cup {None}]
    /\ None \notin Messages \cup Accounts
    /\ UploadFiles \in SUBSET Attachments
    /\ MaxUploads \in Nat
    /\ Faults \in SUBSET FaultKinds

VARIABLES
    mail,      \* where each message is: not arrived, inbox, processed
    seen,      \* imap_seen / graph_seen: messages cached as report-free
    status,    \* accounts.last_fetch_status
    enabled,   \* the enabled accounts
    run,       \* the fetch run; pc "idle" is Worker.running = false
    upl,       \* the upload request
    fresh,     \* files stored since the alert rules were last evaluated
    evalDue    \* a `go alerts.Evaluate` has been started and not run yet

mailVars == <<mail, seen, status, enabled>>
vars == <<storeVars, mailVars, run, upl, fresh, evalDue>>

Parts(m) == {a \in Attachments : MessageOf[a] = m}
PartsOf(S) == {a \in Attachments : MessageOf[a] \in S}
Inbox(acc) == {m \in Messages : AccountOf[m] = acc /\ mail[m] = "inbox"}
Unseen(acc) == Inbox(acc) \ seen[acc]

-----------------------------------------------------------------------------

IdleRun == [pc |-> "idle", todo |-> {}, acc |-> None, work |-> {}, hand |-> {},
            done |-> {}, free |-> {}, total |-> 0]

Init ==
    /\ StoreInit
    /\ mail = [m \in Messages |-> "absent"]
    /\ seen = [acc \in Accounts |-> {}]
    /\ status = [acc \in Accounts |-> "never"]
    /\ enabled \in SUBSET Accounts
    /\ run = IdleRun
    /\ upl = [state |-> "idle", imported |-> 0, left |-> MaxUploads]
    /\ fresh = {}
    /\ evalDue = FALSE

\* Mail arrives at the server.
Deliver(m) ==
    /\ mail[m] = "absent"
    /\ mail' = [mail EXCEPT ![m] = "inbox"]
    /\ UNCHANGED <<storeVars, seen, status, enabled, run, upl, fresh, evalDue>>

-----------------------------------------------------------------------------
(* Worker.TriggerAll and runAll                                            *)

\* The scheduler or the Fetch button starts a run; while one is in progress the
\* trigger returns false and changes nothing.
TriggerAll ==
    /\ run.pc = "idle"
    /\ run' = [IdleRun EXCEPT !.pc = "list"]
    /\ UNCHANGED <<storeVars, mailVars, upl, fresh, evalDue>>

\* ListEnabledAccounts; with none, or on an error, the run ends at once.
ListAccounts ==
    /\ run.pc = "list"
    /\ \/ /\ enabled # {}
          /\ run' = [run EXCEPT !.pc = "next", !.todo = enabled]
       \/ /\ enabled = {} \/ "db" \in Faults
          /\ run' = [run EXCEPT !.pc = "finish"]
    /\ UNCHANGED <<storeVars, mailVars, upl, fresh, evalDue>>

\* SetAccountFetchStatus; runAll ignores its error.
SetStatus(acc, s) ==
    \/ status' = [status EXCEPT ![acc] = s]
    \/ "status" \in Faults /\ UNCHANGED status

\* The next account of the loop is marked as being fetched.
StartAccount(acc) ==
    /\ run.pc = "next"
    /\ acc \in run.todo
    /\ SetStatus(acc, "running")
    /\ run' = [run EXCEPT !.pc = "scan", !.acc = acc, !.todo = @ \ {acc}]
    /\ UNCHANGED <<storeVars, mail, seen, enabled, upl, fresh, evalDue>>

\* A plausible mistake: the error is logged but not recorded on the account.
AccountFailedSilently ==
    /\ UNCHANGED status
    /\ run' = [IdleRun EXCEPT !.pc = "next", !.todo = run.todo, !.total = run.total]

\* A plausible mistake: the error's text is written in place of the status.
AccountFailedInWords ==
    /\ SetStatus(run.acc, "connection refused")
    /\ run' = [IdleRun EXCEPT !.pc = "next", !.todo = run.todo, !.total = run.total]

\* What runAll does with an account's error: record it and go on.  What the
\* fetch had in hand is dropped with the error.
AccountFailed ==
    /\ SetStatus(run.acc, "error")
    /\ run' = [IdleRun EXCEPT !.pc = "next", !.todo = run.todo, !.total = run.total]

\* Credentials, connecting, reading the cache, listing the mailbox or closing the
\* fetch stream fails.
ConnectFails ==
    /\ "connect" \in Faults
    /\ run.pc = "scan"
    /\ AccountFailed
    /\ UNCHANGED <<storeVars, mail, seen, enabled, upl, fresh, evalDue>>

-----------------------------------------------------------------------------
(* imap.FetchReports                                                        *)

\* A plausible mistake: a message whose download failed is cached as examined.
ImapScanMarksSkipped(skipped) ==
    LET got == Unseen(run.acc) \ skipped
        carrying == {m \in got : Parts(m) # {}}
    IN  /\ run.pc = "scan"
        /\ ProviderOf[run.acc] = "imap"
        /\ skipped \subseteq Unseen(run.acc)
        /\ run' = [run EXCEPT !.pc = "move", !.hand = PartsOf(carrying),
                              !.done = carrying, !.free = Unseen(run.acc) \ carrying]
        /\ UNCHANGED <<storeVars, mailVars, upl, fresh, evalDue>>

\* A plausible mistake: every candidate is moved, downloaded or not.
ImapScanMovesSkipped(skipped) ==
    LET got == Unseen(run.acc) \ skipped
        carrying == {m \in got : Parts(m) # {}}
    IN  /\ run.pc = "scan"
        /\ ProviderOf[run.acc] = "imap"
        /\ skipped \subseteq Unseen(run.acc)
        /\ run' = [run EXCEPT !.pc = "move", !.hand = PartsOf(carrying),
                              !.done = Unseen(run.acc), !.free = got \ carrying]
        /\ UNCHANGED <<storeVars, mailVars, upl, fresh, evalDue>>

\* Both phases over the unseen messages: those in `skipped` could not be
\* collected and are left alone, the others carry reports or are report-free.
ImapScan(skipped) ==
    LET got == Unseen(run.acc) \ skipped
        carrying == {m \in got : Parts(m) # {}}
    IN  /\ run.pc = "scan"
        /\ ProviderOf[run.acc] = "imap"
        /\ skipped \subseteq Unseen(run.acc)
        /\ run' = [run EXCEPT !.pc = "move", !.hand = PartsOf(carrying),
                              !.done = carrying, !.free = got \ carrying]
        /\ UNCHANGED <<storeVars, mailVars, upl, fresh, evalDue>>

\* The messages that carry reports are moved before anything is imported.
ImapMove ==
    /\ run.pc = "move"
    /\ mail' = [m \in Messages |-> IF m \in run.done THEN "processed" ELSE mail[m]]
    /\ run' = [run EXCEPT !.pc = "mark"]
    /\ UNCHANGED <<storeVars, seen, status, enabled, upl, fresh, evalDue>>

\* The MOVE command fails, having moved any of the messages.
ImapMoveFails ==
    /\ "move" \in Faults
    /\ run.pc = "move"
    /\ run.done # {}
    /\ \E S \in SUBSET run.done :
          mail' = [m \in Messages |-> IF m \in S THEN "processed" ELSE mail[m]]
    /\ AccountFailed
    /\ UNCHANGED <<storeVars, seen, enabled, upl, fresh, evalDue>>

-----------------------------------------------------------------------------
(* graph.FetchReports: messages are fetched and moved one by one            *)

GraphList ==
    /\ run.pc = "scan"
    /\ ProviderOf[run.acc] = "graph"
    /\ run' = [run EXCEPT !.pc = "graph", !.work = Unseen(run.acc)]
    /\ UNCHANGED <<storeVars, mailVars, upl, fresh, evalDue>>

\* A plausible mistake: a message that could not be fetched is cached as examined.
GraphSkipMarks(m) ==
    /\ "fetch" \in Faults
    /\ run.pc = "graph"
    /\ m \in run.work
    /\ run' = [run EXCEPT !.work = @ \ {m}, !.free = @ \cup {m}]
    /\ UNCHANGED <<storeVars, mailVars, upl, fresh, evalDue>>

\* fetchMessageAttachments fails: the message is left for the next run.
GraphSkip(m) ==
    /\ "fetch" \in Faults
    /\ run.pc = "graph"
    /\ m \in run.work
    /\ run' = [run EXCEPT !.work = @ \ {m}]
    /\ UNCHANGED <<storeVars, mailVars, upl, fresh, evalDue>>

\* Its attachments are downloaded; one that cannot be decoded, or whose $value
\* request fails, is left out.  With none left the message counts as report-free.
GraphFetch(m, kept) ==
    /\ run.pc = "graph"
    /\ m \in run.work
    /\ kept \subseteq Parts(m)
    /\ kept = Parts(m) \/ "decode" \in Faults
    /\ IF kept = {}
       THEN run' = [run EXCEPT !.work = @ \ {m}, !.free = @ \cup {m}]
       ELSE run' = [run EXCEPT !.pc = "graphmove", !.work = @ \ {m},
                               !.hand = @ \cup kept, !.done = {m}]
    /\ UNCHANGED <<storeVars, mailVars, upl, fresh, evalDue>>

GraphMove ==
    /\ run.pc = "graphmove"
    /\ mail' = [m \in Messages |-> IF m \in run.done THEN "processed" ELSE mail[m]]
    /\ run' = [run EXCEPT !.pc = "graph", !.done = {}]
    /\ UNCHANGED <<storeVars, seen, status, enabled, upl, fresh, evalDue>>

\* The processed folder cannot be resolved, or the move fails or its answer is
\* lost: FetchReports returns, and what earlier messages carried is dropped too.
GraphMoveFails ==
    /\ "move" \in Faults
    /\ run.pc = "graphmove"
    /\ \E S \in SUBSET run.done :
          mail' = [m \in Messages |-> IF m \in S THEN "processed" ELSE mail[m]]
    /\ AccountFailed
    /\ UNCHANGED <<storeVars, seen, enabled, upl, fresh, evalDue>>

GraphDone ==
    /\ run.pc = "graph"
    /\ run.work = {}
    /\ run' = [run EXCEPT !.pc = "mark"]
    /\ UNCHANGED <<storeVars, mailVars, upl, fresh, evalDue>>

-----------------------------------------------------------------------------
(* Remembering the report-free messages, then importer.SaveAttachments      *)

MarkSeen ==
    /\ run.pc = "mark"
    /\ seen' = [seen EXCEPT ![run.acc] = @ \cup run.free]
    /\ BeginImport("fetch", run.hand)
    /\ run' = [run EXCEPT !.pc = "save"]
    /\ UNCHANGED <<mail, status, enabled, upl, fresh, evalDue>>

MarkSeenFails ==
    /\ "db" \in Faults
    /\ run.pc = "mark"
    /\ run.free # {}
    /\ AccountFailed
    /\ UNCHANGED <<storeVars, mail, seen, enabled, upl, fresh, evalDue>>

\* A step of an importer; what it stores has not been evaluated by the rules yet.
StoreStep(i) ==
    /\ ImportStep(i)
    /\ fresh' = fresh \cup {a \in Attachments : rows'[a] > rows[a]}
    /\ UNCHANGED <<mailVars, run, upl, evalDue>>

\* A plausible mistake: the total is the last account's.
AccountOkForgets ==
    /\ run.pc = "save"
    /\ imp["fetch"].state = "done"
    /\ SetStatus(run.acc, "ok")
    /\ run' = [IdleRun EXCEPT !.pc = "next", !.todo = run.todo,
                              !.total = imp["fetch"].imported]
    /\ EndImport("fetch")
    /\ UNCHANGED <<mail, seen, enabled, upl, fresh, evalDue>>

\* SaveAttachments returned: the account is done.
AccountOk ==
    /\ run.pc = "save"
    /\ imp["fetch"].state = "done"
    /\ SetStatus(run.acc, "ok")
    /\ run' = [IdleRun EXCEPT !.pc = "next", !.todo = run.todo,
                              !.total = run.total + imp["fetch"].imported]
    /\ EndImport("fetch")
    /\ UNCHANGED <<mail, seen, enabled, upl, fresh, evalDue>>

\* SaveAttachments failed: what it did import is not counted.
ImportFailed ==
    /\ run.pc = "save"
    /\ imp["fetch"].state = "failed"
    /\ AccountFailed
    /\ EndImport("fetch")
    /\ UNCHANGED <<mail, seen, enabled, upl, fresh, evalDue>>

\* The loop is over; the rules are evaluated when the run imported something.
LoopDone ==
    /\ run.pc = "next"
    /\ run.todo = {}
    /\ run' = [run EXCEPT !.pc = IF run.total > 0 THEN "eval" ELSE "finish"]
    /\ UNCHANGED <<storeVars, mailVars, upl, fresh, evalDue>>

EvaluateInRun ==
    /\ run.pc = "eval"
    /\ fresh' = {}
    /\ run' = [run EXCEPT !.pc = "finish"]
    /\ UNCHANGED <<storeVars, mailVars, upl, evalDue>>

FinishRun ==
    /\ run.pc = "finish"
    /\ run' = IdleRun
    /\ UNCHANGED <<storeVars, mailVars, upl, fresh, evalDue>>

-----------------------------------------------------------------------------
(* HandleUploadSubmit: a form of several files, imported one after another  *)

UploadFile(batch) ==
    /\ upl.state \in {"idle", "open"}
    /\ upl.left > 0
    /\ batch # {}
    /\ BeginImport("upload", batch)
    /\ upl' = [upl EXCEPT !.state = "import", !.left = @ - 1]
    /\ UNCHANGED <<mailVars, run, fresh, evalDue>>

\* A file none of whose attachments parse ends the request with a redirect.
UploadFileDone ==
    LET res == imp["upload"]
        unparsed == res.failed > 0 /\ res.imported = 0 /\ res.duplicates = 0
    IN  /\ upl.state = "import"
        /\ res.state = "done"
        /\ upl' = IF unparsed
                  THEN [upl EXCEPT !.state = "idle", !.imported = 0]
                  ELSE [upl EXCEPT !.state = "open", !.imported = @ + res.imported]
        /\ EndImport("upload")
        /\ UNCHANGED <<mailVars, run, fresh, evalDue>>

\* A database error is returned at once.
UploadFails ==
    /\ upl.state = "import"
    /\ imp["upload"].state = "failed"
    /\ upl' = [upl EXCEPT !.state = "idle", !.imported = 0]
    /\ EndImport("upload")
    /\ UNCHANGED <<mailVars, run, fresh, evalDue>>

\* A later file of the form is too large, unreadable or an .eml without
\* reports: the request ends there.
UploadRejected ==
    /\ "reject" \in Faults
    /\ upl.state = "open"
    /\ upl' = [upl EXCEPT !.state = "idle", !.imported = 0]
    /\ UNCHANGED <<storeVars, mailVars, run, fresh, evalDue>>

\* The last file is done: the rules are evaluated in a goroutine of their own.
UploadDone ==
    /\ upl.state = "open"
    /\ evalDue' = (evalDue \/ upl.imported > 0)
    /\ upl' = [upl EXCEPT !.state = "idle", !.imported = 0]
    /\ UNCHANGED <<storeVars, mailVars, run, fresh>>

EvaluateAfterUpload ==
    /\ evalDue
    /\ fresh' = {}
    /\ evalDue' = FALSE
    /\ UNCHANGED <<storeVars, mailVars, run, upl>>

-----------------------------------------------------------------------------

\* The process dies and starts again.  Nothing at startup repairs an account's
\* status or looks into the processed mailbox.
Crash ==
    /\ "crash" \in Faults
    /\ StoreCrash
    /\ run' = IdleRun
    /\ upl' = [upl EXCEPT !.state = "idle", !.imported = 0]
    /\ evalDue' = FALSE
    /\ UNCHANGED <<mailVars, fresh>>

WorkerStep ==
    \/ ListAccounts
    \/ \E acc \in Accounts : StartAccount(acc)
    \/ ConnectFails
    \/ \E skipped \in SUBSET Messages :
          (skipped # {} => "fetch" \in Faults) /\ ImapScan(skipped)
    \/ ImapMove \/ ImapMoveFails
    \/ GraphList
    \/ \E m \in Messages : GraphSkip(m)
    \/ \E m \in Messages : \E kept \in SUBSET Parts(m) : GraphFetch(m, kept)
    \/ GraphMove \/ GraphMoveFails \/ GraphDone
    \/ MarkSeen \/ MarkSeenFails
    \/ StoreStep("fetch") \/ AccountOk \/ ImportFailed
    \/ LoopDone \/ EvaluateInRun \/ FinishRun

UploadStep ==
    \/ \E batch \in SUBSET UploadFiles : UploadFile(batch)
    \/ StoreStep("upload")
    \/ UploadFileDone \/ UploadFails \/ UploadRejected \/ UploadDone
    \/ EvaluateAfterUpload

Next ==
    \/ \E m \in Messages : Deliver(m)
    \/ TriggerAll
    \/ WorkerStep
    \/ UploadStep
    \/ Crash

Spec == Init /\ [][Next]_vars

\* A transient failure does not repeat for ever: a download, a connection or a
\* listing that is tried again and again succeeds in the end.  The scheduler
\* keeps triggering runs (FETCH_INTERVAL > 0) and a goroutine keeps running.
Fairness ==
    /\ WF_vars(TriggerAll)
    /\ WF_vars(WorkerStep)
    /\ \A acc \in Accounts :
          /\ SF_vars(run.acc = acc /\ ImapScan({}))
          /\ SF_vars(run.acc = acc /\ GraphList)
    /\ \A m \in Messages : SF_vars(GraphFetch(m, Parts(m)))
    /\ WF_vars(StoreStep("upload") \/ UploadFileDone \/ UploadFails
               \/ UploadRejected \/ UploadDone)
    /\ WF_vars(EvaluateAfterUpload)

FairSpec == Spec /\ Fairness

-----------------------------------------------------------------------------

PCs == {"idle", "list", "next", "scan", "move", "graph", "graphmove", "mark",
        "save", "eval", "finish"}

RunState ==
    [pc : PCs, todo : SUBSET Accounts, acc : Accounts \cup {None},
     work : SUBSET Messages, hand : SUBSET Attachments,
     done : SUBSET Messages, free : SUBSET Messages, total : Nat]

UploadState == [state : {"idle", "open", "import"}, imported : Nat, left : 0 .. MaxUploads]

MailTypeOK ==
    /\ mail \in [Messages -> {"absent", "inbox", "processed"}]
    /\ seen \in [Accounts -> SUBSET Messages]
    /\ status \in [Accounts -> {"never", "running", "ok", "error"}]
    /\ enabled \in SUBSET Accounts
    /\ run \in RunState
    /\ upl \in UploadState
    /\ fresh \in SUBSET Attachments
    /\ evalDue \in BOOLEAN

TypeOK == StoreTypeOK /\ MailTypeOK

\* Whatever fails and wherever the process dies, an IMAP account's cache of
\* examined messages never holds a message that carries a report: a report still
\* in the inbox is looked at again by the next run (imap.FetchReports: "records
\* report-free messages").
ImapSeenIsReportFree ==
    \A acc \in Accounts :
        ProviderOf[acc] = "imap" => \A m \in seen[acc] : Parts(m) = {}

\* With no attachment failing to decode, the same holds of Graph accounts.
SeenIsReportFree == \A acc \in Accounts : \A m \in seen[acc] : Parts(m) = {}

\* A report that could be parsed, and whose mail was moved away, is in the
\* database once no fetch is running (README, "Fetching from mailboxes": 4. parse
\* and import, 5. move).
MovedReportsImported ==
    run.pc = "idle" =>
        \A a \in Attachments :
            /\ MessageOf[a] \in Messages
            /\ mail[MessageOf[a]] = "processed"
            /\ FormatOf[a] # "junk"
            => IsStored(a)

\* Nothing imported is left unevaluated: once the fetch run, the upload and the
\* evaluations they started are over, the alert rules have seen every stored
\* report (README: rules are "evaluated after every import").
EvaluatedAfterImport ==
    run.pc = "idle" /\ upl.state = "idle" /\ ~evalDue => fresh = {}

\* The Accounts page tells the truth: an account is shown as being fetched
\* exactly while the run is working on it.
StatusTruthful ==
    \A acc \in Accounts : status[acc] = "running" <=> run.acc = acc

\* A report that reaches an enabled account's inbox is imported in the end,
\* through any number of failed connections and downloads.
EventuallyImported ==
    \A a \in {x \in Attachments : MessageOf[x] # None /\ FormatOf[x] # "junk"} :
        mail[MessageOf[a]] = "inbox" /\ AccountOf[MessageOf[a]] \in enabled ~> IsStored(a)

\* The mailbox fetch and the importers keep the at-most-once promise.
Promise == INSTANCE AtMostOnceIngest WITH
    KeyOf <- [a \in Attachments |-> <<FormatOf[a], IdOf[a]>>],
    avail <- {m \in Messages : mail[m] = "inbox"},
    taken <- {m \in Messages : mail[m] = "processed"},
    table <- {a \in Attachments : rows[a] > 0}

KeepsPromise == Promise!Spec
=============================================================================
