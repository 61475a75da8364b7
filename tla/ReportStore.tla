---------------------------- MODULE ReportStore ----------------------------
(***************************************************************************)
(* The report tables and the ingest log, as importer.SaveAttachments uses   *)
(* them (internal/importer/importer.go, internal/database/reports.go,       *)
(* tlsrpt.go, ingest_events.go).                                            *)
(*                                                                          *)
(* An importer is one call of SaveAttachments: the fetch run's, or an       *)
(* upload handler's.  The database has one connection (SetMaxOpenConns(1)), *)
(* so a transaction is one step, but two importers interleave between their *)
(* transactions: the row of a report and the ingest event that tells of it  *)
(* are written by two separate statements.                                  *)
(***************************************************************************)
EXTENDS Naturals, FiniteSets

CONSTANTS
    Attachments,   \* the report files that can reach an importer
    Importers,     \* the callers of SaveAttachments
    FormatOf,      \* what the parser makes of a file
    IdOf,          \* the report's (organisation, report-id) pair
    WindowOf,      \* the date range it covers
    Faults         \* the kinds of failure that may happen

\* "junk" is a file the parser refuses.
Formats == {"dmarc", "tlsrpt", "junk"}

\* ingest_events.status of an attachment that was parsed.
Statuses == {"ok", "duplicate", "duplicate_range", "parse_error"}

ASSUME FormatsAssumption == FormatOf \in [Attachments -> Formats]

VARIABLES
    rows,     \* rows[a]: how many report rows were inserted from file a
    events,   \* events[a][s]: how many ingest events say s of file a
    imp       \* imp[i]: the call of SaveAttachments that importer i is in

storeVars == <<rows, events, imp>>

-----------------------------------------------------------------------------

\* Two files carry the same report when the UNIQUE (org_name, report_id) of
\* their table says so.  The two formats live in two tables.
SameReport(a, b) == FormatOf[a] = FormatOf[b] /\ IdOf[a] = IdOf[b]

Stored(a) == {b \in Attachments : SameReport(a, b) /\ rows[b] > 0}

IsStored(a) == Stored(a) # {}

IdleImport == [state |-> "idle", todo |-> {}, pending |-> {},
               imported |-> 0, duplicates |-> 0, failed |-> 0]

StoreInit ==
    /\ rows = [a \in Attachments |-> 0]
    /\ events = [a \in Attachments |-> [s \in Statuses |-> 0]]
    /\ imp = [i \in Importers |-> IdleImport]

-----------------------------------------------------------------------------

\* A caller hands a batch over.
BeginImport(i, batch) ==
    /\ imp[i].state = "idle"
    /\ imp' = [imp EXCEPT ![i] = [IdleImport EXCEPT !.state = "busy", !.todo = batch]]
    /\ UNCHANGED <<rows, events>>

\* A plausible mistake: telling the duplicates apart by window as well.
OutcomesPerWindow(a) ==
    IF FormatOf[a] = "junk" THEN {"parse_error"}
    ELSE IF \A b \in Stored(a) : WindowOf[b] # WindowOf[a] THEN {"ok"}
    ELSE {"duplicate"}

\* A plausible mistake: every clash is called a reused report-id.
OutcomesAllRange(a) ==
    IF FormatOf[a] = "junk" THEN {"parse_error"}
    ELSE IF ~IsStored(a) THEN {"ok"}
    ELSE {"duplicate_range"}

\* What parsing and saving file a can end in.  A clash of a TLS report is
\* classified by a second read inside the transaction, and is taken for an
\* ordinary duplicate when that read fails.
Outcomes(a) ==
    IF FormatOf[a] = "junk" THEN {"parse_error"}
    ELSE IF ~IsStored(a) THEN {"ok"}
    ELSE IF FormatOf[a] = "tlsrpt" /\ \E b \in Stored(a) : WindowOf[b] # WindowOf[a]
         THEN {"duplicate_range"} \cup (IF "db" \in Faults THEN {"duplicate"} ELSE {})
         ELSE {"duplicate"}

Decided(r, a, s) == [r EXCEPT !.todo = @ \ {a}, !.pending = {<<a, s>>}]

Ended(r, how) == [r EXCEPT !.state = how, !.todo = {}]

\* One attachment is parsed and its transaction commits or meets the UNIQUE
\* constraint.
SaveOne(i) ==
    /\ imp[i].state = "busy"
    /\ imp[i].pending = {}
    /\ \E a \in imp[i].todo : \E s \in Outcomes(a) :
          /\ rows' = IF s = "ok" THEN [rows EXCEPT ![a] = @ + 1] ELSE rows
          /\ imp' = [imp EXCEPT ![i] = Decided(@, a, s)]
    /\ UNCHANGED events

\* Any other database error rolls the transaction back and aborts the batch:
\* the rest of it is dropped, and so is the event of the failing attachment.
SaveFails(i) ==
    /\ "db" \in Faults
    /\ imp[i].state = "busy"
    /\ imp[i].pending = {}
    /\ \E a \in imp[i].todo : FormatOf[a] # "junk"
    /\ imp' = [imp EXCEPT ![i] = Ended(@, "failed")]
    /\ UNCHANGED <<rows, events>>

Bumped(f, s) == [f EXCEPT ![s] = @ + 1]

\* The Result counts the attachment.
Counted(r, s) ==
    [r EXCEPT !.pending = {},
              !.imported = @ + (IF s = "ok" THEN 1 ELSE 0),
              !.duplicates = @ + (IF s \in {"duplicate", "duplicate_range"} THEN 1 ELSE 0),
              !.failed = @ + (IF s = "parse_error" THEN 1 ELSE 0)]

\* A plausible mistake: the event is written again by a retry.
RecordTwice(i) ==
    /\ imp[i].state = "busy"
    /\ \E e \in imp[i].pending :
          /\ \E n \in {1, 2} : events' = [events EXCEPT ![e[1]][e[2]] = @ + n]
          /\ imp' = [imp EXCEPT ![i] = Counted(@, e[2])]
    /\ UNCHANGED rows

\* The attachment's event is recorded, best effort, and then it is counted.
RecordOne(i) ==
    /\ imp[i].state = "busy"
    /\ \E e \in imp[i].pending :
          /\ \/ events' = [events EXCEPT ![e[1]] = Bumped(@, e[2])]
             \/ "event" \in Faults /\ UNCHANGED events
          /\ imp' = [imp EXCEPT ![i] = Counted(@, e[2])]
    /\ UNCHANGED rows

\* SaveAttachments returns its Result.
ReturnResult(i) ==
    /\ imp[i].state = "busy"
    /\ imp[i].todo = {}
    /\ imp[i].pending = {}
    /\ imp' = [imp EXCEPT ![i] = Ended(@, "done")]
    /\ UNCHANGED <<rows, events>>

\* The caller has read the Result, or the error.
EndImport(i) ==
    /\ imp[i].state \in {"done", "failed"}
    /\ imp' = [imp EXCEPT ![i] = IdleImport]
    /\ UNCHANGED <<rows, events>>

\* The process dies: what was committed stays, every call in progress is gone.
StoreCrash ==
    /\ imp' = [i \in Importers |-> IdleImport]
    /\ UNCHANGED <<rows, events>>

ImportStep(i) == SaveOne(i) \/ SaveFails(i) \/ RecordOne(i) \/ ReturnResult(i)

StoreNext ==
    \/ \E i \in Importers : \/ \E batch \in SUBSET Attachments : BeginImport(i, batch)
                            \/ ImportStep(i)
                            \/ EndImport(i)
    \/ StoreCrash

StoreSpec == StoreInit /\ [][StoreNext]_storeVars

-----------------------------------------------------------------------------

ImportState ==
    [state : {"idle", "busy", "done", "failed"},
     todo : SUBSET Attachments,
     pending : SUBSET (Attachments \X Statuses),
     imported : Nat, duplicates : Nat, failed : Nat]

StoreTypeOK ==
    /\ rows \in [Attachments -> Nat]
    /\ events \in [Attachments -> [Statuses -> Nat]]
    /\ imp \in [Importers -> ImportState]

Pending(i, a, s) == <<a, s>> \in imp[i].pending

\* However mail is redelivered and uploads repeat it, and whichever importers
\* race, a report has one row at most.
OneRowPerReport ==
    \A a, b \in Attachments :
        SameReport(a, b) /\ rows[a] > 0 /\ rows[b] > 0 => a = b /\ rows[a] = 1

\* The ingest log never claims an import that has no row of its own: it holds at
\* most one "ok" event per stored row, whatever importer wrote it and whenever.
LogBackedByRows ==
    \A a \in Attachments : events[a]["ok"] <= rows[a]

\* What the log says of a file it refused is still true of the tables: a
\* duplicate has the stored report it repeats, and a reused report-id has a
\* stored TLS report with another window (the data-loss signal of
\* IngestStatusDuplicateRange).
RefusalsExplained ==
    \A a \in Attachments :
        /\ events[a]["duplicate"] > 0 => IsStored(a)
        /\ events[a]["duplicate_range"] > 0 =>
              /\ FormatOf[a] = "tlsrpt"
              /\ \E b \in Stored(a) : WindowOf[b] # WindowOf[a]
        /\ events[a]["parse_error"] > 0 => rows[a] = 0
=============================================================================
