---------------------------- MODULE EnrichStream ----------------------------
(***************************************************************************)
(* The enrichment worker and its live progress (EnrichWorker in             *)
(* internal/handlers/enrich_worker.go, HandleEnrichStream and               *)
(* HandleEnrichClear in internal/handlers/enrich.go).                       *)
(*                                                                          *)
(* A run is a goroutine that works through its jobs and publishes an event  *)
(* for each step to buffered channels, one per viewer.  The mutex covers    *)
(* the status and the set of subscribers; the sends happen outside it, so   *)
(* the end of one run overlaps the start of the next.                       *)
(***************************************************************************)
EXTENDS Naturals, Sequences, FiniteSets

CONSTANTS
    Viewers,        \* the requests to /enrich/stream
    Jobs,           \* how many jobs a run goes through (five in the code)
    Items,          \* the addresses and domains that are looked up (what is not an
                    \* IP address is skipped by the run, and is no item)
    JobOf,          \* the job that looks an item up
    ClearedJobs,    \* the jobs whose tables ClearDNSCache empties
    BufferCap,      \* the capacity of a viewer's channel (32 in the code)
    MaxRuns,        \* bound: how many runs are started
    EnrichFaults    \* the kinds of failure that may happen

ASSUME EnrichAssumption ==
    /\ Jobs \in Nat
    /\ JobOf \in [Items -> 1 .. Jobs]
    /\ ClearedJobs \in SUBSET (1 .. Jobs) \ {{}}
    /\ BufferCap \in Nat \ {0}
    /\ MaxRuns \in Nat
    /\ EnrichFaults \in SUBSET {"list", "upsert", "clear"}

Runs == 1 .. MaxRuns

VARIABLES
    running,    \* status.Running
    started,    \* how many runs were started; status describes the last one
    run,        \* what each run's goroutine is doing
    subs,       \* the viewers whose channel is registered
    buf,        \* the events in each viewer's channel
    vw,         \* what each viewer's handler is doing: the run it joined (saw),
                \* the progress of that run it has shown (view), the run whose
                \* last event ended the stream (by)
    cached,     \* the items whose cached answer is fresh
    clr,        \* the request to clear the cache
    dropped,    \* the viewers an event was dropped for
    disturbed   \* an item was deleted, expired or not stored since the last start

enrichVars == <<running, started, run, subs, buf, vw, cached, clr, dropped, disturbed>>
runVars == <<running, started, run, cached, disturbed>>
viewVars == <<subs, buf, vw, dropped>>

-----------------------------------------------------------------------------

NoRun == [pc |-> "none", job |-> 0, todo |-> {}, count |-> 0, msg |-> "progress", to |-> {}]

Terminal == {"done", "error"}

EnrichInit ==
    /\ running = FALSE
    /\ started = 0
    /\ run = [r \in Runs |-> NoRun]
    /\ subs = {}
    /\ buf = [v \in Viewers |-> <<>>]
    /\ vw = [v \in Viewers |-> [pc |-> "off", saw |-> 0, view |-> 0, by |-> 0]]
    /\ cached \in SUBSET Items
    /\ clr = [pc |-> "idle", left |-> {}, recent |-> FALSE]
    /\ dropped = {}
    /\ disturbed = FALSE

\* status.*Done of the last run, added up.
StatusCount == IF started = 0 THEN 0 ELSE run[started].count

-----------------------------------------------------------------------------
(* EnrichWorker                                                            *)

\* A plausible mistake: Trigger does not look at Running.
TriggerAlways ==
    /\ started < MaxRuns
    /\ running' = TRUE
    /\ started' = started + 1
    /\ run' = [run EXCEPT ![started + 1] = [NoRun EXCEPT !.pc = "list", !.job = 1]]
    /\ disturbed' = FALSE
    /\ UNCHANGED <<viewVars, cached, clr>>

\* Trigger changes nothing while a run is in progress.
Trigger ==
    /\ ~running
    /\ started < MaxRuns
    /\ running' = TRUE
    /\ started' = started + 1
    /\ run' = [run EXCEPT ![started + 1] = [NoRun EXCEPT !.pc = "list", !.job = 1]]
    /\ disturbed' = FALSE
    /\ UNCHANGED <<viewVars, cached, clr>>

\* The stale items of the next job are listed and the job's start is published.
ListJob(r) ==
    /\ run[r].pc = "list"
    /\ run[r].job <= Jobs
    /\ run' = [run EXCEPT ![r].pc = "snap",
                          ![r].todo = {x \in Items \ cached : JobOf[x] = run[r].job}]
    /\ UNCHANGED <<running, started, cached, disturbed, viewVars, clr>>

\* A list that cannot be read ends the run with an error.
ListFails(r) ==
    /\ "list" \in EnrichFaults
    /\ run[r].pc = "list"
    /\ run[r].job <= Jobs
    /\ run' = [run EXCEPT ![r].pc = "finish", ![r].msg = "error"]
    /\ UNCHANGED <<running, started, cached, disturbed, viewVars, clr>>

\* A plausible mistake: the last job is left out.
JobsOverEarly(r) ==
    /\ run[r].pc = "list"
    /\ run[r].job >= Jobs
    /\ run' = [run EXCEPT ![r].pc = "finish", ![r].msg = "done"]
    /\ UNCHANGED <<running, started, cached, disturbed, viewVars, clr>>

JobsOver(r) ==
    /\ run[r].pc = "list"
    /\ run[r].job > Jobs
    /\ run' = [run EXCEPT ![r].pc = "finish", ![r].msg = "done"]
    /\ UNCHANGED <<running, started, cached, disturbed, viewVars, clr>>

\* One item is looked up and stored (an error is only logged), counted, and its
\* progress published.
WorkItem(r, x) ==
    /\ run[r].pc = "work"
    /\ x \in run[r].todo
    /\ \/ cached' = cached \cup {x} /\ UNCHANGED disturbed
       \/ "upsert" \in EnrichFaults /\ cached' = cached /\ disturbed' = TRUE
    /\ run' = [run EXCEPT ![r].pc = "snap", ![r].todo = @ \ {x}, ![r].count = @ + 1]
    /\ UNCHANGED <<running, started, viewVars, clr>>

\* A plausible mistake: Running stays set.
FinishStaysRunning(r) ==
    /\ run[r].pc = "finish"
    /\ run' = [run EXCEPT ![r].pc = "snap"]
    /\ UNCHANGED <<running, started, cached, disturbed, viewVars, clr>>

\* finish clears Running before it publishes the terminal event.
Finish(r) ==
    /\ run[r].pc = "finish"
    /\ running' = FALSE
    /\ run' = [run EXCEPT ![r].pc = "snap"]
    /\ UNCHANGED <<started, cached, disturbed, viewVars, clr>>

-----------------------------------------------------------------------------
(* publish: the recipients under the mutex, then a send to each             *)

Snapshot(r) ==
    /\ run[r].pc = "snap"
    /\ run' = [run EXCEPT ![r].pc = "send", ![r].to = subs]
    /\ UNCHANGED <<running, started, cached, disturbed, viewVars, clr>>

EventOf(r) == [run |-> r, kind |-> run[r].msg, count |-> run[r].count]

\* A plausible mistake: the send waits for room.
SendBlocks(r, v) ==
    /\ run[r].pc = "send"
    /\ v \in run[r].to
    /\ Len(buf[v]) < BufferCap
    /\ buf' = [buf EXCEPT ![v] = Append(@, EventOf(r))]
    /\ run' = [run EXCEPT ![r].to = @ \ {v}]
    /\ UNCHANGED <<running, started, cached, disturbed, subs, vw, dropped, clr>>

\* The select with a default: an event is dropped when the buffer is full.  The
\* channel of a closed stream is garbage: what is sent there is not kept.
Send(r, v) ==
    /\ run[r].pc = "send"
    /\ v \in run[r].to
    /\ \/ /\ Len(buf[v]) < BufferCap
          /\ buf' = [buf EXCEPT ![v] = IF vw[v].pc = "closed" THEN @ ELSE Append(@, EventOf(r))]
          /\ UNCHANGED dropped
       \/ /\ Len(buf[v]) >= BufferCap
          /\ dropped' = dropped \cup {v}
          /\ UNCHANGED buf
    /\ run' = [run EXCEPT ![r].to = @ \ {v}]
    /\ UNCHANGED <<running, started, cached, disturbed, subs, vw, clr>>

\* The run goes on after publishing: next item, next job, or it is over.
Published(r) ==
    /\ run[r].pc = "send"
    /\ run[r].to = {}
    /\ run' = [run EXCEPT
          ![r].pc = IF run[r].msg \in Terminal THEN "over"
                    ELSE IF run[r].todo = {} THEN "list" ELSE "work",
          ![r].job = IF run[r].todo = {} /\ run[r].msg \notin Terminal THEN @ + 1 ELSE @]
    /\ UNCHANGED <<running, started, cached, disturbed, viewVars, clr>>

-----------------------------------------------------------------------------
(* HandleEnrichStream: subscribe, then read the status, then forward events *)

Subscribe(v) ==
    /\ vw[v].pc = "off"
    /\ subs' = subs \cup {v}
    /\ vw' = [vw EXCEPT ![v].pc = "sub"]
    /\ UNCHANGED <<runVars, buf, dropped, clr>>

\* The "sync" event; without a run in progress the stream ends there.
ReadStatus(v) ==
    /\ vw[v].pc = "sub"
    /\ IF running
       THEN /\ vw' = [vw EXCEPT ![v].pc = "watch", ![v].saw = started,
                                ![v].view = StatusCount]
            /\ UNCHANGED subs
       ELSE /\ vw' = [vw EXCEPT ![v].pc = "closed", ![v].view = StatusCount]
            /\ subs' = subs \ {v}
    /\ buf' = IF running THEN buf ELSE [buf EXCEPT ![v] = <<>>]
    /\ UNCHANGED <<runVars, dropped, clr>>

\* The next event is written to the response; a terminal one ends the stream.
\* A browser that went away is not noticed: write errors are ignored.
Forward(v) ==
    /\ vw[v].pc = "watch"
    /\ buf[v] # <<>>
    /\ LET ev == Head(buf[v])
       IN  IF ev.kind \in Terminal
           THEN /\ vw' = [vw EXCEPT ![v].pc = "closed", ![v].by = ev.run]
                /\ subs' = subs \ {v}
                /\ buf' = [buf EXCEPT ![v] = <<>>]
           ELSE /\ vw' = [vw EXCEPT ![v].view = IF ev.run = vw[v].saw THEN ev.count ELSE @]
                /\ UNCHANGED subs
                /\ buf' = [buf EXCEPT ![v] = Tail(@)]
    /\ UNCHANGED <<runVars, dropped, clr>>

-----------------------------------------------------------------------------
(* HandleEnrichClear, and the passing of time                               *)

ClearRequested ==
    /\ clr.pc = "idle"
    /\ ~running
    /\ clr' = [clr EXCEPT !.pc = "checked"]
    /\ UNCHANGED <<runVars, viewVars>>

\* Under enrichClearMu: refused when the last clear was less than a minute ago.
ClearLocked ==
    /\ clr.pc = "checked"
    /\ clr' = IF clr.recent THEN [clr EXCEPT !.pc = "idle"]
              ELSE [clr EXCEPT !.pc = "delete", !.left = ClearedJobs]
    /\ UNCHANGED <<runVars, viewVars>>

\* ClearDNSCache empties one table after another; after the last one the time of
\* the clear is noted.
DeleteTable ==
    /\ clr.pc = "delete"
    /\ \E j \in clr.left :
          /\ \A k \in clr.left : j <= k
          /\ cached' = {x \in cached : JobOf[x] # j}
          /\ clr' = IF clr.left = {j}
                    THEN [pc |-> "idle", left |-> {}, recent |-> TRUE]
                    ELSE [clr EXCEPT !.left = @ \ {j}]
    /\ disturbed' = TRUE
    /\ UNCHANGED <<running, started, run, viewVars>>

DeleteFails ==
    /\ "clear" \in EnrichFaults
    /\ clr.pc = "delete"
    /\ clr' = [clr EXCEPT !.pc = "idle", !.left = {}]
    /\ UNCHANGED <<runVars, viewVars>>

MinutePasses ==
    /\ clr.recent
    /\ clr' = [clr EXCEPT !.recent = FALSE]
    /\ UNCHANGED <<runVars, viewVars>>

-----------------------------------------------------------------------------

RunStep(r) ==
    \/ ListJob(r) \/ ListFails(r) \/ JobsOver(r)
    \/ \E x \in Items : WorkItem(r, x)
    \/ Finish(r) \/ Snapshot(r)
    \/ \E v \in Viewers : Send(r, v)
    \/ Published(r)

ViewerStep(v) == Subscribe(v) \/ ReadStatus(v) \/ Forward(v)

ClearStep ==
    ClearRequested \/ ClearLocked \/ DeleteTable \/ DeleteFails

EnrichNext ==
    \/ Trigger
    \/ \E r \in Runs : RunStep(r)
    \/ \E v \in Viewers : ViewerStep(v)
    \/ ClearStep \/ MinutePasses

EnrichSpec == EnrichInit /\ [][EnrichNext]_enrichVars

\* The goroutine of a run is scheduled.  Nothing is assumed of the viewers: a
\* browser may stop reading for good.
EnrichFairness == \A r \in Runs : WF_enrichVars(RunStep(r))

EnrichFairSpec == EnrichSpec /\ EnrichFairness

-----------------------------------------------------------------------------

\* A run is at work until it has told the status that it ended.
Working(r) == run[r].pc \notin {"none", "over"} /\ ~(run[r].msg \in Terminal /\ run[r].pc # "finish")

\* Two triggers never get two runs to work side by side, though the last event of
\* one may still be on its way when the next one starts (Trigger: "starts a
\* background run if one is not already in progress").
OneRunAtATime ==
    /\ \A r, s \in Runs : Working(r) /\ Working(s) => r = s
    /\ running <=> \E r \in Runs : Working(r)

AllQuiet == \A r \in Runs : run[r].pc \in {"none", "over"}

HasTerminal(v) == \E i \in DOMAIN buf[v] : buf[v][i].kind \in Terminal

\* Subscribing before reading the status is enough: a viewer that lost no event
\* to a full buffer and still waits when nothing runs any more has the event that
\* will end its stream.
NoOrphanUnlessDropped ==
    \A v \in Viewers :
        AllQuiet /\ vw[v].pc = "watch" /\ v \notin dropped => HasTerminal(v)

\* A run that reports "done" has refreshed every stale item, unless something was
\* deleted or could not be stored meanwhile.
DoneMeansCached ==
    started > 0 /\ run[started].pc = "over" /\ run[started].msg = "done" /\ ~disturbed
        => cached = Items

\* No viewer, however slow, keeps a run from ending.
RunFinishes == running ~> ~running
=============================================================================
