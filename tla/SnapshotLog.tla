---------------------------- MODULE SnapshotLog ----------------------------
(***************************************************************************)
(* The change logs of what domains publish: bimi_snapshots and tls_snapshots *)
(* (internal/database), written by the background jobs that look the records *)
(* up: the enrichment run (internal/handlers/enrich_worker.go) and the       *)
(* domain-check refresher (internal/handlers/refresh.go).                    *)
(*                                                                          *)
(* A series is one record that is followed: a domain's BIMI record or its    *)
(* TLS-RPT record.  Both tables are written by the same steps (stamp, read   *)
(* the current row, then touch it or insert), each a statement of its own.   *)
(* BIMI series have two writers, TLS series one.  Clock ticks are seconds    *)
(* to the stamps and TTL of them make a row stale.                           *)
(***************************************************************************)
EXTENDS Integers, Sequences, FiniteSets

CONSTANTS
    BimiSeries,     \* one BIMI record per domain
    TlsSeries,      \* one TLS-RPT record per domain
    Records,        \* what can be published
    MayFind,        \* what a lookup of each series may end with
    TTL,            \* bimiRecordTTL, tlsPolicyTTL and domainCheckTTL
    LastTick,       \* bound: the clock stops here
    MaxTrouble      \* bound: statements that fail and crashes, together

Series == BimiSeries \cup TlsSeries
Jobs == {"enrich", "refresh"}
Lookups == Records \cup {"absent", "error"}   \* what a lookup ends with

ASSUME SnapAssumption ==
    /\ BimiSeries \cap TlsSeries = {}
    /\ Records \cap {"absent", "error"} = {}
    /\ MayFind \in [Series -> SUBSET Lookups]
    /\ TTL \in Nat \ {0}
    /\ LastTick \in Nat /\ MaxTrouble \in Nat

VARIABLES
    clock,
    log,      \* the rows of both tables in id order
    check,    \* domain_checks of each BIMI series' domain: has_bimi, checked_at
    job,      \* where each job is
    told,     \* ghost: how often each state of a series was observed and stored
    latest,   \* ghost: the observation of each series stored last
    trouble   \* bound: what may still go wrong

snapVars == <<clock, log, check, job, told, latest, trouble>>

Idle == [pc |-> "idle", stage |-> "none", began |-> 0, todo |-> {}, series |-> "none",
         saw |-> "absent", stamp |-> 0, cur |-> 0, has |-> FALSE, clean |-> TRUE]

SnapInit ==
    /\ clock = 0
    /\ log = << >>
    /\ check = [s \in BimiSeries |-> [has |-> FALSE, at |-> -1]]
    /\ job = [j \in Jobs |-> Idle]
    /\ told = [s \in Series |-> [o \in Lookups |-> 0]]
    /\ latest = [s \in Series |-> "none"]
    /\ trouble = MaxTrouble

\* A statement fails, or the process dies.
GoesWrong == trouble > 0 /\ trouble' = trouble - 1

-----------------------------------------------------------------------------
(* Reading the tables                                                      *)

RowsOf(s) == {i \in DOMAIN log : log[i].series = s}

\* GetCurrentBIMISnapshot, GetCurrentTLSSnapshot: ORDER BY last_seen DESC, id DESC
\* LIMIT 1; 0 when there is no row.
Current(s) ==
    IF RowsOf(s) = {} THEN 0
    ELSE CHOOSE i \in RowsOf(s) : \A k \in RowsOf(s) \ {i} :
            log[k].last < log[i].last \/ (log[k].last = log[i].last /\ k < i)

\* ListCurrentBIMISnapshots joins on MAX(last_seen): ties are all returned.
ListCurrent(s) == {i \in RowsOf(s) : \A k \in RowsOf(s) : log[k].last <= log[i].last}

\* ListStaleBIMIDomains, ListStaleTLSPolicyDomains
StaleSince(S, cutoff) == {s \in S : \A i \in RowsOf(s) : log[i].last < cutoff}

\* A domain check is refreshed once it is older than domainCheckTTL.
ChecksDue(t) == {s \in BimiSeries : check[s].at = -1 \/ t - check[s].at > TTL}

-----------------------------------------------------------------------------
(* The jobs                                                                *)

\* What a stage of a run works on.  The cutoffs count from when the run began.
WorkOf(stage, began) ==
    CASE stage = "bimi"    -> StaleSince(BimiSeries, began - TTL)
      [] stage = "checks"  -> ChecksDue(began)
      [] stage = "tls"     -> StaleSince(TlsSeries, began - TTL)
      [] stage = "domains" -> ChecksDue(began)

\* The enrichment run: BIMI records, domain checks, TLS records.  The refresher
\* does a record and the check of its domain together.
NextStage(stage) ==
    CASE stage = "bimi" -> "checks" [] stage = "checks" -> "tls" [] OTHER -> "none"

Begin(j) ==
    LET first == IF j = "enrich" THEN "bimi" ELSE "domains"
    IN  /\ job[j].pc = "idle"
        /\ job' = [job EXCEPT ![j] = [Idle EXCEPT !.pc = "pick", !.stage = first,
                                                  !.began = clock,
                                                  !.todo = WorkOf(first, clock)]]
        /\ UNCHANGED <<clock, log, check, told, latest, trouble>>

\* The stage's list is done: list the next stage's work or end the run.
StageOver(j) ==
    LET next == NextStage(job[j].stage)
    IN  /\ job[j].pc = "pick" /\ job[j].todo = {}
        /\ job' = [job EXCEPT ![j] =
                      IF next = "none" THEN Idle
                      ELSE [@ EXCEPT !.stage = next, !.todo = WorkOf(next, job[j].began)]]
        /\ UNCHANGED <<clock, log, check, told, latest, trouble>>

\* A list query that fails ends the enrichment run.
ListFails(j) ==
    /\ GoesWrong
    /\ job[j].pc = "pick" /\ job[j].todo = {}
    /\ NextStage(job[j].stage) # "none"
    /\ job' = [job EXCEPT ![j] = Idle]
    /\ UNCHANGED <<clock, log, check, told, latest>>

\* The lookup of the next series: what its owner publishes by now, or a resolver
\* that fails, which is an observation too.
Probe(j, s) ==
    /\ job[j].pc = "pick" /\ job[j].stage # "checks" /\ s \in job[j].todo
    /\ \E saw \in MayFind[s] :
          job' = [job EXCEPT ![j].pc = "stamp", ![j].series = s, ![j].saw = saw,
                             ![j].todo = @ \ {s}]
    /\ UNCHANGED <<clock, log, check, told, latest, trouble>>

\* The checks stage of the enrichment run looks nothing up for BIMI.
PickCheck(j, s) ==
    /\ job[j].pc = "pick" /\ job[j].stage = "checks" /\ s \in job[j].todo
    /\ job' = [job EXCEPT ![j].pc = "has", ![j].series = s, ![j].todo = @ \ {s}]
    /\ UNCHANGED <<clock, log, check, told, latest, trouble>>

-----------------------------------------------------------------------------
(* UpsertBIMISnapshot and UpsertTLSSnapshot                                *)

\* The next item of the loop.
NextItem(w) == [Idle EXCEPT !.pc = "pick", !.stage = w.stage, !.began = w.began,
                            !.todo = w.todo, !.clean = w.clean]

\* Where the job goes on once the snapshot is stored or could not be.
AfterUpsert(w) ==
    IF w.stage = "domains" THEN [NextItem(w) EXCEPT !.pc = "has", !.series = w.series]
    ELSE NextItem(w)

Stamp(j) ==
    /\ job[j].pc = "stamp"
    /\ job' = [job EXCEPT ![j].pc = "read", ![j].stamp = clock]
    /\ UNCHANGED <<clock, log, check, told, latest, trouble>>

ReadCurrent(j) ==
    /\ job[j].pc = "read"
    /\ job' = [job EXCEPT ![j].pc = "write", ![j].cur = Current(job[j].series)]
    /\ UNCHANGED <<clock, log, check, told, latest, trouble>>

NewRow(w) == [series |-> w.series, saw |-> w.saw, first |-> w.stamp, last |-> w.stamp,
              checks |-> 1]

Observed(w) ==
    /\ told' = [told EXCEPT ![w.series][w.saw] = @ + 1]
    /\ latest' = [latest EXCEPT ![w.series] = w.saw]

\* A plausible mistake: the stored detail, which holds the time of the lookup, is
\* compared as well.
WriteComparesDetail(j) ==
    LET w == job[j]
    IN  /\ w.pc = "write"
        /\ log' = IF w.cur # 0 /\ log[w.cur].saw = w.saw /\ log[w.cur].last = w.stamp
                  THEN [log EXCEPT ![w.cur].last = w.stamp, ![w.cur].checks = @ + 1]
                  ELSE Append(log, NewRow(w))
        /\ Observed(w)
        /\ job' = [job EXCEPT ![j] = AfterUpsert(w)]
        /\ UNCHANGED <<clock, check, trouble>>

\* A plausible mistake: only the content is compared; a failed lookup has none, and
\* neither has a record that is absent.
WriteComparesContent(j) ==
    LET w == job[j]
    IN  /\ w.pc = "write"
        /\ log' = IF w.cur # 0 /\ (log[w.cur].saw = w.saw \/ {log[w.cur].saw, w.saw} = {"absent", "error"})
                  THEN [log EXCEPT ![w.cur].last = w.stamp, ![w.cur].checks = @ + 1]
                  ELSE Append(log, NewRow(w))
        /\ Observed(w)
        /\ job' = [job EXCEPT ![j] = AfterUpsert(w)]
        /\ UNCHANGED <<clock, check, trouble>>

\* A plausible mistake: the row is found again by what it says, not by its id.
WriteByContent(j) ==
    LET w == job[j]
    IN  /\ w.pc = "write"
        /\ log' = IF w.cur # 0 /\ log[w.cur].saw = w.saw
                  THEN [i \in DOMAIN log |->
                           IF log[i].series = w.series /\ log[i].saw = w.saw
                           THEN [log[i] EXCEPT !.last = w.stamp, !.checks = @ + 1]
                           ELSE log[i]]
                  ELSE Append(log, NewRow(w))
        /\ Observed(w)
        /\ job' = [job EXCEPT ![j] = AfterUpsert(w)]
        /\ UNCHANGED <<clock, check, trouble>>

\* A plausible mistake: a confirmation counts but does not move last_seen.
WriteKeepsLastSeen(j) ==
    LET w == job[j]
    IN  /\ w.pc = "write"
        /\ log' = IF w.cur # 0 /\ log[w.cur].saw = w.saw
                  THEN [log EXCEPT ![w.cur].checks = @ + 1]
                  ELSE Append(log, NewRow(w))
        /\ Observed(w)
        /\ job' = [job EXCEPT ![j] = AfterUpsert(w)]
        /\ UNCHANGED <<clock, check, trouble>>

\* The same state again touches the row that was read; another one is inserted.
Write(j) ==
    LET w == job[j]
    IN  /\ w.pc = "write"
        /\ log' = IF w.cur # 0 /\ log[w.cur].saw = w.saw
                  THEN [log EXCEPT ![w.cur].last = w.stamp, ![w.cur].checks = @ + 1]
                  ELSE Append(log, NewRow(w))
        /\ Observed(w)
        /\ job' = [job EXCEPT ![j] = AfterUpsert(w)]
        /\ UNCHANGED <<clock, check, trouble>>

\* Either statement fails: the error is logged and the run goes on without it.
UpsertFails(j) ==
    /\ GoesWrong
    /\ job[j].pc \in {"read", "write"}
    /\ job' = [job EXCEPT ![j] = [AfterUpsert(job[j]) EXCEPT !.clean = FALSE]]
    /\ UNCHANGED <<clock, log, check, told, latest>>

-----------------------------------------------------------------------------
(* The domain check                                                        *)

\* HasBIMIRecord, from the newest row: neither absent nor a failed lookup.  A
\* query that fails is logged and counts as no record.
ReadHasBIMI(j) ==
    LET i == Current(job[j].series)
        found == i # 0 /\ log[i].saw \notin {"absent", "error"}
    IN  /\ job[j].pc = "has"
        /\ \/ /\ job' = [job EXCEPT ![j].pc = "check", ![j].has = found]
              /\ UNCHANGED trouble
           \/ /\ GoesWrong
              /\ job' = [job EXCEPT ![j].pc = "check", ![j].has = FALSE, ![j].clean = FALSE]
        /\ UNCHANGED <<clock, log, check, told, latest>>

\* UpsertDomainCheck, after the DMARC and MTA-STS lookups.
StoreCheck(j) ==
    /\ job[j].pc = "check"
    /\ \/ /\ check' = [check EXCEPT ![job[j].series] = [has |-> job[j].has, at |-> clock]]
          /\ job' = [job EXCEPT ![j] = NextItem(job[j])]
          /\ UNCHANGED trouble
       \/ /\ GoesWrong
          /\ UNCHANGED check
          /\ job' = [job EXCEPT ![j] = [NextItem(job[j]) EXCEPT !.clean = FALSE]]
    /\ UNCHANGED <<clock, log, told, latest>>

-----------------------------------------------------------------------------

\* Time passes.  Bound: an upsert takes less than two ticks (its statements run
\* in milliseconds, a tick stands for no less than a second).
Tick ==
    /\ clock < LastTick
    /\ \A j \in Jobs : job[j].pc \in {"read", "write"} => job[j].stamp = clock
    /\ clock' = clock + 1
    /\ UNCHANGED <<log, check, job, told, latest, trouble>>

\* The process dies: the tables stay.
SnapCrash ==
    /\ GoesWrong
    /\ \E j \in Jobs : job[j].pc # "idle"
    /\ job' = [j \in Jobs |-> Idle]
    /\ UNCHANGED <<clock, log, check, told, latest>>

JobStep(j) ==
    \/ Begin(j) \/ StageOver(j) \/ ListFails(j)
    \/ \E s \in Series : Probe(j, s) \/ PickCheck(j, s)
    \/ Stamp(j) \/ ReadCurrent(j) \/ Write(j) \/ UpsertFails(j)
    \/ ReadHasBIMI(j) \/ StoreCheck(j)

SnapNext ==
    \/ \E j \in Jobs : JobStep(j)
    \/ Tick
    \/ SnapCrash

SnapSpec == SnapInit /\ [][SnapNext]_snapVars

-----------------------------------------------------------------------------

JobState ==
    [pc : {"idle", "pick", "stamp", "read", "write", "has", "check"},
     stage : {"none", "bimi", "checks", "tls", "domains"}, began : 0 .. LastTick,
     todo : SUBSET Series, series : Series \cup {"none"}, saw : Lookups,
     stamp : 0 .. LastTick, cur : Nat, has : BOOLEAN, clean : BOOLEAN]

\* The next row of the same series.
Follows(i, k) ==
    /\ i < k /\ log[i].series = log[k].series
    /\ \A m \in (i + 1) .. (k - 1) : log[m].series # log[i].series

EachRowAChange(S) ==
    \A i, k \in DOMAIN log :
        Follows(i, k) /\ log[i].series \in S => log[i].saw # log[k].saw

\* The rows of a series that has one writer are its changes, in order: a row
\* differs from the one before it, and begins after that one was last confirmed
\* (UpsertTLSSnapshot: "Rows are one per distinct state, not one per check").
RowsAreChanges ==
    /\ EachRowAChange(TlsSeries)
    /\ \A i, k \in DOMAIN log :
          Follows(i, k) /\ log[i].series \in TlsSeries => log[i].last < log[k].first

\* The row every reader takes for the current state is the last observation that
\* was stored, and the inventory query agrees with it.
CurrentIsLatest ==
    \A s \in TlsSeries : latest[s] # "none" =>
        /\ log[Current(s)].saw = latest[s]
        /\ ListCurrent(s) = {Current(s)}

\* The confirmations that the rows of a state hold, the k-th of row i as <<i, k>>.
Confirmed(s, o) ==
    UNION {{i} \X (1 .. log[i].checks) : i \in {n \in RowsOf(s) : log[n].saw = o}}

\* Whatever the jobs do to each other, no observation is lost and none counts
\* twice: the rows of a state were confirmed as often as it was observed.
ObservationsCounted ==
    \A s \in Series : \A o \in Lookups : Cardinality(Confirmed(s, o)) = told[s][o]

\* A stage in which no statement failed leaves nothing stale behind: every series
\* was observed, and every domain checked, no longer ago than TTL before the run.
StageLeavesFresh ==
    \A j \in Jobs :
        job[j].pc = "pick" /\ job[j].todo = {} /\ job[j].clean =>
            WorkOf(job[j].stage, job[j].began) = {}
=============================================================================
