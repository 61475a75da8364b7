------------------------- MODULE SnapshotLogProofs -------------------------
(***************************************************************************)
(* SnapshotLog for any series, records, TTL, time and amount of trouble: the *)
(* rows of a series with one writer are its changes, the rows of any series   *)
(* count what was observed, and a stage in which nothing failed leaves        *)
(* nothing stale.                                                            *)
(***************************************************************************)
EXTENDS SnapshotLog, FiniteSetTheorems, SequenceTheorems, TLAPS

-----------------------------------------------------------------------------
(* The inductive invariant                                                  *)

Rows == [series : Series, saw : Lookups, first : Nat, last : Nat, checks : Nat]

SnapTypeOK ==
    /\ clock \in 0 .. LastTick
    /\ log \in Seq(Rows)
    /\ check \in [BimiSeries -> [has : BOOLEAN, at : -1 .. LastTick]]
    /\ job \in [Jobs -> JobState]
    /\ told \in [Series -> [Lookups -> Nat]]
    /\ latest \in [Series -> Lookups \cup {"none"}]
    /\ trouble \in Nat

Busy == {"stamp", "read", "write", "has", "check"}

\* What a job may be at: only the enrichment run works on TLS series, and a stamp
\* is not older than one tick.
JobFits(j, w) ==
    /\ j = "refresh" => w.stage \in {"none", "domains"}
    /\ j = "enrich" => w.stage # "domains"
    /\ w.pc # "idle" => w.stage # "none" /\ w.began <= clock
    /\ w.todo \subseteq IF w.stage = "tls" THEN TlsSeries ELSE BimiSeries
    /\ w.pc \in Busy => /\ w.series \in IF w.stage = "tls" THEN TlsSeries ELSE BimiSeries
                        /\ w.series \notin w.todo
    /\ w.pc \in {"has", "check"} => w.stage \in {"checks", "domains"}
    /\ w.pc \in {"stamp", "read", "write"} => w.stage # "checks"
    /\ w.pc \in {"read", "write"} =>
           w.began <= w.stamp /\ w.stamp <= clock /\ clock <= w.stamp + 1

\* ORDER BY last_seen DESC, id DESC puts i before k.
Before(i, k) == log[k].last < log[i].last \/ (log[k].last = log[i].last /\ k < i)

\* The row that comes first.
Top(s, i) ==
    /\ i \in RowsOf(s)
    /\ \A k \in RowsOf(s) \ {i} : Before(i, k)

\* What a job still has to write of a TLS series is newer than all its rows.
ListedStale(w) ==
    w.stage = "tls" =>
        \A s \in TlsSeries :
            s \in w.todo \/ (s = w.series /\ w.pc \in {"stamp", "read", "write"}) =>
                \A i \in RowsOf(s) : log[i].last < w.began - TTL


\* The row that was read is of the series, and still the current one of a TLS series.
CursorRight(w) ==
    w.pc = "write" =>
        \/ w.cur = 0 /\ (w.stage = "tls" => RowsOf(w.series) = {})
        \/ w.cur \in RowsOf(w.series) /\ (w.stage = "tls" => Top(w.series, w.cur))

\* What is stale for a job's stage is on its list or in its hands.
Accounted(w) ==
    w.clean /\ w.pc # "idle" =>
        \A s \in WorkOf(w.stage, w.began) : s \in w.todo \/ (s = w.series /\ w.pc # "pick")

JobInv(j, w) == JobFits(j, w) /\ ListedStale(w) /\ CursorRight(w) /\ Accounted(w)

JobsInv == \A j \in Jobs : JobInv(j, job[j])

\* Of any rows one comes first.
FirstExists ==
    \A X \in SUBSET DOMAIN log : X # {} => \E i \in X : \A k \in X \ {i} : Before(i, k)

\* The rows of a TLS series lie after each other in time.
RowsApart ==
    /\ \A i \in DOMAIN log : log[i].last <= clock
    /\ \A i \in DOMAIN log : log[i].series \in TlsSeries => log[i].first <= log[i].last
    /\ \A i, k \in DOMAIN log :
          i < k /\ log[i].series = log[k].series /\ log[i].series \in TlsSeries =>
              log[i].last < log[k].first

\* The last row of a TLS series says what was observed last.
LatestKept ==
    \A s \in TlsSeries :
        /\ RowsOf(s) = {} => latest[s] = "none"
        /\ \A i \in DOMAIN log : Top(s, i) => log[i].saw = latest[s]

LogInv == FirstExists /\ RowsApart /\ LatestKept /\ EachRowAChange(TlsSeries)

SnapInv == SnapTypeOK /\ JobsInv /\ LogInv

LEMMA IdleFits ==
    /\ Idle \in JobState
    /\ \A j \in Jobs : JobInv(j, Idle)
<1>1. Idle \in JobState
  BY SnapAssumption DEF Idle, JobState, Lookups
<1> QED
  BY <1>1 DEF Idle, JobInv, JobFits, ListedStale, CursorRight, Accounted, Busy

LEMMA SnapInitInv == SnapInit => SnapInv
<1> SUFFICES ASSUME SnapInit PROVE SnapInv
  OBVIOUS
<1>1. SnapTypeOK
  <2>1. log \in Seq(Rows)
    BY DEF SnapInit
  <2>2. check \in [BimiSeries -> [has : BOOLEAN, at : -1 .. LastTick]]
    BY SnapAssumption DEF SnapInit
  <2>3. job \in [Jobs -> JobState]
    BY IdleFits DEF SnapInit
  <2>4. told \in [Series -> [Lookups -> Nat]]
    BY DEF SnapInit
  <2>5. clock \in 0 .. LastTick /\ trouble \in Nat /\ latest \in [Series -> Lookups \cup {"none"}]
    BY SnapAssumption DEF SnapInit
  <2> QED
    BY <2>1, <2>2, <2>3, <2>4, <2>5, Zenon DEF SnapTypeOK
<1>2. JobsInv
  BY IdleFits DEF SnapInit, JobsInv
<1>3. DOMAIN log = {}
  BY DEF SnapInit
<1>4. \A s : RowsOf(s) = {}
  BY <1>3 DEF RowsOf
<1>5. LogInv
  BY <1>3, <1>4, SnapAssumption
  DEF LogInv, FirstExists, RowsApart, LatestKept, EachRowAChange, SnapInit, Series
<1> QED
  BY <1>1, <1>2, <1>5 DEF SnapInv

LEMMA RowsTyped ==
    ASSUME SnapTypeOK
    PROVE  /\ Len(log) \in Nat /\ DOMAIN log = 1 .. Len(log)
           /\ \A k \in DOMAIN log :
                 /\ k \in Nat /\ k # 0 /\ log[k] \in Rows
                 /\ log[k].first \in Nat /\ log[k].last \in Nat /\ log[k].checks \in Nat
                 /\ log[k].series \in Series /\ log[k].saw \in Lookups
<1>1. log \in Seq(Rows)
  BY DEF SnapTypeOK
<1>2. Len(log) \in Nat /\ DOMAIN log = 1 .. Len(log)
  BY <1>1
<1>3. \A k \in DOMAIN log : log[k] \in Rows
  BY <1>1
<1>4. \A k \in DOMAIN log : k \in Nat /\ k # 0
  BY <1>2
<1> QED
  BY <1>2, <1>3, <1>4 DEF Rows

\* The row ORDER BY puts first is the only one.
LEMMA TopIsCurrent ==
    ASSUME SnapTypeOK, NEW s \in Series, NEW i \in DOMAIN log, Top(s, i)
    PROVE  Current(s) = i
<1>1. \A k \in DOMAIN log : k \in Nat /\ k # 0 /\ log[k].last \in Nat
  BY RowsTyped
<1>2. RowsOf(s) # {} /\ RowsOf(s) \subseteq DOMAIN log
  BY DEF Top, RowsOf
<1>3. \A k \in RowsOf(s) : Top(s, k) => k = i
  BY <1>1, <1>2 DEF Top, Before
<1> QED
  BY <1>2, <1>3 DEF Current, Top, Before

LEMMA CurrentIsRow ==
    ASSUME SnapInv, NEW s \in Series
    PROVE  /\ RowsOf(s) = {} => Current(s) = 0
           /\ RowsOf(s) # {} => Current(s) \in RowsOf(s) /\ Top(s, Current(s))
<1>1. CASE RowsOf(s) = {}
  BY <1>1 DEF Current
<1>2. CASE RowsOf(s) # {}
  <2>1. PICK i \in DOMAIN log : Top(s, i)
    <3>1. RowsOf(s) \in SUBSET DOMAIN log
      BY DEF RowsOf
    <3> QED
      BY <1>2, <3>1 DEF SnapInv, LogInv, FirstExists, Top
  <2> QED
    BY <1>2, <2>1, TopIsCurrent DEF SnapInv, Top
<1> QED
  BY <1>1, <1>2

-----------------------------------------------------------------------------
(* The steps that leave the log alone                                       *)

LEMMA QueriesKept ==
    ASSUME UNCHANGED <<log, check>>
    PROVE  /\ \A s : RowsOf(s)' = RowsOf(s)
           /\ \A s, i : Top(s, i)' <=> Top(s, i)
           /\ \A stage, began : WorkOf(stage, began)' = WorkOf(stage, began)
<1>1. \A s : RowsOf(s)' = RowsOf(s)
  BY DEF RowsOf
<1>2. \A s, i : Top(s, i)' <=> Top(s, i)
  BY <1>1 DEF Top, Before
<1>3. \A S, cutoff : StaleSince(S, cutoff)' = StaleSince(S, cutoff)
  BY <1>1 DEF StaleSince
<1>4. \A t : ChecksDue(t)' = ChecksDue(t)
  BY DEF ChecksDue
<1> QED
  BY <1>1, <1>2, <1>3, <1>4 DEF WorkOf

LEMMA LogKept ==
    ASSUME LogInv, UNCHANGED <<log, check, latest>>, clock' \in Nat, clock \in Nat,
           clock <= clock', SnapTypeOK
    PROVE  LogInv'
<1>1. \A s : RowsOf(s)' = RowsOf(s)
  BY DEF RowsOf
<1>2. \A s, i : Top(s, i)' <=> Top(s, i)
  BY <1>1 DEF Top, Before
<1>3. LatestKept'
  BY <1>1, <1>2 DEF LogInv, LatestKept
<1>4. FirstExists' /\ EachRowAChange(TlsSeries)'
  BY DEF LogInv, FirstExists, Before, EachRowAChange, Follows
<1>5. RowsApart'
  BY RowsTyped DEF LogInv, RowsApart
<1> QED
  BY <1>3, <1>4, <1>5 DEF LogInv

LEMMA JobMoved ==
    ASSUME SnapInv, NEW j \in Jobs, NEW w \in JobState, JobInv(j, w),
           job' = [job EXCEPT ![j] = w], trouble' \in Nat,
           UNCHANGED <<clock, log, check, told, latest>>
    PROVE  SnapInv'
<1>1. SnapTypeOK'
  <2>1. job' \in [Jobs -> JobState]
    BY DEF SnapInv, SnapTypeOK
  <2> QED
    BY <2>1, Zenon DEF SnapInv, SnapTypeOK
<1>2. job'[j] = w /\ \A q \in Jobs : q # j => job'[q] = job[q]
  BY DEF SnapInv, SnapTypeOK
<1>3. JobsInv'
  <2>1. \A s : RowsOf(s)' = RowsOf(s) /\ \A i : Top(s, i)' <=> Top(s, i)
    BY QueriesKept
  <2>2. \A stage, began : WorkOf(stage, began)' = WorkOf(stage, began)
    BY QueriesKept
  <2> SUFFICES ASSUME NEW q \in Jobs PROVE JobInv(q, job[q])'
    BY DEF JobsInv
  <2>3. PICK x : x = job'[q] /\ JobInv(q, x)
    BY <1>2 DEF SnapInv, JobsInv
  <2>4. ListedStale(x)' /\ CursorRight(x)'
    BY <2>1, <2>3 DEF JobInv, ListedStale, CursorRight
  <2>5. JobFits(q, x)' /\ Accounted(x)'
    BY <2>2, <2>3 DEF JobInv, JobFits, Accounted
  <2> QED
    BY <2>3, <2>4, <2>5 DEF JobInv
<1>4. LogInv'
  BY LogKept DEF SnapInv, SnapTypeOK
<1> QED
  BY <1>1, <1>3, <1>4 DEF SnapInv

LEMMA JobTyped ==
    ASSUME SnapInv, NEW j \in Jobs
    PROVE  /\ job[j] \in JobState /\ JobInv(j, job[j])
           /\ clock \in Nat /\ clock <= LastTick /\ LastTick \in Nat /\ TTL \in Nat /\ TTL >= 1
           /\ job[j].began \in Nat /\ job[j].stamp \in Nat /\ job[j].cur \in Nat
BY SnapAssumption DEF SnapInv, SnapTypeOK, JobsInv, JobState

\* The work of a stage is of its series, and stale.
LEMMA WorkOfStage ==
    /\ \A stage, began : stage \in {"bimi", "checks", "tls", "domains"} =>
          WorkOf(stage, began) \subseteq IF stage = "tls" THEN TlsSeries ELSE BimiSeries
    /\ \A began : WorkOf("tls", began) = StaleSince(TlsSeries, began - TTL)
BY DEF WorkOf, StaleSince, ChecksDue

LEMMA BeginInv ==
    ASSUME SnapInv, NEW j \in Jobs, Begin(j)
    PROVE  SnapInv'
<1> DEFINE first == IF j = "enrich" THEN "bimi" ELSE "domains"
           w == [Idle EXCEPT !.pc = "pick", !.stage = first, !.began = clock,
                             !.todo = WorkOf(first, clock)]
<1>1. clock \in 0 .. LastTick
  BY DEF SnapInv, SnapTypeOK
<1>2. first \in {"bimi", "domains"} /\ (j = "enrich" <=> first = "bimi")
      /\ (j = "refresh" => first = "domains")
  BY DEF Jobs
<1>3. WorkOf(first, clock) \subseteq BimiSeries /\ WorkOf(first, clock) \in SUBSET Series
  BY <1>2, WorkOfStage DEF Series
<1>4. /\ w.pc = "pick" /\ w.stage = first /\ w.began = clock /\ w.todo = WorkOf(first, clock)
      /\ w \in JobState
  BY <1>1, <1>2, <1>3, IdleFits DEF Idle, JobState
<1>5. job' = [job EXCEPT ![j] = w] /\ UNCHANGED <<clock, log, check, told, latest, trouble>>
  BY DEF Begin
<1> HIDE DEF w, first
<1>6. JobFits(j, w)
  BY <1>1, <1>2, <1>3, <1>4 DEF JobFits, Busy
<1>7. ListedStale(w) /\ CursorRight(w) /\ Accounted(w)
  BY <1>2, <1>4 DEF ListedStale, CursorRight, Accounted
<1> QED
  BY <1>4, <1>5, <1>6, <1>7, JobMoved DEF JobInv, SnapInv, SnapTypeOK

\* The next stage begins with all its work on its list.
LEMMA StageOverInv ==
    ASSUME SnapInv, NEW j \in Jobs, StageOver(j)
    PROVE  SnapInv'
<1> DEFINE next == NextStage(job[j].stage)
           w == [job[j] EXCEPT !.stage = next, !.todo = WorkOf(next, job[j].began)]
<1>1. job[j] \in JobState /\ JobInv(j, job[j])
  BY JobTyped
<1>2. UNCHANGED <<clock, log, check, told, latest, trouble>> /\ trouble' \in Nat
  BY DEF StageOver, SnapInv, SnapTypeOK
<1>3. CASE next = "none"
  <2>1. job' = [job EXCEPT ![j] = Idle]
    BY <1>3 DEF StageOver
  <2> QED
    BY <1>2, <2>1, IdleFits, JobMoved
<1>4. CASE next # "none"
  <2>1. job[j].stage \in {"bimi", "checks"} /\ next \in {"checks", "tls"} /\ job[j].pc = "pick"
    BY <1>4 DEF NextStage, StageOver
  <2>2. j = "enrich"
    BY <1>1, <2>1 DEF JobInv, JobFits, Jobs
  <2>3. /\ WorkOf(next, job[j].began) \subseteq IF next = "tls" THEN TlsSeries ELSE BimiSeries
        /\ WorkOf(next, job[j].began) \in SUBSET Series
    BY <2>1, WorkOfStage DEF Series
  <2>4. /\ w.pc = "pick" /\ w.stage = next /\ w.began = job[j].began
        /\ w.todo = WorkOf(next, w.began) /\ w \in JobState
    BY <1>1, <2>1, <2>3 DEF JobState
  <2>5. job' = [job EXCEPT ![j] = w]
    BY <1>4 DEF StageOver
  <2> HIDE DEF w, next
  <2>6. JobFits(j, w)
    BY <1>1, <2>1, <2>2, <2>3, <2>4 DEF JobInv, JobFits, Busy
  <2>7. ListedStale(w)
    <3>1. \A s \in WorkOf("tls", w.began) : \A i \in RowsOf(s) : log[i].last < w.began - TTL
      BY WorkOfStage DEF StaleSince
    <3> QED
      BY <2>4, <3>1 DEF ListedStale
  <2>8. CursorRight(w) /\ Accounted(w)
    BY <2>4 DEF CursorRight, Accounted
  <2> QED
    BY <1>2, <2>4, <2>5, <2>6, <2>7, <2>8, JobMoved DEF JobInv
<1> QED
  BY <1>3, <1>4

\* A run that ends changes nothing else.
LEMMA RunEndsInv ==
    ASSUME SnapInv, NEW j \in Jobs, ListFails(j)
    PROVE  SnapInv'
<1>1. trouble' \in Nat
  BY DEF ListFails, GoesWrong, SnapInv, SnapTypeOK
<1>2. job' = [job EXCEPT ![j] = Idle] /\ UNCHANGED <<clock, log, check, told, latest>>
  BY DEF ListFails
<1> QED
  BY <1>1, <1>2, IdleFits, JobMoved

\* An item taken from the list stays accounted for while it is worked on.
LEMMA ProbeInv ==
    ASSUME SnapInv, NEW j \in Jobs, NEW s \in Series, Probe(j, s)
    PROVE  SnapInv'
<1>1. job[j] \in JobState /\ JobInv(j, job[j])
  BY JobTyped
<1>2. PICK saw \in MayFind[s] :
         job' = [job EXCEPT ![j].pc = "stamp", ![j].series = s, ![j].saw = saw,
                            ![j].todo = @ \ {s}]
  BY DEF Probe
<1> DEFINE w == [job[j] EXCEPT !.pc = "stamp", !.series = s, !.saw = saw, !.todo = @ \ {s}]
<1>3. saw \in Lookups /\ job[j].todo \ {s} \in SUBSET Series
  BY <1>1, SnapAssumption DEF JobState
<1>4. /\ w.pc = "stamp" /\ w.series = s /\ w.stage = job[j].stage /\ w.began = job[j].began
      /\ w.todo = job[j].todo \ {s} /\ w.clean = job[j].clean
  BY <1>1 DEF JobState
<1>5. w \in JobState
  <2>1. \A t \in SUBSET Series : \A x \in Lookups :
           [job[j] EXCEPT !.pc = "stamp", !.series = s, !.saw = x, !.todo = t] \in JobState
    BY <1>1 DEF JobState
  <2>2. w = [job[j] EXCEPT !.pc = "stamp", !.series = s, !.saw = saw,
                           !.todo = job[j].todo \ {s}]
    BY <1>1 DEF JobState
  <2> QED
    BY <1>3, <2>1, <2>2, Zenon
<1>6. job' = [job EXCEPT ![j] = w]
  BY <1>2 DEF SnapInv, SnapTypeOK
<1> HIDE DEF w
<1>7. job[j].pc = "pick" /\ job[j].stage # "checks" /\ s \in job[j].todo
  BY DEF Probe
<1>8. JobFits(j, w)
  BY <1>1, <1>4, <1>7 DEF JobInv, JobFits, Busy
<1>9. ListedStale(w) /\ CursorRight(w) /\ Accounted(w)
  BY <1>1, <1>4, <1>7 DEF JobInv, ListedStale, CursorRight, Accounted
<1>10. UNCHANGED <<clock, log, check, told, latest, trouble>> /\ trouble' \in Nat
  BY DEF Probe, SnapInv, SnapTypeOK
<1> QED
  BY <1>5, <1>6, <1>8, <1>9, <1>10, JobMoved DEF JobInv

LEMMA PickCheckInv ==
    ASSUME SnapInv, NEW j \in Jobs, NEW s \in Series, PickCheck(j, s)
    PROVE  SnapInv'
<1>1. job[j] \in JobState /\ JobInv(j, job[j])
  BY JobTyped
<1> DEFINE w == [job[j] EXCEPT !.pc = "has", !.series = s, !.todo = @ \ {s}]
<1>2. /\ w.pc = "has" /\ w.series = s /\ w.stage = job[j].stage /\ w.began = job[j].began
      /\ w.todo = job[j].todo \ {s} /\ w.clean = job[j].clean
  BY <1>1 DEF JobState
<1>3. w \in JobState
  <2>1. \A t \in SUBSET Series : [job[j] EXCEPT !.pc = "has", !.series = s, !.todo = t] \in JobState
    BY <1>1 DEF JobState
  <2>2. w = [job[j] EXCEPT !.pc = "has", !.series = s, !.todo = job[j].todo \ {s}]
        /\ job[j].todo \ {s} \in SUBSET Series
    BY <1>1 DEF JobState
  <2> QED
    BY <2>1, <2>2, Zenon
<1>4. job' = [job EXCEPT ![j] = w]
  BY DEF PickCheck, SnapInv, SnapTypeOK
<1> HIDE DEF w
<1>5. job[j].pc = "pick" /\ job[j].stage = "checks" /\ s \in job[j].todo
  BY DEF PickCheck
<1>6. JobFits(j, w)
  BY <1>1, <1>2, <1>5 DEF JobInv, JobFits, Busy
<1>7. ListedStale(w) /\ CursorRight(w) /\ Accounted(w)
  BY <1>1, <1>2, <1>5 DEF JobInv, ListedStale, CursorRight, Accounted
<1>8. UNCHANGED <<clock, log, check, told, latest, trouble>> /\ trouble' \in Nat
  BY DEF PickCheck, SnapInv, SnapTypeOK
<1> QED
  BY <1>3, <1>4, <1>6, <1>7, <1>8, JobMoved DEF JobInv

\* The fields of a job that has begun the next item.
LEMMA NextItemFields ==
    ASSUME NEW w \in JobState
    PROVE  /\ NextItem(w) \in JobState
           /\ NextItem(w).pc = "pick" /\ NextItem(w).stage = w.stage
           /\ NextItem(w).began = w.began /\ NextItem(w).todo = w.todo
           /\ NextItem(w).clean = w.clean
<1>1. Idle \in JobState
  BY IdleFits
<1> QED
  BY <1>1 DEF NextItem, JobState, Idle

LEMMA AfterUpsertFields ==
    ASSUME NEW w \in JobState, w.series \in Series
    PROVE  /\ AfterUpsert(w) \in JobState
           /\ AfterUpsert(w).stage = w.stage /\ AfterUpsert(w).began = w.began
           /\ AfterUpsert(w).todo = w.todo /\ AfterUpsert(w).clean = w.clean
           /\ w.stage = "domains" => AfterUpsert(w).pc = "has" /\ AfterUpsert(w).series = w.series
           /\ w.stage # "domains" => AfterUpsert(w).pc = "pick"
<1>1. NextItem(w) \in JobState
  BY NextItemFields
<1>2. [NextItem(w) EXCEPT !.pc = "has", !.series = w.series] \in JobState
  BY <1>1 DEF JobState
<1> QED
  BY <1>1, <1>2, NextItemFields DEF AfterUpsert, JobState

\* A job that goes on with its next item, or with the check of the same domain.
LEMMA GoesOnFits ==
    ASSUME NEW j \in Jobs, NEW w \in JobState, NEW v \in JobState, JobInv(j, w),
           w.pc \in Busy,
           v.stage = w.stage, v.began = w.began, v.todo = w.todo,
           v.pc = "pick" \/ (v.pc \in {"has", "check"} /\ w.stage \in {"checks", "domains"}
                             /\ v.series = w.series)
    PROVE  JobFits(j, v) /\ ListedStale(v) /\ CursorRight(v)
<1>1. JobFits(j, v)
  BY DEF JobInv, JobFits, Busy
<1> QED
  BY <1>1 DEF JobInv, JobFits, ListedStale, CursorRight, Busy

LEMMA StampInv ==
    ASSUME SnapInv, NEW j \in Jobs, Stamp(j)
    PROVE  SnapInv'
<1>1. job[j] \in JobState /\ JobInv(j, job[j]) /\ clock \in Nat /\ clock \in 0 .. LastTick
  BY JobTyped DEF SnapInv, SnapTypeOK
<1> DEFINE w == [job[j] EXCEPT !.pc = "read", !.stamp = clock]
<1>2. /\ w \in JobState
      /\ w.pc = "read" /\ w.stamp = clock /\ w.series = job[j].series /\ w.stage = job[j].stage
      /\ w.began = job[j].began /\ w.todo = job[j].todo /\ w.clean = job[j].clean
  BY <1>1 DEF JobState
<1>3. job' = [job EXCEPT ![j] = w] /\ job[j].pc = "stamp"
  BY DEF Stamp, SnapInv, SnapTypeOK
<1> HIDE DEF w
<1>4. JobFits(j, w)
  BY <1>1, <1>2, <1>3 DEF JobInv, JobFits, Busy
<1>5. ListedStale(w) /\ CursorRight(w) /\ Accounted(w)
  BY <1>1, <1>2, <1>3 DEF JobInv, ListedStale, CursorRight, Accounted
<1>6. UNCHANGED <<clock, log, check, told, latest, trouble>> /\ trouble' \in Nat
  BY DEF Stamp, SnapInv, SnapTypeOK
<1> QED
  BY <1>2, <1>3, <1>4, <1>5, <1>6, JobMoved DEF JobInv

\* The row that is read is the one ORDER BY puts first.
LEMMA ReadCurrentInv ==
    ASSUME SnapInv, NEW j \in Jobs, ReadCurrent(j)
    PROVE  SnapInv'
<1>1. job[j] \in JobState /\ JobInv(j, job[j])
  BY JobTyped
<1>2. job[j].pc = "read" /\ job[j].series \in Series
  BY <1>1 DEF ReadCurrent, JobInv, JobFits, Busy, Series
<1>3. PICK c : c = Current(job[j].series)
  OBVIOUS
<1>4. /\ RowsOf(job[j].series) = {} => c = 0
      /\ RowsOf(job[j].series) # {} => c \in RowsOf(job[j].series) /\ Top(job[j].series, c)
  BY <1>2, <1>3, CurrentIsRow
<1>5. c \in Nat
  BY <1>4, RowsTyped DEF RowsOf, SnapInv
<1> DEFINE w == [job[j] EXCEPT !.pc = "write", !.cur = c]
<1>6. /\ w \in JobState
      /\ w.pc = "write" /\ w.cur = c /\ w.stamp = job[j].stamp /\ w.series = job[j].series
      /\ w.stage = job[j].stage /\ w.began = job[j].began /\ w.todo = job[j].todo
      /\ w.clean = job[j].clean
  BY <1>1, <1>5 DEF JobState
<1>7. job' = [job EXCEPT ![j] = w]
  BY <1>3 DEF ReadCurrent, SnapInv, SnapTypeOK
<1> HIDE DEF w
<1>8. JobFits(j, w)
  BY <1>1, <1>2, <1>6 DEF JobInv, JobFits, Busy
<1>9. ListedStale(w) /\ CursorRight(w) /\ Accounted(w)
  BY <1>1, <1>2, <1>4, <1>6 DEF JobInv, ListedStale, CursorRight, Accounted
<1>10. UNCHANGED <<clock, log, check, told, latest, trouble>> /\ trouble' \in Nat
  BY DEF ReadCurrent, SnapInv, SnapTypeOK
<1> QED
  BY <1>6, <1>7, <1>8, <1>9, <1>10, JobMoved DEF JobInv

LEMMA UpsertFailsInv ==
    ASSUME SnapInv, NEW j \in Jobs, UpsertFails(j)
    PROVE  SnapInv'
<1>1. job[j] \in JobState /\ JobInv(j, job[j])
  BY JobTyped
<1>2. job[j].pc \in {"read", "write"} /\ job[j].series \in Series
  BY <1>1 DEF UpsertFails, JobInv, JobFits, Busy, Series
<1> DEFINE a == AfterUpsert(job[j])
           w == [a EXCEPT !.clean = FALSE]
<1>3. /\ w \in JobState /\ w.clean = FALSE
      /\ w.stage = job[j].stage /\ w.began = job[j].began /\ w.todo = job[j].todo
      /\ w.pc = "pick" \/ (w.pc \in {"has", "check"} /\ w.stage \in {"checks", "domains"}
                           /\ w.series = job[j].series)
  BY <1>1, <1>2, AfterUpsertFields DEF JobState
<1>4. job' = [job EXCEPT ![j] = w]
  BY DEF UpsertFails
<1> HIDE DEF w, a
<1>5. JobFits(j, w) /\ ListedStale(w) /\ CursorRight(w)
  BY <1>1, <1>2, <1>3, GoesOnFits DEF Busy
<1>6. Accounted(w)
  BY <1>3 DEF Accounted
<1>7. UNCHANGED <<clock, log, check, told, latest>> /\ trouble' \in Nat
  BY DEF UpsertFails, GoesWrong, SnapInv, SnapTypeOK
<1> QED
  BY <1>3, <1>4, <1>5, <1>6, <1>7, JobMoved DEF JobInv

LEMMA ReadHasBIMIInv ==
    ASSUME SnapInv, NEW j \in Jobs, ReadHasBIMI(j)
    PROVE  SnapInv'
<1>1. job[j] \in JobState /\ JobInv(j, job[j])
  BY JobTyped
<1>2. job[j].pc = "has" /\ trouble' \in Nat /\ UNCHANGED <<clock, log, check, told, latest>>
  BY DEF ReadHasBIMI, GoesWrong, SnapInv, SnapTypeOK
<1>3. PICK h \in BOOLEAN, c \in BOOLEAN :
         /\ c => job[j].clean
         /\ job' = [job EXCEPT ![j] = [job[j] EXCEPT !.pc = "check", !.has = h, !.clean = c]]
  <2> DEFINE i == Current(job[j].series)
             found == i # 0 /\ log[i].saw \notin {"absent", "error"}
  <2>1. job[j].clean \in BOOLEAN
    BY <1>1 DEF JobState
  <2>2. CASE job' = [job EXCEPT ![j].pc = "check", ![j].has = found]
    <3>1. found \in BOOLEAN
      OBVIOUS
    <3> HIDE DEF found
    <3>2. job' = [job EXCEPT ![j] = [job[j] EXCEPT !.pc = "check", !.has = found,
                                                   !.clean = job[j].clean]]
      BY <1>1, <2>2 DEF SnapInv, SnapTypeOK, JobState
    <3> QED
      BY <2>1, <3>1, <3>2
  <2>3. CASE job' = [job EXCEPT ![j].pc = "check", ![j].has = FALSE, ![j].clean = FALSE]
    <3>1. job' = [job EXCEPT ![j] = [job[j] EXCEPT !.pc = "check", !.has = FALSE,
                                                   !.clean = FALSE]]
      BY <2>3 DEF SnapInv, SnapTypeOK
    <3> QED
      BY <3>1
  <2> QED
    BY <2>2, <2>3 DEF ReadHasBIMI
<1> DEFINE w == [job[j] EXCEPT !.pc = "check", !.has = h, !.clean = c]
<1>4. /\ w \in JobState
      /\ w.pc = "check" /\ w.series = job[j].series /\ w.stage = job[j].stage
      /\ w.began = job[j].began /\ w.todo = job[j].todo
  BY <1>1, <1>3 DEF JobState
<1>5. w.clean = c /\ job' = [job EXCEPT ![j] = w]
  BY <1>1, <1>3 DEF JobState
<1> HIDE DEF w
<1>6. JobFits(j, w) /\ ListedStale(w) /\ CursorRight(w)
  BY <1>1, <1>2, <1>4, GoesOnFits DEF Busy, JobInv, JobFits
<1>7. Accounted(w)
  BY <1>1, <1>2, <1>3, <1>4, <1>5 DEF JobInv, Accounted
<1> QED
  BY <1>2, <1>4, <1>6, <1>7, <1>5, JobMoved DEF JobInv

\* The check that is stored is newer than the run: nothing becomes due by it.
LEMMA StoreCheckInv ==
    ASSUME SnapInv, NEW j \in Jobs, StoreCheck(j)
    PROVE  SnapInv'
<1>1. job[j] \in JobState /\ JobInv(j, job[j])
  BY JobTyped
<1>2. job[j].pc = "check" /\ UNCHANGED <<clock, log, told, latest>>
  BY DEF StoreCheck
<1>3. job[j].stage \in {"checks", "domains"} /\ job[j].series \in BimiSeries
  BY <1>1, <1>2 DEF JobInv, JobFits, Busy
<1>4. CASE /\ check' = [check EXCEPT ![job[j].series] = [has |-> job[j].has, at |-> clock]]
           /\ job' = [job EXCEPT ![j] = NextItem(job[j])]
           /\ UNCHANGED trouble
  <2>1. PICK w : w = NextItem(job[j])
    OBVIOUS
  <2>2. /\ w \in JobState
        /\ w.pc = "pick" /\ w.stage = job[j].stage /\ w.began = job[j].began
        /\ w.todo = job[j].todo /\ w.clean = job[j].clean
    BY <1>1, <2>1, NextItemFields
  <2>3. JobFits(j, w) /\ ListedStale(w) /\ CursorRight(w)
    BY <1>1, <1>2, <2>2, GoesOnFits DEF Busy
  <2>4. job'[j] = w /\ \A q \in Jobs : q # j => job'[q] = job[q]
    BY <1>4, <2>1 DEF SnapInv, SnapTypeOK
  <2>5. SnapTypeOK'
    <3>1. job' \in [Jobs -> JobState]
      BY <1>4, <2>1, <2>2 DEF SnapInv, SnapTypeOK
    <3>2. check' \in [BimiSeries -> [has : BOOLEAN, at : -1 .. LastTick]]
      <4>1. [has |-> job[j].has, at |-> clock] \in [has : BOOLEAN, at : -1 .. LastTick]
        BY <1>1 DEF SnapInv, SnapTypeOK, JobState
      <4> QED
        BY <1>4, <4>1, Zenon DEF SnapInv, SnapTypeOK
    <3> QED
      BY <1>2, <1>4, <3>1, <3>2, Zenon DEF SnapInv, SnapTypeOK
  <2>6. \A s : RowsOf(s)' = RowsOf(s)
    BY <1>2 DEF RowsOf
  <2>7. \A s, i : Top(s, i)' <=> Top(s, i)
    BY <1>2, <2>6 DEF Top, Before
  <2>8. \A t \in Nat : t <= clock =>
           \A s \in ChecksDue(t)' : s \in ChecksDue(t) /\ s # job[j].series
    <3>1. clock \in Nat /\ TTL \in Nat
      BY JobTyped
    <3>2. check'[job[j].series].at = clock
          /\ \A s \in BimiSeries : s # job[j].series => check'[s] = check[s]
      BY <1>3, <1>4 DEF SnapInv, SnapTypeOK
    <3> QED
      BY <1>3, <3>1, <3>2 DEF ChecksDue
  <2>9. \A t, S : StaleSince(S, t)' = StaleSince(S, t)
    BY <1>2, <2>6 DEF StaleSince
  <2>10. \A stage \in {"bimi", "checks", "tls", "domains"}, t \in Nat : t <= clock =>
            \A s \in WorkOf(stage, t)' :
               /\ s \in WorkOf(stage, t)
               /\ stage \in {"checks", "domains"} => s # job[j].series
    BY <2>8, <2>9 DEF WorkOf
  <2>11. JobsInv'
    <3> SUFFICES ASSUME NEW q \in Jobs PROVE JobInv(q, job[q])'
      BY DEF JobsInv
    <3>1. job[q] \in JobState /\ JobInv(q, job[q])
      BY JobTyped
    <3>2. PICK x : x = job'[q]
      OBVIOUS
    <3>3. x \in JobState /\ JobFits(q, x) /\ ListedStale(x) /\ CursorRight(x)
      BY <2>2, <2>3, <2>4, <3>1, <3>2 DEF JobInv
    <3>4. JobFits(q, x)' /\ ListedStale(x)' /\ CursorRight(x)'
      BY <1>2, <2>6, <2>7, <3>3 DEF JobFits, ListedStale, CursorRight
    <3>5. ASSUME x.clean, x.pc # "idle"
          PROVE  \A s \in WorkOf(x.stage, x.began)' :
                    s \in x.todo \/ (s = x.series /\ x.pc # "pick")
      <4>1. x.stage \in {"bimi", "checks", "tls", "domains"} /\ x.began \in Nat /\ x.began <= clock
        BY <3>3, <3>5 DEF JobFits, JobState
      <4>2. CASE q = j
        <5>1. \A s \in WorkOf(x.stage, x.began) : s \in x.todo \/ s = job[j].series
          BY <1>1, <1>2, <2>2, <2>4, <3>2, <3>5, <4>2 DEF JobInv, Accounted
        <5>2. x.stage \in {"checks", "domains"}
          BY <1>3, <2>2, <2>4, <3>2, <4>2
        <5> QED
          BY <2>10, <4>1, <5>1, <5>2
      <4>3. CASE q # j
        <5>1. x = job[q]
          BY <2>4, <3>2, <4>3
        <5>2. \A s \in WorkOf(x.stage, x.began) : s \in x.todo \/ (s = x.series /\ x.pc # "pick")
          BY <3>1, <3>5, <5>1 DEF JobInv, Accounted
        <5> QED
          BY <2>10, <4>1, <5>2
      <4> QED
        BY <4>2, <4>3
    <3>6. Accounted(x)'
      BY <3>5 DEF Accounted
    <3> QED
      BY <3>2, <3>4, <3>6 DEF JobInv
  <2>12. LogInv'
    <3>1. LatestKept'
      BY <1>2, <2>6, <2>7 DEF SnapInv, LogInv, LatestKept
    <3>2. FirstExists' /\ EachRowAChange(TlsSeries)' /\ RowsApart'
      BY <1>2 DEF SnapInv, LogInv, FirstExists, Before, EachRowAChange, Follows, RowsApart
    <3> QED
      BY <3>1, <3>2 DEF LogInv
  <2> QED
    BY <2>5, <2>11, <2>12 DEF SnapInv
<1>5. CASE /\ GoesWrong
           /\ UNCHANGED check
           /\ job' = [job EXCEPT ![j] = [NextItem(job[j]) EXCEPT !.clean = FALSE]]
  <2> DEFINE n == NextItem(job[j])
             w == [n EXCEPT !.clean = FALSE]
  <2>1. /\ w \in JobState
        /\ w.pc = "pick" /\ w.stage = job[j].stage /\ w.began = job[j].began
        /\ w.todo = job[j].todo /\ w.clean = FALSE
    BY <1>1, NextItemFields DEF JobState
  <2>2. job' = [job EXCEPT ![j] = w]
    BY <1>5
  <2> HIDE DEF w, n
  <2>3. JobFits(j, w) /\ ListedStale(w) /\ CursorRight(w)
    BY <1>1, <1>2, <2>1, GoesOnFits DEF Busy
  <2>4. Accounted(w) /\ trouble' \in Nat
    BY <1>5, <2>1 DEF Accounted, GoesWrong, SnapInv, SnapTypeOK
  <2> QED
    BY <1>2, <1>5, <2>1, <2>2, <2>3, <2>4, JobMoved DEF JobInv
<1> QED
  BY <1>4, <1>5 DEF StoreCheck

LEMMA CrashInv == ASSUME SnapInv, SnapCrash PROVE SnapInv'
<1>1. job' = [j \in Jobs |-> Idle] /\ UNCHANGED <<clock, log, check, told, latest>>
      /\ trouble' \in Nat
  BY DEF SnapCrash, GoesWrong, SnapInv, SnapTypeOK
<1>2. job' \in [Jobs -> JobState]
  BY <1>1, IdleFits
<1>3. SnapTypeOK'
  BY <1>1, <1>2, Zenon DEF SnapInv, SnapTypeOK
<1>4. JobsInv'
  <2>1. \A j \in Jobs : job'[j] = Idle
    BY <1>1
  <2>2. \A j \in Jobs : JobInv(j, Idle)'
    BY DEF Idle, JobInv, JobFits, ListedStale, CursorRight, Accounted, Busy
  <2> QED
    BY <2>1, <2>2 DEF JobsInv
<1>5. LogInv'
  BY <1>1, LogKept DEF SnapInv, SnapTypeOK
<1> QED
  BY <1>3, <1>4, <1>5 DEF SnapInv

\* Time passes between statements; an upsert is done before its stamp is two
\* ticks old.
LEMMA TickInv == ASSUME SnapInv, Tick PROVE SnapInv'
<1>1. /\ clock' = clock + 1 /\ clock < LastTick
      /\ UNCHANGED <<log, check, job, told, latest, trouble>>
      /\ \A j \in Jobs : job[j].pc \in {"read", "write"} => job[j].stamp = clock
  BY DEF Tick
<1>2. clock \in 0 .. LastTick /\ LastTick \in Nat
  BY SnapAssumption DEF SnapInv, SnapTypeOK
<1>3. SnapTypeOK'
  <2>1. clock' \in 0 .. LastTick
    BY <1>1, <1>2
  <2> QED
    BY <1>1, <2>1, Zenon DEF SnapInv, SnapTypeOK
<1>4. JobsInv'
  <2>1. \A s : RowsOf(s)' = RowsOf(s) /\ \A i : Top(s, i)' <=> Top(s, i)
    BY <1>1, QueriesKept
  <2>2. \A stage, began : WorkOf(stage, began)' = WorkOf(stage, began)
    BY <1>1, QueriesKept
  <2> SUFFICES ASSUME NEW q \in Jobs PROVE JobInv(q, job[q])'
    BY DEF JobsInv
  <2>3. PICK x : x = job'[q] /\ x = job[q]
    BY <1>1
  <2>4. x \in JobState /\ JobInv(q, x)
    BY <2>3, JobTyped
  <2>5. x.began \in Nat /\ x.stamp \in Nat
    BY <2>4, <1>2 DEF JobState
  <2>6. JobFits(q, x)'
    <3>1. x.pc \in {"read", "write"} => x.stamp = clock
      BY <1>1, <2>3
    <3> QED
      BY <1>1, <1>2, <2>4, <2>5, <3>1 DEF JobInv, JobFits
  <2>7. ListedStale(x)' /\ CursorRight(x)'
    BY <1>1, <2>1, <2>4 DEF JobInv, ListedStale, CursorRight
  <2>8. Accounted(x)'
    BY <2>2, <2>4 DEF JobInv, Accounted
  <2> QED
    BY <2>3, <2>6, <2>7, <2>8 DEF JobInv
<1>5. LogInv'
  BY <1>1, <1>2, LogKept DEF SnapInv
<1> QED
  BY <1>3, <1>4, <1>5 DEF SnapInv

-----------------------------------------------------------------------------
(* Storing an observation                                                   *)

\* What a write does to the log: row h, the one it touched or appended, says what
\* was seen, as of the stamp; every other row stays.
Stored(w, h) ==
    /\ log' \in Seq(Rows)
    /\ DOMAIN log' = DOMAIN log \cup {h}
    /\ \A k \in DOMAIN log : k # h => log'[k] = log[k]
    /\ h \in DOMAIN log' /\ h \in Nat
    /\ log'[h].series = w.series /\ log'[h].saw = w.saw /\ log'[h].last = w.stamp
    /\ \/ /\ h = w.cur /\ h \in RowsOf(w.series)
          /\ log[h].saw = w.saw /\ log'[h].first = log[h].first
          /\ log'[h].checks = log[h].checks + 1
       \/ /\ h \notin DOMAIN log /\ \A k \in DOMAIN log : k < h
          /\ log'[h].first = w.stamp /\ log'[h].checks = 1
          /\ w.cur = 0 \/ (w.cur \in DOMAIN log /\ log[w.cur].saw # w.saw)

LEMMA WriteStores ==
    ASSUME SnapInv, NEW j \in Jobs, Write(j)
    PROVE  \E h : Stored(job[j], h)
<1>1. PICK w : w = job[j] /\ w \in JobState /\ JobInv(j, w) /\ w.pc = "write"
  BY JobTyped DEF Write
<1>2. /\ w.series \in Series /\ w.saw \in Lookups /\ w.stamp \in Nat /\ w.cur \in Nat
      /\ w.cur # 0 => w.cur \in RowsOf(w.series)
  BY <1>1, SnapAssumption DEF JobState, JobInv, JobFits, CursorRight, Busy, Series
<1>3. /\ log \in Seq(Rows) /\ Len(log) \in Nat /\ DOMAIN log = 1 .. Len(log)
      /\ \A k \in DOMAIN log : log[k] \in Rows
  BY RowsTyped DEF SnapInv, SnapTypeOK
<1>4. CASE w.cur # 0 /\ log[w.cur].saw = w.saw
  <2>1. log' = [log EXCEPT ![w.cur].last = w.stamp, ![w.cur].checks = @ + 1]
    BY <1>1, <1>4 DEF Write
  <2>2. w.cur \in DOMAIN log /\ w.cur \in RowsOf(w.series) /\ log[w.cur].series = w.series
    BY <1>2, <1>4 DEF RowsOf
  <2>3. PICK r : r = [log[w.cur] EXCEPT !.last = w.stamp, !.checks = @ + 1]
    OBVIOUS
  <2>4. /\ r \in Rows /\ r.series = w.series /\ r.saw = w.saw /\ r.last = w.stamp
        /\ r.first = log[w.cur].first /\ r.checks = log[w.cur].checks + 1
    <3>1. log[w.cur] \in Rows /\ log[w.cur].checks + 1 \in Nat
      BY <1>3, <2>2 DEF Rows
    <3>2. \A n \in Nat : [log[w.cur] EXCEPT !.last = w.stamp, !.checks = n] \in Rows
      BY <1>2, <3>1 DEF Rows
    <3>3. r = [log[w.cur] EXCEPT !.last = w.stamp, !.checks = log[w.cur].checks + 1]
      BY <2>3, <3>1 DEF Rows
    <3>4. r \in Rows
      BY <3>1, <3>2, <3>3, Zenon
    <3> QED
      BY <1>4, <2>2, <3>1, <3>3, <3>4 DEF Rows
  <2>5. log' = [log EXCEPT ![w.cur] = r]
    BY <2>1, <2>2, <2>3
  <2>6. /\ log' \in Seq(Rows) /\ DOMAIN log' = DOMAIN log
        /\ log'[w.cur] = r /\ \A k \in DOMAIN log : k # w.cur => log'[k] = log[k]
    <3>1. [log EXCEPT ![w.cur] = r] \in Seq(Rows)
      BY <1>3, <2>2, <2>4, ExceptSeq
    <3> QED
      BY <1>3, <2>2, <2>5, <3>1
  <2>7. Stored(w, w.cur)
    BY <1>2, <1>4, <2>2, <2>4, <2>6 DEF Stored
  <2> QED
    BY <1>1, <2>7
<1>5. CASE ~(w.cur # 0 /\ log[w.cur].saw = w.saw)
  <2>1. log' = Append(log, NewRow(w))
    BY <1>1, <1>5 DEF Write
  <2>2. PICK r : r = NewRow(w)
    OBVIOUS
  <2>3. /\ r \in Rows /\ r.series = w.series /\ r.saw = w.saw /\ r.last = w.stamp
        /\ r.first = w.stamp /\ r.checks = 1
    BY <1>2, <2>2 DEF NewRow, Rows
  <2>4. /\ log' \in Seq(Rows) /\ DOMAIN log' = DOMAIN log \cup {Len(log) + 1}
        /\ log'[Len(log) + 1] = r /\ \A k \in DOMAIN log : log'[k] = log[k]
    BY <1>3, <2>1, <2>2, <2>3, AppendProperties
  <2>5. w.cur = 0 \/ (w.cur \in DOMAIN log /\ log[w.cur].saw # w.saw)
    BY <1>2, <1>5 DEF RowsOf
  <2>6. Len(log) + 1 \in Nat /\ Len(log) + 1 \notin DOMAIN log
        /\ \A k \in DOMAIN log : k < Len(log) + 1
    BY <1>3
  <2>7. Stored(w, Len(log) + 1)
    BY <2>3, <2>4, <2>5, <2>6 DEF Stored
  <2> QED
    BY <1>1, <2>7
<1> QED
  BY <1>4, <1>5

\* The other series are not disturbed.
LEMMA OthersKept ==
    ASSUME SnapInv, NEW w \in JobState, NEW h, Stored(w, h)
    PROVE  /\ RowsOf(w.series)' = RowsOf(w.series) \cup {h}
           /\ \A s : s # w.series => RowsOf(s)' = RowsOf(s)
           /\ \A s : s # w.series => \A k \in RowsOf(s) : k # h /\ log'[k] = log[k]
           /\ \A s, i : s # w.series => (Top(s, i)' <=> Top(s, i))
<1>1. RowsOf(w.series)' = RowsOf(w.series) \cup {h}
  BY DEF Stored, RowsOf
<1>2. ASSUME NEW s, s # w.series
      PROVE  /\ RowsOf(s)' = RowsOf(s)
             /\ \A k \in RowsOf(s) : k # h /\ log'[k] = log[k]
  BY <1>2 DEF Stored, RowsOf
<1>3. ASSUME NEW s, NEW i, s # w.series
      PROVE  Top(s, i)' <=> Top(s, i)
  BY <1>2, <1>3 DEF Top, Before
<1> QED
  BY <1>1, <1>2, <1>3

\* A write is no more than a tick late: it makes no series stale for a run that
\* has begun.
LEMMA NothingStaler ==
    ASSUME SnapInv, NEW w \in JobState, NEW h, Stored(w, h), UNCHANGED check,
           clock <= w.stamp + 1, NEW began \in Nat, began <= clock,
           NEW stage \in {"bimi", "checks", "tls", "domains"}
    PROVE  \A s \in WorkOf(stage, began)' :
              s \in WorkOf(stage, began) /\ (stage \in {"bimi", "tls"} => s # w.series)
<1>1. clock \in Nat /\ TTL \in Nat /\ TTL >= 1 /\ w.stamp \in Nat
  BY SnapAssumption DEF SnapInv, SnapTypeOK, JobState
<1>2. ASSUME NEW S, NEW s \in StaleSince(S, began - TTL)'
      PROVE  s \in StaleSince(S, began - TTL) /\ s # w.series
  <2>1. s \in S /\ \A i \in RowsOf(s)' : log'[i].last < began - TTL
    BY <1>2 DEF StaleSince
  <2>2. s # w.series
    <3>1. SUFFICES ASSUME s = w.series PROVE FALSE
      OBVIOUS
    <3>2. h \in RowsOf(s)' /\ log'[h].last = w.stamp
      <4>1. h \in RowsOf(w.series)'
        BY OthersKept
      <4> QED
        BY <3>1, <4>1 DEF Stored
    <3> QED
      BY <1>1, <2>1, <3>2
  <2>3. RowsOf(s)' = RowsOf(s) /\ \A k \in RowsOf(s) : log'[k] = log[k]
    BY <2>2, OthersKept
  <2> QED
    BY <2>1, <2>2, <2>3 DEF StaleSince
<1>3. \A t : ChecksDue(t)' = ChecksDue(t)
  BY DEF ChecksDue
<1> QED
  BY <1>2, <1>3 DEF WorkOf

\* The same of every job that has begun: what is stale for it stays accounted for.
LEMMA WriteJobs ==
    ASSUME SnapInv, NEW j \in Jobs, Write(j)
    PROVE  JobsInv'
<1>1. PICK w : w = job[j] /\ w \in JobState /\ JobInv(j, w) /\ w.pc = "write"
  BY JobTyped DEF Write
<1>2. PICK h : Stored(w, h)
  BY <1>1, WriteStores
<1>3. /\ w.series \in Series /\ w.stage # "checks" /\ clock <= w.stamp + 1
      /\ w.stage = "tls" <=> w.series \in TlsSeries
      /\ j = "refresh" => w.series \notin TlsSeries
  BY <1>1, SnapAssumption DEF JobInv, JobFits, Busy, Series
<1>4. PICK v : v = AfterUpsert(w)
  OBVIOUS
<1>5. /\ v \in JobState /\ v.stage = w.stage /\ v.began = w.began /\ v.todo = w.todo
      /\ v.clean = w.clean
      /\ w.stage = "domains" => v.pc = "has" /\ v.series = w.series
      /\ w.stage # "domains" => v.pc = "pick"
  BY <1>1, <1>3, <1>4, AfterUpsertFields
<1>6. job'[j] = v /\ (\A q \in Jobs : q # j => job'[q] = job[q])
      /\ UNCHANGED <<clock, check, trouble>>
  BY <1>1, <1>4 DEF Write, SnapInv, SnapTypeOK
<1> SUFFICES ASSUME NEW q \in Jobs PROVE JobInv(q, job[q])'
  BY DEF JobsInv
<1>7. PICK x : x = job'[q]
  OBVIOUS
<1>8. job[q] \in JobState /\ JobInv(q, job[q]) /\ clock \in Nat
  BY JobTyped
<1>9. x \in JobState /\ JobFits(q, x) /\ ListedStale(x) /\ CursorRight(x)
  <2>1. CASE q = j
    <3>1. JobFits(j, v) /\ ListedStale(v) /\ CursorRight(v)
      BY <1>1, <1>5, GoesOnFits DEF Busy
    <3> QED
      BY <1>5, <1>6, <1>7, <2>1, <3>1
  <2>2. CASE q # j
    BY <1>6, <1>7, <1>8, <2>2 DEF JobInv
  <2> QED
    BY <2>1, <2>2
<1>10. JobFits(q, x)'
  BY <1>6, <1>9 DEF JobFits
\* A TLS series that a job still has to write is not the one that was written.
<1>11. ASSUME x.stage = "tls", NEW s \in TlsSeries,
              s \in x.todo \/ (s = x.series /\ x.pc \in {"stamp", "read", "write"})
       PROVE  s # w.series
  <2>1. CASE q = j
    BY <1>1, <1>5, <1>6, <1>7, <1>11, <2>1 DEF JobInv, JobFits, Busy
  <2>2. CASE q # j
    BY <1>3, <1>9, <1>11, <2>2 DEF JobFits, Jobs
  <2> QED
    BY <2>1, <2>2
<1>12. ListedStale(x)'
  <2> SUFFICES ASSUME x.stage = "tls", NEW s \in TlsSeries,
                      s \in x.todo \/ (s = x.series /\ x.pc \in {"stamp", "read", "write"}),
                      NEW i \in RowsOf(s)'
               PROVE  log'[i].last < x.began - TTL
    BY DEF ListedStale
  <2>1. s # w.series
    BY <1>11
  <2>2. i \in RowsOf(s) /\ log'[i] = log[i]
    BY <1>1, <1>2, <2>1, OthersKept
  <2> QED
    BY <1>9, <2>2 DEF ListedStale
<1>13. CursorRight(x)'
  <2> SUFFICES ASSUME x.pc = "write"
               PROVE  \/ x.cur = 0 /\ (x.stage = "tls" => RowsOf(x.series)' = {})
                      \/ x.cur \in RowsOf(x.series)' /\ (x.stage = "tls" => Top(x.series, x.cur)')
    BY DEF CursorRight
  <2>1. x.stage = "tls" => x.series \in TlsSeries /\ x.series # w.series
    BY <1>9, <1>11 DEF JobFits, Busy
  <2>2. x.stage = "tls" => /\ RowsOf(x.series)' = RowsOf(x.series)
                           /\ Top(x.series, x.cur)' <=> Top(x.series, x.cur)
    BY <1>1, <1>2, <2>1, OthersKept
  <2>3. RowsOf(x.series) \subseteq RowsOf(x.series)'
    BY <1>1, <1>2, OthersKept
  <2> QED
    BY <1>9, <2>2, <2>3 DEF CursorRight
<1>14. ASSUME x.clean, x.pc # "idle"
       PROVE  \A s \in WorkOf(x.stage, x.began)' :
                 s \in x.todo \/ (s = x.series /\ x.pc # "pick")
  <2>1. x.stage \in {"bimi", "checks", "tls", "domains"} /\ x.began \in Nat /\ x.began <= clock
    BY <1>9, <1>14 DEF JobFits, JobState
  <2>2. \A s \in WorkOf(x.stage, x.began)' :
           s \in WorkOf(x.stage, x.began) /\ (x.stage \in {"bimi", "tls"} => s # w.series)
    BY <1>1, <1>2, <1>3, <1>6, <2>1, NothingStaler
  <2>3. CASE q = j
    <3>1. x = v
      BY <1>6, <1>7, <2>3
    <3>2. \A s \in WorkOf(x.stage, x.began) : s \in x.todo \/ s = w.series
      BY <1>1, <1>5, <1>14, <3>1 DEF JobInv, Accounted
    <3>3. x.stage = "domains" => x.series = w.series /\ x.pc = "has"
      BY <1>5, <3>1
    <3>4. x.stage # "checks"
      BY <1>3, <1>5, <3>1
    <3> QED
      BY <2>1, <2>2, <3>2, <3>3, <3>4
  <2>4. CASE q # j
    <3>1. x = job[q]
      BY <1>6, <1>7, <2>4
    <3>2. \A s \in WorkOf(x.stage, x.began) : s \in x.todo \/ (s = x.series /\ x.pc # "pick")
      BY <1>8, <1>14, <3>1 DEF JobInv, Accounted
    <3> QED
      BY <2>2, <3>2
  <2> QED
    BY <2>3, <2>4
<1>15. Accounted(x)'
  BY <1>14 DEF Accounted
<1> QED
  BY <1>7, <1>10, <1>12, <1>13, <1>15 DEF JobInv

\* A TLS row is written by the one run that listed its series as stale, so it is
\* newer than every other row of the series.
LEMMA WriteLog ==
    ASSUME SnapInv, NEW j \in Jobs, Write(j)
    PROVE  LogInv'
<1>1. PICK w : w = job[j] /\ w \in JobState /\ JobInv(j, w) /\ w.pc = "write"
  BY JobTyped DEF Write
<1>2. PICK h : Stored(w, h)
  BY <1>1, WriteStores
<1>3. /\ w.series \in Series
      /\ w.stamp \in Nat /\ w.began \in Nat /\ w.cur \in Nat
      /\ TTL \in Nat /\ clock \in Nat /\ w.stamp <= clock /\ w.began <= w.stamp
  BY <1>1, JobTyped DEF JobInv, JobFits, Busy, Series, JobState
<1>4. /\ DOMAIN log = 1 .. Len(log) /\ Len(log) \in Nat
      /\ \A k \in DOMAIN log : k \in Nat /\ log[k].first \in Nat /\ log[k].last \in Nat
  BY RowsTyped DEF SnapInv
<1>5. /\ DOMAIN log' = DOMAIN log \cup {h} /\ h \in Nat /\ h \in DOMAIN log'
      /\ \A k \in DOMAIN log : k # h => log'[k] = log[k]
      /\ log'[h].series = w.series /\ log'[h].saw = w.saw /\ log'[h].last = w.stamp
  BY <1>2 DEF Stored
<1>6. clock' = clock /\ latest' = [latest EXCEPT ![w.series] = w.saw]
  BY <1>1 DEF Write, Observed
\* Of a TLS series, every row was stale, and the row that was read is its first.
<1>7. w.series \in TlsSeries =>
         /\ \A i \in RowsOf(w.series) : log[i].last < w.stamp
         /\ w.cur = 0 => RowsOf(w.series) = {}
         /\ w.cur # 0 => Top(w.series, w.cur)
  <2> SUFFICES ASSUME w.series \in TlsSeries
               PROVE  /\ \A i \in RowsOf(w.series) : log[i].last < w.stamp
                      /\ w.cur = 0 => RowsOf(w.series) = {}
                      /\ w.cur # 0 => Top(w.series, w.cur)
    OBVIOUS
  <2>1. w.stage = "tls"
    BY <1>1, SnapAssumption DEF JobInv, JobFits, Busy
  <2>2. \A i \in RowsOf(w.series) : log[i].last < w.began - TTL
    BY <1>1, <2>1 DEF JobInv, ListedStale
  <2>3. \A i \in RowsOf(w.series) : log[i].last < w.stamp
    BY <1>3, <1>4, <2>2 DEF RowsOf
  <2>4. 0 \notin RowsOf(w.series)
    BY <1>4 DEF RowsOf
  <2> QED
    BY <1>1, <2>1, <2>3, <2>4 DEF JobInv, CursorRight
<1>8. FirstExists'
  <2> SUFFICES ASSUME NEW X \in SUBSET DOMAIN log', X # {}
               PROVE  \E i \in X : \A k \in X \ {i} : Before(i, k)'
    BY DEF FirstExists
  <2>1. \A k \in DOMAIN log' : k \in Nat /\ log'[k].last \in Nat
    BY <1>3, <1>4, <1>5
  <2>2. CASE X \ {h} = {}
    BY <2>2
  <2>3. CASE X \ {h} # {}
    <3>1. X \ {h} \in SUBSET DOMAIN log
      BY <1>5
    <3>2. PICK i \in X \ {h} : \A k \in (X \ {h}) \ {i} : Before(i, k)
      BY <2>3, <3>1 DEF SnapInv, LogInv, FirstExists
    <3>3. \A k \in (X \ {h}) \ {i} : Before(i, k)'
      BY <1>5, <3>1, <3>2 DEF Before
    <3>4. CASE h \notin X \/ Before(i, h)'
      <4>1. \A k \in X \ {i} : Before(i, k)'
        BY <3>3, <3>4
      <4> QED
        BY <4>1
    <3>5. CASE h \in X /\ ~Before(i, h)'
      <4>1. /\ i \in Nat /\ h \in Nat /\ i # h /\ log'[i].last \in Nat /\ log'[h].last \in Nat
        BY <1>5, <2>1, <3>1, <3>2
      <4>2. Before(h, i)'
        BY <3>5, <4>1 DEF Before
      <4>3. ASSUME NEW k \in (X \ {h}) \ {i} PROVE Before(h, k)'
        <5>1. k \in Nat /\ log'[k].last \in Nat
          BY <2>1
        <5> QED
          BY <3>3, <4>1, <4>2, <4>3, <5>1 DEF Before
      <4>4. \A k \in X \ {h} : Before(h, k)'
        BY <4>2, <4>3
      <4> QED
        BY <3>5, <4>4
    <3> QED
      BY <3>4, <3>5
  <2> QED
    BY <2>2, <2>3
<1>9. RowsApart'
  <2>1. \A i \in DOMAIN log' : log'[i].last <= clock
    BY <1>3, <1>5 DEF SnapInv, LogInv, RowsApart
  <2>2. ASSUME NEW i \in DOMAIN log', log'[i].series \in TlsSeries
        PROVE  log'[i].first <= log'[i].last
    <3>1. CASE i # h
      BY <1>5, <2>2, <3>1 DEF SnapInv, LogInv, RowsApart
    <3>2. CASE i = h
      <4>1. CASE h \in RowsOf(w.series) /\ log'[h].first = log[h].first
        <5>1. log[h].last < w.stamp /\ log[h].first <= log[h].last /\ h \in DOMAIN log
          BY <1>5, <1>7, <2>2, <3>2, <4>1 DEF SnapInv, LogInv, RowsApart, RowsOf
        <5> QED
          BY <1>3, <1>4, <1>5, <3>2, <4>1, <5>1
      <4>2. CASE log'[h].first = w.stamp
        BY <1>3, <1>5, <3>2, <4>2
      <4> QED
        BY <1>2, <4>1, <4>2 DEF Stored
    <3> QED
      BY <3>1, <3>2
  <2>3. ASSUME NEW i \in DOMAIN log', NEW k \in DOMAIN log', i < k,
               log'[i].series = log'[k].series, log'[i].series \in TlsSeries
        PROVE  log'[i].last < log'[k].first
    <3>1. CASE i # h /\ k # h
      BY <1>5, <2>3, <3>1 DEF SnapInv, LogInv, RowsApart
    <3>2. CASE i = h
      <4>1. k # h /\ k \in DOMAIN log /\ log[k].series = w.series /\ w.series \in TlsSeries
        BY <1>4, <1>5, <2>3, <3>2
      <4>2. h \in RowsOf(w.series) /\ h = w.cur
        BY <1>2, <1>4, <2>3, <3>2, <4>1 DEF Stored
      <4>3. Top(w.series, h) /\ h \in DOMAIN log /\ k \in RowsOf(w.series)
        BY <1>4, <1>7, <4>1, <4>2 DEF RowsOf
      <4>4. log[h].last < log[k].first /\ log[k].first <= log[k].last
        <5>1. h < k /\ h \in DOMAIN log /\ k \in DOMAIN log /\ log[h].series = log[k].series
              /\ log[k].series \in TlsSeries
          BY <2>3, <3>2, <4>1, <4>2, <4>3 DEF RowsOf
        <5>2. log[h].last < log[k].first
          BY <5>1 DEF SnapInv, LogInv, RowsApart
        <5>3. log[k].first <= log[k].last
          BY <5>1 DEF SnapInv, LogInv, RowsApart
        <5> QED
          BY <5>2, <5>3
      <4>5. Before(h, k)
        BY <4>1, <4>3 DEF Top
      <4> QED
        BY <1>4, <4>1, <4>3, <4>4, <4>5 DEF Before
    <3>3. CASE i # h /\ k = h
      <4>1. i \in DOMAIN log /\ log'[i] = log[i] /\ i \in RowsOf(w.series) /\ w.series \in TlsSeries
        BY <1>5, <2>3, <3>3 DEF RowsOf
      <4>2. CASE h \in RowsOf(w.series) /\ log'[h].first = log[h].first
        BY <2>3, <3>3, <4>1, <4>2 DEF SnapInv, LogInv, RowsApart, RowsOf
      <4>3. CASE log'[h].first = w.stamp
        BY <1>7, <3>3, <4>1, <4>3
      <4> QED
        BY <1>2, <4>2, <4>3 DEF Stored
    <3> QED
      BY <3>1, <3>2, <3>3
  <2> QED
    BY <1>6, <2>1, <2>2, <2>3 DEF RowsApart
<1>10. LatestKept'
  <2> SUFFICES ASSUME NEW s \in TlsSeries
               PROVE  /\ RowsOf(s)' = {} => latest'[s] = "none"
                      /\ \A i \in DOMAIN log' : Top(s, i)' => log'[i].saw = latest'[s]
    BY DEF LatestKept
  <2>1. CASE s # w.series
    <3>1. RowsOf(s)' = RowsOf(s) /\ latest'[s] = latest[s]
      BY <1>1, <1>2, <1>6, <2>1, OthersKept DEF Series, SnapInv, SnapTypeOK
    <3>2. ASSUME NEW i \in DOMAIN log', Top(s, i)' PROVE log'[i].saw = latest'[s]
      <4>1. Top(s, i) /\ i \in RowsOf(s) /\ log'[i] = log[i]
        BY <1>1, <1>2, <2>1, <3>2, OthersKept DEF Top
      <4> QED
        BY <3>1, <4>1 DEF SnapInv, LogInv, LatestKept, RowsOf
    <3>3. RowsOf(s) = {} => latest[s] = "none"
      BY DEF SnapInv, LogInv, LatestKept
    <3> QED
      BY <3>1, <3>2, <3>3
  <2>2. CASE s = w.series
    <3>1. h \in RowsOf(s)' /\ RowsOf(s)' = RowsOf(s) \cup {h}
      BY <1>5, <2>2 DEF RowsOf
    <3>2. ASSUME NEW i \in DOMAIN log', Top(s, i)' PROVE i = h
      <4> SUFFICES ASSUME i # h PROVE FALSE
        OBVIOUS
      <4>1. i \in RowsOf(s) /\ i \in DOMAIN log /\ log'[i] = log[i] /\ Before(i, h)'
        BY <1>5, <3>1, <3>2 DEF Top, RowsOf
      <4>2. log[i].last < w.stamp
        BY <1>7, <2>2, <4>1
      <4> QED
        BY <1>3, <1>4, <1>5, <4>1, <4>2 DEF Before
    <3>3. latest'[s] = w.saw
      BY <1>3, <1>6, <2>2 DEF SnapInv, SnapTypeOK
    <3> QED
      BY <1>5, <3>1, <3>2, <3>3
  <2> QED
    BY <2>1, <2>2
<1>11. EachRowAChange(TlsSeries)'
  <2> SUFFICES ASSUME NEW i \in DOMAIN log', NEW k \in DOMAIN log', Follows(i, k)',
                      log'[i].series \in TlsSeries
               PROVE  log'[i].saw # log'[k].saw
    BY DEF EachRowAChange
  <2>1. /\ i < k /\ log'[i].series = log'[k].series
        /\ \A m \in (i + 1) .. (k - 1) : log'[m].series # log'[i].series
    BY DEF Follows
  <2>2. CASE h \in DOMAIN log
    <3>1. h \in RowsOf(w.series) /\ log[h].saw = w.saw
      BY <1>2, <1>4, <2>2 DEF Stored
    <3>2. \A m \in DOMAIN log : log'[m].series = log[m].series /\ log'[m].saw = log[m].saw
      BY <1>5, <3>1 DEF RowsOf
    <3>3. i \in DOMAIN log /\ k \in DOMAIN log
      BY <1>5, <2>2
    <3>4. \A m \in (i + 1) .. (k - 1) : m \in DOMAIN log
      BY <1>4, <3>3
    <3>5. Follows(i, k) /\ log[i].series \in TlsSeries
      BY <2>1, <3>2, <3>3, <3>4 DEF Follows
    <3> QED
      BY <3>2, <3>3, <3>5 DEF SnapInv, LogInv, EachRowAChange
  <2>3. CASE h \notin DOMAIN log
    <3>1. (\A m \in DOMAIN log : m < h /\ log'[m] = log[m])
          /\ (w.cur = 0 \/ (w.cur \in DOMAIN log /\ log[w.cur].saw # w.saw))
      BY <1>2, <1>5, <2>3 DEF Stored, RowsOf
    <3>2. i \in DOMAIN log
      BY <1>4, <1>5, <2>1, <3>1
    <3>3. CASE k \in DOMAIN log
      <4>1. \A m \in (i + 1) .. (k - 1) : m \in DOMAIN log
        BY <1>4, <3>2, <3>3
      <4>2. Follows(i, k) /\ log[i].series \in TlsSeries
        BY <2>1, <3>1, <3>2, <3>3, <4>1 DEF Follows
      <4> QED
        BY <3>1, <3>2, <3>3, <4>2 DEF SnapInv, LogInv, EachRowAChange
    <3>4. CASE k = h
      <4>1. i \in RowsOf(w.series) /\ w.series \in TlsSeries
        BY <1>5, <2>1, <3>1, <3>2, <3>4 DEF RowsOf
      <4>2. w.cur \in RowsOf(w.series) /\ Top(w.series, w.cur) /\ w.cur \in DOMAIN log
            /\ log[w.cur].saw # w.saw /\ w.cur < h
        BY <1>7, <3>1, <4>1 DEF Top
      <4>3. ~(i < w.cur)
        BY <1>4, <1>5, <2>1, <3>1, <3>2, <3>4, <4>1, <4>2 DEF RowsOf
      <4>4. ~(w.cur < i)
        <5> SUFFICES ASSUME w.cur < i PROVE FALSE
          OBVIOUS
        <5>1. log[w.cur].last < log[i].first /\ log[i].first <= log[i].last
          BY <3>2, <4>1, <4>2 DEF SnapInv, LogInv, RowsApart, RowsOf
        <5>2. Before(w.cur, i)
          BY <4>1, <4>2, <1>3, <1>4, <3>2 DEF Top
        <5> QED
          BY <1>4, <3>2, <4>2, <5>1, <5>2 DEF Before
      <4>5. i = w.cur
        BY <1>4, <3>2, <4>2, <4>3, <4>4
      <4> QED
        BY <1>5, <3>1, <3>4, <4>2, <4>5
    <3> QED
      BY <1>5, <3>3, <3>4
  <2> QED
    BY <2>2, <2>3
<1> QED
  BY <1>8, <1>9, <1>10, <1>11 DEF LogInv

LEMMA WriteInv ==
    ASSUME SnapInv, NEW j \in Jobs, Write(j)
    PROVE  SnapInv'
<1>1. PICK w : w = job[j] /\ w \in JobState /\ JobInv(j, w) /\ w.pc = "write"
  BY JobTyped DEF Write
<1>2. PICK h : Stored(w, h)
  BY <1>1, WriteStores
<1>3. w.series \in Series /\ w.saw \in Lookups
  BY <1>1 DEF JobInv, JobFits, Busy, Series, JobState
<1>4. UNCHANGED <<clock, check, trouble>>
  BY DEF Write
<1>5. job' \in [Jobs -> JobState]
  <2>1. AfterUpsert(w) \in JobState
    BY <1>1, <1>3, AfterUpsertFields
  <2> QED
    BY <1>1, <2>1 DEF Write, SnapInv, SnapTypeOK
<1>6. told' \in [Series -> [Lookups -> Nat]]
  <2>1. told' = [told EXCEPT ![w.series] = [told[w.series] EXCEPT ![w.saw] = told[w.series][w.saw] + 1]]
    BY <1>1, <1>3 DEF Write, Observed, SnapInv, SnapTypeOK
  <2>2. told[w.series] \in [Lookups -> Nat] /\ told[w.series][w.saw] + 1 \in Nat
    BY <1>3 DEF SnapInv, SnapTypeOK
  <2>3. [told[w.series] EXCEPT ![w.saw] = told[w.series][w.saw] + 1] \in [Lookups -> Nat]
    BY <2>2
  <2> QED
    BY <2>1, <2>3 DEF SnapInv, SnapTypeOK
<1>7. latest' \in [Series -> Lookups \cup {"none"}]
  BY <1>1, <1>3 DEF Write, Observed, SnapInv, SnapTypeOK
<1>8. SnapTypeOK'
  BY <1>2, <1>4, <1>5, <1>6, <1>7, Zenon DEF SnapInv, SnapTypeOK, Stored
<1> QED
  BY <1>8, WriteJobs, WriteLog DEF SnapInv

-----------------------------------------------------------------------------
(* What was observed is what was counted                                    *)

Counted ==
    \A s \in Series : \A o \in Lookups :
        IsFiniteSet(Confirmed(s, o)) /\ Cardinality(Confirmed(s, o)) = told[s][o]

LEMMA InConfirmed ==
    ASSUME NEW s, NEW o, NEW p
    PROVE  p \in Confirmed(s, o) <=>
               \E i \in RowsOf(s) : log[i].saw = o /\ \E k \in 1 .. log[i].checks : p = <<i, k>>
BY DEF Confirmed

\* A write confirms one row once more, or a new one for the first time: one pair is
\* added to the state that was observed, none to any other.
LEMMA WriteConfirms ==
    ASSUME SnapInv, NEW w \in JobState, w.series \in Series, NEW h, Stored(w, h)
    PROVE  /\ \E p : p \notin Confirmed(w.series, w.saw)
                     /\ Confirmed(w.series, w.saw)' = Confirmed(w.series, w.saw) \cup {p}
           /\ \A s, o : <<s, o>> # <<w.series, w.saw>> => Confirmed(s, o)' = Confirmed(s, o)
<1>1. /\ log'[h].series = w.series /\ log'[h].saw = w.saw /\ h \in DOMAIN log'
      /\ \A k \in DOMAIN log : k # h => log'[k] = log[k]
      /\ \A k \in DOMAIN log : log[k].checks \in Nat
  BY RowsTyped DEF Stored, SnapInv
<1>2. PICK n : n = log'[h].checks
  OBVIOUS
<1>3. ASSUME NEW s, NEW o, NEW p
      PROVE  p \in Confirmed(s, o)' <=>
               \E i \in RowsOf(s)' : log'[i].saw = o /\ \E k \in 1 .. log'[i].checks : p = <<i, k>>
  BY DEF Confirmed
<1>4. RowsOf(w.series)' = RowsOf(w.series) \cup {h}
      /\ \A s : s # w.series =>
            RowsOf(s)' = RowsOf(s) /\ \A k \in RowsOf(s) : k # h /\ log'[k] = log[k]
  BY OthersKept
<1>5. \A s : RowsOf(s) \subseteq DOMAIN log
  BY DEF RowsOf
<1>6. h \in DOMAIN log => log[h].saw = w.saw /\ h \in RowsOf(w.series)
                          /\ n = log[h].checks + 1 /\ log[h].checks \in Nat
  BY <1>1, <1>2 DEF Stored
<1>7. h \notin DOMAIN log => n = 1
  BY <1>2, <1>5 DEF Stored
<1>8. ASSUME NEW s, NEW o, <<s, o>> # <<w.series, w.saw>>
      PROVE  Confirmed(s, o)' = Confirmed(s, o)
  <2>1. ASSUME NEW i
        PROVE  i \in RowsOf(s)' /\ log'[i].saw = o <=> i \in RowsOf(s) /\ log[i].saw = o
    BY <1>1, <1>4, <1>5, <1>6, <1>8
  <2>2. ASSUME NEW i \in RowsOf(s), log[i].saw = o PROVE log'[i] = log[i]
    BY <1>1, <1>4, <1>5, <1>6, <1>8, <2>2
  <2>3. ASSUME NEW p PROVE p \in Confirmed(s, o)' <=> p \in Confirmed(s, o)
    BY <1>3, <2>1, <2>2, InConfirmed
  <2> QED
    BY <2>3
<1>9. <<h, n>> \notin Confirmed(w.series, w.saw)
  <2> SUFFICES ASSUME <<h, n>> \in Confirmed(w.series, w.saw) PROVE FALSE
    OBVIOUS
  <2>1. PICK i \in RowsOf(w.series) : \E k \in 1 .. log[i].checks : <<h, n>> = <<i, k>>
    BY InConfirmed
  <2>2. i = h /\ h \in DOMAIN log /\ n \in 1 .. log[h].checks
    BY <1>5, <2>1
  <2> QED
    BY <1>6, <2>2
<1>10. Confirmed(w.series, w.saw)' = Confirmed(w.series, w.saw) \cup {<<h, n>>}
  <2>1. 1 .. n = IF h \in DOMAIN log THEN (1 .. log[h].checks) \cup {n} ELSE {n}
    <3>1. \A m \in Nat : 1 .. (m + 1) = (1 .. m) \cup {m + 1}
      OBVIOUS
    <3>2. 1 .. 1 = {1}
      OBVIOUS
    <3> QED
      BY <1>6, <1>7, <3>1, <3>2
  <2>2. ASSUME NEW p, p \in Confirmed(w.series, w.saw)'
        PROVE  p \in Confirmed(w.series, w.saw) \cup {<<h, n>>}
    <3>1. PICK i \in RowsOf(w.series)' :
             log'[i].saw = w.saw /\ \E k \in 1 .. log'[i].checks : p = <<i, k>>
      BY <1>3, <2>2
    <3>2. CASE i = h
      <4>1. PICK k \in 1 .. n : p = <<h, k>>
        BY <1>2, <3>1, <3>2
      <4>2. CASE k = n
        BY <4>1, <4>2
      <4>3. CASE k # n
        <5>1. h \in DOMAIN log /\ k \in 1 .. log[h].checks
          <6>1. CASE h \in DOMAIN log
            <7>1. 1 .. n = (1 .. log[h].checks) \cup {n}
              BY <2>1, <6>1
            <7> QED
              BY <4>1, <4>3, <6>1, <7>1
          <6>2. CASE h \notin DOMAIN log
            <7>1. 1 .. n = {n}
              BY <2>1, <6>2
            <7> QED
              BY <4>1, <4>3, <7>1
          <6> QED
            BY <6>1, <6>2
        <5> QED
          BY <1>6, <4>1, <5>1, InConfirmed
      <4> QED
        BY <4>2, <4>3
    <3>3. CASE i # h
      BY <1>1, <1>4, <1>5, <3>1, <3>3, InConfirmed
    <3> QED
      BY <3>2, <3>3
  <2>3. ASSUME NEW p, p \in Confirmed(w.series, w.saw)
        PROVE  p \in Confirmed(w.series, w.saw)'
    <3>1. PICK i \in RowsOf(w.series) :
             log[i].saw = w.saw /\ \E k \in 1 .. log[i].checks : p = <<i, k>>
      BY <2>3, InConfirmed
    <3>2. CASE i = h
      <4>1. h \in DOMAIN log /\ h \in RowsOf(w.series)'
        BY <1>4, <1>5, <3>1, <3>2
      <4>2. \E k \in 1 .. log'[h].checks : p = <<h, k>>
        BY <1>2, <2>1, <3>1, <3>2, <4>1
      <4> QED
        BY <1>1, <1>3, <4>1, <4>2
    <3>3. CASE i # h
      BY <1>1, <1>3, <1>4, <1>5, <3>1, <3>3
    <3> QED
      BY <3>2, <3>3
  <2>4. <<h, n>> \in Confirmed(w.series, w.saw)'
    <3>1. h \in RowsOf(w.series)' /\ n \in 1 .. n
      BY <1>4, <1>6, <1>7
    <3> QED
      BY <1>1, <1>2, <1>3, <3>1
  <2> QED
    BY <2>2, <2>3, <2>4
<1> QED
  BY <1>8, <1>9, <1>10

LEMMA WriteCounted ==
    ASSUME SnapInv, Counted, NEW j \in Jobs, Write(j)
    PROVE  Counted'
<1>1. PICK w : w = job[j] /\ w \in JobState /\ JobInv(j, w) /\ w.pc = "write"
  BY JobTyped DEF Write
<1>2. PICK h : Stored(w, h)
  BY <1>1, WriteStores
<1>3. w.series \in Series /\ w.saw \in Lookups
  BY <1>1 DEF JobInv, JobFits, Busy, Series, JobState
<1>4. PICK p : /\ p \notin Confirmed(w.series, w.saw)
               /\ Confirmed(w.series, w.saw)' = Confirmed(w.series, w.saw) \cup {p}
  BY <1>1, <1>2, <1>3, WriteConfirms
<1>5. /\ told \in [Series -> [Lookups -> Nat]]
      /\ told' = [told EXCEPT ![w.series][w.saw] = @ + 1]
  BY <1>1 DEF Write, Observed, SnapInv, SnapTypeOK
<1>6. ASSUME NEW s \in Series, NEW o \in Lookups
      PROVE  told'[s][o] = IF s = w.series /\ o = w.saw THEN told[s][o] + 1 ELSE told[s][o]
  BY <1>3, <1>5
<1>7. ASSUME NEW s \in Series, NEW o \in Lookups
      PROVE  /\ IsFiniteSet(Confirmed(s, o)')
             /\ Cardinality(Confirmed(s, o)') = told'[s][o]
  <2>1. CASE s = w.series /\ o = w.saw
    <3>1. IsFiniteSet(Confirmed(s, o)) /\ Cardinality(Confirmed(s, o)) = told[s][o]
      BY DEF Counted
    <3>2. Confirmed(s, o)' = Confirmed(s, o) \cup {p} /\ p \notin Confirmed(s, o)
      BY <1>4, <2>1
    <3> QED
      BY <1>6, <2>1, <3>1, <3>2, FS_AddElement
  <2>2. CASE ~(s = w.series /\ o = w.saw)
    <3>1. Confirmed(s, o)' = Confirmed(s, o)
      BY <1>1, <1>2, <1>3, <2>2, WriteConfirms
    <3> QED
      BY <1>6, <2>2, <3>1 DEF Counted
  <2> QED
    BY <2>1, <2>2
<1> QED
  BY <1>7 DEF Counted

LEMMA CountedKept == ASSUME Counted, UNCHANGED <<log, told>> PROVE Counted'
<1>1. \A s, o : Confirmed(s, o)' = Confirmed(s, o)
  BY DEF Confirmed, RowsOf
<1> QED
  BY <1>1 DEF Counted

LEMMA CountedInit == SnapInit => Counted
<1> SUFFICES ASSUME SnapInit, NEW s \in Series, NEW o \in Lookups
             PROVE  /\ IsFiniteSet(Confirmed(s, o))
                    /\ Cardinality(Confirmed(s, o)) = told[s][o]
  BY DEF Counted
<1>1. RowsOf(s) = {}
  BY DEF SnapInit, RowsOf
<1>2. Confirmed(s, o) = {}
  BY <1>1 DEF Confirmed
<1>3. told[s][o] = 0
  BY DEF SnapInit
<1> QED
  BY <1>2, <1>3, FS_EmptySet

-----------------------------------------------------------------------------
(* The theorems                                                             *)

LEMMA SnapNextInv == SnapInv /\ [SnapNext]_snapVars => SnapInv'
<1> SUFFICES ASSUME SnapInv, [SnapNext]_snapVars PROVE SnapInv'
  OBVIOUS
<1>1. ASSUME NEW j \in Jobs, JobStep(j) PROVE SnapInv'
  <2>1. CASE Begin(j)
    BY <2>1, BeginInv
  <2>2. CASE StageOver(j)
    BY <2>2, StageOverInv
  <2>3. CASE ListFails(j)
    BY <2>3, RunEndsInv
  <2>4. ASSUME NEW s \in Series, Probe(j, s) PROVE SnapInv'
    BY <2>4, ProbeInv
  <2>5. ASSUME NEW s \in Series, PickCheck(j, s) PROVE SnapInv'
    BY <2>5, PickCheckInv
  <2>6. CASE Stamp(j)
    BY <2>6, StampInv
  <2>7. CASE ReadCurrent(j)
    BY <2>7, ReadCurrentInv
  <2>8. CASE Write(j)
    BY <2>8, WriteInv
  <2>9. CASE UpsertFails(j)
    BY <2>9, UpsertFailsInv
  <2>10. CASE ReadHasBIMI(j)
    BY <2>10, ReadHasBIMIInv
  <2>11. CASE StoreCheck(j)
    BY <2>11, StoreCheckInv
  <2> QED
    BY <1>1, <2>1, <2>2, <2>3, <2>4, <2>5, <2>6, <2>7, <2>8, <2>9, <2>10, <2>11 DEF JobStep
<1>2. CASE Tick
  BY <1>2, TickInv
<1>3. CASE SnapCrash
  BY <1>3, CrashInv
<1>4. CASE UNCHANGED snapVars
  <2>1. /\ UNCHANGED <<clock, log, check, told, latest, trouble>> /\ job' = job
    BY <1>4 DEF snapVars
  <2>2. job' = [job EXCEPT !["enrich"] = job["enrich"]]
    BY <2>1 DEF SnapInv, SnapTypeOK
  <2> QED
    BY <2>1, <2>2, JobTyped, JobMoved DEF Jobs, SnapInv, SnapTypeOK
<1> QED
  BY <1>1, <1>2, <1>3, <1>4 DEF SnapNext

LEMMA CountedNext == SnapInv /\ Counted /\ [SnapNext]_snapVars => Counted'
<1> SUFFICES ASSUME SnapInv, Counted, [SnapNext]_snapVars PROVE Counted'
  OBVIOUS
<1>1. ASSUME NEW j \in Jobs, JobStep(j) PROVE Counted'
  <2>1. CASE Write(j)
    BY <2>1, WriteCounted
  <2>2. CASE ~Write(j)
    <3>1. UNCHANGED <<log, told>>
      BY <1>1, <2>2 DEF JobStep, Begin, StageOver, ListFails, Probe, PickCheck, Stamp,
                        ReadCurrent, UpsertFails, ReadHasBIMI, StoreCheck
    <3> QED
      BY <3>1, CountedKept
  <2> QED
    BY <2>1, <2>2
<1>2. CASE Tick \/ SnapCrash \/ UNCHANGED snapVars
  BY <1>2, CountedKept DEF Tick, SnapCrash, snapVars
<1> QED
  BY <1>1, <1>2 DEF SnapNext

LEMMA SnapAlways == SnapSpec => []SnapInv
BY SnapInitInv, SnapNextInv, PTL DEF SnapSpec

\* The variables keep their types: every row, job and check stays one the two jobs
\* could have written.
THEOREM SnapTyping == SnapSpec => []SnapTypeOK
<1>1. SnapInv => SnapTypeOK
  BY DEF SnapInv
<1> QED
  BY <1>1, SnapAlways, PTL

\* The TLS-RPT log has one row per change, in order of time, whatever the two jobs,
\* failing statements and restarts do (UpsertTLSSnapshot).
THEOREM RowsAreChangesAlways == SnapSpec => []RowsAreChanges
<1>1. SnapInv => RowsAreChanges
  <2> SUFFICES ASSUME SnapInv PROVE RowsAreChanges
    OBVIOUS
  <2>1. \A i, k \in DOMAIN log :
           Follows(i, k) /\ log[i].series \in TlsSeries => log[i].last < log[k].first
    BY DEF SnapInv, LogInv, RowsApart, Follows
  <2> QED
    BY <2>1 DEF SnapInv, LogInv, RowsAreChanges
<1> QED
  BY <1>1, SnapAlways, PTL

\* The row every reader takes for the current TLS-RPT record is the observation
\* stored last, and the only one the inventory lists (GetCurrentTLSSnapshot,
\* ListCurrentTLSSnapshots).
THEOREM CurrentIsLatestAlways == SnapSpec => []CurrentIsLatest
<1>1. SnapInv => CurrentIsLatest
  <2> SUFFICES ASSUME SnapInv, NEW s \in TlsSeries, latest[s] # "none"
               PROVE  log[Current(s)].saw = latest[s] /\ ListCurrent(s) = {Current(s)}
    BY DEF CurrentIsLatest
  <2>1. RowsOf(s) # {} /\ s \in Series
    BY DEF SnapInv, LogInv, LatestKept, Series
  <2>2. PICK c : c = Current(s)
    OBVIOUS
  <2>3. Top(s, c) /\ c \in RowsOf(s) /\ c \in DOMAIN log
    BY <2>1, <2>2, CurrentIsRow DEF RowsOf
  <2>4. log[c].saw = latest[s]
    BY <2>3 DEF SnapInv, LogInv, LatestKept
  <2>5. \A k \in RowsOf(s) : /\ k \in DOMAIN log /\ k \in Nat /\ log[k].last \in Nat
                             /\ log[k].first \in Nat /\ log[k].series = s
    BY RowsTyped DEF RowsOf, SnapInv
  <2>6. \A k \in RowsOf(s) : log[k].last <= log[c].last
    BY <2>3, <2>5 DEF Top, Before
  <2>7. ASSUME NEW k \in RowsOf(s), k # c PROVE log[k].last < log[c].last
    <3>1. Before(c, k)
      BY <2>3, <2>7 DEF Top
    <3>2. k < c => log[k].last < log[c].first /\ log[c].first <= log[c].last
      BY <2>3, <2>5 DEF SnapInv, LogInv, RowsApart
    <3> QED
      BY <2>3, <2>5, <3>1, <3>2 DEF Before
  <2>8. ListCurrent(s) = {c}
    BY <2>3, <2>5, <2>6, <2>7 DEF ListCurrent
  <2> QED
    BY <2>2, <2>4, <2>8
<1> QED
  BY <1>1, SnapAlways, PTL

\* A stage in which nothing failed leaves nothing stale, although the other job
\* writes the same series and checks meanwhile.
THEOREM StageLeavesFreshAlways == SnapSpec => []StageLeavesFresh
<1>1. SnapInv => StageLeavesFresh
  BY DEF SnapInv, JobsInv, JobInv, Accounted, StageLeavesFresh
<1> QED
  BY <1>1, SnapAlways, PTL

\* For any series, writers' interleaving, failures and restarts: the rows of each
\* state add up to the observations of it that were stored, in the series with two
\* writers as well (UpsertBIMISnapshot, UpsertTLSSnapshot: check_count).
THEOREM ObservationsCountedAlways == SnapSpec => []ObservationsCounted
<1>1. Counted => ObservationsCounted
  BY DEF Counted, ObservationsCounted
<1>2. SnapSpec => []Counted
  BY CountedInit, CountedNext, SnapAlways, PTL DEF SnapSpec
<1> QED
  BY <1>1, <1>2, PTL
=============================================================================
