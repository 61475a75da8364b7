------------------------------ MODULE DmarcViews ------------------------------
(* The DMARC statistics over the joined rows: dashboard, matrix, trend,         *)
(* breakdowns by source, domain, recipient and country, the source inventory,   *)
(* the spoof volume and what receivers enforced.                                *)
EXTENDS DmarcRows

CONSTANTS Thresholds   \* PatternThresholds

-----------------------------------------------------------------------------
(* Dashboard, matrix, dispositions                                         *)

DispNone(J) == Messages({j \in J : j.row.disp \notin {"quarantine", "reject"}})
Disposed(J, d) == Messages({j \in J : j.row.disp = d})

DashboardStats(f) ==
    LET J == Where(f)
    IN  [totals |-> Totals(J),
         reports |-> Cardinality({j.rep.id : j \in J}),
         domains |-> Cardinality({j.rep.domain : j \in J}),
         reporters |-> Cardinality({j.rep.org : j \in J}),
         dkimPass |-> Messages({j \in J : j.row.dkim}),
         spfPass |-> Messages({j \in J : j.row.spf}),
         none |-> DispNone(J),
         quarantined |-> Disposed(J, "quarantine"),
         rejected |-> Disposed(J, "reject")]

Matrix(J) ==
    [bothPass |-> Messages({j \in J : j.row.dkim /\ j.row.spf}),
     dkimOnly |-> Messages({j \in J : j.row.dkim /\ ~j.row.spf}),
     spfOnly |-> Messages({j \in J : ~j.row.dkim /\ j.row.spf}),
     neither |-> Messages({j \in J : ~j.row.dkim /\ ~j.row.spf})]

MatrixTotal(m) == m.bothPass + m.dkimOnly + m.spfOnly + m.neither

AuthMatrix(f) == Matrix(Where(f))

DispositionStats(f) ==
    LET J == Where(f)
    IN  [none |-> DispNone(J), quarantine |-> Disposed(J, "quarantine"),
         reject |-> Disposed(J, "reject")]

-----------------------------------------------------------------------------
(* Trend: days are 1, 2, ...; ISO week n begins on day 7 * n.              *)

Bucket(day, daily) == IF daily THEN day ELSE day \div 7
BucketStart(label, daily) == IF daily THEN label ELSE 7 * label
DailyTrend(from) == from > 0 /\ now - from <= 92

TrendData(f, daily) == GroupedBy([j \in Where(f) |-> Bucket(j.rep.begin, daily)])

\* The labels of the points FillTrendGaps returns, of a series that has some.  In whole
\* days: a window of the handlers goes from some days before now to now, at the same
\* hour, or from a midnight to the end of a day (parsePeriod), so that steps of 24
\* hours from its start meet every day of it.
FilledLabels(points, from, to, daily) ==
    LET start == IF from = 0
                 THEN BucketStart(CHOOSE p \in points : \A o \in points : p <= o, daily)
                 ELSE from
        end == IF to > 0 THEN to ELSE now
        step == IF daily THEN 1 ELSE 7
    IN  {Bucket(t, daily) : t \in {u \in start .. end : (u - start) % step = 0}}

FilledTrend(f, daily) ==
    LET points == TrendData(f, daily)
        nothing == [messages |-> 0, passed |-> 0, failed |-> 0]
    IN  IF DOMAIN points = {} THEN points
        ELSE [l \in FilledLabels(DOMAIN points, f.from, f.to, daily) |->
                 IF l \in DOMAIN points THEN points[l] ELSE nothing]

-----------------------------------------------------------------------------
(* Breakdowns                                                              *)

SourceVolumes(f) == GroupedBy([j \in Where(f) |-> j.row.ip])
DomainStats(f) == GroupedBy([j \in Where(f) |-> j.rep.domain])
TopSourcesByVolume(f, limit) == TopSets(SourceVolumes(f), limit)

\* HAVING SUM(count) >= min; failed/total in order of rate.
TopFailingSources(f, min) ==
    LET g == SourceVolumes(f)
    IN  {<<ip, g[ip].failed, g[ip].messages>> : ip \in {x \in DOMAIN g : g[x].messages >= min}}

\* ROUND(x, 2) of a percentage, in hundredths.
RoundedPercent(part, whole) == (20000 * part + whole) \div (2 * whole)

DomainsAtRisk(f, percent) ==
    LET g == DomainStats(f)
    IN  {d \in DOMAIN g : /\ g[d].messages > 0
                          /\ RoundedPercent(g[d].passed, g[d].messages) < 100 * percent}

Delivered(J) == {j \in J : j.row.eto \notin {"", "<>"}}
EnvelopeToStats(f) == GroupedBy([j \in Delivered(Where(f)) |-> j.row.eto])
EnvelopeToBreakdown(d) == EnvelopeToStats([Unbounded EXCEPT !.domain = d])
RecipientSenders(eto) ==
    GroupedBy([j \in {k \in Where(Unbounded) : k.row.eto = eto} |-> j.row.hfrom])
EnvelopeFromBreakdown(d, from) ==
    GroupedBy([j \in Where([Unbounded EXCEPT !.domain = d, !.from = from]) |-> j.row.efrom])

DomainAggStats(d, from) ==
    LET J == Where([Unbounded EXCEPT !.domain = d, !.from = from])
    IN  [totals |-> Totals(J), senders |-> Cardinality({j.row.ip : j \in J}),
         recipients |-> Cardinality({j.row.eto : j \in Delivered(J)})]
SourceAggStats(ip, from) == Totals(Where([Unbounded EXCEPT !.ip = ip, !.from = from]))

CountryOf(ip) == IF ip \in located THEN "named" ELSE "??"
GeoDistribution(f) == GroupedBy([j \in Where(f) |-> CountryOf(j.row.ip)])

\* One line per reason, so a row with two reasons counts in both.
OverrideBreakdown(f) ==
    LET P == Overrides(Where(f))
        type(p) == IF p[1].row.over[p[2]] = "" THEN "other" ELSE p[1].row.over[p[2]]
    IN  [t \in {type(p) : p \in P} |->
            [messages |-> FannedMessages({p \in P : type(p) = t}),
             sources |-> Cardinality({p[1].row.ip : p \in {q \in P : type(q) = t}})]]

\* ORDER BY SUM(count) DESC LIMIT 1: of equals, any; "" without reports.
ActivePolicies(f) ==
    LET g == GroupedBy([j \in Where(f) |-> j.rep.tuple.p])
    IN  IF DOMAIN g = {} THEN {""} ELSE Largest({<<p, g[p].messages>> : p \in DOMAIN g})

\* Every policy that ties for the most messages of a domain counts it.
DomainPolicyBreakdown(f) ==
    LET dominant(d) == ActivePolicies([f EXCEPT !.domain = d])
        D == DOMAIN DomainStats(f)
    IN  [p \in UNION {dominant(d) : d \in D} |-> Cardinality({d \in D : p \in dominant(d)})]

-----------------------------------------------------------------------------
(* Source inventory                                                        *)

\* ClassifySourcePattern and the CASE of PatternCaseSQL.
PatternOf(m) ==
    LET t == MatrixTotal(m)
    IN  CASE t = 0 -> "mixed"
          [] m.bothPass * 100 >= Thresholds.healthy * t -> "healthy"
          [] m.dkimOnly * 100 >= Thresholds.forwarder * t -> "forwarder"
          [] m.spfOnly * 100 >= Thresholds.broken * t -> "broken_signing"
          [] m.neither * 100 >= Thresholds.spoof * t /\ t >= Thresholds.spoofMsgs -> "spoof_suspect"
          [] OTHER -> "mixed"

LabelOf(ip) == IF ip \in LabelledIPs THEN labels[ip] ELSE ""

EffectivePattern(m, c) ==
    CASE c = "known_good" -> "healthy"
      [] c = "forwarder" -> "forwarder"
      [] c = "suspicious" -> "spoof_suspect"
      [] OTHER -> PatternOf(m)

RawPass(results) == \E i \in DOMAIN results : results[i].result = "pass"
Least(S) == CHOOSE x \in S : \A y \in S : x <= y
Greatest(S) == CHOOSE x \in S : \A y \in S : y <= x

\* A plausible mistake: signatures are joined to find the raw passes.
SourceRowJoined(f, ip, J) ==
    LET span == {j.rep.begin : j \in {k \in WhereNoTime(f) : k.row.ip = ip}}
        P == Signatures(J)
    IN  [messages |-> FannedMessages(P) + Messages({j \in J : j.row.sigs = << >>}),
         matrix |-> Matrix(J),
         rawDkim |-> FannedMessages({p \in P : p[1].row.sigs[p[2]].result = "pass"}),
         rawSpf |-> Messages({j \in J : RawPass(j.row.spfs)}),
         none |-> DispNone(J), quarantine |-> Disposed(J, "quarantine"),
         reject |-> Disposed(J, "reject"),
         first |-> Least(span), last |-> Greatest(span),
         pattern |-> EffectivePattern(Matrix(J), LabelOf(ip)),
         isNew |-> NewIn(Least(span), f)]

\* sourceInventorySelect and finishSourceRow: the span ignores the dates of f.
SourceRow(f, ip, J) ==
    LET span == {j.rep.begin : j \in {k \in WhereNoTime(f) : k.row.ip = ip}}
        m == Matrix(J)
    IN  [messages |-> Messages(J), matrix |-> m,
         rawDkim |-> Messages({j \in J : RawPass(j.row.sigs)}),
         rawSpf |-> Messages({j \in J : RawPass(j.row.spfs)}),
         none |-> DispNone(J), quarantine |-> Disposed(J, "quarantine"),
         reject |-> Disposed(J, "reject"),
         first |-> Least(span), last |-> Greatest(span),
         pattern |-> EffectivePattern(m, LabelOf(ip)),
         isNew |-> NewIn(Least(span), f)]

SourceInventory(f) ==
    LET J == Where(f)
    IN  [ip \in {j.row.ip : j \in J} |-> SourceRow(f, ip, {j \in J : j.row.ip = ip})]

\* The HAVING of SourceQuery: minimum, a bucket of the matrix, new ones, pattern.
Listed(inv, f, q) ==
    {ip \in DOMAIN inv :
        /\ q.min > 1 => inv[ip].messages >= q.min
        /\ q.bucket \in DOMAIN inv[ip].matrix => inv[ip].matrix[q.bucket] > 0
        /\ q.newOnly => f.from = 0 \/ inv[ip].isNew
        /\ q.pattern # "" => inv[ip].pattern = q.pattern}

PlainQuery == [min |-> 0, bucket |-> "", newOnly |-> FALSE, pattern |-> ""]

NewSources(f) ==
    IF f.from <= 0 THEN {}
    ELSE Listed(SourceInventory(f), f, [PlainQuery EXCEPT !.newOnly = TRUE])

\* GetSourceDetail: what one address sent, by identifier, reporter and domain.
SourceDetail(f, ip) ==
    LET sf == [f EXCEPT !.ip = ip]
        J == Where(sf)
    IN  [row |-> SourceInventory(sf), timeline |-> TrendData(sf, DailyTrend(f.from)),
         headerFroms |-> GroupedBy([j \in J |-> j.row.hfrom]),
         envelopeFroms |-> GroupedBy([j \in J |-> j.row.efrom]),
         reporters |-> GroupedBy([j \in J |-> j.rep.org]),
         domains |-> GroupedBy([j \in J |-> j.rep.domain])]

-----------------------------------------------------------------------------
(* Spoof volume, enforcement, readiness                                    *)

\* GetSpoofVolume: the volume that neither check passed, by SPF membership.
SpoofVolume(f) ==
    LET J == Failing(Where(f))
        checked == {j \in J : j.rep.domain \in spfCache}
        inside == {j \in checked : j.row.ip \in SpfOf[j.rep.domain]}
    IN  [total |-> Messages(J), unresolved |-> Messages(J \ checked),
         inSPF |-> Messages(inside), notInSPF |-> Messages(checked \ inside),
         resolved |-> checked # {},
         pending |-> {j.rep.domain : j \in J \ checked}]

Enforced(J) == {j \in J : j.row.disp \in {"quarantine", "reject"}}

\* GetEnforcementEffectiveness: a rate only where a policy asks for one.
Enforcement(f, policy) ==
    LET J == Where(f)
        enforced == Messages(Enforced(J))
        failing == Messages(Failing(J))
    IN  [enforced |-> enforced, failing |-> failing,
         rated |-> policy \notin {"", "none"} /\ failing > 0,
         capped |-> IF enforced > failing THEN failing ELSE enforced]

\* unexplainedWhere: failing, treated more mildly than published, no reason given.
Unexplained(J) ==
    {j \in Failing(J) :
        /\ \/ j.rep.tuple.p = "reject" /\ j.row.disp \in {"none", "quarantine"}
           \/ j.rep.tuple.p = "quarantine" /\ j.row.disp = "none"
        /\ j.row.over = << >>}

UnexplainedOverrides(f) ==
    LET U == Unexplained(Where(f))
    IN  [messages |-> Messages(U), records |-> Cardinality(U),
         sources |-> GroupedBy([j \in U |-> j.row.ip])]

KnownGood(ip) == LabelOf(ip) = "known_good"

\* GetEnforcementReadiness, whose list of known good sources ends at twenty.
Readiness(f) ==
    LET J == Where(f)
        good == GroupedBy([j \in {k \in Failing(J) : KnownGood(k.row.ip)} |-> j.row.ip])
    IN  [total |-> MatrixTotal(Matrix(J)), neither |-> Matrix(J).neither,
         sources |-> good, knownGood |-> GroupSum(good)]
=============================================================================
