------------------------------ MODULE TlsReports ------------------------------
(* SMTP TLS reports as they are stored and read: a report holds policies, a     *)
(* policy holds failure details.  Sessions, volume, policy mix, readiness,      *)
(* divergence, drift, coverage and hygiene: the metrics over policy summaries.  *)
(* Host names and mx patterns are sequences of labels.                          *)
EXTENDS AlertRules

CONSTANTS
    TlsPool,      \* the TLS reports that may be imported
    Canonical,    \* addresses that parse -> the form they are stored in
    NoAddress,    \* NULL in an address column
    Registered,   \* result type in lower case -> its group
    Lower,        \* what is not in lower case -> the same in lower case
    Publishable,  \* what a domain may publish: its mta_sts and tlsa snapshots
    Unpublished   \* no snapshot yet

VARIABLES
    tlsStored,    \* the TLS reports imported so far
    published     \* the current snapshots of each policy domain

\* A report has an id of its own and finitely many policies and failure details, and
\* clampCount leaves no negative count.  Reports of the epoch are left out.
ASSUME TlsRowsAssumption ==
    /\ IsFiniteSet(TlsPool)
    /\ \A r, s \in TlsPool : r.id = s.id => r = s
    /\ \A r \in TlsPool : r.begin \in Int /\ r.begin > 0 /\ IsFiniteSet(r.policies)
    /\ \A r \in TlsPool : \A p \in r.policies :
          /\ p.success \in Nat /\ p.failure \in Nat
          /\ IsFiniteSet(p.fails) /\ \A d \in p.fails : d.count \in Nat

tlsVars == <<tlsStored, published>>

LowerCase(x) == IF x \in DOMAIN Lower THEN Lower[x] ELSE x
Same(x, y) == LowerCase(x) = LowerCase(y)

\* A policy domain is stored in lower case.
ASSUME DomainsAssumption == \A r \in TlsPool : \A p \in r.policies : LowerCase(p.domain) = p.domain

TlsDomains == UNION {{p.domain : p \in r.policies} : r \in TlsPool}

-----------------------------------------------------------------------------
(* What an import stores                                                   *)

NormaliseIP(a) == IF a \in DOMAIN Canonical THEN Canonical[a] ELSE NoAddress
Malformed(a) == a # "" /\ a \notin DOMAIN Canonical

\* The mx-host field, or the mx lines of the policy string without one.
PolicyMXPatterns(p) == IF p.mxHost # {} THEN p.mxHost ELSE p.lines.mx

\* parseSTSPolicyString.
StsMode(p) == IF Same(p.type, "sts") THEN p.lines.mode ELSE ""
StsMaxAge(p) == IF Same(p.type, "sts") THEN p.lines.maxAge ELSE 0

DetailSum(p) == SumOf([d \in p.fails |-> d.count])

\* What a summary counts beyond its details; details may also count more.
Unattributed(p) == IF p.failure > DetailSum(p) THEN p.failure - DetailSum(p) ELSE 0

\* Two entries of a report describe the sessions of one domain and its hosts.
MultiPolicy(r) ==
    \E p, q \in r.policies : /\ p # q
                             /\ p.domain = q.domain
                             /\ PolicyMXPatterns(p) = PolicyMXPatterns(q)

UnknownTypes(p) == {d \in p.fails : d.type # "" /\ LowerCase(d.type) \notin DOMAIN Registered}

TlsInit ==
    /\ tlsStored = {}
    /\ published = [d \in TlsDomains |-> Unpublished]

\* SaveTLSRPTWithMeta, whatever date range the reporter wrote.
ImportTlsReport(r) ==
    /\ r \notin tlsStored
    /\ tlsStored' = tlsStored \cup {r}
    /\ UNCHANGED <<published, rowVars>>

\* UpsertTLSSnapshot: Enrich looked the domain's records up.
Snapshot(d, s) ==
    /\ published[d] # s
    /\ published' = [published EXCEPT ![d] = s]
    /\ UNCHANGED <<tlsStored, rowVars>>

TlsNext ==
    \/ \E r \in TlsPool : ImportTlsReport(r)
    \/ \E d \in TlsDomains, s \in Publishable : Snapshot(d, s)
    \/ DayPasses /\ UNCHANGED tlsVars

-----------------------------------------------------------------------------
(* TLSFilter                                                               *)

AllTls == [domain |-> AnyValue, from |-> 0, to |-> 0, requireDkim |-> FALSE,
           host |-> AnyValue, ip |-> AnyValue, type |-> AnyValue, sender |-> AnyValue]

\* TLSRPTCounted: only a mailed report can be excluded for its signature.
Counted(r, requireDkim) == requireDkim /\ r.transport = "smtp" => r.dkim = "valid"
CountsFor(r, f) == InWindow(r, f) /\ ~(f.requireDkim /\ r.transport = "smtp" /\ r.dkim # "valid")

TlsReportsIn(f) ==
    {r \in tlsStored : /\ CountsFor(r, f)
                       /\ \/ f.domain = AnyValue
                          \/ \E p \in r.policies : p.domain = f.domain}

Entries(R) == UNION {{[rep |-> r, pol |-> p] : p \in r.policies} : r \in R}
PoliciesIn(f) ==
    {e \in Entries(tlsStored) : CountsFor(e.rep, f) /\ f.domain \in {AnyValue, e.pol.domain}}

DetailsOf(E) == UNION {{[rep |-> e.rep, pol |-> e.pol, det |-> d] : d \in e.pol.fails} : e \in E}

Receiving(x) == NormaliseIP(x.det.ip)
Sending(x) == NormaliseIP(x.det.sender)

FailuresIn(f) ==
    {x \in DetailsOf(PoliciesIn(f)) : /\ f.host \in {AnyValue, x.det.host}
                                      /\ f.ip \in {AnyValue, Receiving(x)}
                                      /\ f.type = AnyValue \/ LowerCase(f.type) = x.det.type
                                      /\ f.sender \in {AnyValue, Sending(x)}}

\* A plausible mistake: two entries for the same sessions are two groups.
SessionsPerEntry(f) ==
    {[rep |-> e.rep, domain |-> e.pol.domain, mx |-> e.pol.type, entries |-> 1,
      success |-> e.pol.success, failure |-> e.pol.failure] : e \in PoliciesIn(f)}

\* tlsSessionsCTE: entries of a report for the same domain and hosts are one
\* group, counted at the largest of their counts.
Sessions(f) ==
    LET E == PoliciesIn(f)
        key(e) == <<e.rep.id, e.pol.domain, PolicyMXPatterns(e.pol)>>
        of(k) == {e \in E : key(e) = k}
    IN  {[rep |-> (CHOOSE e \in of(k) : TRUE).rep, domain |-> k[2], mx |-> k[3],
          entries |-> Cardinality(of(k)),
          success |-> Greatest({e.pol.success : e \in of(k)}),
          failure |-> Greatest({e.pol.failure : e \in of(k)})] : k \in {key(e) : e \in E}}

\* success_count and failure_count of sessions S, and of policy entries E.
Tried(S) == [success |-> SumOf([s \in S |-> s.success]),
             failure |-> SumOf([s \in S |-> s.failure]),
             messages |-> SumOf([s \in S |-> s.success + s.failure])]
Applied(E) == [success |-> SumOf([e \in E |-> e.pol.success]),
               failure |-> SumOf([e \in E |-> e.pol.failure]),
               messages |-> SumOf([e \in E |-> e.pol.success + e.pol.failure])]
TriedBy(key) == [k \in Range(key) |-> Tried({s \in DOMAIN key : key[s] = k})]
AppliedBy(key) == [k \in Range(key) |-> Applied({e \in DOMAIN key : key[e] = k})]

\* The rate as a fraction; nothing tried is a rate of zero.
TlsRateOf(t) == IF t.messages = 0 THEN <<0, 1>> ELSE <<100 * t.success, t.messages>>

-----------------------------------------------------------------------------
(* T1, T2, T3, T8, T9                                                      *)

TLSRate(f) == Tried(Sessions(f))
TLSRateByDomain(f) == TriedBy([s \in Sessions(f) |-> s.domain])
TLSDailySeries(f) == TriedBy([s \in Sessions(f) |-> s.rep.begin])

\* TLSSessionTotals and GetTLSRPTSummary, with predicates of their own.
TLSSessionTotals(from) ==
    LET R == {r \in tlsStored : from = 0 \/ r.begin >= from}
        groups == UNION {{<<r, p.domain, PolicyMXPatterns(p)>> : p \in r.policies} : r \in R}
        of(g) == {p \in g[1].policies : p.domain = g[2] /\ PolicyMXPatterns(p) = g[3]}
    IN  [success |-> SumOf([g \in groups |-> Greatest({p.success : p \in of(g)})]),
         failure |-> SumOf([g \in groups |-> Greatest({p.failure : p \in of(g)})]),
         multi |-> Cardinality({r \in R : MultiPolicy(r)})]
TLSRPTSummary(from) == Applied(Entries({r \in tlsStored : from > 0 => r.begin >= from}))

\* The median reporter is one of two reporters with sessions.
TLSVolume(f) ==
    LET S == Sessions(f)
        shares == TriedBy([s \in S |-> s.rep.org])
        rated == {o \in DOMAIN shares : shares[o].messages > 0}
        rate(o) == TlsRateOf(shares[o])
        below(o) == Cardinality({x \in rated : ~DropsBy(rate(x), rate(o), 0)})
        above(o) == Cardinality({x \in rated : ~DropsBy(rate(o), rate(x), 0)})
        n == Cardinality(rated)
    IN  [shares |-> shares,
         reports |-> [o \in DOMAIN shares |->
                         Cardinality({s.rep.id : s \in {t \in S : t.rep.org = o}})],
         medians |-> {rate(o) : o \in {x \in rated : 2 * below(x) >= n /\ 2 * above(x) >= n}}]

PolicyType(e) == IF e.pol.type = "" THEN "(unspecified)" ELSE e.pol.type

\* GetTLSPolicyMix counts entries; what several entries describe is told apart.
TLSPolicyMix(f) ==
    [overall |-> AppliedBy([e \in PoliciesIn(f) |-> PolicyType(e)]),
     byReporter |-> AppliedBy([e \in PoliciesIn(f) |-> <<e.rep.org, PolicyType(e)>>]),
     multi |-> Tried({s \in Sessions(f) : s.entries > 1}).messages]

TLSReadiness(f) ==
    LET mode(e) == IF StsMode(e.pol) = "" THEN "(none)" ELSE StsMode(e.pol)
        modes == AppliedBy([e \in PoliciesIn(f) |-> mode(e)])
        failing(m) == IF m \in DOMAIN modes THEN modes[m].failure ELSE 0
    IN  [modes |-> modes, wouldBlock |-> failing("testing"), enforceFailures |-> failing("enforce")]

\* Several policy strings for a domain on one day: <<day, domain>>.
TLSPolicyDivergence(f) ==
    LET E == {e \in PoliciesIn(f) : e.pol.string # ""}
        strings(k) == {e.pol.string : e \in {x \in E : <<x.rep.begin, x.pol.domain>> = k}}
    IN  {k \in {<<e.rep.begin, e.pol.domain>> : e \in E} : Cardinality(strings(k)) > 1}

\* What a reporter applied against the snapshot; an empty side does not differ,
\* and a wildcard names no host whose TLSA records could be compared.
TLSPolicyDrift(f) ==
    LET E == {e \in PoliciesIn(f) : published[e.pol.domain] # Unpublished}
        snap(e) == published[e.pol.domain]
        differ(x, y, none) == x # none /\ y # none /\ x # y
        fields(e) ==
            IF e.pol.type # "sts" THEN {}
            ELSE {k \in {"mode", "max_age", "mx"} :
                     CASE k = "mode" -> differ(StsMode(e.pol), snap(e).sts.mode, "")
                       [] k = "max_age" -> differ(StsMaxAge(e.pol), snap(e).sts.maxAge, 0)
                       [] k = "mx" -> differ(PolicyMXPatterns(e.pol), snap(e).sts.mx, {})}
        hosts(e) == {h \in PolicyMXPatterns(e.pol) : "*" \notin Range(h)} \cap DOMAIN snap(e).tlsa
        rrset(e) == /\ e.pol.type = "tlsa"
                    /\ \E h \in hosts(e) : differ(e.pol.string, snap(e).tlsa[h], "")
        row(e, kind, field) ==
            [domain |-> e.pol.domain, kind |-> kind, field |-> field, org |-> e.rep.org]
    IN  UNION {{row(e, "mta_sts", k) : k \in fields(e)} : e \in E}
          \cup {row(e, "tlsa", "rrset") : e \in {x \in E : rrset(x)}}

-----------------------------------------------------------------------------
(* T12, T13                                                                *)

\* GetTLSReporterGaps, over every report: active lately, ended before the gap.
TLSReporterGaps(activeDays, gapDays) ==
    LET last(o) == Greatest({EndOf(r) : r \in {x \in tlsStored : x.org = o}})
    IN  {o \in {r.org : r \in tlsStored} : last(o) >= now - activeDays /\ last(o) < now - gapDays}

\* Twice medianOf, and where the 95th percentile is, of reports that have delays.
TwiceMedian(R) ==
    LET n == Cardinality(R)
        mid == n \div 2
    IN  IF n % 2 = 1 THEN 2 * Nth(R, mid + 1) ELSE Nth(R, mid) + Nth(R, mid + 1)
PercentileIndex(n) == IF (n * 95) \div 100 < 1 THEN 1 ELSE (n * 95) \div 100

\* Who is new or lapsed is asked of all of history; the rest is of the filter.
TLSCoverage(f, gapDays) ==
    LET R == TlsReportsIn(f)
        timed == {r \in R : r.dated}
        days == WindowEnd(f) - f.from + 1
        quiet == days - Cardinality({r.begin : r \in R})
        first(o) == Least({r.begin : r \in {x \in tlsStored : x.org = o}})
        last(o) == Greatest({EndOf(r) : r \in {x \in tlsStored : x.org = o}})
        orgs == {r.org : r \in tlsStored}
    IN  [reporters |-> {r.org : r \in R},
         new |-> IF f.from = 0 THEN {} ELSE {o \in orgs : first(o) >= f.from},
         lapsed |-> {o \in orgs : /\ last(o) >= now - 14
                                  /\ last(o) < now - Setting(gapDays, 3)},
         samples |-> Cardinality(timed),
         twiceMedian |-> IF timed = {} THEN 0 ELSE TwiceMedian(timed),
         p95 |-> IF timed = {} THEN 0 ELSE Nth(timed, PercentileIndex(Cardinality(timed))),
         daysWithNoReport |-> IF f.from = 0 \/ quiet < 0 THEN 0 ELSE quiet]

\* GetTLSHygiene looks past the signatures it reports on.
TLSHygiene(f) ==
    LET R == TlsReportsIn([f EXCEPT !.requireDkim = FALSE])
        mailed == {r \in R : r.transport = "smtp"}
        details == DetailsOf(Entries(R))
    IN  [reports |-> Cardinality(R),
         byStatus |-> [s \in {r.dkim : r \in mailed} |-> Cardinality({r \in mailed : r.dkim = s})],
         excluded |-> IF f.requireDkim THEN Cardinality({r \in mailed : r.dkim # "valid"}) ELSE 0,
         unattributed |-> SumOf([e \in Entries(R) |-> Unattributed(e.pol)]),
         multiPolicy |-> Cardinality({r \in R : MultiPolicy(r)}),
         unknownTypes |-> SumOf([e \in Entries(R) |-> Cardinality(UnknownTypes(e.pol))]),
         malformed |-> Cardinality({x \in details : Malformed(x.det.sender)})
                         + Cardinality({x \in details : Malformed(x.det.ip)}),
         nonDaily |-> Cardinality({r \in R : r.hours < 24}),
         multiDay |-> Cardinality({r \in R : r.hours > 24}),
         transports |-> [t \in {r.transport : r \in R} |->
                            Cardinality({r \in R : r.transport = t})]]
=============================================================================
