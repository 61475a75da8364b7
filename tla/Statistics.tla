------------------------------ MODULE Statistics ------------------------------
(* What the pages and the alert rules say of the same tables.  The properties   *)
(* relate views that are computed by different queries.                         *)
EXTENDS TlsRules, BimiRules

CONSTANTS
    Filters,     \* day offsets and values of the filters that are looked at
    TlsFilters,  \* the same for TLS reports
    LookedUp,    \* bound: how many BIMI lookups are looked at with each report stored
    LastReported, \* bound: the last day of the clock before a lookup or a verdict
    MaxVerdicts  \* bound: stored verdicts on seed mail

\* A filter's dates lie in the past, and a TLS filter begins at a date of the clock.
ASSUME FiltersAssumption ==
    /\ \A x \in Filters \cup TlsFilters : x.back \in Nat /\ x.until \in Nat
    /\ \A x \in TlsFilters : x.back <= FirstNow /\ x.requireDkim \in BOOLEAN

\* A filter's dates are given relative to today.
Scope(x) == [envelopeFrom |-> x.envelopeFrom, domain |-> x.domain, ip |-> x.ip,
             from |-> IF x.back = 0 THEN 0 ELSE now - x.back,
             to |-> IF x.until = 0 THEN 0 ELSE now - x.until]
Scopes == {Scope(x) : x \in Filters}

TlsScopes ==
    {[AllTls EXCEPT !.domain = x.domain, !.requireDkim = x.requireDkim, !.host = x.host,
                    !.from = IF x.back = 0 THEN 0 ELSE now - x.back,
                    !.to = IF x.until = 0 THEN 0 ELSE now - x.until] : x \in TlsFilters}

statsVars == <<rowVars, tlsVars, bimiVars>>

TlsAtStart == tlsStored = {} /\ \A d \in TlsDomains : published[d] = Unpublished
BimiAtStart == bimiRows = << >> /\ verdicts = << >>

LookupsMade == SumOf([i \in {k \in DOMAIN bimiRows : bimiRows[k].kind = "record"} |->
                        bimiRows[i].checks])

\* Bound: lookups with one report stored; a third finds what the first did.
LooksUp ==
    /\ Cardinality(stored) = 1 /\ verdicts = << >>
    /\ edits > 0 => managed # {} /\ Where(Unbounded) = {}
    /\ \A r \in stored : r \in DOMAIN LookedUp /\ LookupsMade < LookedUp[r]
    /\ \E d \in PolicyDomains, x \in BimiLookups :
          /\ LookupsMade = 2 => x.content = bimiRows[1].content
          /\ SnapshotBimi(d, x)

\* Bound: seed mail without lookups, or one message after one of several lookups.
ReadsSeed ==
    /\ edits = 0
    /\ IF stored = {} THEN Len(verdicts) < MaxVerdicts
       ELSE /\ LookupsMade = 1 /\ verdicts = << >>
            /\ \A r \in stored : LookedUp[r] > 1
    /\ \E m \in SeedMail : RecordSeed(m)

\* Bound: one kind of report at a time, and nothing else once BIMI is looked up.
\* No query reads both kinds of report.
StatsNext ==
    \/ TlsAtStart /\ BimiAtStart /\ RowsNext /\ now' <= LastReported /\ UNCHANGED <<tlsVars, bimiVars>>
    \/ ~BimiAtStart /\ DayPasses /\ UNCHANGED <<tlsVars, bimiVars>>
    \/ stored = {} /\ edits = 0 /\ BimiAtStart /\ TlsNext /\ now' <= LastReported /\ UNCHANGED bimiVars
    \/ TlsAtStart /\ (LooksUp \/ ReadsSeed) /\ UNCHANGED <<rowVars, tlsVars>>

StatsInit == RowsInit /\ TlsInit /\ BimiInit

StatsSpec == StatsInit /\ [][StatsNext]_statsVars

-----------------------------------------------------------------------------
(* Properties                                                              *)

GroupedTotal(g) == SumOf([k \in DOMAIN g |-> g[k].totals.messages])

\* The totals of every breakdown are those of the dashboard.  The filled trend ends
\* with the window: a report from the future is on a page without an end and not in
\* the daily trend, and in the weekly trend only if this week is also its own.
SameTotal(f, n) ==
    LET signing == SigningAlignment(f)
        envelope == EnvelopeFromAlignment(f)
        views == <<SourceVolumes(f), DomainStats(f), TrendData(f, TRUE), TrendData(f, FALSE),
                   GeoDistribution(f), SourceInventory(f), ReporterInventory(f),
                   signing.histogram>>
        begun == DashboardStats([f EXCEPT !.to = WindowEnd(f)]).totals.messages
        weekly == GroupSum(FilledTrend(f, FALSE))
    IN  /\ \A i \in DOMAIN views : GroupSum(views[i]) = n
        /\ GroupedTotal(envelope) = n
        /\ GroupSum(FilledTrend(f, TRUE)) = begun
        /\ f.from = 0 => begun <= weekly /\ weekly <= n
        /\ GroupSum(UnmanagedDomains(f))
             + GroupSum([d \in DOMAIN DomainStats(f) \cap managed |-> DomainStats(f)[d]]) = n

\* The dashboard, the matrix and the rows of the inventory add up in themselves.
OutcomesAddUp(f) ==
    LET d == DashboardStats(f)
        m == AuthMatrix(f)
        inv == SourceInventory(f)
    IN  /\ d.totals.passed + d.totals.failed = d.totals.messages
        /\ DispositionStats(f) = [none |-> d.none, quarantine |-> d.quarantined,
                                  reject |-> d.rejected]
        /\ d.none + d.quarantined + d.rejected = d.totals.messages
        /\ m.neither = d.totals.failed
        /\ m.bothPass + m.dkimOnly = d.dkimPass /\ m.bothPass + m.spfOnly = d.spfPass
        /\ \A ip \in DOMAIN inv :
              /\ MatrixTotal(inv[ip].matrix) = inv[ip].messages
              /\ inv[ip].none + inv[ip].quarantine + inv[ip].reject = inv[ip].messages
              /\ inv[ip].rawDkim <= inv[ip].messages /\ inv[ip].rawSpf <= inv[ip].messages
              /\ inv[ip].first <= inv[ip].last

\* A detail page tells the totals of the line it was opened from.
DetailsAgree(f) ==
    LET inv == SourceInventory(f)
        since == [Unbounded EXCEPT !.from = f.from]
        top == TopSourcesByVolume(f, 1)
    IN  /\ \A ip \in DOMAIN inv :
              LET page == SourceDetail(f, ip)
              IN  /\ page.row = [i \in {ip} |-> inv[ip]]
                  /\ \A part \in DOMAIN page \ {"row"} : GroupSum(page[part]) = inv[ip].messages
                  /\ SourceAggStats(ip, f.from) = SourceVolumes(since)[ip]
        /\ \A d \in DOMAIN DomainStats(f) :
              /\ DomainAggStats(d, f.from).totals = DomainStats(since)[d]
              /\ GroupSum(EnvelopeFromBreakdown(d, f.from)) = DomainStats(since)[d].messages
              /\ GroupSum(EnvelopeToBreakdown(d)) <= DomainAggStats(d, 0).totals.messages
        /\ \A e \in DOMAIN EnvelopeToStats(Unbounded) :
              GroupSum(RecipientSenders(e)) = EnvelopeToStats(Unbounded)[e].messages
        /\ {<<x[1], x[3]>> : x \in TopFailingSources(f, 1)}
             = {<<ip, inv[ip].messages>> : ip \in {x \in DOMAIN inv : inv[x].messages > 0}}
        /\ \A T \in top, ip \in DOMAIN inv : \E t \in T : inv[t].messages >= inv[ip].messages
        /\ UNION {Listed(inv, f, [PlainQuery EXCEPT !.pattern = p]) :
                     p \in {"healthy", "forwarder", "broken_signing", "spoof_suspect", "mixed"}}
             = DOMAIN inv
        /\ DomainsAtRisk(f, 90)
             \subseteq {d \in DOMAIN DomainStats(f) : DomainStats(f)[d].failed > 0}

\* Raw results are counted once per signature or SPF result, by every view.
RawResultsAddUp(f) ==
    LET signing == SigningAlignment(f)
        gap == AlignmentGap(f)
        errors == DNSErrorRate(f)
        dkim == SumOf(DKIMRawResults(f))
        spf == SumOf(SPFRawResults(f))
    IN  /\ signing.exact + signing.relaxed + signing.thirdParty = signing.total
        /\ SumOf(signing.domains) = signing.thirdParty
        /\ SumOf([n \in DOMAIN signing.histogram |-> n * signing.histogram[n].messages]) = dkim
        /\ spf = SumOf(SPFScopeSplit(f))
        /\ SumOf([o \in DOMAIN errors |-> errors[o].results]) = dkim + spf
        /\ gap.messages <= gap.dkim + gap.spf
        /\ gap.dkim <= GroupSum(gap.dkimPairs) /\ gap.spf <= GroupSum(gap.spfPairs)
        /\ \A k \in DOMAIN gap.dkimPairs : gap.dkimPairs[k].records <= gap.records
        /\ \A k \in DOMAIN gap.spfPairs : gap.spfPairs[k].records <= gap.records

\* What failed is split by the views that look at failures, and by nothing else.
FailuresSplit(f) ==
    LET failed == DashboardStats(f).totals.failed
        s == SpoofVolume(f)
        u == UnexplainedOverrides(f)
        ready == Readiness(f)
    IN  /\ s.total = failed /\ s.inSPF + s.notInSPF + s.unresolved = failed
        /\ s.pending = {} => s.unresolved = 0
        /\ u.messages <= failed /\ GroupSum(u.sources) = u.messages
        /\ ready.neither = failed /\ ready.knownGood <= failed
        /\ \A p \in ActivePolicies(f) : Enforcement(f, p).failing = failed
        /\ \A ip \in DOMAIN ready.sources :
              EffectivePattern(AuthMatrix([f EXCEPT !.ip = ip]), LabelOf(ip)) = "healthy"

\* No message twice and none left out, by the views of aggregate reports.
MessagesAccountedFor ==
    \A f \in Scopes :
        /\ SameTotal(f, DashboardStats(f).totals.messages)
        /\ OutcomesAddUp(f)
        /\ DetailsAgree(f)
        /\ RawResultsAddUp(f)
        /\ FailuresSplit(f)

\* Sampling is judged only for the policy that asks for it, over what failed.
SamplingAgrees(f, t) ==
    LET s == PctSampling(f, t)
        byReason == OverrideBreakdown(f)
    IN  /\ s.applies <=> Effective(t).pct < 100
        /\ s.applies => /\ s.failing = DashboardStats(f).totals.failed
                        /\ t.pct >= 0 => s.expected <= 100 * s.failing
                        /\ s.observed = IF "sampled_out" \in DOMAIN byReason
                                        THEN byReason["sampled_out"].messages ELSE 0
        /\ \A r \in DOMAIN byReason : byReason[r].sources <= Cardinality(DOMAIN SourceVolumes(f))

\* What two reporters wrote of one DNS record in different detail is one policy,
\* and a change is one that a reporter saw itself: the consistency list, the
\* active policy and the change log tell the same (stats_policy.go:122-126,
\* 204-231, 267-310, 325-331).
ReportersTellOnePolicy ==
    /\ \A f \in Scopes :
          LET groups == PolicyConsistency(f)
          IN  /\ GroupSum(groups) = DashboardStats(f).totals.messages
              /\ Cardinality(DOMAIN groups) = 1 =>
                    \A a \in ActivePolicyTuples(Where(f)) : a.consistent
              /\ \A a \in ActivePolicyTuples(Where(f)) : SamplingAgrees(f, a.tuple)
              /\ SumOf(DomainPolicyBreakdown(f)) >= Cardinality(DOMAIN DomainStats(f))
              /\ GroupedTotal(SubdomainTraffic(f)) <= DashboardStats(f).totals.messages
    /\ \A d \in ReportDomains :
          LET log == PolicyChangeLog(d)
              own(o) == {r \in stored : r.domain = d /\ r.org = o}
              steady(o) == Cardinality({Effective(r.tuple) : r \in own(o)}) = 1
          IN  /\ \A e \in log : \A c \in e.changes : ~steady(c[2].org)
              /\ \A o \in {r.org : r \in stored} :
                    own(o) # {} /\ ~steady(o) => \E e \in log : \E c \in e.changes : c[2].org = o
              /\ \A e \in log :
                    e.before.messages + e.after.messages <= DomainAggStats(d, 0).totals.messages

\* A comparison is of two windows that share no report and leave none out between
\* them, and what is new in a window was not there before.
WindowsApart(f) ==
    LET prev == PreviousWindow(f)
    IN  /\ Where(f) \cap Where(prev) = {}
        /\ NewSources(f) \cap DOMAIN SourceVolumes(prev) = {}
        /\ \A j \in WhereNoTime(f) :
              prev.from <= j.rep.begin /\ j.rep.begin <= WindowEnd(f)
                => j \in Where(f) \cup Where(prev)

\* A reporter's latency is of its dated reports, and its versions are all listed.
ReportersListed(f) ==
    LET late == ReportLatency(f)
        schema == SchemaDistribution(f)
    IN  /\ \A o \in DOMAIN late :
              /\ late[o].min <= late[o].median /\ late[o].median <= late[o].p95
              /\ late[o].p95 <= late[o].max
              /\ late[o].samples <= Cardinality({r \in stored : r.org = o})
        /\ UNION {schema[k] : k \in DOMAIN schema} = {r.org : r \in ReportsWhere(f)}
        /\ {r.org : r \in DateRangeAnomalies(f)} \subseteq {r.org : r \in ReportsWhere(f)}
        /\ DOMAIN ReporterInventory(f) \subseteq {r.org : r \in ReportsWhere(f)}

Pairs(S) == {<<a.domain, a.key>> : a \in S}

\* X1 to X11 against the pages of the aggregate reports.  The windows of X2 and X10
\* end now and are those of a page that does; the others have no end, as the page.
DmarcRulesMatchPages ==
    /\ \A d \in ReportDomains :
          LET f == [Unbounded EXCEPT !.domain = d, !.from = now - 2]
              inv == SourceInventory(f)
              week == [Unbounded EXCEPT !.domain = d, !.from = now - 7]
              lately == [Unbounded EXCEPT !.domain = d, !.from = Recent]
              spoof == SpoofVolume(lately)
          IN  /\ {a.key : a \in {b \in NewFailingSource : b.domain = d}}
                   = {ip \in NewSources(f) : /\ inv[ip].matrix.neither > 0
                                             /\ inv[ip].messages >= Setting(Cfg.newSourceMin, 1)}
              /\ ThisWeek(d) = DashboardStats([week EXCEPT !.to = now]).totals
              /\ LastWeek(d) = DashboardStats(PreviousWindow(week)).totals
              /\ OverrideMessages(d, Recent, now + 1)
                   = LET g == OverrideBreakdown([lately EXCEPT !.to = now]) IN GroupSum(g)
              /\ d \in {a.domain : a \in SpoofSpike} =>
                    /\ spoof.inSPF + spoof.notInSPF = DashboardStats(lately).totals.failed
                    /\ d \in spfCache
              /\ DistinctReporters(d, Recent)
                   = Cardinality({r.org : r \in ReportsWhere(lately)})
              /\ Where(lately) # {} /\ d \notin {a.domain : a \in PolicyInconsistent} =>
                    \A t \in ActivePolicyTuples(Where(lately)) : t.consistent
    /\ LET since == now - Setting(Cfg.newSelector, 2)
           sel == SelectorStats([Unbounded EXCEPT !.from = since])
       IN  Pairs(NewSelector) = {k \in DOMAIN sel : sel[k].isNew /\ sel[k].expected # 1}
    /\ Pairs(NewSelector) \cap Pairs(SelectorMissing) = {}
    /\ {a.key : a \in ReporterSilent}
         = DOMAIN ReporterPresence(15) \ DOMAIN ReporterPresence(Setting(Cfg.gap, 3) + 1)
    /\ Cfg.knownDrop >= 0 => \A a \in KnownSourceDegraded :
          SourceVolumes([Unbounded EXCEPT !.from = Recent])[a.key].failed > 0
    /\ \A i \in DOMAIN Fired : \A a, b \in Fired[i] :
          a.domain = b.domain /\ a.key = b.key => a = b
    /\ \A f \in Scopes : ReportersListed(f) /\ (HasPrevious(f) /\ f.from > 1 => WindowsApart(f))

-----------------------------------------------------------------------------
(* The same of TLS reports                                                 *)

\* Every session view counts a session once, however many entries describe it.
SessionsAddUp(f) ==
    LET n == TLSRate(f)
        volume == TLSVolume(f)
        mix == TLSPolicyMix(f)
        applied == GroupSum(mix.overall)
    IN  /\ GroupSum(TLSRateByDomain(f)) = n.messages
        /\ GroupSum(TLSDailySeries(f)) = n.messages
        /\ GroupSum(volume.shares) = n.messages
        /\ \A d \in DOMAIN TLSRateByDomain(f) \ {AnyValue} :
              TLSRateByDomain(f)[d] = TLSRate([f EXCEPT !.domain = d])
        /\ SumOf(volume.reports) = Cardinality({s.rep : s \in Sessions(f)})
        /\ volume.medians = {} <=> n.messages = 0
        /\ GroupSum(mix.byReporter) = applied /\ GroupSum(TLSReadiness(f).modes) = applied
        /\ applied >= n.messages
        /\ mix.multi = 0 => applied = n.messages

\* The page and the summary, whose queries are not built by TLSFilter, agree.
SummariesAgree(f) ==
    LET all == [AllTls EXCEPT !.from = f.from]
        totals == TLSSessionTotals(f.from)
        summary == TLSRPTSummary(f.from)
    IN  /\ totals.success = TLSRate(all).success /\ totals.failure = TLSRate(all).failure
        /\ totals.multi = TLSHygiene(all).multiPolicy
        /\ totals.multi = Cardinality({s.rep : s \in {x \in Sessions(all) : x.entries > 1}})
        /\ summary.messages >= totals.success + totals.failure
        /\ totals.multi = 0 => summary.messages = totals.success + totals.failure

\* What is kept out is what is reported as kept out, and by the same rule.
ExclusionTold(f) ==
    LET hygiene == TLSHygiene(f)
        listed == TlsReportsIn([f EXCEPT !.requireDkim = FALSE])
    IN  /\ TlsReportsIn(f) = {r \in listed : Counted(r, f.requireDkim)}
        /\ {s.rep : s \in Sessions(f)} \subseteq TlsReportsIn(f)
        /\ Cardinality(TlsReportsIn(f)) + hygiene.excluded = hygiene.reports
        /\ SumOf(hygiene.transports) = hygiene.reports

\* Every failure view splits the same observations, and what the details leave
\* out of the summaries is told.
ObservationsAddUp(f) ==
    LET total == TLSFailureBreakdown(f).total
        receivers == TLSReceivers(f)
        reasons == TLSReasons(f)
        family == TLSFamilySplit(f)
        unspecified == Count({x \in FailuresIn(f) : x.det.type = ""})
        incidents == TLSIncidents(f)
    IN  /\ GroupSum(TLSFailureBreakdown(f).groups) = total
        /\ GroupSum(receivers.byHost) = total
        /\ GroupSum(receivers.byIP) + receivers.unspecifiedIP = total
        /\ GroupSum(receivers.heloMismatches) <= total
        /\ \A n \in {1, 50} : \A T \in TLSSenders(f, n) :
              /\ GroupSum(T.byNetwork) = GroupSum(T.byIP) /\ GroupSum(T.byOrg) = GroupSum(T.byIP)
              /\ GroupSum(T.byIP) + T.unspecifiedIP <= total
              /\ Cardinality(DOMAIN T.byIP) < n => GroupSum(T.byIP) + T.unspecifiedIP = total
        /\ GroupSum(reasons.overall) = GroupSum(reasons.byType)
        /\ GroupSum(reasons.overall) + reasons.without = total
        /\ GroupSum(family.sending) = total /\ GroupSum(family.receiving) = total
        /\ GroupSum(TLSEndpointHealth(f).byType) = GroupSum(TLSEndpointHealth(f).byDay)
        /\ SumOf([i \in incidents |-> i.messages]) + unspecified = total
        /\ \A i, j \in incidents :
              i # j /\ i.type = j.type /\ i.host = j.host =>
                  i.last + 1 < j.first \/ j.last + 1 < i.first
        /\ \A i \in incidents : i.last - i.first + 1 = i.days
        /\ f.host = AnyValue =>
              total + TLSHygiene(f).unattributed >= TLSRate(f).failure

\* The same of sessions and failure observations, by the views of TLS reports.
SessionsAccountedFor ==
    \A f \in TlsScopes :
        /\ SessionsAddUp(f)
        /\ SummariesAgree(f)
        /\ ExclusionTold(f)
        /\ ObservationsAddUp(f)

\* X12 compares windows that share no report and leave none out between them.
TlsWindowsApart ==
    \A d \in TlsReportDomains :
        LET f == TlsWeek(d)
            prev == TlsLastWeek(d)
        IN  /\ PoliciesIn(f) \cap PoliciesIn(prev) = {}
            /\ PoliciesIn(prev) = PoliciesIn(PreviousWindow(f))
            /\ \A e \in PoliciesIn([f EXCEPT !.from = now - 14]) :
                  e \in PoliciesIn(f) \cup PoliciesIn(prev)

\* Where reporters applied different modes on one day, one of them does not apply
\* what is published.
DivergenceDrifts(f) ==
    \A k \in TLSPolicyDivergence(f) :
        LET E == {e \in PoliciesIn(f) : e.rep.begin = k[1] /\ e.pol.domain = k[2]}
            modes == {StsMode(e.pol) : e \in {x \in E : x.pol.type = "sts"}} \ {""}
            told == published[k[2]] # Unpublished /\ published[k[2]].sts.mode # ""
        IN  Cardinality(modes) > 1 /\ told =>
                \E r \in TLSPolicyDrift(f) : r.domain = k[2] /\ r.field = "mode"

\* X12 to X19 against the pages of the TLS reports.
TlsRulesMatchPages ==
    LET receivers == TLSReceivers(TlsRecent)
        recent(d) == [TlsRecent EXCEPT !.domain = d]
        dane == DOMAIN TLSDaneHealth(TlsRecent)
        types == TLSFailureBreakdown(TlsRecent).types
        endpoint(d) == TLSEndpointHealth(recent(d)).byType
        fetched(d) == DOMAIN endpoint(d) \ {"sts-policy-invalid"}
        hostErrors(d) == GroupSum([t \in fetched(d) |-> endpoint(d)[t]])
    IN  /\ TlsWindowsApart
        /\ \A f \in TlsScopes : DivergenceDrifts(f)
        /\ \A a \in TlsStarttlsStripped :
              /\ \E i \in TLSIncidents(recent(a.domain)) :
                    i.type = "starttls-not-supported" /\ i.host = a.key[2]
              /\ TLSRate([TlsEarlier EXCEPT !.domain = a.domain]).success > 0
        /\ TlsCertExpired # {} <=> "certificate-expired" \in DOMAIN types
        /\ Pairs(TlsDaneInvalid)
             = {<<k.domain, <<k.type, k.host>>>> : k \in {x \in dane : x.type # "dane-required"}}
        /\ \A d \in DOMAIN PolicyHostErrors \ {AnyValue} :
              /\ PolicyHostErrors[d].failures = hostErrors(d)
              /\ PolicyHostErrors[d].sessions = TLSRateByDomain(TlsRecent)[d].messages
        /\ {a.key : a \in TlsReporterSilent} = TLSCoverage(TlsRecent, TlsCfg.gap).lapsed
        /\ \A a \in TlsNewFailingReceiver :
              LET ip == <<a.key[2], a.key[1]>>
              IN  /\ ip \in DOMAIN receivers.byIP
                  /\ a.key[1] # Unspecified => ip \notin DOMAIN TLSReceivers(TlsEarlier).byIP
                  /\ a.severity = "critical" =>
                        \E x \in DOMAIN TLSReceivers(AllTls).byIP : x # ip /\ x[2] = ip[2]
        /\ \A i \in DOMAIN TlsFired : \A a, b \in TlsFired[i] :
              a.domain = b.domain /\ a.key = b.key => a.severity = b.severity

-----------------------------------------------------------------------------
(* The same of BIMI                                                        *)

\* Each message is eligible by its row as its policy tuple is, and none is left out.
EligibleAgrees(f) ==
    LET volume == BimiEligibleVolume(f)
        coverage == BimiCoverage(f)
        totals == DashboardStats(f).totals
    IN  /\ volume.total = totals.messages /\ volume.passed = totals.passed
        /\ \A j \in Where(f) : EligibleRow(j) <=> j \in Passing({j}) /\ BimiEligible(j.rep.tuple)
        /\ coverage.total = totals.messages /\ coverage.covered <= coverage.total
        /\ coverage.reportsWith <= BimiHygiene(f).withBimi
        /\ SumOf(BimiScope(f)) = totals.messages

\* Every error view counts the same occurrences.
BimiErrorsAddUp(f) ==
    LET share == BimiPermanentShare(f)
        errors == BimiErrors(f)
        rejections == BimiPolicyRejections(f)
        divergence == BimiDivergence(f)
        reported == DOMAIN BimiReportedConfigs(f)
        configs == {k[2] : k \in reported}
        counted(K) == SumOf([k \in K |-> errors[k].count])
        within(split, x) == SumOf([k \in DOMAIN split |-> split[k][x]])
    IN  /\ counted(DOMAIN errors) = share.total /\ BimiImpressions(f).errors = share.total
        /\ within(share.byOrg, "total") = share.total
        /\ within(share.byElement, "total") = share.total
        /\ within(share.byOrg, "permanent") = share.permanent
        /\ within(share.byElement, "permanent") = share.permanent
        /\ share.unknown = counted({k \in DOMAIN errors : k.class \notin {"perm", "temp"}})
        /\ SumOf([c \in DOMAIN divergence |-> SumOf(divergence[c].count)]) = share.total
        /\ \A k \in DOMAIN rejections : rejections[k] = errors[k]
        /\ configs = DOMAIN divergence
        /\ \A c \in configs :
              DOMAIN divergence[c].errors = {k[1] : k \in {x \in reported : x[2] = c}}
        /\ \A k \in DOMAIN BimiFreshness(f) :
              /\ \E c \in configs : c.domain = k[2] /\ c.selector = k[3]
              /\ BimiFreshness(f)[k].age > 0 =>
                    BimiFreshness(f)[k].evaluated < BimiFreshness(f)[k].windowEnd

\* What is broken about the reports and shows in the views is told.
BimiHygieneTold(f) ==
    LET told == BimiHygiene(f).broken
        E == BimiErrorsIn(f)
    IN  /\ BimiHygiene(f).unparsedDates <= told.malformed
        /\ told.badCounts = 0 => \A e \in E : e.count > 0
        /\ told.unknownTypes = 0 => \A e \in E : e.class \in {"perm", "temp"}
        /\ told.dupTuples = 0 => \A e, g \in E :
              e.asn = g.asn /\ e.element = g.element /\ e.class = g.class /\ e.type = g.type
                => e.n = g.n
        /\ told.missingAttrs = 0 =>
              \A r \in BimiReportsIn(f) : \A s \in AssertionsOf(r) :
                  /\ s.aligned = r.bimi[s.at[1]].aligned
                  /\ s.l = AssertionAt(r, s.at).l /\ s.a = AssertionAt(r, s.at).a

\* The breakdown of the dashboard and the lines of the page tell the same.
BimiPagesAgree(f) ==
    LET rows == PageRows(f)
    IN  \A d \in DOMAIN rows :
            LET class == ReadinessClasses(d, f)
            IN  /\ "unchecked" \in class <=> ~rows[d].checked
                /\ "blocked" \in class <=> /\ "published" \in rows[d].state
                                          /\ FALSE \in rows[d].eligible
                /\ "broken" \in class =>
                      rows[d].validated /\ ~rows[d].valid /\ rows[d].codes # {}
                /\ class \cap {"blocked", "broken", "valid", "declined"} # {} => HasBIMIRecord(d)
                /\ rows[d].agreement = "disagrees" => "mark_mismatch" \in rows[d].codes

\* A message says one thing for each receiver, and says it at the top.
VerdictsBelieved ==
    /\ \A i, k \in DOMAIN verdicts :
          verdicts[i].id = verdicts[k].id /\ verdicts[i].receiver = verdicts[k].receiver => i = k
    /\ \A v \in Range(verdicts) :
          /\ v.at <= now
          /\ \E m \in SeedMail :
                /\ m.headers # << >>
                /\ <<v.receiver, v.result>> \in {<<c.receiver, c.result>> : c \in Range(m.headers[1])}
          /\ v.matched # -1 => CurrentDetail(v.domain, "indicator") # {}
    /\ GroupSum(VerdictSummary(0)) = Len(verdicts)

BimiAccountedFor ==
    /\ \A f \in Scopes :
          /\ EligibleAgrees(f)
          /\ BimiErrorsAddUp(f)
          /\ BimiHygieneTold(f)
          /\ BimiPagesAgree(f)
    /\ VerdictsBelieved

\* What the lookups found, by the rules X20 to X22.
RecordRulesMatchPages ==
    /\ \A d \in BimiDomains :
          LET changes == {c \in RecordChanges(0) : c.domain = d}
              current == {bimiRows[i] : i \in CurrentRow(bimiRows, d, "record")}
          IN  \A c \in changes :
                  /\ <<c.from.content, c.from.error>> # <<c.to.content, c.to.error>>
                  /\ (\A x \in changes : x.at <= c.at) => c.to \in current
    /\ \A row \in {bimiRows[i] : i \in {k \in DOMAIN bimiRows : bimiRows[k].kind = "record"}} :
          row.detail.state = "error" <=> row.error # ""
    /\ {a.domain : a \in BimiBlockedByPolicy}
         = {d \in DOMAIN PageRows(Lately) : "blocked" \in ReadinessClasses(d, Lately)}
    /\ \A d \in BimiDomains :
          LET answered == {bimiRows[i].first : i \in {k \in DOMAIN bimiRows :
                             /\ bimiRows[k].domain = d /\ bimiRows[k].kind = "record"
                             /\ bimiRows[k].detail.state \notin {"absent", "error"}}}
          IN  d \in DOMAIN bimiSelectors <=> answered # {}

\* Errors no document rule is about; the rule each of the others is for.
SilentCodes == {"evidence_unreachable", "evidence_unparseable", "evidence_no_mark",
                "evidence_domain_not_covered", "indicator_format"} \cup MarkCodes
RuleFor(code) ==
    CASE code \in FetchCodes -> BimiIndicatorUnreachable
      [] code \in FatalCodes -> BimiEvidenceInvalid
      [] code = "mark_mismatch" -> BimiIndicatorMismatch
      [] OTHER -> BimiIndicatorInvalid

\* The rules X23 to X27 fire for the documents that the page calls invalid, each
\* for its errors, and are silent only on what they leave out.
DocumentRulesMatchPages ==
    LET fired == UNION {{a.domain : a \in rule} :
                           rule \in {BimiIndicatorUnreachable, BimiIndicatorInvalid,
                                    BimiEvidenceInvalid, BimiIndicatorMismatch}}
        broken == {d \in CheckedDomains : ~BimiValid(d)}
        expiring == {a.domain : a \in BimiEvidenceExpiring}
    IN  /\ fired \subseteq broken
        /\ \A d \in broken :
              \A code \in {x.code : x \in {y \in FindingsOf(d) : y.severity = "error"}} \ SilentCodes :
                  d \in {a.domain : a \in RuleFor(code)}
        /\ {a.domain : a \in BimiIndicatorUnreachable} \cap {a.domain : a \in BimiIndicatorMismatch} = {}
        /\ \A d \in expiring : \A s \in CurrentDetail(d, "evidence") :
              /\ s.fingerprint # ""
              /\ "evidence_expired" \in {x.code : x \in FindingsOf(d)} => s.days = 0

\* The rules X28 and X29 against the error tables, X30 against the seed page.
ReportRulesMatchPages ==
    LET tuple(k) == <<k.domain, <<k.element, k.class, k.type>>>>
        tuples(f) == {tuple(k) : k \in DOMAIN BimiErrors(f)}
        divergence == BimiDivergence(Lately)
        split == {c \in DOMAIN divergence : \E o, u \in DOMAIN divergence[c].errors :
                     divergence[c].errors[o] # divergence[c].errors[u]}
        page == VerdictSummary(0)
        turned == {k \in DOMAIN page : /\ page[k].lastResult # "pass" /\ page[k].passed > 0
                                       /\ page[k].last >= Recent}
        tied == {r.key : r \in {x \in VerdictRegressions(Recent) : x.lastPass = x.at}}
    IN  /\ Pairs(BimiErrorsReported) = tuples(Lately) \ tuples([Unbounded EXCEPT !.to = Recent - 1])
        /\ Pairs(BimiEvaluatorDivergence) = {<<c.domain, c.selector>> : c \in split}
        /\ {c \in DOMAIN divergence : divergence[c].clean # {} /\ divergence[c].failing # {}}
             \subseteq split
        /\ turned \subseteq {r.key : r \in VerdictRegressions(Recent)}
        /\ {r.key : r \in VerdictRegressions(Recent)} \subseteq turned \cup tied
        /\ \A r \in VerdictRegressions(Recent) : r.failures = 0 <=> r.lastPass = r.at

\* X20 to X30 against the pages of BIMI.
BimiRulesMatchPages ==
    /\ RecordRulesMatchPages
    /\ DocumentRulesMatchPages
    /\ ReportRulesMatchPages
    /\ \A i \in DOMAIN BimiFired : \A a, b \in BimiFired[i] :
          a.domain = b.domain /\ a.key = b.key => a.severity = b.severity

-----------------------------------------------------------------------------
(* Properties of all                                                      *)

\* Every view of a filter accounts for exactly the messages, sessions, reported
\* errors or verdicts its page counts: no join counts a row twice, no bucket leaves
\* one out, and what is left out on purpose is told (stats.go:334-353, 585-618, 677-805;
\* stats_sources.go:104-140, 274-367; stats_auth.go:70-136, 215-226, 247-413;
\* stats_tls.go:30-72, 167-201, 218-371, 414-553, 780-837;
\* stats_tls_failures.go:11-17, 77-118, 164-417, 529-660; tlsrpt.go:258-345,
\* 500-510, 584-638; stats_bimi.go:39-70, 427-502; stats_bimi_reports.go:76-118,
\* 132-242, 402-488, 510-608; bimi_verdicts.go:138-175, 306-375).
TrafficAccountedFor == MessagesAccountedFor /\ SessionsAccountedFor /\ BimiAccountedFor

\* What fires is what the pages show for the window of the rule, although the
\* alert rules have queries of their own, and a window compared with the one
\* before shares no report with it (rules.go:160-222, 267-337, 383-409, 430-471;
\* stats.go:97-117; rules_tls.go:84-330; stats_tls_alerts.go:25-290;
\* rules_bimi.go:84-364, 433-500, 549-574; bimi_snapshots.go:58-91;
\* stats_bimi.go:278-327, 380-394; bimi_verdicts.go:200-243).
RulesMatchPages == DmarcRulesMatchPages /\ TlsRulesMatchPages /\ BimiRulesMatchPages
=============================================================================
