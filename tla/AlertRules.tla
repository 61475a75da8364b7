------------------------------ MODULE AlertRules ------------------------------
(* The DMARC alert rules X1 to X11: what each one finds in the tables.  An      *)
(* alert is its rule, domain, key and severity; the engine that stores and      *)
(* delivers alerts is AlertEngine.                                              *)
EXTENDS DmarcReporters

CONSTANTS Cfg   \* the ALERT_* settings; 0 or less stands for the default

\* Whole days and messages; the clock is far from the epoch, so that the windows of
\* the rules do not reach back to it.
ASSUME RulesAssumption ==
    /\ Cfg.recent \in Int /\ Cfg.newSelector \in Int /\ Cfg.selectorMissing \in Int
    /\ Cfg.gap \in Int /\ Cfg.newSourceMin \in Int /\ Cfg.minWindow \in Int
    /\ Cfg.knownDrop \in Int
    /\ FirstNow > 8
    /\ \A days \in {2, Cfg.recent, Cfg.newSelector} : FirstNow > days + 1

Setting(x, default) == IF x <= 0 THEN default ELSE x

Alert(rule, domain, key, severity) ==
    [rule |-> rule, domain |-> domain, key |-> key, severity |-> severity]

\* Context.Recent, in days.
Recent == now - Setting(Cfg.recent, 2)

ReportDomains == {r.domain : r \in stored}

\* Rows of a domain whose report window begins in [from, to).
Between(d, from, to) ==
    {j \in JoinOf(stored) : j.rep.domain = d /\ j.rep.begin >= from /\ j.rep.begin < to}

\* A pass rate as a fraction; -1 for an empty window.
RateOf(t) == IF t.messages = 0 THEN <<-1, 1>> ELSE <<100 * t.passed, t.messages>>
DashboardRate(t) == IF t.messages = 0 THEN <<0, 1>> ELSE <<100 * t.passed, t.messages>>
DropsBy(a, b, points) == a[1] * b[2] - b[1] * a[2] > points * a[2] * b[2]

-----------------------------------------------------------------------------

\* X1, with GetNewFailingSourcesByDomain.
NewFailingSource ==
    LET of(d, ip) == {j \in JoinOf(stored) : j.rep.domain = d /\ j.row.ip = ip}
        fires(J) == /\ J # {}
                    /\ \A j \in J : j.rep.begin >= now - 2
                    /\ Totals(J).failed > 0
                    /\ Totals(J).messages >= Setting(Cfg.newSourceMin, 1)
        severity(t) == IF t.failed = t.messages /\ t.messages >= 50 THEN "critical" ELSE "warning"
    IN  {Alert("new_failing_source", k[1], k[2], severity(Totals(of(k[1], k[2])))) :
            k \in {x \in ReportDomains \X Addresses : fires(of(x[1], x[2]))}}

\* X2: seven days against the seven before.
ThisWeek(d) == Totals(Between(d, now - 7, now + 1))
LastWeek(d) == Totals(Between(d, now - 14, now - 7))

PassRateDrop ==
    LET drops(d, points) == DropsBy(RateOf(LastWeek(d)), RateOf(ThisWeek(d)), points)
        severity(d) == IF drops(d, 2 * Cfg.passRateDrop) THEN "critical" ELSE "warning"
    IN  {Alert("pass_rate_drop", d, "week", severity(d)) :
            d \in {x \in ReportDomains : /\ ThisWeek(x).messages >= Cfg.minWindow
                                         /\ LastWeek(x).messages >= Cfg.minWindow
                                         /\ drops(x, Cfg.passRateDrop)}}

\* X3: a labelled source against its own baseline.
KnownSourceDegraded ==
    LET totals(ip, from, to) == Totals(Where([Unbounded EXCEPT !.ip = ip, !.from = from, !.to = to]))
        degraded(ip) ==
            LET cur == totals(ip, Recent, 0)
                base == totals(ip, now - 9, Recent - 1)
            IN  /\ cur.messages >= 10
                /\ base.messages >= Cfg.minWindow
                /\ DropsBy(DashboardRate(base), DashboardRate(cur), Cfg.knownDrop)
    IN  {Alert("known_source_degraded", "", ip, "warning") :
            ip \in {x \in LabelledIPs : KnownGood(x) /\ degraded(x)}}

\* X4: first seen lately and not marked as expected.
NewSelector ==
    LET since == now - Setting(Cfg.newSelector, 2)
        row(k) == inventory[k]
    IN  {Alert("new_selector", k[1], k[2], "info") :
            k \in {x \in DOMAIN inventory : /\ row(x).expected # 1
                                            /\ row(x).first # 0
                                            /\ row(x).first >= since}}

\* X5: expected and not seen.
SelectorMissing ==
    LET cutoff == now - Setting(Cfg.selectorMissing, 7)
    IN  {Alert("selector_missing", k[1], k[2], "warning") :
            k \in {x \in DOMAIN inventory : inventory[x].expected = 1 /\ inventory[x].last < cutoff}}

\* X6.
ReporterSilent ==
    {Alert("reporter_silent", "", o, "warning") : o \in ReporterGaps(14, Setting(Cfg.gap, 3))}

Strength(p) == CASE p = "reject" -> 2 [] p = "quarantine" -> 1 [] OTHER -> 0

\* X7: the newest ten entries of the log, of the last two days.
PolicyChanged ==
    LET weaker(e) == \E c \in e.changes :
                        Strength(c[2].tuple.p) < Strength(c[1].tuple.p)
    IN  UNION {{Alert("policy_changed", d, <<e.at, e.diff>>,
                      IF weaker(e) THEN "warning" ELSE "info") :
                    e \in {x \in PolicyChangeLog(d) : x.at >= now - 2}} : d \in ReportDomains}

\* X8: more than one effective tuple lately.
PolicyInconsistent ==
    LET groups(d) == DOMAIN PolicyConsistency([Unbounded EXCEPT !.domain = d, !.from = Recent])
    IN  {Alert("policy_inconsistent", d, groups(d), "warning") :
            d \in {x \in ReportDomains : Cardinality(groups(x)) > 1}}

\* X9.
DNSErrorSpike ==
    LET rates == DNSErrorRate([Unbounded EXCEPT !.from = Recent])
    IN  {Alert("dns_error_spike", "", o, "warning") :
            o \in {x \in DOMAIN rates : /\ rates[x].results >= 20
                                        /\ 100 * rates[x].errors > Cfg.dnsErrorPct * rates[x].results}}

\* CountOverrideMessages: a row counts once for every reason it carries.
OverrideMessages(d, from, to) == FannedMessages(Overrides(Between(d, from, to)))

\* cur > factor * mean, where mean is base / 7 * days, or one message without base.
Spiked(cur, base, factor, days) ==
    IF base = 0 THEN cur > factor ELSE 7 * cur > factor * base * days

\* X10: the recent window against the seven days before it.
OverrideSpike ==
    LET days == now - Recent
        cur(d) == OverrideMessages(d, Recent, now + 1)
        base(d) == OverrideMessages(d, now - 7 - days, Recent)
    IN  {Alert("override_spike", d, now, "warning") :
            d \in {x \in ReportDomains :
                      /\ cur(x) >= 10
                      /\ Spiked(cur(x), base(x), Setting(Cfg.overrideFactor, 3), days)}}

\* X11: only where the SPF record of the domain has been resolved.
SpoofSpike ==
    LET days == now - Recent
        abs == Setting(Cfg.spoofAbs, 50)
        cur(d) == SpoofVolume([Unbounded EXCEPT !.domain = d, !.from = Recent])
        base(d) == SpoofVolume([Unbounded EXCEPT !.domain = d, !.from = Recent - 7, !.to = Recent - 1])
        judged(d) == cur(d).resolved /\ cur(d).unresolved = 0 /\ cur(d).notInSPF > 0
        spiked(d) == Spiked(cur(d).notInSPF, base(d).notInSPF, Setting(Cfg.spoofFactor, 3), days)
    IN  {Alert("spoof_spike", d, now, IF cur(d).notInSPF > abs THEN "critical" ELSE "warning") :
            d \in {x \in ReportDomains : judged(x) /\ (spiked(x) \/ cur(x).notInSPF > abs)}}

\* EvaluateWith: what each of the registered rules finds now, X1 to X11.
Fired ==
    <<NewFailingSource, PassRateDrop, KnownSourceDegraded, NewSelector, SelectorMissing,
      ReporterSilent, PolicyChanged, PolicyInconsistent, DNSErrorSpike, OverrideSpike,
      SpoofSpike>>
=============================================================================
