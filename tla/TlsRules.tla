------------------------------- MODULE TlsRules -------------------------------
(* The alert rules over TLS reports, X12 to X19.                                *)
EXTENDS TlsFailures

CONSTANTS TlsCfg   \* the ALERT_TLS_* settings and TLSRPT_REQUIRE_DKIM

\* tlsRecentFilter, and every report that began before it.
TlsRecent == [AllTls EXCEPT !.from = Recent, !.requireDkim = TlsCfg.requireDkim]
TlsEarlier == [AllTls EXCEPT !.to = Recent - 1, !.requireDkim = TlsCfg.requireDkim]

TlsReportDomains == {e.pol.domain : e \in Entries(tlsStored)} \ {""}

\* TLSMXPatternMatches: a wildcard stands for exactly the leftmost label.
MXPatternMatches(pattern, host) ==
    /\ pattern # << >> /\ host # << >>
    /\ IF pattern[1] = "*" /\ Len(pattern) > 1
       THEN Len(host) = Len(pattern) /\ Tail(host) = Tail(pattern)
       ELSE "*" \notin Range(pattern) /\ pattern = host

\* X12: seven days against the seven before.
TlsWeek(d) == [AllTls EXCEPT !.domain = d, !.from = now - 7, !.requireDkim = TlsCfg.requireDkim]

\* A plausible mistake: the window before ends where this one begins.
TlsLastWeekTouching(d) == [TlsWeek(d) EXCEPT !.from = now - 14, !.to = now - 7]

TlsLastWeek(d) == [TlsWeek(d) EXCEPT !.from = now - 14, !.to = now - 8]

TlsRateDrop ==
    LET min == Setting(TlsCfg.minSessions, 100)
        cur(d) == TLSRate(TlsWeek(d))
        prev(d) == TLSRate(TlsLastWeek(d))
        severity(d) == IF 100 * cur(d).success < 90 * cur(d).messages THEN "critical" ELSE "warning"
    IN  {Alert("tls_rate_drop", d, "7d", severity(d)) :
            d \in {x \in TlsReportDomains :
                      /\ cur(x).messages >= min /\ prev(x).messages >= min
                      /\ DropsBy(TlsRateOf(prev(x)), TlsRateOf(cur(x)),
                                 Setting(TlsCfg.rateDrop, 5))}}

\* X13: STARTTLS refused by a host that the same reporter reached with TLS before.
StrippedNow ==
    ObservedBy([x \in {y \in FailuresIn(TlsRecent) : /\ y.det.type = "starttls-not-supported"
                                                     /\ y.det.host # << >>} |->
                   [org |-> x.rep.org, domain |-> x.pol.domain, host |-> x.det.host]])

ReachedBefore(k) ==
    {e \in PoliciesIn(TlsEarlier) :
        /\ Same(e.rep.org, k.org) /\ Same(e.pol.domain, k.domain)
        /\ \E p \in PolicyMXPatterns(e.pol) : MXPatternMatches(p, k.host)}

TlsStarttlsStripped ==
    LET refused(E) == {x \in DetailsOf(E) : x.det.type = "starttls-not-supported"}
    IN  {Alert("tls_starttls_stripped", k.domain, <<k.org, k.host>>, "critical") :
            k \in {x \in DOMAIN StrippedNow :
                      /\ StrippedNow[x].messages >= Setting(TlsCfg.stripMin, 5)
                      /\ Applied(ReachedBefore(x)).success > 0
                      /\ Count(refused(ReachedBefore(x))) = 0}}

\* X14 and X17: any occurrence at all.
Occurrences(types) ==
    ObservedBy([x \in OfTypes(TlsRecent, types) |->
                   [org |-> x.rep.org, domain |-> x.pol.domain, host |-> HostOf(x),
                    type |-> x.det.type]])

TlsCertExpired ==
    {Alert("tls_cert_expired", k.domain, k.host, "critical") :
        k \in DOMAIN Occurrences({"certificate-expired"})}

TlsDaneInvalid ==
    {Alert("tls_dane_invalid", k.domain, <<k.type, k.host>>, "critical") :
        k \in DOMAIN Occurrences({"tlsa-invalid", "dnssec-invalid"})}

\* X15: reporters disagree, or applied something else than what is published.
TlsPolicyInconsistent ==
    {Alert("tls_policy_inconsistent", k[2], <<"divergent", k[1]>>, "warning") :
        k \in TLSPolicyDivergence(TlsRecent)}
      \cup {Alert("tls_policy_inconsistent", r.domain, <<r.kind, r.field>>, "warning") :
               r \in TLSPolicyDrift(TlsRecent)}

\* X16: what failed at the policy host, of a domain's sessions.
PolicyHostErrors ==
    LET sessions == TriedBy([s \in Sessions(TlsRecent) |-> s.domain])
        types == {"sts-policy-fetch-error", "sts-webpki-invalid"}
        failed(d) == Count({x \in OfTypes(TlsRecent, types) : x.pol.domain = d})
    IN  [d \in DOMAIN sessions |-> [failures |-> failed(d), sessions |-> sessions[d].messages]]

TlsPolicyHostError ==
    LET share(e) == /\ e.failures > 0 /\ e.sessions > 0
                    /\ 100 * e.failures > Setting(TlsCfg.hostErrPct, 5) * e.sessions
    IN  {Alert("tls_policy_host_error", d, "policy-host", "critical") :
            d \in {x \in DOMAIN PolicyHostErrors : share(PolicyHostErrors[x])}}

\* X18.
TlsReporterSilent ==
    {Alert("tls_reporter_silent", "", o, "warning") :
        o \in TLSReporterGaps(14, Setting(TlsCfg.gap, 3))}

\* X19: a node that fails now and never did before; its siblings are the nodes
\* the host has ever been reported with.
TlsNewFailingReceiver ==
    LET addressed(X) == {x \in X : Receiving(x) # NoAddress /\ x.det.host # << >>}
        node(x) == <<x.det.host, Receiving(x)>>
        failing == ObservedBy([x \in addressed(FailuresIn(TlsRecent)) |->
                                  <<x.pol.domain, node(x)>>])
        earlier == {node(x) : x \in addressed(FailuresIn(TlsEarlier))}
        nodes(h) == {Receiving(x) : x \in {y \in addressed(DetailsOf(Entries(tlsStored))) :
                                              y.det.host = h}}
    IN  {Alert("tls_new_failing_receiver", k[1], k[2],
               IF Cardinality(nodes(k[2][1])) > 1 THEN "critical" ELSE "warning") :
            k \in {x \in DOMAIN failing : /\ failing[x].messages >= Setting(TlsCfg.newFailing, 10)
                                          /\ x[2] \notin earlier}}

\* The TLS rules as they are registered, after the DMARC rules.
TlsFired ==
    <<TlsRateDrop, TlsStarttlsStripped, TlsCertExpired, TlsPolicyInconsistent,
      TlsPolicyHostError, TlsDaneInvalid, TlsReporterSilent, TlsNewFailingReceiver>>
=============================================================================
