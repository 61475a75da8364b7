------------------------------- MODULE BimiRules -------------------------------
(* The alert rules over BIMI, X20 to X30.  They read what the lookups stored    *)
(* and look nothing up themselves.                                             *)
EXTENDS BimiStates, AlertRules

Lately == [Unbounded EXCEPT !.from = Recent]

BimiAlert(rule, d, severity) == Alert(rule, d, "default", severity)

\* X20.
BimiRecordChanged ==
    {BimiAlert("bimi_record_changed", c.domain, "info") : c \in RecordChanges(Recent)}

\* X21: unknown is not blocked.
BimiBlockedByPolicy ==
    LET readiness == BimiReadiness(Lately)
    IN  {Alert("bimi_blocked_by_policy", d, "policy", "warning") :
            d \in {x \in BimiDomains \cap DOMAIN readiness :
                      /\ \E s \in DomainState(x) : s.state = "published"
                      /\ FALSE \in readiness[x].eligible}}

\* X22: nothing in the program ever marks a BIMI selector as expected.
BimiUnexpectedSelector ==
    {BimiAlert("bimi_unexpected_selector", d, "info") :
        d \in {x \in DOMAIN bimiSelectors :
                  /\ bimiSelectors[x].first # 0
                  /\ bimiSelectors[x].first >= now - Setting(Cfg.newSelector, 2)}}

\* bimiValidations: a domain that was never checked is not judged.
CheckedDomains == {d \in BimiDomains : Checked(d)}

\* A domain with a finding of these codes in a document of this kind.
Found(kind, codes) ==
    {d \in CheckedDomains :
        \E s \in CurrentDetail(d, kind) : \E x \in Range(s.findings) : x.code \in codes}

\* X23.
BimiIndicatorUnreachable ==
    {BimiAlert("bimi_indicator_unreachable", d, "warning") :
        d \in Found("indicator", FetchCodes)}

\* X24: only what the profile calls an error, of a logo that arrived.
BimiIndicatorInvalid ==
    {BimiAlert("bimi_indicator_invalid", d, "warning") :
        d \in {x \in CheckedDomains : \E s \in CurrentDetail(x, "indicator") :
                  s.hash # "" /\ \E y \in Range(s.profile) : y.severity = "error"}}

\* A plausible mistake: a document without a date is judged as well.
BimiEvidenceExpiringUndated ==
    {BimiAlert("bimi_evidence_expiring", d, "warning") :
        d \in {x \in CheckedDomains : \E s \in CurrentDetail(x, "evidence") :
                  s.days >= 0 /\ s.days <= Setting(ExpiryDays, 30)}}

\* X25: the days as they were at the last check.
BimiEvidenceExpiring ==
    {BimiAlert("bimi_evidence_expiring", d, "warning") :
        d \in {x \in CheckedDomains : \E s \in CurrentDetail(x, "evidence") :
                  /\ s.notAfter # 0
                  /\ s.days >= 0 /\ s.days <= Setting(ExpiryDays, 30)}}

\* X26.
FatalCodes == {"evidence_expired", "evidence_revoked", "evidence_untrusted",
               "evidence_not_yet_valid", "evidence_mark_hash"}
BimiEvidenceInvalid ==
    {BimiAlert("bimi_evidence_invalid", d, "critical") : d \in Found("evidence", FatalCodes)}

\* X27.
BimiIndicatorMismatch ==
    {BimiAlert("bimi_indicator_mismatch", d, "critical") : d \in {x \in CheckedDomains : Disagrees(x)}}

\* X28: a permanent error lets an evaluator give the domain up.
BimiErrorsReported ==
    {Alert("bimi_errors_reported", k.domain, <<k.element, k.class, k.type>>,
           IF k.class = "perm" THEN "critical" ELSE "info") :
        k \in DOMAIN NewBimiErrorTuples(Recent)}

\* X29.
BimiEvaluatorDivergence ==
    {Alert("bimi_evaluator_divergence", c.domain, c.selector, "warning") :
        c \in {x \in DOMAIN BimiDivergence(Lately) : BimiDivergence(Lately)[x].disagree}}

\* X30.
BimiVerdictRegression ==
    {Alert("bimi_verdict_regression", r.key[2], r.key[1], "warning") :
        r \in VerdictRegressions(Recent)}

\* The BIMI rules as they are registered, after the DMARC rules.
BimiFired ==
    <<BimiRecordChanged, BimiBlockedByPolicy, BimiUnexpectedSelector, BimiIndicatorUnreachable,
      BimiIndicatorInvalid, BimiEvidenceExpiring, BimiEvidenceInvalid, BimiIndicatorMismatch,
      BimiErrorsReported, BimiEvaluatorDivergence, BimiVerdictRegression>>
=============================================================================
