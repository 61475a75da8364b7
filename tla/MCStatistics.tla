----------------------------- MODULE MCStatistics -----------------------------
(* Six reports of three reporters about two domains, over a fortnight; one      *)
(* begins after the days on which reports are imported.                         *)
EXTENDS Statistics

Tuple(p, sp, adkim, pct) ==
    [p |-> p, sp |-> sp, adkim |-> adkim, aspf |-> "r", pct |-> pct, np |-> ""]
Row(n, ip, count, disp, dkim, spf) ==
    [n |-> n, ip |-> ip, count |-> count, disp |-> disp, dkim |-> dkim, spf |-> spf,
     hfrom |-> "a", efrom |-> "a", eto |-> "", over |-> << >>, sigs |-> << >>, spfs |-> << >>]
Sgn(d, s, r) == [domain |-> d, selector |-> s, result |-> r]
SpfR(r, scope) == [result |-> r, scope |-> scope, domain |-> "a"]
Report(id, org, d, begin, t, rows) ==
    [id |-> id, org |-> org, domain |-> d, begin |-> begin, hours |-> 24, tuple |-> t,
     dated |-> TRUE, delay |-> id \div 2, version |-> "1.0", ns |-> "", rows |-> rows,
     hasBimi |-> FALSE, malformed |-> 0, bimi |-> << >>]
Err(element, class, type, raw) == [element |-> element, class |-> class, type |-> type, raw |-> raw]
Assertion(selector, l, a, evidence, errors) ==
    [selector |-> selector, l |-> l, a |-> a, evidence |-> evidence, errors |-> errors]
Bimi(aligned, assertions) ==
    [aligned |-> aligned, assertion |-> aligned, assertions |-> assertions]
Told(r, bimi) == [r EXCEPT !.hasBimi = TRUE, !.bimi = bimi]

MCBimi2 ==
    <<Bimi("a", <<Assertion("default", "L1", "E1", 10, << >>),
                  Assertion("s3", "L2", "absent", 0, << >>)>>)>>
MCBimi3 ==
    <<Bimi("a", <<Assertion("default", "L1", "E1", 12,
          <<Err("evidence", "perm", "policy", <<4>>), Err("evidence", "perm", "policy", <<2>>),
            Err("indicator", "temp", "validation", << >>)>>),
        Assertion("s3", "L2", "absent", -1, << >>)>>),
      Bimi("sub.a", <<Assertion("s2", "unpublished", "absent", 0,
          <<Err("undefined", "absent", "", <<1>>)>>)>>)>>
MCBimi4 ==
    <<[Bimi("absent", <<Assertion("absent", "L3", "", 0,
          <<Err("assertion", "perm", "new", <<3>>)>>)>>) EXCEPT !.assertion = "b"]>>
MCBimi5 ==
    <<Bimi("a", <<Assertion("default", "L1", "E1", 4,
          <<Err("evidence", "perm", "policy", <<3>>)>>)>>),
      Bimi("a", <<Assertion("s4", "", "", 0, << >>)>>)>>

MCPool ==
    {Report(1, "o1", "a", 4, Tuple("reject", "absent", "", 50),
        {[Row(1, "i1", 20, "none", TRUE, TRUE) EXCEPT
             !.sigs = <<Sgn("a", "s1", "pass"), Sgn("a", "s2", "pass")>>,
             !.spfs = <<SpfR("pass", "mfrom")>>]}),
     Told(Report(2, "o2", "a", 12, Tuple("reject", "reject", "r", 100),
        {[Row(1, "i1", 12, "none", FALSE, FALSE) EXCEPT
             !.hfrom = "sub.a", !.efrom = "<>", !.eto = "z",
             !.over = <<"forwarded", "">>,
             !.sigs = <<Sgn("sub.a", "s1", "pass"), Sgn("b", "s1", "pass")>>,
             !.spfs = <<SpfR("", "")>>],
         [Row(2, "i2", 60, "quarantine", FALSE, FALSE) EXCEPT
             !.efrom = "b", !.eto = "<>",
             !.spfs = <<SpfR("temperror", "helo"), SpfR("pass", "")>>],
         [Row(3, "i3", 0, "none", FALSE, FALSE) EXCEPT !.sigs = <<Sgn("c", "s1", "pass")>>]}), MCBimi2),
     Told(Report(3, "o1", "a", 13, Tuple("quarantine", "absent", "s", 50),
        {Row(1, "i2", 3, "none", FALSE, TRUE),
         [Row(2, "i1", 9, "reject", TRUE, FALSE) EXCEPT !.efrom = "",
             !.over = <<"sampled_out">>, !.sigs = <<Sgn("a", "s2", "temperror")>>]}), MCBimi3),
     [Told(Report(4, "o2", "b", 13, Tuple("reject", "none", "r", 1000),
        {[Row(1, "i2", 25, "none", FALSE, TRUE) EXCEPT !.hfrom = "b", !.eto = "y",
             !.sigs = <<Sgn("", "", "none")>>]}), MCBimi4) EXCEPT !.hours = 48, !.dated = FALSE],
     [Told(Report(5, "o3", "a", 9, Tuple("", "", "r", 1000), {}), MCBimi5) EXCEPT
         !.version = "", !.ns = "x", !.malformed = 1],
     Report(6, "o2", "a", 15, Tuple("reject", "reject", "r", 100),
        {[Row(1, "i1", 7, "none", FALSE, TRUE) EXCEPT !.over = <<"forwarded">>],
         Row(2, "i3", 9, "reject", FALSE, FALSE)})}

Filter(back, until) ==
    [envelopeFrom |-> AnyValue, domain |-> AnyValue, ip |-> AnyValue,
     back |-> back, until |-> until]
MCFilters ==
    {Filter(0, 0), Filter(2, 0), [Filter(6, 1) EXCEPT !.domain = "a"],
     [Filter(5, 0) EXCEPT !.ip = "i1"], [Filter(0, 2) EXCEPT !.envelopeFrom = "b"]}

MCLabelled == {"i1"}
MCMarked == {<<"a", "s1">>, <<"b", "s1">>}
MCSpfOf == [d \in {"a", "b"} |-> IF d = "a" THEN {"i1"} ELSE {}]
MCSubdomains == {<<"sub.a", "a">>}
MCOrgDomainOf == [d \in {"a", "sub.a", "b", "c"} |-> IF d \in {"b", "c"} THEN d ELSE "a"]
MCThresholds == [healthy |-> 90, forwarder |-> 60, broken |-> 60, spoof |-> 95, spoofMsgs |-> 5]
MCCfg == [recent |-> 0, newSourceMin |-> 4, passRateDrop |-> 10, minWindow |-> 15,
          knownDrop |-> 20, newSelector |-> 0, selectorMissing |-> 0, gap |-> 0,
          dnsErrorPct |-> 30, overrideFactor |-> 0, spoofFactor |-> 0, spoofAbs |-> 0]

TlsPolicy(n, d, type, string, mode, maxAge, success, failure, fails) ==
    [n |-> n, domain |-> d, type |-> type, mxHost |-> {<<"*", "m", "a">>}, string |-> string,
     lines |-> [mode |-> mode, maxAge |-> maxAge, mx |-> {<<"*", "m", "a">>, <<"x", "a">>}],
     success |-> success, failure |-> failure, fails |-> fails]
Fail(n, type, host, ip, count) ==
    [n |-> n, type |-> type, host |-> host, helo |-> host, ip |-> ip, sender |-> "v4",
     count |-> count, reason |-> ""]
TlsReport(id, org, begin, transport, dkim, policies) ==
    [id |-> id, org |-> org, begin |-> begin, hours |-> 24, transport |-> transport,
     dkim |-> dkim, dated |-> TRUE, delay |-> id \div 2, policies |-> policies]

Mx == <<"x", "m", "a">>
MCTlsPool ==
    {TlsReport(1, "O1", 6, "smtp", "valid",
        {[TlsPolicy(1, "a", "sts", "s1", "testing", 7, 110, 10,
            {[Fail(1, "sts-policy-fetch-error", << >>, "", 4) EXCEPT !.sender = "junk"],
             Fail(2, "", Mx, "v6", 8)}) EXCEPT !.mxHost = {}]}),
     [TlsReport(2, "o3", 9, "smtp", "none",
        {TlsPolicy(1, "a", "", "", "", 0, 0, 0, {})}) EXCEPT
            !.hours = 48, !.dated = FALSE],
     TlsReport(3, "o1", 12, "smtp", "valid",
        {TlsPolicy(1, "a", "sts", "s1", "testing", 9, 30, 40,
            {Fail(1, "starttls-not-supported", Mx, "v4", 12),
             Fail(2, "sts-policy-fetch-error", << >>, "", 20),
             [Fail(3, "Certificate-Expired", Mx, "long", 3) EXCEPT
                 !.helo = <<"h">>, !.reason = "r"]}),
         TlsPolicy(2, "a", "tlsa", "t1", "", 0, 60, 20, {})}),
     TlsReport(4, "o2", 13, "upload", "none",
        {TlsPolicy(1, "a", "sts", "s2", "enforce", 9, 60, 5,
            {[Fail(1, "tlsa-invalid", <<"x", "a">>, "v6", 11) EXCEPT !.sender = "other"],
             Fail(2, "certificate-expired", Mx, "v4", 1)}),
         [TlsPolicy(2, "b", "tlsa", "t2", "", 0, 9, 1,
            {Fail(1, "new-type", Mx, "v4", 1)}) EXCEPT !.mxHost = {<<"y", "b">>}]}),
     TlsReport(5, "o1", 13, "smtp", "valid",
        {TlsPolicy(1, "a", "sts", "s1", "testing", 9, 3, 9,
            {Fail(1, "starttls-not-supported", Mx, "v4", 9),
             Fail(2, "certificate-expired", Mx, "v4", 2)})}),
     TlsReport(6, "o3", 15, "smtp", "valid",
        {TlsPolicy(1, "a", "sts", "s2", "enforce", 9, 50, 8,
            {Fail(1, "starttls-not-supported", Mx, "other", 8)})})}

MCCanonical == [ip \in {"v4", "other", "v6", "long"} |-> IF ip = "long" THEN "v6" ELSE ip]
MCNetwork == [ip \in {"v4", "other", "v6"} |-> IF ip = "v6" THEN "n6" ELSE "n4"]
MCFamily == [ip \in {"v4", "other", "v6"} |-> IF ip = "v6" THEN 6 ELSE 4]
MCWhois == [ip \in {"v4", "other", "v6"} |-> IF ip = "other" THEN "w" ELSE "(not enriched)"]
MCRegistered ==
    [t \in {"starttls-not-supported", "certificate-expired", "sts-policy-fetch-error",
             "tlsa-invalid"} |->
        CASE t = "tlsa-invalid" -> "dane" [] t = "sts-policy-fetch-error" -> "mta-sts"
          [] OTHER -> "negotiation"]
MCLower ==
    [x \in {"Certificate-Expired", "O1"} |-> IF x = "O1" THEN "o1" ELSE "certificate-expired"]
MCPublishable ==
    {[sts |-> [mode |-> "testing", maxAge |-> 9, mx |-> {<<"*", "m", "a">>}], tlsa |-> << >>],
     [sts |-> [mode |-> "", maxAge |-> 0, mx |-> {}], tlsa |-> [h \in {<<"y", "b">>} |-> "t3"]]}
MCTlsCfg == [requireDkim |-> TRUE, rateDrop |-> 0, minSessions |-> 60, stripMin |-> 0,
             hostErrPct |-> 0, gap |-> 0, newFailing |-> 0]

TlsFilter(d, back, until) ==
    [domain |-> d, requireDkim |-> FALSE, host |-> AnyValue, back |-> back, until |-> until]
MCTlsFilters ==
    {TlsFilter(AnyValue, 0, 0), [TlsFilter(AnyValue, 2, 0) EXCEPT !.requireDkim = TRUE],
     [TlsFilter("a", 9, 1) EXCEPT !.requireDkim = TRUE],
     [TlsFilter(AnyValue, 0, 0) EXCEPT !.host = Mx]}

MCLookedUp ==
    [r \in {x \in MCPool : x.id \in {2, 3, 5}} |-> IF r.id = 3 THEN 3 ELSE 1]
NoLogo == [hash |-> "", profile |-> << >>, findings |-> << >>]
NoEvidence == [fingerprint |-> "", notAfter |-> 0, mark |-> "", findings |-> << >>]
Logo(hash, profile) == [NoLogo EXCEPT !.hash = hash, !.profile = profile]
Document(fingerprint, notAfter, mark, findings) ==
    [fingerprint |-> fingerprint, notAfter |-> notAfter, mark |-> mark, findings |-> findings]
Lookup(state, content, l, a, logo, evidence) ==
    [state |-> state, content |-> content, error |-> "", answered |-> TRUE, validates |-> TRUE,
     l |-> l, a |-> a, logo |-> logo, evidence |-> evidence]
Nothing(state, error) ==
    [Lookup(state, "", "", "", NoLogo, NoEvidence) EXCEPT !.error = error, !.answered = FALSE]

\* The certificates of r2 end at noon of day 13 and of day 12.
MCBimiLookups ==
    {Lookup("published", "r1", "L1", "", Logo("h1", << >>), NoEvidence),
     [Lookup("published", "r1", "L1", "", NoLogo, NoEvidence) EXCEPT !.validates = FALSE],
     Lookup("published", "r2", "L1", "E1", Logo("h1", << >>), Document("f1", 324, "h1", << >>)),
     Lookup("published", "r2", "L1", "E1", Logo("h2", <<Finding("indicator_title", "error")>>),
            Document("f3", 300, "h1", << >>)),
     Lookup("published", "r3", "L2", "E2",
            [NoLogo EXCEPT !.findings = <<Finding("indicator_unreachable", "error")>>],
            Document("f2", 999, "h2", <<Finding("evidence_untrusted", "error"),
                                      Finding("evidence_mark_title", "error")>>)),
     Lookup("published", "r4", "L1", "E3", Logo("h1", << >>),
            [NoEvidence EXCEPT !.findings = <<Finding("evidence_unreachable", "error")>>]),
     Lookup("declined", "r5", "", "", NoLogo, NoEvidence),
     Lookup("invalid", "r6", "", "", NoLogo, NoEvidence),
     Nothing("absent", ""), Nothing("error", "e")}

Claim(receiver, d, result, hash) ==
    [receiver |-> receiver, domain |-> d, result |-> result, hash |-> hash]
Mail(id, server, date, headers) ==
    [id |-> id, server |-> server, date |-> date, from |-> "b", headers |-> headers]
MCSeedMail ==
    {Mail("m1", 12, 0, <<<<Claim("g", "a", "pass", "h1")>>, <<Claim("x", "a", "fail", "")>>>>),
     Mail("m2", 12, 0, <<<<Claim("g", "a", "fail", "h3"), Claim("g", "b", "pass", "")>>>>),
     Mail("", 0, 99, <<<<Claim("g", "a", "skipped", ""), Claim("g", "", "none", "")>>>>),
     Mail("m4", 0, 11, <<<<Claim("g", "a", "declined", "h1")>>>>)}
=============================================================================
