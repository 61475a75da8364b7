----------------------------- MODULE BimiReports -----------------------------
(* The <bimi> element of aggregate reports: what an import stores of it, what   *)
(* it counts against the report, and B10 to B20.  An attribute that was not     *)
(* given is "absent"; an error count is << >> when it is no number.             *)
EXTENDS DmarcPolicy

\* What comes as a list in the document: numbered from 1.
Numbered(s) == Len(s) \in Nat /\ s = [i \in 1 .. Len(s) |-> s[i]]

\* An error count that is a number is an integer, and so are dates and durations.
ASSUME BimiRowsAssumption ==
    \A r \in Pool :
        /\ r.malformed \in Nat /\ r.hours \in Nat /\ r.hasBimi \in BOOLEAN
        /\ Numbered(r.bimi)
        /\ \A i \in DOMAIN r.bimi :
              /\ Numbered(r.bimi[i].assertions)
              /\ \A k \in DOMAIN r.bimi[i].assertions :
                    LET asn == r.bimi[i].assertions[k]
                    IN  /\ asn.evidence \in Int
                        /\ Numbered(asn.errors)
                        /\ \A n \in DOMAIN asn.errors :
                              asn.errors[n].raw # << >> => asn.errors[n].raw[1] \in Int

-----------------------------------------------------------------------------
(* What an import stores                                                   *)

Given(x) == IF x = "absent" THEN "" ELSE x
SelectorOf(asn) == IF Given(asn.selector) = "" THEN "default" ELSE asn.selector

\* The columns of the report that the queries join to its assertions.
ReportRow(r) == [id |-> r.id, org |-> r.org, begin |-> r.begin, hours |-> r.hours]

\* Where the assertions of a report are, and the errors of them.
AssertionPlaces(r) == UNION {{<<i, k>> : k \in DOMAIN r.bimi[i].assertions} : i \in DOMAIN r.bimi}
AssertionAt(r, p) == r.bimi[p[1]].assertions[p[2]]
ErrorPlaces(r) ==
    UNION {{<<p, n>> : n \in DOMAIN AssertionAt(r, p).errors} : p \in AssertionPlaces(r)}
ErrorAt(r, q) == AssertionAt(r, q[1]).errors[q[2]]

\* insertBIMI: one row per <assertion>, with or without errors, at its place.
AssertionsOf(r) ==
    {[rep |-> ReportRow(r), at |-> p, aligned |-> Given(r.bimi[p[1]].aligned),
      selector |-> SelectorOf(AssertionAt(r, p)), l |-> Given(AssertionAt(r, p).l),
      a |-> Given(AssertionAt(r, p).a), evidence |-> AssertionAt(r, p).evidence,
      errors |-> AssertionAt(r, p).errors] : p \in AssertionPlaces(r)}

NoNumber(e) == e.raw = << >>
BadCount(e) == NoNumber(e) \/ e.raw[1] <= 0
StoredCount(e) == IF BadCount(e) THEN 0 ELSE e.raw[1]

ErrorsOf(A) == UNION {{[asn |-> s, n |-> i, element |-> s.errors[i].element,
                        class |-> Given(s.errors[i].class), type |-> s.errors[i].type,
                        count |-> StoredCount(s.errors[i])] : i \in DOMAIN s.errors} : s \in A}

\* The date of the evaluation: 0 without one, -1 when it cannot be read.
DateUnread(s) == s.evidence = -1
EvaluatedOn(s) == IF DateUnread(s) THEN 0 ELSE s.evidence

-----------------------------------------------------------------------------
(* normalizeBIMI: what counts against the report                           *)

ErrorElements == {"assertion", "evidence", "indicator", "undefined"}
TypesOf(element) ==
    CASE element = "assertion" -> {"retrieval", "parsing"}
      [] element = "evidence" -> {"retrieval", "parsing", "validation", "expired", "revoked", "policy"}
      [] element = "indicator" -> {"retrieval", "parsing", "validation"}
      [] OTHER -> {}

\* How often something comes again in a sequence of keys.
Repeats(s) == Len(s) - Cardinality(Range(s))

Unknowns(e) ==
    Cardinality({x \in {"element", "class", "type"} :
        CASE x = "element" -> e.element \notin ErrorElements
          [] x = "class" -> e.class \notin {"temp", "perm"}
          [] x = "type" -> e.element \in ErrorElements /\ e.type \notin {""} \cup TypesOf(e.element)})

Absent(rec, fields) == Cardinality({x \in fields : rec[x] = "absent"})

BimiHygieneOf(r) ==
    LET domains == DOMAIN r.bimi
        places == AssertionPlaces(r)
        errors == ErrorPlaces(r)
        configs(d) == [k \in DOMAIN d.assertions |->
                          <<SelectorOf(d.assertions[k]), Given(d.assertions[k].l),
                            Given(d.assertions[k].a)>>]
        tuples(asn) == [n \in DOMAIN asn.errors |->
                           <<asn.errors[n].element, Given(asn.errors[n].class), asn.errors[n].type>>]
    IN  [dupTuples |->
             Repeats([i \in domains |-> <<Given(r.bimi[i].aligned), Given(r.bimi[i].assertion)>>])
               + SumOf([i \in domains |-> Repeats(configs(r.bimi[i]))])
               + SumOf([p \in places |-> Repeats(tuples(AssertionAt(r, p)))]),
         badCounts |-> Cardinality({q \in errors : BadCount(ErrorAt(r, q))}),
         unknownTypes |-> SumOf([q \in errors |-> Unknowns(ErrorAt(r, q))]),
         missingAttrs |->
             SumOf([i \in domains |-> Absent(r.bimi[i], {"aligned", "assertion"})])
               + SumOf([p \in places |-> Absent(AssertionAt(r, p), {"selector", "l", "a"})])
               + SumOf([q \in errors |-> Absent(ErrorAt(r, q), {"class"})]),
         malformed |-> r.malformed + Cardinality({p \in places : DateUnread(AssertionAt(r, p))})]

-----------------------------------------------------------------------------
(* bimiWhere: the element belongs to the report, so a filter on its rows is    *)
(* left out.                                                                   *)

BimiReportsIn(f) == {r \in stored : f.domain \in {AnyValue, r.domain} /\ InWindow(r, f)}
AssertionRows == [r \in Pool |-> AssertionsOf(r)]
AssertionsIn(f) == UNION {AssertionRows[r] : r \in BimiReportsIn(f)}
BimiErrorsIn(f) == ErrorsOf(AssertionsIn(f))

Occurring(E) == SumOf([e \in E |-> e.count])

\* Reports, first and last day of a set of elements of reports.
SeenIn(R) == [reports |-> Cardinality({r.id : r \in R}),
              first |-> Least({r.begin : r \in R}), last |-> Greatest({r.begin : r \in R})]

-----------------------------------------------------------------------------
(* B10, B11                                                                *)

\* BIMIEligible: core specification 7.1, steps 7 to 9, on the published tuple.
Blockers(t) ==
    {x \in {"p", "sp", "pct"} :
        CASE x = "p" -> t.p \notin {"quarantine", "reject"}
          [] x = "sp" -> t.sp = "none"
          [] x = "pct" -> t.p = "quarantine" /\ t.pct \notin {NoPct, 100}}
BimiEligible(t) == Blockers(t) = {}

\* GetBIMIReadiness by domain, for one of the tuples that may come first.
BimiReadiness(f) ==
    LET J == Where(f)
        of(d) == {j \in J : j.rep.domain = d}
    IN  [d \in {j.rep.domain : j \in J} |->
            [tuples |-> Leading(of(d)), messages |-> Messages(of(d)),
             eligible |-> {BimiEligible(t) : t \in Leading(of(d))}]]

\* A plausible mistake: pct is constrained for every policy.
EligibleRowAtAnyPct(j) ==
    /\ j.row.dkim \/ j.row.spf
    /\ j.rep.tuple.p \in {"quarantine", "reject"}
    /\ j.rep.tuple.pct \in {NoPct, 100}
    /\ j.rep.tuple.sp # "none"

\* bimiEligibleSQL: the same precondition asked of each row.
EligibleRow(j) ==
    /\ j.row.dkim \/ j.row.spf
    /\ j.rep.tuple.p \in {"quarantine", "reject"}
    /\ j.rep.tuple.p = "reject" \/ j.rep.tuple.pct \in {NoPct, 100}
    /\ j.rep.tuple.sp # "none"

BimiEligibleVolume(f) ==
    LET line(J) == [eligible |-> Messages({j \in J : EligibleRow(j)}),
                    passed |-> Messages(Passing(J)), total |-> Messages(J)]
        J == Where(f)
        domains == [d \in {j.rep.domain : j \in J} |-> line({j \in J : j.rep.domain = d})]
        sum(x) == SumOf([d \in DOMAIN domains |-> domains[d][x]])
    IN  [domains |-> domains,
         eligible |-> sum("eligible"), passed |-> sum("passed"), total |-> sum("total")]

-----------------------------------------------------------------------------
(* B12 to B17                                                              *)

BimiErrorStats(E) ==
    LET key == [e \in E |-> [org |-> e.asn.rep.org, domain |-> e.asn.aligned,
                             selector |-> e.asn.selector, element |-> e.element,
                             class |-> e.class, type |-> e.type]]
        of(k) == {e \in E : key[e] = k}
    IN  [k \in Range(key) |-> [count |-> Occurring(of(k)),
                               seen |-> SeenIn({e.asn.rep : e \in of(k)})]]

BimiErrors(f) == BimiErrorStats(BimiErrorsIn(f))

\* GetBIMIPolicyRejections: the document validated and was declined all the same.
BimiPolicyRejections(f) ==
    BimiErrorStats({e \in BimiErrorsIn(f) : e.element = "evidence" /\ e.type = "policy"})

BimiPermanentShare(f) ==
    LET E == BimiErrorsIn(f)
        of(c, X) == Occurring({e \in X : e.class = c})
        split(key) == [k \in Range(key) |->
                          LET X == {e \in E : key[e] = k}
                          IN  [total |-> Occurring(X), permanent |-> of("perm", X)]]
    IN  [total |-> Occurring(E), permanent |-> of("perm", E), temporary |-> of("temp", E),
         unknown |-> Occurring(E) - of("perm", E) - of("temp", E),
         byOrg |-> split([e \in E |-> e.asn.rep.org]),
         byElement |-> split([e \in E |-> e.element])]

Config(s) == [domain |-> s.aligned, selector |-> s.selector, l |-> s.l, a |-> s.a]

BimiReportedConfigs(f) ==
    LET A == AssertionsIn(f)
        key(s) == <<s.rep.org, Config(s)>>
    IN  [k \in {key(s) : s \in A} |-> SeenIn({s.rep : s \in {x \in A : key(x) = k}})]

\* GetBIMIEvidenceFreshness: the age at the end of the report's own window.
BimiFreshness(f) ==
    LET A == {s \in AssertionsIn(f) : EvaluatedOn(s) > 0}
        key(s) == <<s.rep.org, s.aligned, s.selector>>
        of(k) == {s \in A : key(s) = k}
        evaluated(k) == Greatest({EvaluatedOn(s) : s \in of(k)})
        windowEnd(k) == Greatest({s.rep.begin + s.rep.hours \div 24 : s \in of(k)})
    IN  [k \in {key(s) : s \in A} |->
            [evaluated |-> evaluated(k), windowEnd |-> windowEnd(k),
             age |-> IF windowEnd(k) > evaluated(k) THEN windowEnd(k) - evaluated(k) ELSE 0]]

\* GetBIMIDivergence: what each evaluator said of one configuration.
BimiDivergence(f) ==
    LET A == AssertionsIn(f)
        of(c, o) == ErrorsOf({s \in A : Config(s) = c /\ s.rep.org = o})
        orgs(c) == {s.rep.org : s \in {x \in A : Config(x) = c}}
        errors(c, o) == {<<e.element, e.class, e.type>> : e \in of(c, o)}
    IN  [c \in {Config(s) : s \in A} |->
            [errors |-> [o \in orgs(c) |-> errors(c, o)],
             count |-> [o \in orgs(c) |-> Occurring(of(c, o))],
             clean |-> {o \in orgs(c) : errors(c, o) = {}},
             failing |-> {o \in orgs(c) : errors(c, o) # {}},
             disagree |-> Cardinality({errors(c, o) : o \in orgs(c)}) > 1]]

-----------------------------------------------------------------------------
(* B18 to B20, and what X28 asks                                           *)

\* GetBIMICoverage, over reports that have rows.
BimiCoverage(f) ==
    LET J == Where(f)
        with == {j \in J : j.rep.hasBimi}
        reps(X) == Cardinality({j.rep.id : j \in X})
        orgs(X) == {j.rep.org : j \in X}
    IN  [covered |-> Messages(with), total |-> Messages(J), orgs |-> orgs(with),
         reporters |-> Cardinality(orgs(J)), reportsWith |-> reps(with), reports |-> reps(J)]

HygieneRows == [r \in Pool |-> BimiHygieneOf(r)]

BimiHygiene(f) ==
    LET R == BimiReportsIn(f)
        sum(x) == SumOf([r \in R |-> HygieneRows[r][x]])
        fields == {"dupTuples", "badCounts", "unknownTypes", "missingAttrs", "malformed"}
    IN  [reports |-> Cardinality(R), withBimi |-> Cardinality({r \in R : r.hasBimi}),
         broken |-> [x \in fields |-> sum(x)],
         affected |-> Cardinality({r \in R : \E x \in fields : HygieneRows[r][x] > 0}),
         assertions |-> Cardinality(AssertionsIn(f)), errors |-> Cardinality(BimiErrorsIn(f)),
         unparsedDates |-> Cardinality({s \in AssertionsIn(f) : DateUnread(s)})]

\* GetBIMIImpressions; the errors may outnumber the messages.
BimiImpressions(f) ==
    LET eligible == BimiEligibleVolume(f).eligible
        errors == Occurring(BimiErrorsIn(f))
    IN  [eligible |-> eligible, errors |-> errors,
         shown |-> IF errors > eligible THEN 0 ELSE eligible - errors,
         over100 |-> eligible > 0 /\ errors > eligible]

\* ListNewBIMIErrorTuples: first seen anywhere in the reports since then.
NewBimiErrorTuples(since) ==
    LET E == BimiErrorsIn(Unbounded)
        key(e) == [domain |-> e.asn.aligned, element |-> e.element, class |-> e.class, type |-> e.type]
        of(k) == {e \in E : key(e) = k}
        first(k) == Least({e.asn.rep.begin : e \in of(k)})
    IN  [k \in {x \in {key(e) : e \in E} : first(x) >= since} |->
            [count |-> Occurring(of(k)), orgs |-> {e.asn.rep.org : e \in of(k)}]]
=============================================================================
