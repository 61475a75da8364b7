------------------------------ MODULE BimiStates ------------------------------
(* What the BIMI lookup of a domain stores, what the pages say of it, and the   *)
(* verdicts that receivers stamped on seed mail.  The one selector is "default": *)
(* what enters the inventory was probed, and what is probed beside "default" is *)
(* what is in the inventory.  Validity is in hours, day n begins at hour 24 * n. *)
EXTENDS BimiReports, SequencesExt

CONSTANTS
    BimiLookups, \* what a lookup may end with, the documents it leads to included
    ExpiryDays,  \* ALERT_BIMI_EXPIRY_DAYS
    SeedMail     \* the messages that may reach the seed mailbox

\* A seed message has headers, each a list of claims, and times.
ASSUME SeedMailAssumption ==
    \A m \in SeedMail :
        /\ m.server \in Int /\ m.date \in Int
        /\ Numbered(m.headers) /\ \A i \in DOMAIN m.headers : Numbered(m.headers[i])

\* The errors a check may find with a logo, with its profile, and with an evidence
\* document; everything else it finds is a warning or a note.
FetchCodes == {"indicator_unreachable", "indicator_tls"}
ProfileCodes ==
    {"indicator_not_xml", "indicator_doctype", "indicator_depth", "indicator_root",
     "indicator_namespace", "indicator_version", "indicator_base_profile", "indicator_root_xy",
     "indicator_title", "indicator_desc_empty", "indicator_element", "indicator_attribute",
     "indicator_event_attribute", "indicator_external_reference"}
MarkCodes ==
    {"evidence_mark_not_xml", "evidence_mark_doctype", "evidence_mark_depth",
     "evidence_mark_root", "evidence_mark_namespace", "evidence_mark_version",
     "evidence_mark_base_profile", "evidence_mark_root_xy", "evidence_mark_title",
     "evidence_mark_desc_empty", "evidence_mark_element", "evidence_mark_attribute",
     "evidence_mark_event_attribute", "evidence_mark_external_reference"}
EvidenceCodes ==
    {"evidence_unreachable", "evidence_unparseable", "evidence_not_yet_valid",
     "evidence_untrusted", "evidence_domain_not_covered", "evidence_no_mark",
     "evidence_mark_hash", "evidence_revoked"} \cup MarkCodes

\* A list of findings in which these codes, and only these, are errors.
ErrorsAre(findings, codes) ==
    /\ Numbered(findings)
    /\ \A x \in Range(findings) : x.severity = "error" <=> x.code \in codes

\* A lookup fails, finds nothing or has a text; a logo that was not fetched has no
\* hash and no profile; a certificate has a fingerprint.  What is found of the time
\* of a certificate is found at each check (TimeFindings).
ASSUME LookupsAssumption ==
    \A x \in BimiLookups :
        /\ x.state = "error" <=> x.error # ""
        /\ x.answered <=> x.state \notin {"absent", "error"}
        /\ x.answered <=> x.content # ""
        /\ ErrorsAre(x.logo.findings, FetchCodes \cup {"indicator_format"})
        /\ ErrorsAre(x.logo.profile, ProfileCodes)
        /\ \A y \in Range(x.logo.profile) : y.code \notin FetchCodes
        /\ (\E y \in Range(x.logo.findings) : y.code \in FetchCodes) => x.logo.hash = ""
        /\ x.logo.hash = "" => x.logo.profile = << >>
        /\ x.evidence.notAfter \in Int
        /\ x.evidence.notAfter # 0 => x.evidence.fingerprint # ""
        /\ ErrorsAre(x.evidence.findings, EvidenceCodes)
        /\ \A f \in {x.logo.findings, x.logo.profile, x.evidence.findings} :
              \A y \in Range(f) : y.code # "evidence_expired"

VARIABLES
    bimiRows,      \* bimi_snapshots, in id order
    bimiSelectors, \* bimi_selectors: domain -> [first, last]
    verdicts       \* bimi_verdicts, in id order

bimiVars == <<bimiRows, bimiSelectors, verdicts>>

BimiInit == bimiRows = << >> /\ bimiSelectors = << >> /\ verdicts = << >>

-----------------------------------------------------------------------------
(* Findings                                                                *)

Finding(code, severity) == [code |-> code, severity |-> severity]
ErrorsAmong(findings) == SelectSeq(findings, LAMBDA x : x.severity = "error")
FirstErrorOf(findings) ==
    IF ErrorsAmong(findings) = << >> THEN "" ELSE ErrorsAmong(findings)[1].code

\* int(Hours() / 24): towards zero, so the day after the end is day 0 as well.
DaysToExpiry(doc) ==
    LET left == doc.notAfter - 24 * now
    IN  IF left >= 0 THEN left \div 24 ELSE -((-left) \div 24)

\* What FetchEvidence finds of the time comes before what it finds of the rest.
TimeFindings(doc) ==
    CASE doc.notAfter = 0 -> << >>
      [] doc.notAfter # 0 /\ 24 * now > doc.notAfter -> <<Finding("evidence_expired", "error")>>
      [] doc.notAfter >= 24 * now ->
            IF ExpiryDays > 0 /\ DaysToExpiry(doc) <= ExpiryDays
            THEN <<Finding("evidence_expiring", "warning")>> ELSE << >>

\* IndicatorResult: the findings of the profile are among its own.
IndicatorResult(doc) ==
    [hash |-> doc.hash, profile |-> doc.profile, findings |-> doc.findings \o doc.profile]

\* EvidenceResult of a check now; without a certificate it has no dates.
EvidenceResult(doc) ==
    [fingerprint |-> doc.fingerprint, notAfter |-> doc.notAfter, mark |-> doc.mark,
     days |-> IF doc.notAfter = 0 THEN 0 ELSE DaysToExpiry(doc),
     findings |-> TimeFindings(doc) \o doc.findings]

-----------------------------------------------------------------------------
(* The lookup                                                              *)

\* The row with the latest last_seen, of those the one with the highest id.
CurrentRow(rows, d, kind) ==
    LET own == {i \in DOMAIN rows : rows[i].domain = d /\ rows[i].kind = kind}
    IN  {i \in own : \A k \in own : \/ rows[k].last < rows[i].last
                                    \/ rows[k].last = rows[i].last /\ k <= i}

\* A plausible mistake: any row of the same content is the current one.
UpsertedAnywhere(rows, d, kind, content, error, detail) ==
    LET same == {i \in DOMAIN rows : /\ rows[i].domain = d /\ rows[i].kind = kind
                                     /\ rows[i].content = content /\ rows[i].error = error}
    IN  IF same # {}
        THEN [i \in DOMAIN rows |->
                 IF i \in same THEN [rows[i] EXCEPT !.last = now, !.detail = detail, !.checks = @ + 1]
                 ELSE rows[i]]
        ELSE Append(rows, [domain |-> d, kind |-> kind, content |-> content, error |-> error,
                           detail |-> detail, first |-> now, last |-> now, checks |-> 1])

\* UpsertBIMISnapshot: what is unchanged confirms the current row.
Upserted(rows, d, kind, content, error, detail) ==
    LET confirmed == {i \in CurrentRow(rows, d, kind) :
                         rows[i].content = content /\ rows[i].error = error}
    IN  IF confirmed # {}
        THEN [i \in DOMAIN rows |->
                 IF i \in confirmed THEN [rows[i] EXCEPT !.last = now, !.detail = detail, !.checks = @ + 1]
                 ELSE rows[i]]
        ELSE Append(rows, [domain |-> d, kind |-> kind, content |-> content, error |-> error,
                           detail |-> detail, first |-> now, last |-> now, checks |-> 1])

\* ListStaleBIMIDomains; bimiRecordTTL is a day.
StaleBimiDomains ==
    {d \in managed \cup {r.domain : r \in stored} :
        \A i \in CurrentRow(bimiRows, d, "record") : bimiRows[i].last < now}

\* snapshotBIMIRecords and, for a published record, validateBIMIDocuments, unless
\* BIMI_VALIDATE switches that off.
SnapshotBimi(d, x) ==
    LET record == [state |-> x.state, l |-> x.l, a |-> x.a]
        indicator == IndicatorResult(x.logo)
        evidence == EvidenceResult(x.evidence)
        looked == Upserted(bimiRows, d, "record", x.content, x.error, record)
        fetched == Upserted(looked, d, "indicator", indicator.hash,
                            FirstErrorOf(indicator.findings), indicator)
        proved == Upserted(fetched, d, "evidence", evidence.fingerprint,
                           FirstErrorOf(evidence.findings), evidence)
        fetches == x.validates /\ x.state = "published" /\ x.l # ""
        first == IF d \in DOMAIN bimiSelectors THEN bimiSelectors[d].first ELSE now
    IN  /\ d \in StaleBimiDomains
        /\ bimiRows' = CASE ~fetches -> looked
                         [] fetches /\ x.a = "" -> fetched
                         [] fetches /\ x.a # "" -> proved
        /\ bimiSelectors' =
              IF ~x.answered THEN bimiSelectors
              ELSE [k \in DOMAIN bimiSelectors \cup {d} |->
                       IF k = d THEN [first |-> first, last |-> now] ELSE bimiSelectors[k]]
        /\ UNCHANGED verdicts

-----------------------------------------------------------------------------
(* What the pages say                                                      *)

\* The detail of the current snapshot of a kind, if there is one.
CurrentDetail(d, kind) == {bimiRows[i].detail : i \in CurrentRow(bimiRows, d, kind)}
BimiDomains == {bimiRows[i].domain : i \in DOMAIN bimiRows}

\* GetBIMIDomainState, HasBIMIRecord
DomainState(d) == CurrentDetail(d, "record")
HasBIMIRecord(d) == \E s \in DomainState(d) : s.state \notin {"absent", "error"}

\* BIMIValidationState: the documents stored last, whatever the record says now.
Checked(d) == CurrentDetail(d, "indicator") # {}
Compared(d) ==
    {pair \in CurrentDetail(d, "indicator") \X CurrentDetail(d, "evidence") :
        pair[1].hash # "" /\ pair[2].mark # ""}
Disagrees(d) == \E pair \in Compared(d) : pair[1].hash # pair[2].mark

FindingsOf(d) ==
    {Finding("mark_mismatch", "error") : x \in {y \in {d} : Disagrees(y)}}
        \cup UNION {Range(s.findings) : s \in CurrentDetail(d, "indicator")
                                               \cup CurrentDetail(d, "evidence")}
BimiValid(d) == Checked(d) /\ \A x \in FindingsOf(d) : x.severity # "error"

\* ListBIMIRecordChanges: each record row but the first, with the one before it.
RecordChanges(since) ==
    LET records == {i \in DOMAIN bimiRows : bimiRows[i].kind = "record"}
        before(i) == {k \in records : k < i /\ bimiRows[k].domain = bimiRows[i].domain}
    IN  {[domain |-> bimiRows[i].domain, at |-> bimiRows[i].first,
          from |-> bimiRows[Max(before(i))], to |-> bimiRows[i]] :
             i \in {k \in records : before(k) # {} /\ bimiRows[k].first >= since}}

\* ListBIMIScopeDomains: what is reported on and what is managed.
BimiScope(f) ==
    [d \in {j.rep.domain : j \in Where(f)} \cup managed |->
        Messages({j \in Where(f) : j.rep.domain = d})]

\* GetBIMIReadinessBreakdown: one of these for each domain.
ReadinessClasses(d, f) ==
    LET policies == IF d \in DOMAIN BimiReadiness(f) THEN BimiReadiness(f)[d].eligible ELSE {TRUE}
        documents == IF Checked(d) /\ ~BimiValid(d) THEN "broken" ELSE "valid"
    IN  IF DomainState(d) = {} THEN {"unchecked"}
        ELSE UNION {CASE s.state = "declined" -> {"declined"}
                      [] s.state = "published" ->
                            {IF e THEN documents ELSE "blocked" : e \in policies}
                      [] OTHER -> {"no_record"} : s \in DomainState(d)}

\* computeBIMI, the line of a domain: none for a domain outside the filter.
PageRows(f) ==
    [d \in {x \in DOMAIN BimiScope(f) : f.domain \in {AnyValue, x}} |->
        [messages |-> BimiScope(f)[d],
         eligible |-> IF d \in DOMAIN BimiReadiness(f) THEN BimiReadiness(f)[d].eligible ELSE {},
         state |-> IF DomainState(d) = {} THEN {"absent"} ELSE {s.state : s \in DomainState(d)},
         checked |-> DomainState(d) # {}, validated |-> Checked(d), valid |-> BimiValid(d),
         codes |-> {x.code : x \in {y \in FindingsOf(d) : Checked(d) /\ y.severity = "error"}},
         agreement |-> CASE ~Checked(d) -> ""
                         [] Checked(d) /\ Compared(d) = {} -> "not applicable"
                         [] Checked(d) /\ Compared(d) # {} ->
                               IF Disagrees(d) THEN "disagrees" ELSE "agrees"]]

-----------------------------------------------------------------------------
(* Seed mail                                                               *)

\* RecordSeedVerdicts: the server's time, else the Date but never the future.
VerdictTime(m) ==
    IF m.server > 0 THEN m.server
    ELSE IF m.date > 0 /\ m.date <= now THEN m.date ELSE now

\* A plausible mistake: every header is believed.
BelievedAnywhere(m) == FlattenSeq(m.headers)

\* Only the topmost header is; each claim names the receiver of its header.
Believed(m) == IF m.headers = << >> THEN << >> ELSE m.headers[1]

\* matchIndicatorHash: 1 a match, 0 none, -1 when there is nothing to compare.
MatchIndicator(d, hash) ==
    LET logos == {l \in CurrentDetail(d, "indicator") : l.hash # ""}
    IN  IF hash = "" \/ logos = {} THEN -1
        ELSE IF \E l \in logos : l.hash = hash THEN 1 ELSE 0

\* SaveBIMIVerdict: a message and receiver that are known already change nothing.
VerdictRow(m, c) ==
    LET d == IF c.domain = "" THEN m.from ELSE c.domain
    IN  [id |-> IF m.id = "" THEN <<d, VerdictTime(m)>> ELSE <<m.id>>,
         receiver |-> c.receiver, at |-> VerdictTime(m), domain |-> d,
         result |-> c.result, matched |-> MatchIndicator(d, c.hash)]
SaveVerdict(rows, v) ==
    IF \E x \in Range(rows) : x.id = v.id /\ x.receiver = v.receiver
    THEN rows ELSE Append(rows, v)

\* One verdict after the other, in the order of the claims.
Recorded(m) ==
    FoldLeft(LAMBDA rows, c : SaveVerdict(rows, VerdictRow(m, c)), verdicts, Believed(m))

RecordSeed(m) ==
    /\ m.server <= now
    /\ verdicts' = Recorded(m)
    /\ UNCHANGED <<bimiRows, bimiSelectors>>

VerdictKey(v) == <<v.receiver, v.domain>>
VerdictsOf(k) == {i \in DOMAIN verdicts : VerdictKey(verdicts[i]) = k}
VerdictKeys == {VerdictKey(v) : v \in Range(verdicts)}

\* SummariseBIMIVerdicts: the last result is the last of all, not of the window.
VerdictSummary(since) ==
    LET own(k) == {i \in VerdictsOf(k) : since = 0 \/ verdicts[i].at >= since}
        last(k) == {i \in VerdictsOf(k) : \A n \in VerdictsOf(k) :
                       \/ verdicts[n].at < verdicts[i].at
                       \/ verdicts[n].at = verdicts[i].at /\ n <= i}
    IN  [k \in {x \in VerdictKeys : own(x) # {}} |->
            [messages |-> Cardinality(own(k)),
             passed |-> Cardinality({i \in own(k) : verdicts[i].result = "pass"}),
             first |-> Least({verdicts[i].at : i \in own(k)}),
             last |-> Greatest({verdicts[i].at : i \in own(k)}),
             lastResult |-> verdicts[Max(last(k))].result]]

\* FindBIMIVerdictRegressions: each newest verdict that is no pass, after a pass.
VerdictRegressions(since) ==
    LET passes(k) == {verdicts[i].at : i \in {n \in VerdictsOf(k) : verdicts[n].result = "pass"}}
        newest(k) == Greatest({verdicts[i].at : i \in VerdictsOf(k)})
        failed(k) == {i \in VerdictsOf(k) : verdicts[i].result # "pass"}
    IN  UNION {{[key |-> k, at |-> verdicts[i].at, result |-> verdicts[i].result,
                 lastPass |-> Greatest(passes(k)),
                 failures |-> Cardinality({n \in failed(k) : verdicts[n].at > Greatest(passes(k))})] :
                    i \in {n \in failed(k) : verdicts[n].at = newest(k) /\ newest(k) >= since}} :
               k \in {x \in VerdictKeys : passes(x) # {}}}
=============================================================================
