------------------------------ MODULE MarkCheck ------------------------------
(***************************************************************************)
(* The retrieval and the checks of the documents a BIMI record names         *)
(* (internal/bimi: validate.go, fetch.go, indicator.go, evidence.go): the    *)
(* logo, the evidence document with the mark inside it, and its revocation.  *)
(* Each fetch may be redirected, refused or fail; what arrives is any        *)
(* document.  An image is its content and whether it is packed.              *)
(***************************************************************************)
EXTENDS Integers, Sequences, FiniteSets

CONSTANTS
    Urls,           \* [https, host, public]: scheme; a full "name", a "bare" one or an
                    \* "address"; whether it resolves to public addresses
    Logos,          \* [content, packed, conforming]
    Evidence,       \* documents: see EvidenceFields
    RecordDomain,   \* the labels of the domain the record was found at
    MaxRedirects,   \* 3
    CheckRevocation,\* BIMI_CHECK_REVOCATION
    NoUrl

EvidenceFields ==
    {"certs",       \* certificates in the bundle, leaf first; 0 when none parses
     "window",      \* now is "before", "in" or "after" the leaf's validity
     "trusted",     \* the leaf verifies against the roots
     "sans",        \* the names of the leaf: [wild, labels]
     "marks",       \* the images of the logotype extension, by slot
     "revocation"}  \* the leaf names an "ocsp" responder, a "crl" or "none"

\* Where a logotype extension may hold the image; each place holds one at most.
MarkSlots == {"subject", "issuer", "community"}

ASSUME MarkAssumption ==
    /\ MaxRedirects \in Nat /\ CheckRevocation \in BOOLEAN
    /\ NoUrl \notin Urls
    /\ RecordDomain \in Seq(STRING) /\ RecordDomain # <<>>
    /\ \A e \in Evidence :
          /\ DOMAIN e = EvidenceFields
          /\ e.certs \in Nat /\ e.revocation \in {"ocsp", "crl", "none"}
          /\ \A san \in e.sans : san.labels # <<>>
          /\ \A slot \in MarkSlots : \A m, n \in e.marks[slot] :
                m = n /\ m.digest \in {"same", "differs", "unknown", "none"}

VARIABLES
    record,     \* the assertion record: published, location, authority, raster
    markAt,     \* "idle", the document being fetched, "done"
    url, hops,  \* the request, and the redirects before it
    logo,       \* IndicatorResult, EvidenceResult: a set of none or one document
    evidence,
    missed,     \* the documents that could not be retrieved
    revocation  \* RevocationResult.Status, and the answer it was read from

markVars == <<record, markAt, url, hops, logo, evidence, missed, revocation>>

NoRecord == [published |-> FALSE, location |-> NoUrl, authority |-> NoUrl, raster |-> FALSE]
MarkRecords ==
    [published : BOOLEAN, location : Urls \cup {NoUrl}, authority : Urls \cup {NoUrl},
     raster : BOOLEAN]

NoAnswerGiven == [signed |-> FALSE, status |-> "none", fresh |-> FALSE]
Revocation(status, answer) == [status |-> status, answer |-> answer]

MarkInit ==
    /\ record = NoRecord /\ markAt = "idle" /\ url = NoUrl /\ hops = 0
    /\ logo = {} /\ evidence = {} /\ missed = {}
    /\ revocation = Revocation("none", NoAnswerGiven)

-----------------------------------------------------------------------------
(* Fetching                                                                *)

\* CheckURL wants HTTPS and a full name; for a signed artefact plain HTTP and an
\* address will do (checkSignedURL).  Where a redirect leads only checkRedirect looks.
Allowed(u) ==
    IF hops > 0 THEN u.https
    ELSE IF markAt \in {"ocsp", "crl"} THEN u.host # "bare"
    ELSE u.https /\ u.host = "name"

\* guardAddress: every connection, that of a redirect too, is to a public address.
Answers(u) == Allowed(u) /\ u.public

Request(document, u) == markAt' = document /\ url' = u /\ hops' = 0
NoRequestLeft == markAt' = "done" /\ url' = NoUrl /\ hops' = 0

\* checkRedirect: HTTPS only, and no more than MaxRedirects.
Redirected(to) ==
    /\ markAt \notin {"idle", "done"} /\ Answers(url)
    /\ hops < MaxRedirects /\ to.https
    /\ url' = to /\ hops' = hops + 1
    /\ UNCHANGED <<record, markAt, logo, evidence, missed, revocation>>

-----------------------------------------------------------------------------
(* Documents                                                               *)

\* A plausible mistake: the bytes are compared as they came.
AsServed(image) == [content |-> image.content, packed |-> image.packed]

\* gunzipBytes: what is hashed and checked is the image unpacked.
Unpacked(image) == [content |-> image.content, packed |-> FALSE]

\* markDetails: the subject's mark, else the issuer's, else the community's.
MarksIn(doc) ==
    IF doc.marks.subject # {} THEN doc.marks.subject
    ELSE IF doc.marks.issuer # {} THEN doc.marks.issuer ELSE doc.marks.community

\* A plausible mistake: a wildcard covers any number of labels.
SansCoverDeep(doc) ==
    \E san \in doc.sans :
        \E k \in 0 .. Len(RecordDomain) - 1 :
            /\ san.labels = SubSeq(RecordDomain, k + 1, Len(RecordDomain))
            /\ san.wild \/ k = 0

\* sansCover: the name itself, or a wildcard for its first label.
SansCover(doc) ==
    \E san \in doc.sans :
        IF san.wild THEN Len(RecordDomain) > 1 /\ san.labels = Tail(RecordDomain)
                    ELSE san.labels = RecordDomain

\* The findings of FetchEvidence that disqualify.
EvidenceErrors(doc) ==
    IF doc.certs = 0 THEN {"unparseable"}
    ELSE (IF doc.window = "in" THEN {} ELSE {"window"})
         \cup (IF doc.trusted THEN {} ELSE {"untrusted"})
         \cup (IF SansCover(doc) THEN {} ELSE {"domain"})
         \cup (IF MarksIn(doc) = {} THEN {"no_mark"} ELSE {})
         \cup (UNION {(IF m.embedded /\ m.digest # "unknown" THEN {} ELSE {"no_mark"})
                      \cup (IF m.digest = "differs" THEN {"mark_hash"} ELSE {})
                      \cup (IF m.conforming THEN {} ELSE {"mark_format"}) : m \in MarksIn(doc)})
         \cup (IF revocation.status = "revoked" THEN {"revoked"} ELSE {})

LogoErrors ==
    {x \in {"format"} : record.raster} \cup {x \in {"retrieval"} : "logo" \in missed}
        \cup {"svgps" : l \in {k \in logo : ~k.conforming}}

\* CompareMarks: the sides that have something to compare.
Compared ==
    {<<Unpacked(l), Unpacked(m)>> :
         l \in logo, m \in UNION {{k \in MarksIn(doc) : k.embedded} :
                                      doc \in {e \in evidence : e.certs > 0}}}
Mismatched == \E pair \in Compared : pair[1] # pair[2]

\* Validation.Valid.
Valid ==
    /\ markAt = "done" /\ (logo # {} \/ missed # {})
    /\ LogoErrors = {} /\ missed \cap {"evidence"} = {}
    /\ \A doc \in evidence : EvidenceErrors(doc) = {}
    /\ ~Mismatched

-----------------------------------------------------------------------------

\* Validate: a record that publishes no logo is not fetched.
BeginMarks(rec) ==
    /\ markAt = "idle"
    /\ record' = rec
    /\ IF rec.published /\ rec.location # NoUrl
       THEN Request("logo", rec.location) ELSE NoRequestLeft
    /\ UNCHANGED <<logo, evidence, missed, revocation>>

AfterLogo == IF record.authority # NoUrl THEN Request("evidence", record.authority)
                                         ELSE NoRequestLeft

LogoArrives(document) ==
    /\ markAt = "logo" /\ Answers(url)
    /\ logo' = {document} /\ AfterLogo
    /\ UNCHANGED <<record, evidence, missed, revocation>>

\* checkRevocation: switched off, no issuer in the bundle, or nobody to ask.
Unchecked(doc) == ~CheckRevocation \/ doc.certs < 2 \/ doc.revocation = "none"

EvidenceArrives(document, responder) ==
    /\ markAt = "evidence" /\ Answers(url)
    /\ evidence' = {document}
    /\ IF document.certs = 0
       THEN NoRequestLeft /\ UNCHANGED revocation
       ELSE IF Unchecked(document)
       THEN NoRequestLeft /\ revocation' = Revocation("unchecked", NoAnswerGiven)
       ELSE Request(document.revocation, responder) /\ UNCHANGED revocation
    /\ UNCHANGED <<record, logo, missed>>

\* A fetch is refused, redirected too often, fails, or answers with an error.
FetchFails ==
    /\ markAt \notin {"idle", "done"}
    /\ missed' = missed \cup {markAt}
    /\ IF markAt = "logo" THEN AfterLogo ELSE NoRequestLeft
    /\ revocation' = IF markAt \in {"ocsp", "crl"} THEN Revocation("unknown", NoAnswerGiven)
                                                   ELSE revocation
    /\ UNCHANGED <<record, logo, evidence>>

\* The answer about the leaf's serial number: who signed it, what it says of the
\* serial, and whether a list is still in its time.
SignedAnswers == [signed : BOOLEAN, status : {"good", "revoked", "unknown"}, fresh : BOOLEAN]

\* The responder's answer, once its signature is verified.
OcspAnswers(answer) ==
    /\ markAt = "ocsp" /\ Answers(url)
    /\ revocation' = Revocation(IF answer.signed THEN answer.status ELSE "unknown", answer)
    /\ NoRequestLeft
    /\ UNCHANGED <<record, logo, evidence, missed>>

\* A plausible mistake: the age of the list is not looked at.
CrlArrivesAnyAge(answer) ==
    /\ markAt = "crl" /\ Answers(url) /\ answer.status # "unknown"
    /\ revocation' = Revocation(IF answer.signed THEN answer.status ELSE "unknown", answer)
    /\ NoRequestLeft
    /\ UNCHANGED <<record, logo, evidence, missed>>

\* checkCRL: the list must be the issuer's; an entry counts even when it is old.
CrlArrives(answer) ==
    /\ markAt = "crl" /\ Answers(url) /\ answer.status # "unknown"
    /\ revocation' = Revocation(CASE ~answer.signed -> "unknown"
                                  [] answer.signed /\ answer.status = "revoked" -> "revoked"
                                  [] answer.signed /\ answer.status = "good" ->
                                         IF answer.fresh THEN "good" ELSE "unknown",
                                answer)
    /\ NoRequestLeft
    /\ UNCHANGED <<record, logo, evidence, missed>>

MarkStep ==
    \/ \E to \in Urls : Redirected(to)
    \/ \E document \in Logos : LogoArrives(document)
    \/ \E document \in Evidence, responder \in Urls : EvidenceArrives(document, responder)
    \/ \E answer \in SignedAnswers : OcspAnswers(answer) \/ CrlArrives(answer)
    \/ FetchFails

-----------------------------------------------------------------------------

\* A mark is called valid exactly when a receiver may show it: the logo was
\* retrieved and conforms, and an evidence document, when the record names one, is in
\* its time, chains to a root, covers the record's domain by name or by one wildcard
\* label, is not revoked, agrees with itself, and vouches for the very image served,
\* packed or not (validate.go:62-64, core spec section 7.9 quoted at indicator.go:112-116).
ValidMeansVouched ==
    markAt = "done" =>
        (Valid <=>
            /\ logo # {} /\ ~record.raster /\ \A l \in logo : l.conforming
            /\ record.authority # NoUrl =>
                  \E doc \in evidence :
                     /\ doc.certs > 0 /\ doc.trusted /\ doc.window = "in"
                     /\ \E san \in doc.sans :
                           san.labels = IF san.wild THEN Tail(RecordDomain) ELSE RecordDomain
                     /\ revocation.status # "revoked"
                     /\ \E m \in MarksIn(doc) :
                           /\ m.embedded /\ m.conforming /\ m.digest \in {"same", "none"}
                           /\ \A l \in logo : l.content = m.content)

\* Revocation is called good or revoked only on the word of the issuer, and good only
\* on a list in its time that does not name the leaf; an answer that cannot be
\* verified is never taken for "not revoked" (evidence.go:672-690).
RevocationHonest ==
    /\ revocation.status \in {"good", "revoked"} =>
          revocation.answer.signed /\ revocation.answer.status = revocation.status
    /\ \A doc \in evidence :
          revocation.status = "good" /\ doc.revocation = "crl" => revocation.answer.fresh
    /\ markAt = "done" =>
          \A doc \in evidence : doc.certs > 0 /\ CheckRevocation /\ doc.certs > 1
                                  /\ doc.revocation # "none" => revocation.status \notin {"none", "unchecked"}
=============================================================================
