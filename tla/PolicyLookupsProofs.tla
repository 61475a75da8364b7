------------------------- MODULE PolicyLookupsProofs -------------------------
(***************************************************************************)
(* What the lookups conclude is exact for every zone, document, limit and    *)
(* suffix list: the networks of an SPF record and its lookup count, the       *)
(* organisational domain, the BIMI record in use, the TLS rows, and whether a *)
(* mark may be shown.                                                        *)
(*                                                                          *)
(* None of the six properties is inductive: each speaks of the end of a       *)
(* lookup.  SpfInv says of every place of every record that was entered       *)
(* whether it has been read, from what is left of the calls of expand; what   *)
(* has been read is in the result, leads to records that are entered, and is  *)
(* counted.  When no call is left every place has been read, so the records   *)
(* entered are closed under what they lead to, and hold the reachable ones.   *)
(* WalkInv says which names were asked, TlsInv which rows are saved, MarkInv  *)
(* what each retrieval has brought.                                          *)
(***************************************************************************)
EXTENDS PolicyLookups, FiniteSetTheorems, SequenceTheorems, TLAPS

-----------------------------------------------------------------------------
(* Sequences and bounded sets                                              *)

\* q is the end of r.
EndOf(q, r) ==
    /\ Len(q) <= Len(r)
    /\ \A i \in 1 .. Len(q) : q[i] = r[Len(r) - Len(q) + i]

PlaceOf(q, r) == Len(r) - Len(q) + 1

\* Taking the head off the end of a sequence takes one place off it.
LEMMA TailOfEnd ==
    ASSUME NEW S, NEW r \in Seq(S), NEW q \in Seq(S), q # <<>>, EndOf(q, r)
    PROVE  /\ PlaceOf(q, r) \in 1 .. Len(r) /\ PlaceOf(q, r) > Len(r) - Len(q)
           /\ Head(q) = r[PlaceOf(q, r)] /\ r[PlaceOf(q, r)] \in S
           /\ Tail(q) \in Seq(S) /\ EndOf(Tail(q), r)
           /\ \A i \in Nat : i > Len(r) - Len(Tail(q))
                                <=> i > Len(r) - Len(q) /\ i # PlaceOf(q, r)
<1> DEFINE p == Len(r) - Len(q) + 1
<1>1. Len(r) \in Nat /\ Len(q) \in Nat /\ Len(q) <= Len(r)
  BY DEF EndOf
<1>2. Len(q) >= 1 /\ Head(q) = q[1]
  OBVIOUS
<1>3. /\ Tail(q) \in Seq(S) /\ Len(Tail(q)) = Len(q) - 1
      /\ \A i \in 1 .. Len(q) - 1 : Tail(q)[i] = q[i + 1]
  OBVIOUS
<1>4. p \in 1 .. Len(r) /\ p > Len(r) - Len(q)
  BY <1>1, <1>2
<1>5. q[1] = r[p]
  BY <1>1, <1>2 DEF EndOf
<1>6. ASSUME NEW i \in 1 .. Len(q) - 1
      PROVE  Tail(q)[i] = r[Len(r) - (Len(q) - 1) + i]
  <2>1. i + 1 \in 1 .. Len(q)
    BY <1>1
  <2>2. q[i + 1] = r[Len(r) - Len(q) + (i + 1)]
    BY <2>1 DEF EndOf
  <2>3. Len(r) - Len(q) + (i + 1) = Len(r) - (Len(q) - 1) + i
    BY <1>1
  <2> QED BY <1>3, <2>2, <2>3
<1>7. EndOf(Tail(q), r)
  BY <1>1, <1>3, <1>6 DEF EndOf
<1>8. \A i \in Nat : i > Len(r) - (Len(q) - 1) <=> i > Len(r) - Len(q) /\ i # p
  BY <1>1
<1>9. r[p] \in S
  BY <1>4
<1> QED
  BY <1>2, <1>3, <1>4, <1>5, <1>7, <1>8, <1>9 DEF PlaceOf

\* What a bounded set of numbers has.
LEMMA MaxInSet ==
    ASSUME NEW n \in Nat, NEW S \in SUBSET (1 .. n), S # {}
    PROVE  Max(S) \in S /\ \A k \in S : k <= Max(S)
<1> DEFINE T == {m \in Nat : \E k \in S : m = n - k}
<1>1. T \subseteq Nat /\ T # {}
  <2>1. PICK k \in S : TRUE
    OBVIOUS
  <2>2. n - k \in T
    BY <2>1
  <2> QED BY <2>2
<1>2. PICK m \in T : \A y \in T : ~(<<y, m>> \in OpToRel(<, Nat))
  BY <1>1, NatLessThanWellFounded, WFMin
<1>3. PICK x \in S : m = n - x
  BY <1>2
<1>4. \A k \in S : k <= x
  <2> SUFFICES ASSUME NEW k \in S, k > x
               PROVE  FALSE
    OBVIOUS
  <2>1. n - k \in T /\ n - k < m
    BY <1>3
  <2>2. <<n - k, m>> \in OpToRel(<, Nat)
    BY <1>1, <2>1 DEF OpToRel
  <2> QED BY <1>2, <2>1, <2>2
<1> QED
  BY <1>4 DEF Max

LEMMA MinOfTwo ==
    ASSUME NEW a \in Nat, NEW b \in Nat
    PROVE  Min({a, b}) = IF a <= b THEN a ELSE b
BY DEF Min

-----------------------------------------------------------------------------
(* The mark                                                                *)

Asked == {"ocsp", "crl"}

\* How far the retrieval is, and what it has by then.
MarkPhase ==
    /\ markAt \in {"idle", "logo", "evidence", "done"} \cup Asked
    /\ record \in MarkRecords
    /\ evidence \subseteq Evidence /\ \A d, e \in evidence : d = e
    /\ markAt \in {"idle", "logo"} => logo = {} /\ missed = {}
    /\ markAt \in {"idle", "logo", "evidence"} => evidence = {} /\ "evidence" \notin missed
    /\ markAt \in {"evidence"} \cup Asked => record.authority # NoUrl
    /\ markAt \in Asked => evidence # {} /\ "evidence" \notin missed
    /\ \A doc \in evidence : markAt \in Asked => doc.revocation = markAt /\ doc.certs > 0

\* What is missing was asked for, and what was asked for has come or is missing.
Settled ==
    /\ "logo" \in missed => logo = {}
    /\ "evidence" \in missed => evidence = {}
    /\ markAt \in {"evidence"} \cup Asked \/ missed # {} => logo # {} \/ "logo" \in missed
    /\ evidence # {} \/ "evidence" \in missed => record.authority # NoUrl
    /\ markAt = "done" /\ logo # {} /\ record.authority # NoUrl =>
          evidence # {} \/ "evidence" \in missed

RevocationKnown ==
    /\ revocation.status \in {"good", "revoked"} =>
          revocation.answer.signed /\ revocation.answer.status = revocation.status
    /\ markAt # "done" => revocation.status = "none"
    /\ \A doc \in evidence :
          revocation.status = "good" /\ doc.revocation = "crl" => revocation.answer.fresh
    /\ markAt = "done" =>
          \A doc \in evidence :
             doc.certs > 0 /\ ~Unchecked(doc) => revocation.status \notin {"none", "unchecked"}

MarkInv == MarkPhase /\ Settled /\ RevocationKnown

LEMMA MarkInvInit == MarkInit => MarkInv
BY DEF MarkInit, MarkInv, MarkPhase, Settled, RevocationKnown, Asked, NoRecord, MarkRecords,
       Revocation

LEMMA MarkInvBegin ==
    ASSUME MarkInv, NEW rec \in MarkRecords, BeginMarks(rec)
    PROVE  MarkInv'
BY DEF BeginMarks, Request, NoRequestLeft, MarkInv, MarkPhase, Settled, RevocationKnown, Asked

LEMMA MarkInvStep ==
    ASSUME MarkInv, markAt # "idle", MarkStep
    PROVE  MarkInv'
<1>1. ASSUME NEW to \in Urls, Redirected(to)
      PROVE  MarkInv'
  BY <1>1 DEF Redirected, MarkInv, MarkPhase, Settled, RevocationKnown, Unchecked
<1>2. ASSUME NEW document \in Logos, LogoArrives(document)
      PROVE  MarkInv'
  BY <1>2 DEF LogoArrives, AfterLogo, Request, NoRequestLeft,
              MarkInv, MarkPhase, Settled, RevocationKnown, Unchecked, Asked
<1>3. ASSUME NEW document \in Evidence, NEW responder \in Urls,
             EvidenceArrives(document, responder)
      PROVE  MarkInv'
  BY <1>3, MarkAssumption
     DEF EvidenceArrives, Request, NoRequestLeft, Revocation, Unchecked,
         MarkInv, MarkPhase, Settled, RevocationKnown, Asked
<1>4. ASSUME NEW answer \in SignedAnswers, OcspAnswers(answer) \/ CrlArrives(answer)
      PROVE  MarkInv'
  <2>1. /\ markAt \in Asked
        /\ markAt' = "done"
        /\ revocation'.status \notin {"none", "unchecked"}
        /\ revocation'.status \in {"good", "revoked"} =>
              revocation'.answer.signed /\ revocation'.answer.status = revocation'.status
        /\ revocation'.status = "good" /\ markAt = "crl" => revocation'.answer.fresh
        /\ UNCHANGED <<record, logo, evidence, missed>>
    BY <1>4 DEF OcspAnswers, CrlArrives, NoRequestLeft, Revocation, SignedAnswers, Asked
  <2> QED BY <2>1 DEF MarkInv, MarkPhase, Settled, RevocationKnown, Unchecked, Asked
<1>5. CASE FetchFails
  BY <1>5 DEF FetchFails, AfterLogo, Request, NoRequestLeft, Revocation, Unchecked,
              MarkInv, MarkPhase, Settled, RevocationKnown, Asked
<1> QED BY <1>1, <1>2, <1>3, <1>4, <1>5 DEF MarkStep

\* What the checks of an evidence document come to.
LEMMA EvidenceAccepted ==
    ASSUME NEW doc \in Evidence
    PROVE  EvidenceErrors(doc) = {} <=>
              /\ doc.certs > 0 /\ doc.window = "in" /\ doc.trusted
              /\ SansCover(doc) /\ revocation.status # "revoked"
              /\ MarksIn(doc) # {}
              /\ \A m \in MarksIn(doc) :
                    m.embedded /\ m.conforming /\ m.digest \notin {"unknown", "differs"}
<1> DEFINE Of(m) == (IF m.embedded /\ m.digest # "unknown" THEN {} ELSE {"no_mark"})
                    \cup (IF m.digest = "differs" THEN {"mark_hash"} ELSE {})
                    \cup (IF m.conforming THEN {} ELSE {"mark_format"})
           marks == UNION {Of(m) : m \in MarksIn(doc)}
<1>1. ASSUME NEW m \in MarksIn(doc)
      PROVE  Of(m) = {} <=> m.embedded /\ m.conforming /\ m.digest \notin {"unknown", "differs"}
  OBVIOUS
<1>2. marks = {} <=> \A m \in MarksIn(doc) : Of(m) = {}
  <2> HIDE DEF Of
  <2> QED OBVIOUS
<1>3. doc.certs > 0 <=> doc.certs # 0
  BY MarkAssumption
<1>4. EvidenceErrors(doc) =
        IF doc.certs = 0 THEN {"unparseable"}
        ELSE (IF doc.window = "in" THEN {} ELSE {"window"})
             \cup (IF doc.trusted THEN {} ELSE {"untrusted"})
             \cup (IF SansCover(doc) THEN {} ELSE {"domain"})
             \cup (IF MarksIn(doc) = {} THEN {"no_mark"} ELSE {})
             \cup marks
             \cup (IF revocation.status = "revoked" THEN {"revoked"} ELSE {})
  BY DEF EvidenceErrors
<1> HIDE DEF marks
<1>5. EvidenceErrors(doc) = {} <=>
         /\ doc.certs # 0 /\ doc.window = "in" /\ doc.trusted
         /\ SansCover(doc) /\ MarksIn(doc) # {} /\ marks = {} /\ revocation.status # "revoked"
  BY <1>4
<1> HIDE DEF Of
<1> QED
  BY <1>1, <1>2, <1>3, <1>5

LEMMA SansCoverOneLabel ==
    ASSUME NEW doc \in Evidence
    PROVE  SansCover(doc) <=>
              \E san \in doc.sans :
                 san.labels = IF san.wild THEN Tail(RecordDomain) ELSE RecordDomain
<1>1. ASSUME NEW san \in doc.sans, san.labels = Tail(RecordDomain)
      PROVE  Len(RecordDomain) > 1
  <2>1. Tail(RecordDomain) # <<>>
    BY <1>1, MarkAssumption
  <2> QED
    BY <2>1, MarkAssumption
<1> QED
  BY <1>1 DEF SansCover

LEMMA OneMark ==
    ASSUME NEW doc \in Evidence, NEW m \in MarksIn(doc), NEW n \in MarksIn(doc)
    PROVE  m = n /\ m.digest \in {"same", "differs", "unknown", "none"}
BY MarkAssumption DEF MarksIn, MarkSlots

\* Images compare equal exactly when their content does, packed or not.
LEMMA UnpackedSame ==
    ASSUME NEW l, NEW m
    PROVE  Unpacked(l) = Unpacked(m) <=> l.content = m.content
BY DEF Unpacked

LEMMA VouchedWhenValid == MarkInv => ValidMeansVouched
<1> SUFFICES ASSUME MarkInv, markAt = "done"
             PROVE  Valid <=>
                       /\ logo # {} /\ ~record.raster /\ \A l \in logo : l.conforming
                       /\ record.authority # NoUrl =>
                             \E doc \in evidence :
                                /\ doc.certs > 0 /\ doc.trusted /\ doc.window = "in"
                                /\ \E san \in doc.sans : san.labels =
                                      IF san.wild THEN Tail(RecordDomain) ELSE RecordDomain
                                /\ revocation.status # "revoked"
                                /\ \E m \in MarksIn(doc) :
                                      /\ m.embedded /\ m.conforming
                                      /\ m.digest \in {"same", "none"}
                                      /\ \A l \in logo : l.content = m.content
  BY DEF ValidMeansVouched
<1> DEFINE Good(doc) == /\ doc.certs > 0 /\ doc.trusted /\ doc.window = "in"
                        /\ SansCover(doc) /\ revocation.status # "revoked"
           Shown(m) == m.embedded /\ m.conforming /\ m.digest \in {"same", "none"}
<1>1. /\ \A doc \in evidence : doc \in Evidence
      /\ \A d, e \in evidence : d = e
      /\ "logo" \in missed => logo = {}
      /\ missed # {} => logo # {} \/ "logo" \in missed
      /\ "evidence" \in missed => evidence = {}
      /\ evidence # {} \/ "evidence" \in missed => record.authority # NoUrl
      /\ logo # {} /\ record.authority # NoUrl => evidence # {} \/ "evidence" \in missed
  BY DEF MarkInv, MarkPhase, Settled
<1>2. LogoErrors = {} <=> /\ ~record.raster /\ "logo" \notin missed
                          /\ \A l \in logo : l.conforming
  BY DEF LogoErrors
<1>3. Mismatched <=> \E doc \in evidence : /\ doc.certs > 0
                        /\ \E m \in MarksIn(doc) : m.embedded /\ \E l \in logo : l.content # m.content
  <2>1. ASSUME NEW pair \in Compared, pair[1] # pair[2]
        PROVE  \E doc \in evidence : /\ doc.certs > 0
                  /\ \E m \in MarksIn(doc) : m.embedded /\ \E l \in logo : l.content # m.content
    <3>1. PICK l \in logo, m \in UNION {{k \in MarksIn(doc) : k.embedded} :
                                            doc \in {e \in evidence : e.certs > 0}} :
             pair = <<Unpacked(l), Unpacked(m)>>
      BY DEF Compared
    <3>2. l.content # m.content
      BY <2>1, <3>1, UnpackedSame
    <3> QED BY <3>1, <3>2
  <2>2. ASSUME NEW doc \in evidence, doc.certs > 0, NEW m \in MarksIn(doc), m.embedded,
               NEW l \in logo, l.content # m.content
        PROVE  Mismatched
    <3> DEFINE pair == <<Unpacked(l), Unpacked(m)>>
    <3>1. m \in UNION {{k \in MarksIn(d) : k.embedded} : d \in {e \in evidence : e.certs > 0}}
      BY <2>2
    <3>2. pair \in Compared
      BY <3>1 DEF Compared
    <3>3. pair[1] # pair[2]
      BY <2>2, UnpackedSame
    <3> HIDE DEF pair
    <3> QED BY <3>2, <3>3 DEF Mismatched
  <2> QED BY <2>1, <2>2 DEF Mismatched
<1>4. ASSUME NEW doc \in evidence
      PROVE  EvidenceErrors(doc) = {} <=>
                Good(doc) /\ \E m \in MarksIn(doc) : Shown(m)
  BY <1>1, EvidenceAccepted, OneMark
<1>5. ASSUME NEW doc \in evidence
      PROVE  SansCover(doc) <=> \E san \in doc.sans :
                san.labels = IF san.wild THEN Tail(RecordDomain) ELSE RecordDomain
  BY <1>1, SansCoverOneLabel
<1>6. Valid <=> /\ logo # {} \/ missed # {}
                /\ LogoErrors = {} /\ "evidence" \notin missed
                /\ \A doc \in evidence : EvidenceErrors(doc) = {}
                /\ ~Mismatched
  BY DEF Valid
<1>7. ASSUME Valid
      PROVE  /\ logo # {} /\ ~record.raster /\ \A l \in logo : l.conforming
             /\ record.authority # NoUrl =>
                   \E doc \in evidence :
                      /\ Good(doc)
                      /\ \E m \in MarksIn(doc) : Shown(m) /\ \A l \in logo : l.content = m.content
  BY <1>1, <1>2, <1>3, <1>4, <1>6, <1>7
<1>8. ASSUME logo # {}, ~record.raster, \A l \in logo : l.conforming,
             record.authority # NoUrl =>
                \E doc \in evidence :
                   /\ Good(doc)
                   /\ \E m \in MarksIn(doc) : Shown(m) /\ \A l \in logo : l.content = m.content
      PROVE  Valid
  BY <1>1, <1>2, <1>3, <1>4, <1>6, <1>8, OneMark
<1> HIDE DEF Shown
<1> QED
  BY <1>5, <1>7, <1>8 DEF Shown

LEMMA RevocationIsHonest == MarkInv => RevocationHonest
<1> SUFFICES ASSUME MarkInv
             PROVE  RevocationHonest
  OBVIOUS
<1>1. \A doc \in evidence : doc.certs \in Nat
  BY MarkAssumption DEF MarkInv, MarkPhase
<1>2. \A doc \in evidence :
         doc.certs > 0 /\ CheckRevocation /\ doc.certs > 1 /\ doc.revocation # "none" =>
            ~Unchecked(doc)
  BY <1>1 DEF Unchecked
<1> QED
  BY <1>2 DEF MarkInv, RevocationKnown, RevocationHonest

-----------------------------------------------------------------------------
(* The expansion of an SPF record                                          *)

Rec(n) == Published[n][1]
Frame == [name : Names, rest : Seq(SpfTerms)]

\* A call of expand holds the end of its record.
FrameOK(f) ==
    Published[f.name] # <<>> /\ f.name \in consulted /\ EndOf(f.rest, Rec(f.name))

\* The calls of expand: each is of another record, for a record is entered once.
FramesOK ==
    /\ frames \in Seq(Frame)
    /\ \A k \in 1 .. Len(frames) : FrameOK(frames[k])
    /\ \A j, k \in 1 .. Len(frames) : frames[j].name = frames[k].name => j = k

\* A place of a record that a call has still before it; 0 is the redirect.
InHand(n, i) ==
    \E k \in 1 .. Len(frames) :
        frames[k].name = n /\ (i = 0 \/ i > Len(Rec(n)) - Len(frames[k].rest))

Position == PlaceOf(Current.rest, Rec(Current.name))

LEMMA RecType ==
    ASSUME NEW n \in Names, Published[n] # <<>>
    PROVE  Rec(n) \in Seq(SpfTerms) /\ Len(Rec(n)) \in Nat
BY SpfAssumption DEF Rec

LEMMA CurrentFrame ==
    ASSUME FramesOK, frames # <<>>
    PROVE  /\ Len(frames) \in Nat \ {0} /\ Current = frames[Len(frames)]
           /\ Current \in Frame /\ FrameOK(Current)
           /\ Current.name \in Names /\ Published[Current.name] # <<>>
           /\ Rec(Current.name) \in Seq(SpfTerms) /\ Len(Rec(Current.name)) \in Nat
           /\ Current.rest \in Seq(SpfTerms) /\ Len(Current.rest) \in Nat
           /\ EndOf(Current.rest, Rec(Current.name))
<1>1. Len(frames) \in Nat \ {0} /\ Current = frames[Len(frames)]
  BY DEF FramesOK, Current, Last
<1>2. Current \in Frame /\ FrameOK(Current)
  BY <1>1 DEF FramesOK
<1>3. Current.name \in Names /\ Published[Current.name] # <<>>
  BY <1>2 DEF Frame, FrameOK
<1>4. /\ Rec(Current.name) \in Seq(SpfTerms) /\ Len(Rec(Current.name)) \in Nat
  BY <1>3, RecType
<1>5. Current.rest \in Seq(SpfTerms) /\ Len(Current.rest) \in Nat
  BY <1>2 DEF Frame
<1> QED
  BY <1>1, <1>2, <1>3, <1>4, <1>5 DEF FrameOK

\* Only the last call is of the record it is of.
LEMMA InHandOfCurrent ==
    ASSUME FramesOK, frames # <<>>, NEW i
    PROVE  InHand(Current.name, i)
              <=> i = 0 \/ i > Len(Rec(Current.name)) - Len(Current.rest)
<1>1. Len(frames) \in 1 .. Len(frames) /\ Current = frames[Len(frames)]
  BY CurrentFrame
<1>2. \A k \in 1 .. Len(frames) : frames[k].name = Current.name => k = Len(frames)
  BY <1>1 DEF FramesOK
<1> QED
  BY <1>1, <1>2 DEF InHand

\* The term that is next is the term at its place in the record.
LEMMA TermInPlace ==
    ASSUME FramesOK, HasTerm
    PROVE  /\ Position \in 1 .. Len(Rec(Current.name))
           /\ Term = Rec(Current.name)[Position] /\ Term \in SpfTerms
           /\ Term \in TermsAt(Current.name)
           /\ InHand(Current.name, Position)
<1>1. /\ frames # <<>> /\ Current.rest # <<>>
      /\ Published[Current.name] # <<>> /\ Rec(Current.name) \in Seq(SpfTerms)
      /\ Current.rest \in Seq(SpfTerms) /\ EndOf(Current.rest, Rec(Current.name))
  BY CurrentFrame DEF HasTerm
<1>2. /\ Position \in 1 .. Len(Rec(Current.name))
      /\ Head(Current.rest) = Rec(Current.name)[Position]
      /\ Rec(Current.name)[Position] \in SpfTerms
      /\ Position > Len(Rec(Current.name)) - Len(Current.rest)
  BY <1>1, TailOfEnd DEF Position
<1>3. Term \in TermsAt(Current.name)
  BY <1>1, <1>2 DEF TermsAt, ToSet, Rec, Term
<1>4. InHand(Current.name, Position)
  BY <1>1, <1>2, InHandOfCurrent
<1> QED
  BY <1>2, <1>3, <1>4 DEF Term

\* Going on to the next term takes the place of this one out of hand, and no other.
LEMMA NextTermEffect ==
    ASSUME FramesOK, HasTerm, NextTerm, consulted' = consulted
    PROVE  /\ FramesOK'
           /\ \A n : \A i \in Nat :
                InHand(n, i)' <=> InHand(n, i) /\ ~(n = Current.name /\ i = Position)
<1> DEFINE N == Len(frames)
           c == frames[N]
           d == [c EXCEPT !.rest = Tail(@)]
<1>1. /\ N \in Nat \ {0} /\ c = Current /\ c \in Frame /\ FrameOK(c) /\ c.rest # <<>>
      /\ Rec(c.name) \in Seq(SpfTerms) /\ c.rest \in Seq(SpfTerms)
      /\ EndOf(c.rest, Rec(c.name)) /\ frames # <<>>
  BY CurrentFrame DEF HasTerm
<1>2. /\ Position \in 1 .. Len(Rec(c.name)) /\ Tail(c.rest) \in Seq(SpfTerms)
      /\ EndOf(Tail(c.rest), Rec(c.name))
      /\ \A i \in Nat : i > Len(Rec(c.name)) - Len(Tail(c.rest)) <=>
                           i > Len(Rec(c.name)) - Len(c.rest) /\ i # Position
  BY <1>1, TailOfEnd DEF Position
<1>3. d \in Frame /\ d.name = c.name /\ d.rest = Tail(c.rest)
  BY <1>1, <1>2 DEF Frame
<1>4. frames' = [frames EXCEPT ![N] = d]
  BY <1>1 DEF NextTerm
<1> HIDE DEF d
<1>5. FrameOK(d)
  BY <1>1, <1>2, <1>3 DEF FrameOK
<1>6. /\ frames' \in Seq(Frame) /\ Len(frames') = N
      /\ frames'[N] = d /\ \A k \in 1 .. N : k # N => frames'[k] = frames[k]
  BY <1>1, <1>3, <1>4 DEF FramesOK
<1>7. \A f : FrameOK(f)' <=> FrameOK(f)
  BY DEF FrameOK, EndOf, Rec
<1>8. FramesOK'
  <2>1. \A k \in 1 .. N : FrameOK(frames'[k]) /\ frames'[k].name = frames[k].name
    BY <1>1, <1>3, <1>5, <1>6 DEF FramesOK
  <2> QED BY <1>6, <1>7, <2>1 DEF FramesOK
<1>9. ASSUME NEW n, NEW i \in Nat
      PROVE  InHand(n, i)' <=> InHand(n, i) /\ ~(n = Current.name /\ i = Position)
  <2>1. CASE n = c.name
    <3>1. InHand(n, i) <=> i = 0 \/ i > Len(Rec(n)) - Len(c.rest)
      BY <1>1, <2>1, InHandOfCurrent
    <3>2. \A k \in 1 .. N : frames'[k].name = n <=> k = N
      BY <1>1, <1>3, <1>6, <2>1 DEF FramesOK
    <3>3. InHand(n, i)' <=> \E k \in 1 .. N :
             frames'[k].name = n /\ (i = 0 \/ i > Len(Rec(n)) - Len(frames'[k].rest))
      BY <1>6 DEF InHand, Rec
    <3>4. N \in 1 .. N
      BY <1>1
    <3>5. InHand(n, i)' <=> i = 0 \/ i > Len(Rec(n)) - Len(Tail(c.rest))
      BY <1>3, <1>6, <3>2, <3>3, <3>4
    <3>6. i > Len(Rec(n)) - Len(Tail(c.rest)) <=> i > Len(Rec(n)) - Len(c.rest) /\ i # Position
      BY <1>2, <2>1
    <3>7. Position # 0
      BY <1>2
    <3> QED
      BY <1>1, <2>1, <3>1, <3>5, <3>6, <3>7
  <2>2. CASE n # c.name
    BY <1>1, <1>3, <1>6, <2>2 DEF InHand, Rec
  <2> QED
    BY <2>1, <2>2
<1> QED
  BY <1>8, <1>9

\* A record that is entered is in hand from its first term to its redirect.
LEMMA EnterEffect ==
    ASSUME FramesOK, NEW t \in Names, t \notin consulted, Published[t] # <<>>,
           consulted' = consulted \cup {t},
           frames' = Append(frames, [name |-> t, rest |-> Published[t][1]])
    PROVE  /\ FramesOK'
           /\ \A n : \A i \in 0 .. Len(Rec(n)) : InHand(n, i)' <=> InHand(n, i) \/ n = t
<1> DEFINE f == [name |-> t, rest |-> Rec(t)]
           N == Len(frames)
<1>1. Rec(t) \in Seq(SpfTerms) /\ Len(Rec(t)) \in Nat /\ N \in Nat
  BY RecType DEF FramesOK
<1>2. f \in Frame /\ f.name = t /\ f.rest = Rec(t)
  BY <1>1 DEF Frame
<1>3. /\ frames' \in Seq(Frame) /\ Len(frames') = N + 1
      /\ frames'[N + 1] = f /\ \A k \in 1 .. N : frames'[k] = frames[k]
  BY <1>1, <1>2 DEF FramesOK, Rec
<1> HIDE DEF f
<1>4. \A k \in 1 .. N : frames[k].name # t
  BY DEF FramesOK, FrameOK
<1>5. \A g : FrameOK(g) => FrameOK(g)'
  BY DEF FrameOK, EndOf, Rec
<1>6. FrameOK(f)'
  BY <1>1, <1>2 DEF FrameOK, EndOf, Rec
<1>7. \A k \in 1 .. N + 1 : k = N + 1 \/ k \in 1 .. N
  BY <1>1
<1>8. FramesOK'
  BY <1>1, <1>2, <1>3, <1>4, <1>5, <1>6, <1>7 DEF FramesOK
<1>9. ASSUME NEW n, NEW i \in 0 .. Len(Rec(n))
      PROVE  InHand(n, i)' <=> InHand(n, i) \/ n = t
  <2>1. InHand(n, i)' <=> \E k \in 1 .. N + 1 :
           frames'[k].name = n /\ (i = 0 \/ i > Len(Rec(n)) - Len(frames'[k].rest))
    BY <1>3 DEF InHand, Rec
  <2>2. InHand(n, i) => InHand(n, i)'
    BY <1>1, <1>3, <2>1 DEF InHand
  <2>3. n = t => InHand(n, i)'
    <3>1. n = t => i = 0 \/ i > Len(Rec(n)) - Len(f.rest)
      BY <1>1, <1>2, <1>9
    <3> QED BY <1>1, <1>2, <1>3, <2>1, <3>1
  <2>4. InHand(n, i)' => InHand(n, i) \/ n = t
    BY <1>2, <1>3, <1>7, <2>1 DEF InHand
  <2> QED BY <2>2, <2>3, <2>4
<1> QED
  BY <1>8, <1>9

\* A call that has read its terms has only its redirect in hand, and none when it returns.
LEMMA ReturnEffect ==
    ASSUME FramesOK, frames # <<>>, Current.rest = <<>>, frames' = Front(frames),
           consulted' = consulted
    PROVE  /\ FramesOK'
           /\ \A i \in 0 .. Len(Rec(Current.name)) : InHand(Current.name, i) <=> i = 0
           /\ \A n : \A i : InHand(n, i)' <=> InHand(n, i) /\ n # Current.name
<1> DEFINE N == Len(frames)
           c == frames[N]
<1>1. N \in Nat \ {0} /\ c = Current /\ frames \in Seq(Frame)
  BY CurrentFrame DEF FramesOK
<1>2. Len(Current.rest) = 0 /\ Len(Rec(Current.name)) \in Nat
  BY CurrentFrame
<1>3. frames' = SubSeq(frames, 1, N - 1)
  BY DEF Front
<1>4. /\ frames' \in Seq(Frame) /\ Len(frames') = N - 1
      /\ \A k \in 1 .. N - 1 : frames'[k] = frames[k]
  <2>1. N - 1 \in 0 .. N /\ 1 \in 1 .. N + 1
    BY <1>1
  <2>2. /\ N - 1 \in Int /\ \A i \in 1 .. N - 1 : frames[i] \in Frame
    BY <1>1
  <2>3. /\ SubSeq(frames, 1, N - 1) \in Seq(Frame)
        /\ Len(SubSeq(frames, 1, N - 1)) = IF 1 <= N - 1 THEN N - 1 - 1 + 1 ELSE 0
        /\ \A i \in 1 .. N - 1 - 1 + 1 : SubSeq(frames, 1, N - 1)[i] = frames[1 + i - 1]
    BY <2>2, SubSeqProperties
  <2> HIDE DEF N
  <2>4. (IF 1 <= N - 1 THEN N - 1 - 1 + 1 ELSE 0) = N - 1
    BY <1>1
  <2>5. \A i \in 1 .. N - 1 : i \in 1 .. N - 1 - 1 + 1 /\ 1 + i - 1 = i
    BY <1>1
  <2> QED BY <1>3, <2>3, <2>4, <2>5
<1>5. \A g : FrameOK(g) <=> FrameOK(g)'
  BY DEF FrameOK, EndOf, Rec
<1>6. FramesOK'
  <2>1. \A k \in 1 .. N - 1 : k \in 1 .. N
    BY <1>1
  <2> HIDE DEF N
  <2> QED BY <1>4, <1>5, <2>1 DEF FramesOK, N
<1>7. \A k \in 1 .. N : frames[k].name = c.name <=> k = N
  BY <1>1 DEF FramesOK
<1>8. ASSUME NEW i \in 0 .. Len(Rec(Current.name))
      PROVE  InHand(Current.name, i) <=> i = 0
  BY <1>2, InHandOfCurrent
<1>9. ASSUME NEW n, NEW i
      PROVE  InHand(n, i)' <=> InHand(n, i) /\ n # c.name
  <2>1. InHand(n, i)' <=> \E k \in 1 .. N - 1 :
           frames'[k].name = n /\ (i = 0 \/ i > Len(Rec(n)) - Len(frames'[k].rest))
    BY <1>4 DEF InHand, Rec
  <2>2. \A k : k \in 1 .. N - 1 <=> k \in 1 .. N /\ k # N
    BY <1>1
  <2> QED BY <1>4, <1>7, <2>1, <2>2 DEF InHand
<1> QED
  BY <1>1, <1>6, <1>8, <1>9

-----------------------------------------------------------------------------

LEMMA HostOfName ==
    ASSUME NEW n \in Names, NEW t \in SpfTerms
    PROVE  HostOf(t, n) \in Names
BY SpfAssumption DEF HostOf, SpfTerms

LEMMA RedirectName ==
    ASSUME NEW n \in Names, Published[n] # <<>>
    PROVE  RedirectOf(Rec(n), n) \in Names \cup {NoName}
<1> DEFINE I == {i \in 1 .. Len(Rec(n)) : Rec(n)[i].mech = "redirect"}
           k == SelectLastInSeq(Rec(n), LAMBDA t : t.mech = "redirect")
<1>1. Rec(n) \in Seq(SpfTerms) /\ Len(Rec(n)) \in Nat
  BY RecType
<1>2. k = IF I # {} THEN Max(I) ELSE 0
  BY DEF SelectLastInSeq
<1>3. k # 0 => k \in 1 .. Len(Rec(n))
  <2>1. I # {} => Max(I) \in I
    BY <1>1, MaxInSet
  <2> QED BY <1>2, <2>1
<1>4. RedirectOf(Rec(n), n) =
         IF k = 0 \/ Rec(n)[k].arg = NoName THEN NoName ELSE HostOf(Rec(n)[k], n)
  BY DEF RedirectOf
<1> HIDE DEF k
<1> QED
  BY <1>1, <1>3, <1>4, HostOfName

Leads(t) == t.mech = "include" /\ t.pass /\ t.arg # NoName

LEMMA FollowsOf ==
    ASSUME NEW n \in Names, Published[n] # <<>>
    PROVE  /\ Follows(n) \subseteq Names
           /\ \A m \in Follows(n) : \/ \E t \in TermsAt(n) : Leads(t) /\ m = HostOf(t, n)
                                    \/ m = RedirectOf(Rec(n), n) /\ m # NoName
           /\ \A t \in TermsAt(n) : Leads(t) => HostOf(t, n) \in Follows(n)
           /\ RedirectOf(Rec(n), n) # NoName => RedirectOf(Rec(n), n) \in Follows(n)
<1>1. TermsAt(n) \subseteq SpfTerms
  BY RecType DEF TermsAt, ToSet, Rec
<1>2. Follows(n) = {HostOf(t, n) : t \in {x \in TermsAt(n) : Leads(x)}}
                      \cup ({RedirectOf(Rec(n), n)} \ {NoName})
  BY DEF Follows, Leads, Rec
<1> QED
  BY <1>1, <1>2, HostOfName, RedirectName

LEMMA FollowsNames ==
    ASSUME NEW n \in Names
    PROVE  Follows(n) \subseteq Names
<1>1. Published[n] = <<>> => Follows(n) = {}
  BY DEF Follows
<1> QED
  BY <1>1, FollowsOf

\* Reachable is the least closed set.
LEMMA ReachableClosed ==
    ASSUME NEW d \in Names
    PROVE  /\ Reachable(d) \subseteq Names /\ d \in Reachable(d)
           /\ \A n \in Reachable(d) : Follows(n) \subseteq Reachable(d)
BY FollowsNames DEF Reachable, Closed

LEMMA ReachableLeast ==
    ASSUME NEW d \in Names, NEW S \in SUBSET Names, d \in S, Closed(S)
    PROVE  Reachable(d) \subseteq S
BY DEF Reachable

LEMMA SitesFinite ==
    ASSUME NEW n \in Names
    PROVE  IsFiniteSet(Sites(n))
<1>1. CASE Published[n] = <<>>
  BY <1>1, FS_EmptySet DEF Sites
<1>2. CASE Published[n] # <<>>
  <2>1. Len(Published[n][1]) \in Nat
    BY <1>2, RecType DEF Rec
  <2>2. Sites(n) \subseteq 0 .. Len(Published[n][1])
    BY <1>2, <2>1 DEF Sites
  <2>3. IsFiniteSet(0 .. Len(Published[n][1]))
    BY <2>1, FS_Interval
  <2> QED BY <2>2, <2>3, FS_Subset
<1> QED
  BY <1>1, <1>2

LEMMA AllSitesFinite ==
    ASSUME NEW d \in Names
    PROVE  IsFiniteSet(AllSites(d))
<1> DEFINE at(n) == {<<n, i>> : i \in Sites(n)}
           S == {at(n) : n \in Reachable(d)}
           f == [n \in Reachable(d) |-> at(n)]
<1>1. IsFiniteSet(Reachable(d)) /\ Reachable(d) \subseteq Names
  BY ReachableClosed, SpfAssumption, FS_Subset
<1>2. f \in Surjection(Reachable(d), S)
  BY DEF Surjection
<1>3. IsFiniteSet(S)
  <2> HIDE DEF f, S
  <2> QED BY <1>1, <1>2, FS_Surjection
<1>4. ASSUME NEW n \in Reachable(d)
      PROVE  IsFiniteSet(at(n))
  <2>1. IsFiniteSet({n} \X Sites(n))
    BY <1>1, SitesFinite, FS_Singleton, FS_Product
  <2>2. at(n) \subseteq {n} \X Sites(n)
    OBVIOUS
  <2> QED BY <2>1, <2>2, FS_Subset
<1>5. \A T \in S : IsFiniteSet(T)
  BY <1>4
<1>6. AllSites(d) = UNION S
  BY DEF AllSites
<1> HIDE DEF S
<1> QED
  BY <1>3, <1>5, <1>6, FS_UNION

-----------------------------------------------------------------------------

\* A place of a record that has been read.
ReadAt(n, i) ==
    n \in consulted /\ Published[n] # <<>> /\ i \in 0 .. Len(Rec(n)) /\ ~InHand(n, i)

ReadSites == {s \in AllSites(origin) : ReadAt(s[1], s[2])}

\* The records that are entered, or about to be.
Entered == consulted \cup (IF spfAt = "enter" THEN {target} ELSE {})

SpfShape ==
    /\ spfAt \in {"idle", "enter", "terms", "failed", "done", "stored"}
    /\ spfAt = "idle" => /\ found = {} /\ consulted = {} /\ frames = <<>> /\ lookups = 0
                         /\ ~over /\ faults = {} /\ origin = NoName
    /\ spfAt # "idle" => /\ origin \in Names /\ target \in Reachable(origin)
                         /\ origin \in Entered
                         /\ consulted \subseteq Reachable(origin)
                         /\ found \subseteq AuthorisedBy(origin)
    /\ FramesOK
    /\ lookups \in 0 .. MaxLookups /\ over \in BOOLEAN
    /\ over => spfAt \in {"terms", "done", "stored"} /\ frames = <<>>
    /\ spfAt \in {"done", "failed", "stored"} => frames = <<>>
    /\ spfAt = "failed" => "dns" \in faults
    /\ spfAt = "stored" /\ "dns" \notin faults => \A e \in entry : e.nets = found

\* What has been read is in the result, the records it leads to are entered or about
\* to be, and the places that cost a lookup are counted.
SpfExact ==
    /\ \A n \in Names : \A i \in 1 .. Len(Rec(n)) :
          ReadAt(n, i) =>
             /\ Authorises(Rec(n)[i], n) \subseteq found
             /\ Leads(Rec(n)[i]) => HostOf(Rec(n)[i], n) \in Entered
    /\ \A n \in Names : ReadAt(n, 0) => RedirectOf(Rec(n), n) \in Entered \cup {NoName}
    /\ spfAt # "idle" => lookups = Cardinality(ReadSites)

SpfInv ==
    /\ SpfShape
    /\ "dns" \notin faults =>
          IF over THEN LookupsNeeded(origin) > MaxLookups ELSE SpfExact

LEMMA AuthorisesIn ==
    ASSUME NEW d, NEW n \in Reachable(d), NEW t \in TermsAt(n)
    PROVE  Authorises(t, n) \subseteq AuthorisedBy(d)
BY DEF AuthorisedBy

\* One more place is read: one more lookup if it costs one.
LEMMA CountOne ==
    ASSUME origin \in Names, origin' = origin, NEW n \in Reachable(origin), NEW j,
           ~ReadAt(n, j),
           \A m : \A i \in Nat : ReadAt(m, i)' <=> ReadAt(m, i) \/ (m = n /\ i = j),
           lookups = Cardinality(ReadSites),
           lookups' = IF j \in Sites(n) THEN lookups + 1 ELSE lookups
    PROVE  lookups' = Cardinality(ReadSites')
<1>1. /\ IsFiniteSet(AllSites(origin)) /\ ReadSites \subseteq AllSites(origin)
      /\ IsFiniteSet(ReadSites)
  BY AllSitesFinite, FS_Subset DEF ReadSites
<1>2. \A s \in AllSites(origin) : s = <<s[1], s[2]>> /\ s[1] \in Reachable(origin)
                                   /\ s[2] \in Nat /\ s[2] \in Sites(s[1])
  <2> SUFFICES ASSUME NEW m \in Reachable(origin), NEW i \in Sites(m)
               PROVE  i \in Nat
    BY DEF AllSites
  <2>1. m \in Names /\ (Published[m] # <<>> => Len(Published[m][1]) \in Nat)
    BY ReachableClosed, RecType DEF Rec
  <2> QED BY <2>1 DEF Sites
<1>3. AllSites(origin)' = AllSites(origin)
  BY DEF AllSites, Reachable, Closed
<1>4. <<n, j>> \in AllSites(origin) <=> j \in Sites(n)
  BY DEF AllSites
<1>5. ReadSites' = IF j \in Sites(n) THEN ReadSites \cup {<<n, j>>} ELSE ReadSites
  <2>1. ASSUME NEW s \in AllSites(origin)
        PROVE  s \in ReadSites' <=> s \in ReadSites \/ s = <<n, j>>
    BY <1>2, <1>3 DEF ReadSites
  <2> QED BY <1>3, <1>4, <2>1 DEF ReadSites
<1>6. <<n, j>> \notin ReadSites
  BY DEF ReadSites
<1> QED
  BY <1>1, <1>5, <1>6, FS_AddElement

\* The hypotheses name what the terms have in common: the term at hand is read.
LEMMA TermRead ==
    ASSUME SpfInv, HasTerm, NextTerm, UNCHANGED <<origin, consulted, over, entry>>,
           found \subseteq found', found' \subseteq found \cup Authorises(Term, Current.name),
           faults \subseteq faults',
           "dns" \notin faults' => Authorises(Term, Current.name) \subseteq found',
           lookups' \in 0 .. MaxLookups,
           lookups' = IF Term.mech \in Querying THEN lookups + 1 ELSE lookups,
           IF Leads(Term) THEN spfAt' = "enter" /\ target' = HostOf(Term, Current.name)
                          ELSE UNCHANGED <<spfAt, target>>
    PROVE  SpfInv'
<1> DEFINE c == Current.name
           p == Position
<1>1. /\ p \in 1 .. Len(Rec(c)) /\ Term = Rec(c)[p] /\ Term \in SpfTerms
      /\ Term \in TermsAt(c) /\ InHand(c, p)
      /\ c \in Names /\ Published[c] # <<>> /\ c \in consulted
      /\ Rec(c) \in Seq(SpfTerms) /\ Len(Rec(c)) \in Nat
  BY TermInPlace, CurrentFrame DEF SpfInv, SpfShape, HasTerm, FrameOK
<1>2. /\ FramesOK'
      /\ \A n : \A i \in Nat : InHand(n, i)' <=> InHand(n, i) /\ ~(n = c /\ i = p)
  BY NextTermEffect DEF SpfInv, SpfShape
<1>3. /\ spfAt = "terms" /\ frames # <<>> /\ ~over
      /\ origin \in Names /\ target \in Reachable(origin) /\ origin \in consulted
      /\ consulted \subseteq Reachable(origin) /\ found \subseteq AuthorisedBy(origin)
  BY DEF HasTerm, SpfInv, SpfShape, Entered
<1>4. \A n \in Names : \A i \in Nat : ReadAt(n, i)' <=> ReadAt(n, i) \/ (n = c /\ i = p)
  BY <1>1, <1>2 DEF ReadAt, Rec
<1>5. /\ AuthorisedBy(origin)' = AuthorisedBy(origin)
      /\ Reachable(origin)' = Reachable(origin)
  BY DEF AuthorisedBy, Reachable
<1>6. c \in Reachable(origin) /\ Authorises(Term, c) \subseteq AuthorisedBy(origin)
  BY <1>1, <1>3, AuthorisesIn
<1>7. Leads(Term) => HostOf(Term, c) \in Reachable(origin)
  BY <1>1, <1>3, <1>6, FollowsOf, ReachableClosed
<1>8. SpfShape'
  BY <1>2, <1>3, <1>5, <1>6, <1>7 DEF SpfShape, SpfInv, Entered
<1>9. ASSUME "dns" \notin faults'
      PROVE  SpfExact'
  <2>1. SpfExact
    BY <1>3, <1>9 DEF SpfInv
  <2>2. Entered \subseteq Entered' /\ (Leads(Term) => HostOf(Term, c) \in Entered')
    BY <1>3 DEF Entered
  <2>3. ASSUME NEW n \in Names, NEW i \in 1 .. Len(Rec(n)), ReadAt(n, i)'
        PROVE  /\ Authorises(Rec(n)[i], n) \subseteq found'
               /\ Leads(Rec(n)[i]) => HostOf(Rec(n)[i], n) \in Entered'
    <3>1. CASE n = c /\ i = p
      BY <1>1, <1>9, <2>2, <3>1
    <3>2. CASE ~(n = c /\ i = p)
      <4>1. ReadAt(n, i)
        BY <1>4, <2>3, <3>2
      <4> QED BY <2>1, <2>2, <4>1 DEF SpfExact
    <3> QED BY <3>1, <3>2
  <2>4. ASSUME NEW n \in Names, ReadAt(n, 0)'
        PROVE  RedirectOf(Rec(n), n) \in Entered' \cup {NoName}
    <3>1. ReadAt(n, 0)
      BY <1>1, <1>4, <2>4
    <3> QED BY <2>1, <2>2, <3>1 DEF SpfExact
  <2>5. lookups' = Cardinality(ReadSites')
    <3>1. p \in Sites(c) <=> Term.mech \in Querying
      BY <1>1 DEF Sites, Rec
    <3>2. ~ReadAt(c, p)
      BY <1>1 DEF ReadAt
    <3>3. lookups = Cardinality(ReadSites)
      BY <1>3, <2>1 DEF SpfExact
    <3>4. \A m : \A i \in Nat : ReadAt(m, i)' <=> ReadAt(m, i) \/ (m = c /\ i = p)
      BY <1>1, <1>2 DEF ReadAt, Rec
    <3> QED BY <1>3, <1>6, <3>1, <3>2, <3>3, <3>4, CountOne
  <2> QED BY <2>3, <2>4, <2>5 DEF SpfExact, Rec
<1> QED
  BY <1>3, <1>8, <1>9 DEF SpfInv

LEMMA SpfInvInit == SpfInit => SpfInv
<1> SUFFICES ASSUME SpfInit
             PROVE  SpfInv
  OBVIOUS
<1>1. FramesOK
  BY DEF SpfInit, FramesOK
<1>2. SpfShape
  <2>1. 0 \in 0 .. MaxLookups
    BY SpfAssumption
  <2>2. spfAt = "idle" /\ lookups = 0 /\ over = FALSE
    BY DEF SpfInit
  <2>3. /\ found = {} /\ consulted = {} /\ frames = <<>> /\ faults = {} /\ origin = NoName
    BY DEF SpfInit
  <2> QED BY <1>1, <2>1, <2>2, <2>3 DEF SpfShape
<1>3. \A n, i : ~ReadAt(n, i)
  BY DEF SpfInit, ReadAt
<1>4. SpfExact
  BY <1>3 DEF SpfInit, SpfExact
<1> QED
  BY <1>2, <1>4 DEF SpfInit, SpfInv

LEMMA ResolveSpfStep ==
    ASSUME SpfInv, NEW d \in Names, ResolveSpf(d)
    PROVE  SpfInv'
<1>1. /\ found = {} /\ consulted = {} /\ frames = <<>> /\ lookups = 0 /\ ~over /\ faults = {}
      /\ UNCHANGED <<frames, found, consulted, lookups, over, faults, entry>>
      /\ origin' = d /\ target' = d /\ spfAt' = "enter"
  BY DEF ResolveSpf, SpfInv, SpfShape
<1>2. d \in Reachable(d)
  BY ReachableClosed
<1>3. Cardinality(ReadSites') = 0
  BY <1>1, FS_EmptySet DEF ReadSites, ReadAt
<1> QED
  BY <1>1, <1>2, <1>3, SpfAssumption DEF SpfInv, SpfShape, SpfExact, FramesOK, ReadAt, Entered

\* A step that reads no place: nothing is added and nothing counted.
LEMMA NothingRead ==
    ASSUME SpfInv, spfAt # "idle", ~over, UNCHANGED <<origin, found, lookups, over, entry>>,
           FramesOK', \A n \in Names : \A i \in Nat : ReadAt(n, i)' <=> ReadAt(n, i),
           Entered \subseteq Entered', consulted' \subseteq Reachable(origin),
           target' \in Reachable(origin),
           spfAt' \in {"enter", "terms"} \/ (spfAt' \in {"done", "failed"} /\ frames' = <<>>),
           spfAt' = "failed" => "dns" \in faults',
           faults \subseteq faults'
    PROVE  SpfInv'
<1>1. /\ AuthorisedBy(origin)' = AuthorisedBy(origin)
      /\ Reachable(origin)' = Reachable(origin)
      /\ AllSites(origin)' = AllSites(origin)
  BY DEF AuthorisedBy, Reachable, AllSites
<1>2. SpfShape'
  BY <1>1 DEF SpfInv, SpfShape
<1>3. ASSUME "dns" \notin faults'
      PROVE  SpfExact'
  <2>1. SpfExact
    BY <1>3 DEF SpfInv
  <2>2. \A s \in AllSites(origin) : s[1] \in Names /\ s[2] \in Nat
    <3> SUFFICES ASSUME NEW m \in Reachable(origin), NEW i \in Sites(m)
                 PROVE  m \in Names /\ i \in Nat
      BY DEF AllSites
    <3>1. origin \in Names
      BY DEF SpfInv, SpfShape
    <3>2. m \in Names /\ (Published[m] # <<>> => Len(Published[m][1]) \in Nat)
      BY <3>1, ReachableClosed, RecType DEF Rec
    <3> QED BY <3>2 DEF Sites
  <2>3. ReadSites' = ReadSites
    BY <1>1, <2>2 DEF ReadSites
  <2>4. \A n \in Names : \A i \in 1 .. Len(Rec(n)) : ReadAt(n, i)' => ReadAt(n, i)
    OBVIOUS
  <2> QED BY <2>1, <2>3, <2>4 DEF SpfExact, Rec
<1> QED
  BY <1>2, <1>3 DEF SpfInv

LEMMA EnterStep ==
    ASSUME SpfInv, Enter
    PROVE  SpfInv'
<1>1. /\ spfAt = "enter" /\ ~over /\ target \in Reachable(origin) /\ origin \in Names
      /\ consulted \subseteq Reachable(origin) /\ FramesOK
      /\ consulted' = consulted \cup {target} /\ spfAt' = "terms"
      /\ UNCHANGED <<origin, target, found, lookups, over, entry>>
      /\ faults \subseteq faults'
  BY DEF Enter, SpfInv, SpfShape
<1>2. target \in Names
  BY <1>1, ReachableClosed
<1>3. /\ FramesOK'
      /\ \A n \in Names : \A i \in Nat : ReadAt(n, i)' <=> ReadAt(n, i)
  <2>1. CASE target \in consulted
    <3>1. UNCHANGED <<frames, consulted>>
      BY <1>1, <2>1 DEF Enter
    <3> QED BY <1>1, <3>1 DEF FramesOK, FrameOK, ReadAt, InHand, Rec
  <2>2. CASE target \notin consulted /\ Published[target] = <<>>
    <3>1. UNCHANGED frames
      BY <1>1, <2>2 DEF Enter
    <3> QED BY <1>1, <2>2, <3>1 DEF FramesOK, FrameOK, ReadAt, InHand, Rec
  <2>3. CASE target \notin consulted /\ Published[target] # <<>>
    <3>1. frames' = Append(frames, [name |-> target, rest |-> Published[target][1]])
      BY <1>1, <2>3 DEF Enter
    <3>2. /\ FramesOK'
          /\ \A n : \A i \in 0 .. Len(Rec(n)) : InHand(n, i)' <=> InHand(n, i) \/ n = target
      BY <1>1, <1>2, <2>3, <3>1, EnterEffect
    <3>3. ASSUME NEW n \in Names, NEW i \in Nat
          PROVE  ReadAt(n, i)' <=> ReadAt(n, i)
      BY <1>1, <2>3, <3>2 DEF ReadAt, Rec
    <3> QED BY <3>2, <3>3
  <2> QED BY <2>1, <2>2, <2>3
<1>4. Entered \subseteq Entered' /\ consulted' \subseteq Reachable(origin)
  BY <1>1 DEF Entered
<1> QED
  BY <1>1, <1>3, <1>4, NothingRead

LEMMA EnterFailsStep ==
    ASSUME SpfInv, EnterFails
    PROVE  SpfInv'
<1>1. /\ spfAt = "enter" /\ ~over /\ target \in Reachable(origin) /\ origin \in Names
      /\ consulted \subseteq Reachable(origin) /\ FramesOK
      /\ consulted' = consulted \cup {target} /\ spfAt' \in {"failed", "terms"}
      /\ spfAt' = "failed" => consulted = {}
      /\ UNCHANGED <<origin, target, frames, found, lookups, over, entry>>
      /\ "dns" \in faults'
  BY DEF EnterFails, SpfInv, SpfShape, AtTop
<1>2. FramesOK'
  BY <1>1 DEF FramesOK, FrameOK
<1>3. spfAt' = "failed" => frames' = <<>>
  <2> SUFFICES ASSUME spfAt' = "failed", frames # <<>>
               PROVE  FALSE
    BY <1>1
  <2>1. FrameOK(Current)
    BY <1>1, CurrentFrame
  <2> QED BY <1>1, <2>1 DEF FrameOK
<1>4. /\ AuthorisedBy(origin)' = AuthorisedBy(origin)
      /\ Reachable(origin)' = Reachable(origin)
  BY <1>1 DEF AuthorisedBy, Reachable
<1>5. SpfShape'
  BY <1>1, <1>2, <1>3, <1>4 DEF SpfInv, SpfShape, Entered
<1> QED
  BY <1>1, <1>5 DEF SpfInv

LEMMA PlainTermStep ==
    ASSUME SpfInv, PlainTerm
    PROVE  SpfInv'
<1>1. Authorises(Term, Current.name) =
         CASE Term.mech = "all" /\ Term.pass -> Everything
           [] Term.mech = "ip" /\ Term.pass -> Literals(Term)
           [] OTHER -> {}
  BY TermInPlace DEF PlainTerm, Authorises, Querying, SpfTerms, SpfInv, SpfShape
<1>2. found' = found \cup Authorises(Term, Current.name)
  BY <1>1 DEF PlainTerm
<1>3. ~Leads(Term)
  BY DEF PlainTerm, Leads, Querying
<1> QED
  BY <1>2, <1>3, TermRead DEF PlainTerm, SpfInv, SpfShape

LEMMA TermAStep ==
    ASSUME SpfInv, TermA
    PROVE  SpfInv'
<1>1. Authorises(Term, Current.name) =
         IF Term.pass THEN NetworksOf(HostOf(Term, Current.name), Term) ELSE {}
  BY DEF TermA, Authorises
<1>2. /\ HasTerm /\ Term.mech = "a" /\ CountLookup /\ NextTerm
      /\ UNCHANGED <<origin, spfAt, target, consulted, over, entry>>
      /\ faults \subseteq faults' /\ found \subseteq found'
      /\ found' \subseteq found \cup Authorises(Term, Current.name)
      /\ "dns" \notin faults' => Authorises(Term, Current.name) \subseteq found'
  BY <1>1 DEF TermA
<1>3. lookups' \in 0 .. MaxLookups /\ lookups' = lookups + 1
  BY <1>2, SpfAssumption DEF CountLookup, SpfInv, SpfShape
<1> QED
  BY <1>2, <1>3, TermRead DEF Leads, Querying

LEMMA TermMXStep ==
    ASSUME SpfInv, TermMX
    PROVE  SpfInv'
<1> DEFINE all == MailHosts[HostOf(Term, Current.name)]
           hosts == ToSet(SubSeq(all, 1, Min({Len(all), MaxLookups})))
<1>1. /\ HasTerm /\ Term.mech = "mx" /\ CountLookup /\ NextTerm
      /\ UNCHANGED <<origin, spfAt, target, consulted, over, entry>>
      /\ Term \in SpfTerms /\ Current.name \in Names
  BY TermInPlace, CurrentFrame DEF TermMX, SpfInv, SpfShape, HasTerm
<1>2. all \in Seq(Names) /\ Len(all) \in Nat
  BY <1>1, HostOfName, SpfAssumption
<1>3. hosts = {all[i] : i \in 1 .. Min({Len(all), MaxLookups})}
  <2> DEFINE k == Min({Len(all), MaxLookups})
  <2>1. k \in Nat /\ k <= Len(all)
    <3>1. MaxLookups \in Nat
      BY SpfAssumption
    <3>2. k = IF Len(all) <= MaxLookups THEN Len(all) ELSE MaxLookups
      BY <1>2, <3>1, MinOfTwo
    <3> HIDE DEF all, k
    <3> QED BY <1>2, <3>1, <3>2
  <2> HIDE DEF k
  <2>2. /\ Len(SubSeq(all, 1, k)) = k
        /\ \A i \in 1 .. k : SubSeq(all, 1, k)[i] = all[i]
        /\ SubSeq(all, 1, k) \in Seq(Names)
    BY <1>2, <2>1
  <2>3. DOMAIN SubSeq(all, 1, k) = 1 .. k
    BY <2>1, <2>2
  <2> QED BY <2>2, <2>3 DEF ToSet, k
<1>4. Authorises(Term, Current.name) =
         IF Term.pass THEN UNION {NetworksOf(h, Term) : h \in hosts} ELSE {}
  BY <1>1, <1>3 DEF Authorises
<1>5. /\ faults \subseteq faults' /\ found \subseteq found'
      /\ found' \subseteq found \cup Authorises(Term, Current.name)
      /\ "dns" \notin faults' => Authorises(Term, Current.name) \subseteq found'
  <2>1. CASE ~Term.pass
    BY <1>4, <2>1 DEF TermMX
  <2>2. CASE Term.pass /\ "dns" \in faults' /\ found' = found /\ faults \subseteq faults'
    BY <2>2
  <2>3. CASE /\ Term.pass
             /\ \E failing \in SUBSET hosts :
                   /\ found' = found \cup UNION {NetworksOf(h, Term) : h \in hosts \ failing}
                   /\ faults \subseteq faults' /\ (failing # {} => "dns" \in faults')
    BY <1>4, <2>3
  <2> QED BY <2>1, <2>2, <2>3 DEF TermMX
<1>6. lookups' \in 0 .. MaxLookups /\ lookups' = lookups + 1
  BY <1>1, SpfAssumption DEF CountLookup, SpfInv, SpfShape
<1> QED
  BY <1>1, <1>5, <1>6, TermRead DEF Leads, Querying

LEMMA TermIncludeStep ==
    ASSUME SpfInv, TermInclude
    PROVE  SpfInv'
<1>1. Authorises(Term, Current.name) = {}
  BY DEF TermInclude, Authorises
<1>2. lookups' \in 0 .. MaxLookups /\ lookups' = lookups + 1
  BY SpfAssumption DEF TermInclude, CountLookup, SpfInv, SpfShape
<1>3. spfAt = "terms"
  BY DEF TermInclude, HasTerm
<1>4. /\ Leads(Term) <=> Term.pass /\ Term.arg # NoName
      /\ faults \subseteq faults' /\ Term.mech \in Querying
  BY DEF TermInclude, Leads, Querying
<1> QED
  BY <1>1, <1>2, <1>4, TermRead DEF TermInclude

LEMMA TermOpaqueStep ==
    ASSUME SpfInv, TermOpaque
    PROVE  SpfInv'
<1>1. Authorises(Term, Current.name) = {}
  BY DEF TermOpaque, Authorises
<1>2. lookups' \in 0 .. MaxLookups /\ lookups' = lookups + 1
  BY SpfAssumption DEF TermOpaque, CountLookup, SpfInv, SpfShape
<1> QED
  BY <1>1, <1>2, TermRead DEF TermOpaque, Leads, Querying

\* The place a refused lookup would have been for is one more than there may be.
LEMMA OneTooMany ==
    ASSUME SpfInv, spfAt # "idle", ~over, "dns" \notin faults, lookups >= MaxLookups,
           NEW n \in Reachable(origin), NEW j \in Sites(n), ~ReadAt(n, j)
    PROVE  LookupsNeeded(origin) > MaxLookups
<1>1. origin \in Names /\ lookups \in Nat /\ MaxLookups \in Nat
  BY SpfAssumption DEF SpfInv, SpfShape
<1>2. lookups = Cardinality(ReadSites)
  BY DEF SpfInv, SpfExact
<1>3. /\ IsFiniteSet(AllSites(origin)) /\ ReadSites \subseteq AllSites(origin)
      /\ IsFiniteSet(ReadSites)
  BY <1>1, AllSitesFinite, FS_Subset DEF ReadSites
<1>4. <<n, j>> \in AllSites(origin) /\ <<n, j>> \notin ReadSites
  BY DEF AllSites, ReadSites
<1>5. Cardinality(ReadSites \cup {<<n, j>>}) = lookups + 1
  BY <1>2, <1>3, <1>4, FS_AddElement
<1>6. Cardinality(ReadSites \cup {<<n, j>>}) <= Cardinality(AllSites(origin))
  BY <1>3, <1>4, FS_Subset
<1>7. Cardinality(AllSites(origin)) \in Nat
  BY <1>3, FS_CardinalityType
<1> QED
  BY <1>1, <1>5, <1>6, <1>7 DEF LookupsNeeded

\* Refused, every call returns.
LEMMA Refused ==
    ASSUME SpfInv, spfAt = "terms", ~over, frames # <<>>, lookups >= MaxLookups,
           over' = TRUE, frames' = <<>>, faults \subseteq faults',
           UNCHANGED <<origin, spfAt, target, found, consulted, lookups, entry>>,
           NEW n \in Reachable(origin), NEW j \in Sites(n), ~ReadAt(n, j)
    PROVE  SpfInv'
<1>1. /\ AuthorisedBy(origin)' = AuthorisedBy(origin)
      /\ Reachable(origin)' = Reachable(origin)
      /\ LookupsNeeded(origin)' = LookupsNeeded(origin)
  BY DEF AuthorisedBy, Reachable, LookupsNeeded, AllSites
<1>2. FramesOK'
  BY DEF FramesOK
<1>3. SpfShape'
  BY <1>1, <1>2 DEF SpfInv, SpfShape, Entered
<1>4. "dns" \notin faults' => LookupsNeeded(origin) > MaxLookups
  BY OneTooMany
<1> QED
  BY <1>1, <1>3, <1>4 DEF SpfInv

LEMMA LimitReachedStep ==
    ASSUME SpfInv, LimitReached
    PROVE  SpfInv'
<1>1. /\ HasTerm /\ FramesOK /\ ~over /\ spfAt = "terms" /\ frames # <<>>
      /\ consulted \subseteq Reachable(origin)
  BY DEF LimitReached, HasTerm, SpfInv, SpfShape
<1>2. /\ Position \in 1 .. Len(Rec(Current.name)) /\ Term = Rec(Current.name)[Position]
      /\ InHand(Current.name, Position)
      /\ Current.name \in consulted /\ Published[Current.name] # <<>>
  BY <1>1, TermInPlace, CurrentFrame DEF FrameOK
<1>3. Position \in Sites(Current.name)
  BY <1>2 DEF LimitReached, Sites, Rec
<1>4. ~ReadAt(Current.name, Position) /\ Current.name \in Reachable(origin)
  BY <1>1, <1>2 DEF ReadAt
<1> QED
  BY <1>1, <1>3, <1>4, Refused DEF LimitReached

LEMMA EndOfRecordStep ==
    ASSUME SpfInv, EndOfRecord
    PROVE  SpfInv'
<1> DEFINE c == Current.name
           to == RedirectOf(Rec(c), c)
<1>1. /\ FramesOK /\ ~over /\ spfAt = "terms" /\ frames # <<>> /\ Current.rest = <<>>
      /\ consulted \subseteq Reachable(origin) /\ origin \in Names
      /\ origin \in consulted /\ found \subseteq AuthorisedBy(origin)
      /\ UNCHANGED <<origin, found, consulted, entry>>
  BY DEF EndOfRecord, SpfInv, SpfShape, Entered
<1>2. /\ c \in Names /\ c \in consulted /\ Published[c] # <<>> /\ Len(Rec(c)) \in Nat
      /\ c \in Reachable(origin)
  BY <1>1, CurrentFrame DEF FrameOK
<1>3. InHand(c, 0) /\ ~ReadAt(c, 0)
  BY <1>1, InHandOfCurrent DEF ReadAt
<1>4. 0 \in Sites(c) <=> to # NoName
  BY <1>2 DEF Sites, Rec
<1>5. CASE to # NoName /\ lookups >= MaxLookups
  <2>1. /\ over' = TRUE /\ frames' = <<>> /\ faults \subseteq faults'
        /\ UNCHANGED <<spfAt, target, lookups>>
    BY <1>5 DEF EndOfRecord, Rec
  <2> QED BY <1>1, <1>2, <1>3, <1>4, <1>5, <2>1, Refused
<1>6. CASE to = NoName \/ lookups < MaxLookups
  <2>1. /\ frames' = Front(frames) /\ UNCHANGED <<over, faults>>
        /\ IF to = NoName THEN UNCHANGED <<spfAt, target, lookups>>
           ELSE lookups' = lookups + 1 /\ target' = to /\ spfAt' = "enter"
    <3>1. lookups \in Int /\ MaxLookups \in Int
      BY SpfAssumption DEF SpfInv, SpfShape
    <3>2. lookups < MaxLookups => ~(lookups >= MaxLookups)
      BY <3>1
    <3> QED BY <1>6, <3>2 DEF EndOfRecord, Rec
  <2>2. /\ FramesOK'
        /\ \A i \in 0 .. Len(Rec(c)) : InHand(c, i) <=> i = 0
        /\ \A n : \A i : InHand(n, i)' <=> InHand(n, i) /\ n # c
    BY <1>1, <2>1, ReturnEffect
  <2>3. \A m : \A i \in Nat : ReadAt(m, i)' <=> ReadAt(m, i) \/ (m = c /\ i = 0)
    <3> SUFFICES ASSUME NEW m, NEW i \in Nat
                 PROVE  ReadAt(m, i)' <=> ReadAt(m, i) \/ (m = c /\ i = 0)
      OBVIOUS
    <3>1. CASE m = c
      <4>1. ReadAt(m, i)' <=> i \in 0 .. Len(Rec(c))
        BY <1>1, <1>2, <2>2, <3>1 DEF ReadAt, Rec
      <4>2. ReadAt(m, i) <=> i \in 0 .. Len(Rec(c)) /\ i # 0
        BY <1>1, <1>2, <2>2, <3>1 DEF ReadAt
      <4>3. 0 \in 0 .. Len(Rec(c))
        BY <1>2
      <4> QED BY <3>1, <4>1, <4>2, <4>3
    <3>2. CASE m # c
      BY <1>1, <2>2, <3>2 DEF ReadAt, Rec
    <3> QED BY <3>1, <3>2
  <2>4. to # NoName => to \in Follows(c) /\ to \in Reachable(origin)
    BY <1>1, <1>2, FollowsOf, ReachableClosed
  <2>5. /\ AuthorisedBy(origin)' = AuthorisedBy(origin)
        /\ Reachable(origin)' = Reachable(origin)
    BY <1>1 DEF AuthorisedBy, Reachable
  <2>6. lookups' \in 0 .. MaxLookups
    BY <1>6, <2>1, SpfAssumption DEF SpfInv, SpfShape
  <2>7. SpfShape'
    <3>1. target \in Reachable(origin)
      BY <1>1 DEF SpfInv, SpfShape
    <3>2. target' \in Reachable(origin) /\ spfAt' \in {"terms", "enter"}
      BY <1>1, <2>1, <2>4, <3>1
    <3>3. origin \in Entered'
      BY <1>1 DEF Entered
    <3>4. over' = over /\ over = FALSE
      BY <1>1, <2>1 DEF SpfInv, SpfShape
    <3> HIDE DEF c, to
    <3> QED BY <1>1, <2>2, <2>5, <2>6, <3>2, <3>3, <3>4 DEF SpfShape
  <2>8. ASSUME "dns" \notin faults'
        PROVE  SpfExact'
    <3>1. SpfExact
      BY <1>1, <2>1, <2>8 DEF SpfInv
    <3>2. Entered \subseteq Entered' /\ to \in Entered' \cup {NoName}
      BY <1>1, <2>1 DEF Entered
    <3>3. \A n \in Names : \A i \in 1 .. Len(Rec(n)) : ReadAt(n, i)' => ReadAt(n, i)
      BY <2>3
    <3>4. \A n \in Names : ReadAt(n, 0)' => RedirectOf(Rec(n), n) \in Entered' \cup {NoName}
      BY <2>3, <3>1, <3>2 DEF SpfExact
    <3>5. lookups' = Cardinality(ReadSites')
      <4>1. lookups = Cardinality(ReadSites)
        BY <1>1, <3>1 DEF SpfExact
      <4>2. lookups' = IF 0 \in Sites(c) THEN lookups + 1 ELSE lookups
        BY <1>4, <2>1
      <4> QED BY <1>1, <1>2, <1>3, <2>3, <4>1, <4>2, CountOne
    <3> QED BY <1>1, <3>1, <3>2, <3>3, <3>4, <3>5 DEF SpfExact, Rec
  <2> QED BY <1>1, <2>1, <2>7, <2>8 DEF SpfInv
<1>7. lookups \in Int /\ MaxLookups \in Int
  BY SpfAssumption DEF SpfInv, SpfShape
<1> QED
  BY <1>5, <1>6, <1>7

LEMMA ResolveEndsStep ==
    ASSUME SpfInv, ResolveEnds
    PROVE  SpfInv'
<1>1. /\ spfAt = "terms" /\ frames = <<>> /\ spfAt' = "done" /\ frames' = <<>>
      /\ UNCHANGED <<origin, target, frames, found, consulted, lookups, over, faults, entry>>
      /\ consulted \subseteq Reachable(origin) /\ target \in Reachable(origin) /\ FramesOK
  BY DEF ResolveEnds, SpfInv, SpfShape
<1>2. /\ AuthorisedBy(origin)' = AuthorisedBy(origin)
      /\ Reachable(origin)' = Reachable(origin)
      /\ LookupsNeeded(origin)' = LookupsNeeded(origin)
      /\ AllSites(origin)' = AllSites(origin)
  BY <1>1 DEF AuthorisedBy, Reachable, LookupsNeeded, AllSites
<1>3. FramesOK' /\ Entered' = Entered
  BY <1>1 DEF FramesOK, FrameOK, Entered
<1>4. SpfShape'
  BY <1>1, <1>2, <1>3 DEF SpfInv, SpfShape
<1>5. \A n, i : ReadAt(n, i)' <=> ReadAt(n, i)
  BY <1>1 DEF ReadAt, InHand
<1>6. ReadSites' = ReadSites
  BY <1>2, <1>5 DEF ReadSites
<1>7. SpfExact => SpfExact'
  BY <1>1, <1>3, <1>5, <1>6 DEF SpfExact, Rec
<1> QED
  BY <1>1, <1>2, <1>4, <1>7 DEF SpfInv

LEMMA StoreEntryStep ==
    ASSUME SpfInv, StoreEntry
    PROVE  SpfInv'
<1>1. /\ spfAt \in {"done", "failed"} /\ frames = <<>> /\ spfAt' = "stored"
      /\ UNCHANGED <<origin, target, frames, found, consulted, lookups, over, faults>>
      /\ consulted \subseteq Reachable(origin) /\ target \in Reachable(origin) /\ FramesOK
      /\ spfAt = "failed" => "dns" \in faults
      /\ over => spfAt = "done"
  BY DEF StoreEntry, SpfInv, SpfShape
<1>2. /\ AuthorisedBy(origin)' = AuthorisedBy(origin)
      /\ Reachable(origin)' = Reachable(origin)
      /\ LookupsNeeded(origin)' = LookupsNeeded(origin)
      /\ AllSites(origin)' = AllSites(origin)
  BY <1>1 DEF AuthorisedBy, Reachable, LookupsNeeded, AllSites
<1>3. FramesOK' /\ Entered' = Entered
  BY <1>1 DEF FramesOK, FrameOK, Entered
<1>4. "dns" \notin faults => \A e \in entry' : e.nets = found
  <2>1. CASE spfAt = "failed"
    BY <1>1, <2>1
  <2>2. CASE spfAt = "done"
    BY <2>2 DEF StoreEntry
  <2> QED BY <1>1, <2>1, <2>2
<1>5. SpfShape'
  BY <1>1, <1>2, <1>3, <1>4 DEF SpfInv, SpfShape
<1>6. \A n, i : ReadAt(n, i)' <=> ReadAt(n, i)
  BY <1>1 DEF ReadAt, InHand
<1>7. ReadSites' = ReadSites
  BY <1>2, <1>6 DEF ReadSites
<1>8. SpfExact => SpfExact'
  BY <1>1, <1>3, <1>6, <1>7 DEF SpfExact, Rec
<1> QED
  BY <1>1, <1>2, <1>5, <1>8 DEF SpfInv

LEMMA SpfStepKeeps ==
    ASSUME SpfInv, SpfStep
    PROVE  SpfInv'
BY ResolveSpfStep, EnterStep, EnterFailsStep, PlainTermStep, LimitReachedStep, TermAStep,
   TermMXStep, TermIncludeStep, TermOpaqueStep, EndOfRecordStep, ResolveEndsStep,
   StoreEntryStep DEF SpfStep

\* When the evaluation ends every record it leads to has been read, to its end.
LEMMA AllRead ==
    ASSUME SpfInv, spfAt \in {"done", "stored"}, ~over, "dns" \notin faults
    PROVE  Reachable(origin) \subseteq consulted /\ ReadSites = AllSites(origin)
<1>1. /\ SpfExact /\ origin \in Names /\ origin \in consulted /\ frames = <<>>
      /\ consulted \subseteq Names /\ Entered = consulted
      /\ consulted \subseteq Reachable(origin)
  BY ReachableClosed DEF SpfInv, SpfShape, Entered
<1>2. \A n \in consulted : \A i : Published[n] # <<>> /\ i \in 0 .. Len(Rec(n)) => ReadAt(n, i)
  BY <1>1 DEF ReadAt, InHand
<1>3. Closed(consulted)
  <2> SUFFICES ASSUME NEW n \in consulted, NEW m \in Follows(n)
               PROVE  m \in consulted
    BY DEF Closed
  <2>1. n \in Names /\ Published[n] # <<>>
    BY <1>1 DEF Follows
  <2>2. Rec(n) \in Seq(SpfTerms) /\ Len(Rec(n)) \in Nat
    BY <2>1, RecType
  <2>3. CASE \E t \in TermsAt(n) : Leads(t) /\ m = HostOf(t, n)
    <3>1. PICK i \in 1 .. Len(Rec(n)) : Leads(Rec(n)[i]) /\ m = HostOf(Rec(n)[i], n)
      BY <2>1, <2>2, <2>3 DEF TermsAt, ToSet, Rec
    <3>2. ReadAt(n, i)
      BY <1>2, <2>1
    <3> QED BY <1>1, <2>1, <3>1, <3>2 DEF SpfExact
  <2>4. CASE m = RedirectOf(Rec(n), n) /\ m # NoName
    <3>1. ReadAt(n, 0)
      BY <1>2, <2>1, <2>2
    <3> QED BY <1>1, <2>1, <2>4, <3>1 DEF SpfExact
  <2> QED BY <2>1, <2>3, <2>4, FollowsOf
<1>4. Reachable(origin) \subseteq consulted
  BY <1>1, <1>3, ReachableLeast
<1>5. ReadSites = AllSites(origin)
  <2> SUFFICES ASSUME NEW n \in Reachable(origin), NEW i \in Sites(n)
               PROVE  ReadAt(n, i)
    BY DEF ReadSites, AllSites
  <2>1. n \in consulted /\ n \in Names /\ Published[n] # <<>>
    BY <1>1, <1>4 DEF Sites
  <2>2. i \in 0 .. Len(Rec(n))
    BY <2>1, RecType DEF Sites, Rec
  <2> QED BY <1>2, <2>1, <2>2
<1> QED
  BY <1>4, <1>5

LEMMA ExactWhenDone == SpfInv => ExpansionExact
<1> SUFFICES ASSUME SpfInv
             PROVE  ExpansionExact
  OBVIOUS
<1>1. origin # NoName => found \subseteq AuthorisedBy(origin)
  BY DEF SpfInv, SpfShape
<1>2. ASSUME spfAt \in {"done", "stored"}, "dns" \notin faults, ~over
      PROVE  /\ found = AuthorisedBy(origin)
             /\ lookups = LookupsNeeded(origin) /\ ~(LookupsNeeded(origin) > MaxLookups)
  <2>1. /\ SpfExact /\ found \subseteq AuthorisedBy(origin) /\ frames = <<>>
        /\ lookups \in 0 .. MaxLookups /\ origin \in Names
    BY <1>2 DEF SpfInv, SpfShape
  <2>2. Reachable(origin) \subseteq consulted /\ ReadSites = AllSites(origin)
    BY <1>2, AllRead
  <2>3. lookups = LookupsNeeded(origin)
    BY <1>2, <2>1, <2>2 DEF SpfExact, LookupsNeeded
  <2>4. AuthorisedBy(origin) \subseteq found
    <3> SUFFICES ASSUME NEW n \in Reachable(origin), NEW t \in TermsAt(n)
                 PROVE  Authorises(t, n) \subseteq found
      BY DEF AuthorisedBy
    <3>1. n \in Names /\ n \in consulted /\ Published[n] # <<>>
      BY <2>1, <2>2, ReachableClosed DEF TermsAt
    <3>2. PICK i \in 1 .. Len(Rec(n)) : t = Rec(n)[i]
      BY <3>1, RecType DEF TermsAt, ToSet, Rec
    <3>3. ReadAt(n, i)
      BY <2>1, <3>1, RecType DEF ReadAt, InHand
    <3> QED BY <2>1, <3>1, <3>2, <3>3 DEF SpfExact
  <2>5. MaxLookups \in Nat
    BY SpfAssumption
  <2>6. ~(LookupsNeeded(origin) > MaxLookups)
    BY <2>1, <2>3, <2>5
  <2> QED BY <2>1, <2>3, <2>4, <2>6
<1>3. spfAt = "stored" /\ "dns" \notin faults /\ ~over =>
         \A e \in entry : e.nets = AuthorisedBy(origin)
  <2>1. spfAt = "stored" /\ "dns" \notin faults => \A e \in entry : e.nets = found
    BY DEF SpfInv, SpfShape
  <2> QED BY <1>2, <2>1
<1>4. "dns" \notin faults /\ over => LookupsNeeded(origin) > MaxLookups
  BY DEF SpfInv
<1> QED
  BY <1>1, <1>2, <1>3, <1>4 DEF ExpansionExact

-----------------------------------------------------------------------------
(* The tree walk                                                           *)

DomainNames == Seq(STRING) \ {<<>>}

Longest(name) == IF Len(name) >= MaxQueries THEN MaxQueries - 1 ELSE Len(name) - 1

\* The last labels of a name are as many as were asked for; all of them are the name.
LEMMA LabelsLength ==
    ASSUME NEW name \in DomainNames, NEW k \in 1 .. Len(name)
    PROVE  LastLabels(name, k) \in Seq(STRING) /\ Len(LastLabels(name, k)) = k
<1>1. /\ name \in Seq(STRING) /\ Len(name) \in Nat
      /\ Len(name) - k + 1 \in Int /\ Len(name) \in Int
  BY DEF DomainNames
<1>2. \A i \in Len(name) - k + 1 .. Len(name) : name[i] \in STRING
  BY <1>1
<1>3. /\ LastLabels(name, k) \in Seq(STRING)
      /\ Len(LastLabels(name, k)) = IF Len(name) - k + 1 <= Len(name)
                                    THEN Len(name) - (Len(name) - k + 1) + 1 ELSE 0
  BY <1>1, <1>2, SubSeqProperties DEF LastLabels
<1> QED
  BY <1>1, <1>3

LEMMA AllLabels ==
    ASSUME NEW name \in DomainNames
    PROVE  /\ Len(name) \in Nat \ {0} /\ LastLabels(name, Len(name)) = name
           /\ name \in Ancestors(name)
<1>1. name \in Seq(STRING) /\ Len(name) \in Nat \ {0}
  BY DEF DomainNames
<1>2. LastLabels(name, Len(name)) = SubSeq(name, 1, Len(name))
  BY <1>1 DEF LastLabels
<1>3. SubSeq(name, 1, Len(name)) = name
  BY <1>1
<1> QED
  BY <1>1, <1>2, <1>3 DEF Ancestors

\* The names the walk asks: the name itself, then ancestors that are shorter each time.
LEMMA TargetsOf ==
    ASSUME NEW name \in DomainNames
    PROVE  /\ Longest(name) \in 0 .. Len(name) - 1 /\ Longest(name) < MaxQueries
           /\ Targets(name) \in Seq(Seq(STRING)) /\ Len(Targets(name)) = Longest(name) + 1
           /\ Targets(name)[1] = name
           /\ \A i \in 2 .. Longest(name) + 1 :
                Targets(name)[i] = LastLabels(name, Longest(name) - i + 2)
<1> DEFINE N == Longest(name)
           below == [j \in 1 .. N |-> LastLabels(name, N - j + 1)]
<1>1. N \in 0 .. Len(name) - 1 /\ N < MaxQueries /\ Len(name) \in Nat \ {0}
  BY AllLabels, WalkAssumption DEF Longest
<1>2. Targets(name) = <<name>> \o below
  BY DEF Targets, Longest
<1> HIDE DEF N
<1>3. \A j \in 1 .. N : N - j + 1 \in 1 .. Len(name)
  BY <1>1
<1>4. below \in Seq(Seq(STRING)) /\ Len(below) = N /\ \A j \in 1 .. N : below[j] = LastLabels(name, N - j + 1)
  BY <1>1, <1>3, LabelsLength
<1>5. <<name>> \in Seq(Seq(STRING)) /\ Len(<<name>>) = 1
  BY DEF DomainNames
<1> HIDE DEF below
<1>6. /\ Targets(name) \in Seq(Seq(STRING)) /\ Len(Targets(name)) = N + 1
      /\ \A i \in 1 .. N + 1 : Targets(name)[i] = IF i <= 1 THEN <<name>>[i] ELSE below[i - 1]
  BY <1>1, <1>2, <1>4, <1>5, ConcatProperties
<1>7. Targets(name)[1] = name
  BY <1>1, <1>6
<1>8. ASSUME NEW i \in 2 .. N + 1
      PROVE  Targets(name)[i] = LastLabels(name, N - i + 2)
  <2>1. i - 1 \in 1 .. N /\ i \in 1 .. N + 1 /\ ~(i <= 1) /\ N - (i - 1) + 1 = N - i + 2
    BY <1>1
  <2>2. Targets(name)[i] = below[i - 1]
    BY <1>6, <2>1
  <2>3. below[i - 1] = LastLabels(name, N - (i - 1) + 1)
    BY <1>4, <2>1
  <2> QED BY <2>1, <2>2, <2>3
<1> QED
  BY <1>1, <1>6, <1>7, <1>8 DEF N

LEMMA TargetsShorter ==
    ASSUME NEW name \in DomainNames
    PROVE  /\ \A i \in 1 .. Len(Targets(name)) : Targets(name)[i] \in Ancestors(name)
           /\ \A i \in 2 .. Len(Targets(name)) :
                 Len(Targets(name)[i]) = Longest(name) - i + 2
           /\ \A i, j \in 1 .. Len(Targets(name)) :
                 i <= j => Len(Targets(name)[j]) <= Len(Targets(name)[i])
<1> DEFINE N == Longest(name)
           T == Targets(name)
<1>1. /\ N \in 0 .. Len(name) - 1 /\ Len(T) = N + 1 /\ T[1] = name
      /\ \A i \in 2 .. N + 1 : T[i] = LastLabels(name, N - i + 2)
      /\ Len(name) \in Nat \ {0} /\ name \in Ancestors(name)
  BY TargetsOf, AllLabels
<1> HIDE DEF N, T
<1>2. ASSUME NEW i \in 2 .. N + 1
      PROVE  T[i] \in Ancestors(name) /\ Len(T[i]) = N - i + 2
  <2>1. N - i + 2 \in 1 .. Len(name)
    BY <1>1
  <2> QED BY <1>1, <2>1, LabelsLength DEF Ancestors
<1>3. \A i \in 1 .. N + 1 : i = 1 \/ i \in 2 .. N + 1
  BY <1>1
<1>4. \A i \in 1 .. Len(T) : T[i] \in Ancestors(name)
  BY <1>1, <1>2, <1>3
<1>5. ASSUME NEW i \in 1 .. N + 1, NEW j \in 1 .. N + 1, i <= j
      PROVE  Len(T[j]) <= Len(T[i])
  <2>1. CASE i = 1 /\ j = 1
    BY <1>1, <2>1
  <2>2. CASE i = 1 /\ j \in 2 .. N + 1
    <3>1. Len(T[j]) = N - j + 2 /\ T[i] = name
      BY <1>1, <1>2, <2>2
    <3> QED BY <1>1, <2>2, <3>1
  <2>3. CASE i \in 2 .. N + 1
    <3>1. j \in 2 .. N + 1
      BY <1>1, <1>5, <2>3
    <3>2. Len(T[j]) = N - j + 2 /\ Len(T[i]) = N - i + 2
      BY <1>2, <2>3, <3>1
    <3> QED BY <1>1, <1>5, <2>3, <3>1, <3>2
  <2> QED BY <1>3, <1>5, <2>1, <2>2, <2>3
<1> QED
  BY <1>1, <1>2, <1>4, <1>5 DEF T, N

LEMMA OrgDomainAbove ==
    ASSUME NEW name \in DomainNames
    PROVE  OrgDomain(name) \in Ancestors(name)
<1> DEFINE L == Len(name)
           K == {1} \cup {k \in 1 .. L : LastLabels(name, k) \in PublicSuffixes}
<1>1. L \in Nat \ {0}
  BY AllLabels
<1>2. SuffixLength(name) \in 1 .. L
  <2>1. K \subseteq 1 .. L /\ K # {}
    BY <1>1
  <2>2. Max(K) \in K
    BY <1>1, <2>1, MaxInSet
  <2> QED BY <2>1, <2>2 DEF SuffixLength
<1>3. Min({2, L}) \in 1 .. L
  <2>1. Min({2, L}) = IF 2 <= L THEN 2 ELSE L
    BY <1>1, MinOfTwo
  <2> HIDE DEF L
  <2> QED BY <1>1, <2>1
<1>4. CASE SuffixLength(name) < L
  <2>1. SuffixLength(name) + 1 \in 1 .. L
    BY <1>1, <1>2, <1>4
  <2>2. OrgDomain(name) = LastLabels(name, SuffixLength(name) + 1)
    BY <1>4 DEF OrgDomain
  <2> QED BY <2>1, <2>2 DEF Ancestors
<1>5. CASE ~(SuffixLength(name) < L)
  <2>1. OrgDomain(name) = LastLabels(name, Min({2, L}))
    BY <1>5 DEF OrgDomain
  <2> QED BY <1>3, <2>1 DEF Ancestors
<1> QED
  BY <1>4, <1>5

-----------------------------------------------------------------------------
Stop(i) == Single(asked[i].answer) \in {"y", "n"}

\* The queries of the walk so far, in the order of its targets; a stop is the last.
Walked ==
    /\ Len(asked) <= Len(Targets(start))
    /\ \A i \in 1 .. Len(asked) : asked[i].name = Targets(start)[i]
    /\ \A i \in 1 .. Len(asked) : Stop(i) => i = Len(asked)

WalkInv ==
    /\ walkAt \in {"idle", "walking", "select", "done"}
    /\ asked \in Seq([name : Seq(STRING), answer : TxtAnswers])
    /\ walkAt = "idle" => asked = <<>>
    /\ walkAt # "idle" => start \in DomainNames /\ Walked
    /\ walkAt = "walking" => Len(asked) < Len(Targets(start)) /\ \A i \in 1 .. Len(asked) : ~Stop(i)
    /\ walkAt = "select" =>
          Len(asked) = Len(Targets(start)) \/ \E i \in 1 .. Len(asked) : Stop(i)
    /\ WalkExact

LEMMA WalkInvInit == WalkInit => WalkInv
<1> SUFFICES ASSUME WalkInit
             PROVE  WalkInv
  OBVIOUS
<1>1. walkAt = "idle" /\ asked = <<>>
  BY DEF WalkInit
<1> QED
  BY <1>1 DEF WalkInv, WalkExact

\* What the suffix list says needs no walk.
LEMMA BySuffixList ==
    ASSUME WalkInv, start' \in DomainNames, asked' = asked,
           Resolved(OrgDomain(start'), "psl"), walkAt = "idle" \/ start' = start
    PROVE  WalkInv'
<1>1. /\ walkAt' = "done" /\ orgDomain' = OrgDomain(start') /\ orgMethod' = "psl"
  BY DEF Resolved
<1>2. orgDomain' \in Ancestors(start')
  BY <1>1, OrgDomainAbove
<1>3. Len(Targets(start')) <= MaxQueries /\ Len(Targets(start')) \in Nat
  <2>1. /\ Longest(start') \in 0 .. Len(start') - 1 /\ Longest(start') < MaxQueries
        /\ Len(Targets(start')) = Longest(start') + 1
    BY TargetsOf
  <2> QED BY <2>1, WalkAssumption
<1>4. Walked' /\ Len(asked) <= MaxQueries
  <2>1. CASE asked = <<>>
    BY <1>3, <2>1, WalkAssumption DEF Walked
  <2>2. CASE walkAt # "idle" /\ start' = start
    <3>1. Walked /\ Len(asked) \in Nat
      BY <2>2 DEF WalkInv
    <3>2. Walked' <=> Walked
      BY <2>2 DEF Walked, Stop
    <3>3. Len(asked) <= Len(Targets(start'))
      BY <2>2, <3>1 DEF Walked
    <3> QED BY <1>3, <3>1, <3>2, <3>3, WalkAssumption
  <2> QED BY <2>1, <2>2 DEF WalkInv
<1>5. WalkExact'
  BY <1>1, <1>2, <1>4 DEF WalkExact, Ancestors, LastLabels
<1> QED
  BY <1>1, <1>4, <1>5 DEF WalkInv

LEMMA OrgDomainForStep ==
    ASSUME WalkInv, NEW name \in DomainNames, NEW discovery, OrgDomainFor(name, discovery)
    PROVE  WalkInv'
<1>1. /\ walkAt = "idle" /\ start' = name /\ asked' = asked /\ asked = <<>>
  BY DEF OrgDomainFor, WalkInv
<1>2. CASE discovery = "treewalk"
  <2>1. walkAt' = "walking"
    BY <1>2 DEF OrgDomainFor
  <2>2. Len(Targets(start')) \in Nat /\ 0 < Len(Targets(start'))
    <3>1. /\ Longest(name) \in 0 .. Len(name) - 1
          /\ Len(Targets(name)) = Longest(name) + 1
      BY TargetsOf
    <3> QED BY <1>1, <3>1
  <2>3. Walked'
    BY <1>1, <2>2 DEF Walked
  <2> QED BY <1>1, <2>1, <2>2, <2>3 DEF WalkInv, WalkExact
<1>3. CASE discovery # "treewalk"
  <2>1. Resolved(OrgDomain(start'), "psl")
    BY <1>1, <1>3 DEF OrgDomainFor
  <2> QED BY <1>1, <2>1, BySuffixList
<1> QED
  BY <1>2, <1>3

LEMMA QueryAnswersStep ==
    ASSUME WalkInv, QueryAnswers
    PROVE  WalkInv'
<1> PICK n : n = Len(asked)
  OBVIOUS
<1> PICK T : T = Targets(start)
  OBVIOUS
<1>1. /\ walkAt = "walking" /\ start' = start /\ start \in DomainNames
      /\ asked \in Seq([name : Seq(STRING), answer : TxtAnswers]) /\ n \in Nat
      /\ n < Len(T) /\ Len(T) \in Nat /\ T \in Seq(Seq(STRING)) /\ T = Targets(start')
      /\ \A i \in 1 .. n : ~Stop(i) /\ asked[i].name = T[i]
  <2>1. /\ walkAt = "walking" /\ start' = start /\ start \in DomainNames /\ Walked
        /\ asked \in Seq([name : Seq(STRING), answer : TxtAnswers])
        /\ n < Len(T) /\ \A i \in 1 .. n : ~Stop(i)
    BY DEF QueryAnswers, WalkInv
  <2>2. T \in Seq(Seq(STRING))
    BY <2>1, TargetsOf
  <2>3. \A i \in 1 .. n : asked[i].name = T[i]
    BY <2>1 DEF Walked
  <2> QED BY <2>1, <2>2, <2>3
<1>2. PICK answer \in TxtAnswers :
         /\ asked' = Append(asked, [name |-> T[n + 1], answer |-> answer])
         /\ walkAt' = IF Single(answer) \in {"y", "n"} \/ n + 1 = Len(T)
                      THEN "select" ELSE "walking"
  BY <1>1 DEF QueryAnswers
<1>3. n + 1 \in 1 .. Len(T) /\ T[n + 1] \in Seq(STRING)
  BY <1>1
<1>4. [name |-> T[n + 1], answer |-> answer] \in [name : Seq(STRING), answer : TxtAnswers]
  BY <1>3
<1>5. /\ asked' \in Seq([name : Seq(STRING), answer : TxtAnswers]) /\ Len(asked') = n + 1
      /\ \A i \in 1 .. n : asked'[i] = asked[i]
      /\ asked'[n + 1] = [name |-> T[n + 1], answer |-> answer]
  BY <1>1, <1>2, <1>4
<1>6. \A i \in 1 .. n + 1 : i \in 1 .. n \/ i = n + 1
  BY <1>1
<1>7. \A i \in 1 .. n + 1 : asked'[i].name = T[i] /\ (Stop(i)' => i = n + 1)
  BY <1>1, <1>5, <1>6 DEF Stop
<1>8. Stop(n + 1)' <=> Single(answer) \in {"y", "n"}
  BY <1>5 DEF Stop
<1>9. Walked'
  BY <1>1, <1>3, <1>5, <1>7 DEF Walked
<1>10. n + 1 \in 1 .. n + 1
  BY <1>1
<1>11. walkAt' \in {"select", "walking"} /\ start' \in DomainNames
  BY <1>1, <1>2
<1>12. walkAt' = "walking" => Len(asked') < Len(Targets(start')) /\ \A i \in 1 .. Len(asked') : ~Stop(i)'
  <2> SUFFICES ASSUME walkAt' = "walking"
               PROVE  n + 1 < Len(T) /\ \A i \in 1 .. n + 1 : ~Stop(i)'
    BY <1>1, <1>5
  <2>1. Single(answer) \notin {"y", "n"} /\ n + 1 # Len(T)
    BY <1>2
  <2> QED BY <1>1, <1>7, <1>8, <2>1
<1>13. walkAt' = "select" =>
          Len(asked') = Len(Targets(start')) \/ \E i \in 1 .. Len(asked') : Stop(i)'
  <2> SUFFICES ASSUME walkAt' = "select"
               PROVE  n + 1 = Len(T) \/ Stop(n + 1)'
    BY <1>1, <1>5, <1>10
  <2> QED BY <1>2, <1>8
<1> QED
  BY <1>5, <1>9, <1>11, <1>12, <1>13 DEF WalkInv, WalkExact

LEMMA QueryFailsStep ==
    ASSUME WalkInv, QueryFails
    PROVE  WalkInv'
BY BySuffixList DEF QueryFails, WalkInv

LEMMA AskedAll ==
    ASSUME start \in DomainNames, Walked, Len(asked) = Len(Targets(start)),
           asked \in Seq([name : Seq(STRING), answer : TxtAnswers])
    PROVE  AskedNames = {start} \cup {s \in Ancestors(start) : Len(s) < MaxQueries}
<1> DEFINE N == Longest(start)
           T == Targets(start)
<1>1. /\ N \in 0 .. Len(start) - 1 /\ Len(T) = N + 1 /\ T[1] = start
      /\ \A i \in 2 .. N + 1 : T[i] = LastLabels(start, N - i + 2)
      /\ Len(start) \in Nat \ {0} /\ N < MaxQueries
  BY TargetsOf, AllLabels
<1>2. AskedNames = {T[i] : i \in 1 .. N + 1}
  <2>1. Len(asked) = N + 1 /\ \A i \in 1 .. N + 1 : asked[i].name = T[i]
    BY <1>1 DEF Walked
  <2>2. ToSet(asked) = {asked[i] : i \in 1 .. N + 1}
    BY <2>1 DEF ToSet
  <2> QED BY <2>1, <2>2 DEF AskedNames
<1>3. MaxQueries \in Nat \ {0}
  BY WalkAssumption
<1>4. \A k \in 1 .. Len(start) : k < MaxQueries /\ k # Len(start) => k <= N
  BY <1>1, <1>3 DEF Longest
<1> HIDE DEF N, T
<1>5. ASSUME NEW i \in 1 .. N + 1
      PROVE  T[i] \in {start} \cup {s \in Ancestors(start) : Len(s) < MaxQueries}
  <2>1. CASE i = 1
    BY <1>1, <2>1
  <2>2. CASE i # 1
    <3>1. i \in 2 .. N + 1 /\ N - i + 2 \in 1 .. Len(start) /\ N - i + 2 < MaxQueries
      BY <1>1, <1>3, <2>2
    <3>2. T[i] \in Ancestors(start) /\ Len(T[i]) = N - i + 2
      BY <1>1, <3>1, LabelsLength DEF Ancestors
    <3> QED BY <3>1, <3>2
  <2> QED BY <2>1, <2>2
<1>6. ASSUME NEW k \in 1 .. Len(start), Len(LastLabels(start, k)) < MaxQueries
      PROVE  \E i \in 1 .. N + 1 : T[i] = LastLabels(start, k)
  <2>1. k < MaxQueries
    BY <1>6, LabelsLength
  <2>2. CASE k = Len(start)
    <3>1. T[1] = LastLabels(start, k) /\ 1 \in 1 .. N + 1
      BY <1>1, <2>2, AllLabels
    <3> QED BY <3>1
  <2>3. CASE k # Len(start)
    <3>1. k <= N
      BY <1>4, <2>1, <2>3
    <3>2. N - k + 2 \in 2 .. N + 1 /\ N - (N - k + 2) + 2 = k
      BY <1>1, <3>1
    <3>3. T[N - k + 2] = LastLabels(start, k)
      BY <1>1, <3>2
    <3>4. N - k + 2 \in 1 .. N + 1
      BY <1>1, <3>2
    <3> QED BY <3>3, <3>4
  <2> QED BY <2>2, <2>3
<1>7. \E i \in 1 .. N + 1 : T[i] = start
  <2>1. 1 \in 1 .. N + 1
    BY <1>1
  <2> QED BY <1>1, <2>1
<1> QED
  BY <1>2, <1>5, <1>6, <1>7 DEF Ancestors

LEMMA SelectStep ==
    ASSUME WalkInv, Select
    PROVE  WalkInv'
<1> DEFINE L == Len(asked)
           deciding == {i \in Policy : Decides(asked[i])}
           records == {asked[i] : i \in Policy}
           stops == {q \in records : Single(q.answer) \in {"y", "n"}}
           declared == {q \in stops : Single(q.answer) = "n" \/ q.name # start}
           T == Targets(start)
<1>1. /\ walkAt = "select" /\ UNCHANGED <<start, asked>> /\ start \in DomainNames /\ Walked
      /\ asked \in Seq([name : Seq(STRING), answer : TxtAnswers]) /\ L \in Nat
      /\ L = Len(T) \/ \E i \in 1 .. L : Stop(i)
  BY DEF Select, WalkInv
<1>2. CASE Policy = {}
  <2>1. Resolved(OrgDomain(start), "psl")
    BY <1>2 DEF Select
  <2> QED BY <1>1, <2>1, BySuffixList
<1>3. CASE Policy # {}
  <2>1. /\ Policy \subseteq 1 .. L /\ \A i \in 1 .. L : asked[i].name = T[i] /\ i <= Len(T)
        /\ \A i \in Policy : Stop(i) => i = L
        /\ Len(T) \in Nat
    <3>1. Len(T) \in Nat
      BY <1>1, TargetsOf
    <3> HIDE DEF T
    <3> QED BY <1>1, <3>1 DEF Policy, Walked, T
  <2>2. /\ \A i \in 1 .. Len(T) : T[i] \in Ancestors(start)
        /\ \A i \in 2 .. Len(T) : Len(T[i]) = Longest(start) - i + 2
        /\ \A i, j \in 1 .. Len(T) : i <= j => Len(T[j]) <= Len(T[i])
        /\ T[1] = start /\ Len(T) = Longest(start) + 1
        /\ Longest(start) \in 0 .. Len(start) - 1 /\ Longest(start) < MaxQueries
    BY <1>1, TargetsShorter, TargetsOf
  <2> HIDE DEF L, T
  <2>3. L <= MaxQueries
    BY <1>1, <2>1, <2>2, WalkAssumption DEF Walked, L, T
  <2>4. stops \subseteq {asked[L]}
    BY <2>1 DEF Stop
  <2>5. Cardinality(stops) <= 1
    <3>1. IsFiniteSet({asked[L]}) /\ Cardinality({asked[L]}) = 1
      BY FS_Singleton
    <3> QED BY <2>4, <3>1, FS_Subset, FS_CardinalityType
  <2>6. stops = {} => AskedNames = {start} \cup {s \in Ancestors(start) : Len(s) < MaxQueries}
    <3> SUFFICES ASSUME stops = {}
                 PROVE  L = Len(T)
      BY <1>1, AskedAll DEF L, T
    <3>1. \A i \in 1 .. L : ~Stop(i)
      <4> SUFFICES ASSUME NEW i \in 1 .. L, Stop(i)
                   PROVE  FALSE
        OBVIOUS
      <4>1. i \in Policy
        BY DEF Stop, Policy, L
      <4> QED BY <4>1 DEF Stop
    <3> QED BY <1>1, <3>1
  <2>7. deciding = {} <=> declared = {}
    BY DEF Decides
  <2>8. deciding # {} => deciding = {L} /\ Min(deciding) = L
    <3> SUFFICES ASSUME deciding # {}
                 PROVE  deciding = {L} /\ Min(deciding) = L
      OBVIOUS
    <3>1. deciding = {L}
      BY <2>1 DEF Decides, Stop
    <3>2. L \in Nat
      BY <1>1
    <3> QED BY <3>1, <3>2 DEF Min
  <2>9. ASSUME orgMethod' = "treewalk", walkAt' = "done", orgDomain' \in Ancestors(start),
                \A q \in declared : IF Single(q.answer) = "n" THEN orgDomain' = q.name
                                   ELSE Len(orgDomain') = Len(q.name) + 1,
                declared = {} => /\ \E q \in records : q.name = orgDomain'
                                 /\ \A q \in records : Len(orgDomain') <= Len(q.name)
         PROVE  WalkInv'
    <3>1. Policy' = Policy /\ AskedNames' = AskedNames /\ (Walked' <=> Walked)
      BY <1>1 DEF Policy, AskedNames, Walked, Stop
    <3>2. WalkExact'
      BY <1>1, <2>3, <2>5, <2>6, <2>9, <3>1 DEF WalkExact, L
    <3> QED BY <1>1, <2>9, <3>1, <3>2 DEF WalkInv
  <2>10. CASE deciding = {}
    <3>1. Resolved(asked[Max(Policy)].name, "treewalk")
      BY <1>3, <2>10 DEF Select
    <3>2. Max(Policy) \in Policy /\ \A i \in Policy : i <= Max(Policy)
      BY <1>1, <1>3, <2>1, MaxInSet
    <3> DEFINE last == Max(Policy)
    <3> HIDE DEF last
    <3>3. /\ last \in Policy /\ last \in 1 .. Len(T) /\ asked[last].name = T[last]
          /\ \A i \in Policy : i <= last /\ i \in 1 .. Len(T) /\ asked[i].name = T[i]
      <4>1. \A i \in Policy : i \in 1 .. Len(T) /\ asked[i].name = T[i]
        BY <1>1, <2>1
      <4> QED BY <3>2, <4>1 DEF last
    <3>4. /\ orgDomain' = T[last] /\ orgMethod' = "treewalk" /\ walkAt' = "done"
      BY <3>1, <3>3 DEF Resolved, last
    <3>5. orgDomain' \in Ancestors(start)
      BY <2>2, <3>3, <3>4
    <3>6. /\ \E q \in records : q.name = orgDomain'
          /\ \A q \in records : Len(orgDomain') <= Len(q.name)
      BY <2>2, <3>3, <3>4
    <3> QED BY <2>7, <2>10, <2>9, <3>4, <3>5, <3>6
  <2>11. CASE deciding # {}
    <3> DEFINE first == asked[L]
    <3>1. /\ deciding = {L} /\ L \in Policy /\ Decides(first) /\ first.name = T[L]
          /\ L \in 1 .. Len(T)
      BY <1>1, <2>1, <2>8, <2>11
    <3>2. Resolved(IF Single(first.answer) = "n" THEN first.name
                   ELSE OneLabelBelow(start, first.name), "treewalk")
      BY <2>8, <2>11 DEF Select
    <3>3. /\ orgMethod' = "treewalk" /\ walkAt' = "done"
          /\ orgDomain' = IF Single(first.answer) = "n" THEN T[L] ELSE OneLabelBelow(start, T[L])
      BY <3>1, <3>2 DEF Resolved
    <3>4. \A q \in declared : q = first
      BY <2>4
    <3>5. CASE Single(first.answer) = "n"
      <4>1. orgDomain' = T[L] /\ T[L] \in Ancestors(start)
        BY <2>2, <3>1, <3>3, <3>5
      <4> QED BY <2>7, <2>11, <2>9, <3>1, <3>3, <3>4, <3>5, <4>1
    <3>6. CASE Single(first.answer) # "n"
      <4>1. T[L] # start
        BY <3>1, <3>6 DEF Decides
      <4>2. L \in 2 .. Len(T) /\ Len(T) \in Nat
        BY <2>1, <2>2, <3>1, <4>1
      <4>3. /\ Len(T[L]) = Longest(start) - L + 2
            /\ Len(T[L]) + 1 \in 1 .. Len(start) /\ ~(Len(start) <= Len(T[L]))
        <5>1. Len(start) \in Nat
          BY <1>1, AllLabels
        <5>2. Len(T[L]) = Longest(start) - L + 2
          BY <2>2, <4>2
        <5> QED BY <2>2, <4>2, <5>1, <5>2
      <4>4. orgDomain' = LastLabels(start, Len(T[L]) + 1)
        BY <3>3, <3>6, <4>3 DEF OneLabelBelow
      <4>5. orgDomain' \in Ancestors(start) /\ Len(orgDomain') = Len(T[L]) + 1
        BY <1>1, <4>3, <4>4, LabelsLength DEF Ancestors
      <4> QED BY <2>7, <2>11, <2>9, <3>1, <3>3, <3>4, <3>6, <4>5
    <3> QED BY <3>5, <3>6
  <2> QED BY <2>10, <2>11
<1> QED
  BY <1>2, <1>3

LEMMA WalkStepKeeps ==
    ASSUME WalkInv, WalkStep
    PROVE  WalkInv'
BY QueryAnswersStep, QueryFailsStep, SelectStep DEF WalkStep

-----------------------------------------------------------------------------
(* The BIMI record                                                         *)

Named(rec, n) == {i \in 1 .. Len(rec) : rec[i].name = n}

\* Usable, of one record.
UsableRecord(rec) ==
    /\ rec[1] = [name |-> "v", value |-> "good"]
    /\ \A t \in ToSet(rec) : t.name # "malformed" /\ Cardinality(Named(rec, t.name)) = 1
    /\ \E t \in ToSet(rec) : t.name = "l"
    /\ \A t \in ToSet(rec) : t.name \in {"l", "a"} => t.value # "bad"
    /\ \E t \in ToSet(rec) : t.name \in {"l", "a"} /\ t.value # "empty"

\* The value of a name is that of one of its tags; no tag, no value.
LEMMA ValueOfOne ==
    ASSUME NEW rec \in Seq(BimiTags), NEW n
    PROVE  /\ Named(rec, n) = {} => ValueOf(rec, n) = "absent"
           /\ Named(rec, n) # {} => \E i \in Named(rec, n) : ValueOf(rec, n) = rec[i].value
<1> DEFINE I == {i \in 1 .. Len(rec) : rec[i].name = n}
           k == SelectLastInSeq(rec, LAMBDA t : t.name = n)
<1>1. k = IF I # {} THEN Max(I) ELSE 0
  BY DEF SelectLastInSeq
<1>2. ValueOf(rec, n) = IF k = 0 THEN "absent" ELSE rec[k].value
  BY DEF ValueOf
<1> HIDE DEF k
<1>3. Len(rec) \in Nat /\ I \subseteq 1 .. Len(rec) /\ Named(rec, n) = I
  BY DEF Named
<1> HIDE DEF I
<1>4. I # {} => Max(I) \in I /\ Max(I) # 0
  <2>1. I # {} => Max(I) \in I
    BY <1>3, MaxInSet
  <2> QED BY <1>3, <2>1
<1> QED
  BY <1>1, <1>2, <1>3, <1>4

LEMMA TagTypes ==
    ASSUME NEW rec \in Seq(BimiTags), NEW i \in 1 .. Len(rec)
    PROVE  rec[i] \in ToSet(rec) /\ rec[i].value # "absent"
           /\ rec[i] = [name |-> rec[i].name, value |-> rec[i].value]
<1>1. rec[i] \in BimiTags
  OBVIOUS
<1> QED
  BY <1>1 DEF ToSet, BimiTags

\* A name is given once when the set of its tags has one element.
LEMMA GivenOnce ==
    ASSUME NEW rec \in Seq(BimiTags), NEW i \in 1 .. Len(rec)
    PROVE  Cardinality(Named(rec, rec[i].name)) = 1 <=> Named(rec, rec[i].name) = {i}
<1>1. Len(rec) \in Nat /\ i \in Named(rec, rec[i].name)
  BY DEF Named
<1>2. IsFiniteSet(Named(rec, rec[i].name))
  <2>1. IsFiniteSet(1 .. Len(rec))
    BY <1>1, FS_Interval
  <2> QED BY <2>1, FS_Subset DEF Named
<1>3. Cardinality(Named(rec, rec[i].name)) = 1 => Named(rec, rec[i].name) = {i}
  BY <1>1, <1>2, FS_Singleton
<1>4. Named(rec, rec[i].name) = {i} => Cardinality(Named(rec, rec[i].name)) = 1
  BY FS_Singleton
<1> QED
  BY <1>3, <1>4

LEMMA PublishedIsUsable ==
    ASSUME NEW rec \in Seq(BimiTags), HasBimiVersion(rec), StateOf(rec) = "published"
    PROVE  UsableRecord(rec)
<1>1. "error" \notin Problems(rec) /\ ~Declined(rec)
  BY DEF StateOf
<1>2. /\ \A t \in ToSet(rec) : Severity(t) # "error"
      /\ \A j \in 1 .. Len(rec) : rec[j].name # "malformed" =>
            \A k \in 1 .. j - 1 : rec[k].name # rec[j].name
      /\ ValueOf(rec, "l") # "absent"
  BY <1>1 DEF Problems
<1>3. /\ Len(rec) \in Nat \ {0} /\ rec[1].name = "v" /\ rec[1].value \in {"good", "longer"}
      /\ 1 \in 1 .. Len(rec)
  BY DEF HasBimiVersion
<1>4. ToSet(rec) = {rec[i] : i \in 1 .. Len(rec)}
  BY DEF ToSet
<1>5. \A t \in ToSet(rec) : t.name # "malformed" /\ (t.name = "v" => t.value = "good")
                             /\ (t.name \in {"l", "a"} => t.value # "bad")
  BY <1>2 DEF Severity
<1>6. rec[1] = [name |-> "v", value |-> "good"]
  BY <1>3, <1>5, TagTypes
<1>7. ASSUME NEW i \in 1 .. Len(rec)
      PROVE  Cardinality(Named(rec, rec[i].name)) = 1
  <2>1. rec[i].name # "malformed"
    BY <1>4, <1>5
  <2>2. ASSUME NEW k \in 1 .. Len(rec), rec[k].name = rec[i].name
        PROVE  k = i
    <3>1. ~(k \in 1 .. i - 1) /\ ~(i \in 1 .. k - 1)
      BY <1>2, <2>1, <2>2
    <3> QED BY <1>3, <3>1
  <2>3. Named(rec, rec[i].name) = {i}
    BY <2>2 DEF Named
  <2> QED BY <2>3, GivenOnce
<1>8. PICK l \in 1 .. Len(rec) : rec[l].name = "l" /\ ValueOf(rec, "l") = rec[l].value
  BY <1>2, ValueOfOne DEF Named
<1>9. \E t \in ToSet(rec) : t.name \in {"l", "a"} /\ t.value # "empty"
  <2>1. CASE rec[l].value # "empty"
    BY <1>4, <1>8, <2>1
  <2>2. CASE rec[l].value = "empty"
    <3>1. ValueOf(rec, "a") \notin {"absent", "empty"}
      BY <1>1, <1>8, <2>2 DEF Declined
    <3>2. PICK a \in 1 .. Len(rec) : rec[a].name = "a" /\ ValueOf(rec, "a") = rec[a].value
      BY <3>1, ValueOfOne DEF Named
    <3> QED BY <1>4, <3>1, <3>2
  <2> QED BY <2>1, <2>2
<1> QED
  BY <1>4, <1>5, <1>6, <1>7, <1>8, <1>9 DEF UsableRecord

LEMMA UsableIsPublished ==
    ASSUME NEW rec \in Seq(BimiTags), HasBimiVersion(rec), UsableRecord(rec)
    PROVE  StateOf(rec) = "published"
<1>1. /\ Len(rec) \in Nat \ {0} /\ 1 \in 1 .. Len(rec)
      /\ rec[1].name = "v" /\ rec[1].value = "good"
  BY DEF HasBimiVersion, UsableRecord
<1>2. ToSet(rec) = {rec[i] : i \in 1 .. Len(rec)}
  BY DEF ToSet
<1>3. \A i \in 1 .. Len(rec) : rec[i].name # "malformed" /\ Named(rec, rec[i].name) = {i}
  BY <1>2, GivenOnce DEF UsableRecord
<1>4. \A i, j \in 1 .. Len(rec) : rec[i].name = rec[j].name => i = j
  BY <1>3 DEF Named
<1>5. \A n : \A i \in 1 .. Len(rec) : rec[i].name = n => ValueOf(rec, n) = rec[i].value
  BY <1>4, ValueOfOne DEF Named
<1>6. ASSUME NEW i \in 1 .. Len(rec)
      PROVE  Severity(rec[i]) # "error"
  <2>1. rec[i].name = "v" => rec[i].value = "good"
    BY <1>1, <1>4
  <2>2. rec[i].name \in {"l", "a"} => rec[i].value # "bad"
    BY <1>2 DEF UsableRecord
  <2>3. rec[i].name # "malformed"
    BY <1>3
  <2> QED BY <2>1, <2>2, <2>3 DEF Severity
<1>7. ValueOf(rec, "v") = "good"
  BY <1>1, <1>5
<1>8. PICK l \in 1 .. Len(rec) : rec[l].name = "l"
  BY <1>2 DEF UsableRecord
<1>9. ValueOf(rec, "l") = rec[l].value /\ rec[l].value # "absent"
  BY <1>5, <1>8, TagTypes
<1>10. "error" \notin Problems(rec)
  <2>1. "error" \notin {Severity(t) : t \in ToSet(rec)}
    BY <1>2, <1>6
  <2>2. {j \in 1 .. Len(rec) : rec[j].name # "malformed" /\
                                  \E k \in 1 .. j - 1 : rec[k].name = rec[j].name} = {}
    <3> SUFFICES ASSUME NEW j \in 1 .. Len(rec), NEW k \in 1 .. j - 1, rec[k].name = rec[j].name
                 PROVE  FALSE
      OBVIOUS
    <3>1. k \in 1 .. Len(rec) /\ k # j
      BY <1>1
    <3> QED BY <1>4, <3>1
  <2>3. {j \in 2 .. Len(rec) : rec[j].name = "v"} = {}
    <3> SUFFICES ASSUME NEW j \in 2 .. Len(rec), rec[j].name = "v"
                 PROVE  FALSE
      OBVIOUS
    <3>1. j \in 1 .. Len(rec) /\ j # 1
      BY <1>1
    <3> QED BY <1>1, <1>4, <3>1
  <2> QED BY <1>7, <1>9, <2>1, <2>2, <2>3 DEF Problems
<1>11. ~Declined(rec)
  <2>1. PICK t \in 1 .. Len(rec) : rec[t].name \in {"l", "a"} /\ rec[t].value # "empty"
    BY <1>2 DEF UsableRecord
  <2>2. ValueOf(rec, rec[t].name) = rec[t].value /\ rec[t].value # "absent"
    BY <1>5, TagTypes
  <2> QED BY <2>1, <2>2 DEF Declined
<1> QED
  BY <1>10, <1>11 DEF StateOf

\* A record set is called published exactly when an evaluator may use it.
LEMMA PublishedMeansUsable ==
    ASSUME NEW answer \in Seq(Seq(BimiTags))
    PROVE  /\ RRsetState(answer) = "published" <=> Usable(answer)
           /\ RRsetState(answer) = "absent" <=> Candidates(answer) = {}
           /\ RRsetState(answer) # "error"
<1>1. IsFiniteSet(Candidates(answer)) /\ Cardinality(Candidates(answer)) \in Nat
  <2>1. IsFiniteSet(1 .. Len(answer))
    BY FS_Interval
  <2> QED BY <2>1, FS_Subset, FS_CardinalityType DEF Candidates
<1>2. Cardinality(Candidates(answer)) = 0 <=> Candidates(answer) = {}
  BY <1>1, FS_EmptySet
<1>3. CASE Cardinality(Candidates(answer)) = 1
  <2>1. Candidates(answer) # {}
    BY <1>2, <1>3
  <2>2. RecordIn(answer) \in Seq(BimiTags) /\ HasBimiVersion(RecordIn(answer))
    <3>1. (CHOOSE i \in Candidates(answer) : TRUE) \in Candidates(answer)
      BY <2>1
    <3> QED BY <3>1 DEF RecordIn, Candidates
  <2>3. StateOf(RecordIn(answer)) = "published" <=> UsableRecord(RecordIn(answer))
    BY <2>2, PublishedIsUsable, UsableIsPublished
  <2>4. Usable(answer) <=> UsableRecord(RecordIn(answer))
    BY <1>3 DEF Usable, UsableRecord, Named
  <2>5. RRsetState(answer) = StateOf(RecordIn(answer))
    BY <1>3 DEF RRsetState
  <2>6. StateOf(RecordIn(answer)) \in {"invalid", "declined", "published"}
    BY DEF StateOf
  <2> QED BY <2>1, <2>3, <2>4, <2>5, <2>6
<1>4. CASE Cardinality(Candidates(answer)) # 1
  <2>1. RRsetState(answer) = IF Cardinality(Candidates(answer)) = 0 THEN "absent" ELSE "invalid"
    BY <1>4 DEF RRsetState
  <2> QED BY <1>2, <1>4, <2>1 DEF Usable
<1> QED
  BY <1>3, <1>4

-----------------------------------------------------------------------------
BimiInv ==
    /\ WalkInv
    /\ bimiAt \in {"idle", "own", "walk", "parent", "done"}
    /\ bimiAt = "idle" => walkAt = "idle"
    /\ bimiAt # "idle" => start \in LookupDomains
    /\ bimiAt \in {"idle", "own"} => ownSet = NoAnswer /\ walkAt = "idle"
    /\ bimiAt \in {"walk", "parent"} => Candidates(ownSet) = {}
    /\ bimiAt = "parent" => walkAt = "done" /\ orgDomain # start
    /\ bimiAt # "done" => orgSet = NoAnswer
    /\ DiscoveryExact

LEMMA BimiInvInit == BimiInit => BimiInv
BY WalkInvInit DEF BimiInit, WalkInit, BimiInv, DiscoveryExact

LEMMA NothingFound == Candidates(NoAnswer) = {} /\ ~Usable(NoAnswer)
<1>1. Candidates(NoAnswer) = {}
  BY DEF Candidates, NoAnswer
<1>2. Cardinality({}) = 0
  BY FS_EmptySet
<1> QED
  BY <1>1, <1>2 DEF Usable

LEMMA LookupNames ==
    ASSUME NEW d \in LookupDomains
    PROVE  d \in DomainNames /\ d # NoDomain
BY LookupAssumption DEF DomainNames

LEMMA BeginLookupStep ==
    ASSUME BimiInv, NEW d \in LookupDomains, BeginLookup(d)
    PROVE  BimiInv'
<1>1. /\ bimiAt = "idle" /\ walkAt = "idle" /\ start' = d /\ bimiAt' = "own"
      /\ UNCHANGED <<walkAt, asked, orgDomain, orgMethod, ownSet, orgSet, bimi>>
  BY DEF BeginLookup
<1>2. WalkInv'
  BY <1>1 DEF BimiInv, WalkInv, WalkExact
<1> QED
  BY <1>1, <1>2 DEF BimiInv, DiscoveryExact

\* A step that leaves the walk alone.
LEMMA WalkStands ==
    ASSUME WalkInv, UNCHANGED walkVars
    PROVE  WalkInv'
<1>1. UNCHANGED <<start, walkAt, asked, orgDomain, orgMethod>>
  BY DEF walkVars
<1>2. Policy' = Policy /\ AskedNames' = AskedNames /\ (Walked' <=> Walked)
  BY <1>1 DEF Policy, AskedNames, Walked, Stop
<1>3. \A i : Stop(i)' <=> Stop(i)
  BY <1>1 DEF Stop
<1>4. WalkExact' <=> WalkExact
  BY <1>1, <1>2 DEF WalkExact
<1> QED
  BY <1>1, <1>2, <1>3, <1>4 DEF WalkInv

LEMMA BimiQueryFailsStep ==
    ASSUME BimiInv, BimiQueryFails
    PROVE  BimiInv'
<1>1. /\ bimiAt \in {"own", "parent"} /\ bimiAt' = "done"
      /\ bimi' = [state |-> "error", foundAt |-> NoDomain]
      /\ UNCHANGED <<ownSet, orgSet, start, walkAt, asked, orgDomain, orgMethod>>
      /\ start \in LookupDomains /\ start # NoDomain /\ orgSet = NoAnswer
  BY LookupNames DEF BimiQueryFails, walkVars, BimiInv
<1>2. WalkInv'
  BY WalkStands DEF BimiQueryFails, BimiInv
<1>3. DiscoveryExact'
  <2>1. bimi'.state = "error" /\ bimi'.foundAt = NoDomain /\ orgSet' = NoAnswer
    BY <1>1
  <2> QED BY <1>1, <2>1, NothingFound DEF DiscoveryExact
<1> QED
  BY <1>1, <1>2, <1>3 DEF BimiInv

LEMMA OwnAnswersStep ==
    ASSUME BimiInv, OwnAnswers
    PROVE  BimiInv'
<1>1. /\ bimiAt = "own" /\ orgSet' = orgSet /\ orgSet = NoAnswer
      /\ start \in LookupDomains /\ start # NoDomain /\ start \in DomainNames
      /\ WalkInv /\ walkAt = "idle"
  BY LookupNames DEF OwnAnswers, BimiInv
<1>2. PICK answer \in BimiAnswers :
         /\ ownSet' = answer
         /\ IF Candidates(answer) # {}
            THEN /\ bimi' = [state |-> RRsetState(answer), foundAt |-> start]
                 /\ bimiAt' = "done" /\ UNCHANGED walkVars
            ELSE /\ \E discovery \in {"psl", "treewalk"} : OrgDomainFor(start, discovery)
                 /\ bimiAt' = "walk" /\ UNCHANGED bimi
  BY DEF OwnAnswers
<1>3. answer \in Seq(Seq(BimiTags))
  BY BimiAssumption
<1>4. CASE Candidates(answer) # {}
  <2>1. WalkInv' /\ start' = start /\ orgDomain' = orgDomain
    BY <1>1, <1>2, <1>4, WalkStands DEF walkVars
  <2>2. bimi'.state = RRsetState(answer) /\ bimi'.foundAt = start /\ bimiAt' = "done"
    BY <1>2, <1>4
  <2>3. DiscoveryExact'
    BY <1>1, <1>2, <1>3, <1>4, <2>1, <2>2, PublishedMeansUsable DEF DiscoveryExact
  <2> QED BY <1>1, <1>2, <2>1, <2>2, <2>3 DEF BimiInv
<1>5. CASE Candidates(answer) = {}
  <2>1. PICK discovery \in {"psl", "treewalk"} : OrgDomainFor(start, discovery)
    BY <1>2, <1>5
  <2>2. bimiAt' = "walk" /\ start' = start
    BY <1>2, <1>5, <2>1 DEF OrgDomainFor
  <2>3. WalkInv'
    BY <1>1, <2>1, OrgDomainForStep
  <2> QED BY <1>1, <1>2, <1>5, <2>2, <2>3 DEF BimiInv, DiscoveryExact
<1> QED
  BY <1>4, <1>5

LEMMA WalkReturnsStep ==
    ASSUME BimiInv, WalkReturns
    PROVE  BimiInv'
<1>1. /\ bimiAt = "walk" /\ walkAt = "done" /\ Candidates(ownSet) = {} /\ orgSet = NoAnswer
      /\ start \in LookupDomains /\ start # NoDomain
      /\ UNCHANGED <<ownSet, orgSet, start, walkAt, asked, orgDomain, orgMethod>>
  BY LookupNames DEF WalkReturns, walkVars, BimiInv
<1>2. WalkInv'
  BY WalkStands DEF WalkReturns, BimiInv
<1>3. CASE orgDomain = start
  <2>1. bimi'.state = "absent" /\ bimi'.foundAt = NoDomain /\ bimiAt' = "done"
    BY <1>3 DEF WalkReturns
  <2>2. DiscoveryExact'
    BY <1>1, <2>1, NothingFound DEF DiscoveryExact
  <2> QED BY <1>1, <1>2, <2>1, <2>2 DEF BimiInv
<1>4. CASE orgDomain # start
  <2>1. bimiAt' = "parent"
    BY <1>4 DEF WalkReturns
  <2> QED BY <1>1, <1>2, <1>4, <2>1 DEF BimiInv, DiscoveryExact
<1> QED
  BY <1>3, <1>4

LEMMA ParentAnswersStep ==
    ASSUME BimiInv, ParentAnswers
    PROVE  BimiInv'
<1>1. /\ bimiAt = "parent" /\ bimiAt' = "done" /\ Candidates(ownSet) = {} /\ orgDomain # start
      /\ start \in LookupDomains /\ start # NoDomain
      /\ UNCHANGED <<ownSet, start, walkAt, asked, orgDomain, orgMethod>>
  BY LookupNames DEF ParentAnswers, walkVars, BimiInv
<1>2. WalkInv'
  BY WalkStands DEF ParentAnswers, BimiInv
<1>3. PICK answer \in BimiAnswers :
         /\ orgSet' = answer
         /\ bimi' = [state |-> RRsetState(answer),
                     foundAt |-> IF Candidates(answer) # {} THEN orgDomain ELSE NoDomain]
  BY DEF ParentAnswers
<1>4. answer \in Seq(Seq(BimiTags))
  BY BimiAssumption
<1>5. /\ bimi'.state = RRsetState(answer) /\ bimi'.foundAt # start
      /\ bimi'.foundAt \in {orgDomain, NoDomain}
  BY <1>1, <1>3
<1>6. DiscoveryExact'
  BY <1>1, <1>3, <1>4, <1>5, PublishedMeansUsable DEF DiscoveryExact
<1> QED
  BY <1>1, <1>2, <1>6 DEF BimiInv

LEMMA WalkOnStep ==
    ASSUME BimiInv, WalkOn
    PROVE  BimiInv'
<1>1. WalkInv' /\ bimiAt = "walk" /\ UNCHANGED <<bimiAt, ownSet, orgSet, bimi>>
  BY WalkStepKeeps DEF WalkOn, bimiVars, BimiInv
<1>2. start' = start
  BY DEF WalkOn, WalkStep, QueryAnswers, QueryFails, Select
<1> QED
  BY <1>1, <1>2 DEF BimiInv, DiscoveryExact

LEMMA LookupStepKeeps ==
    ASSUME BimiInv, LookupStep
    PROVE  BimiInv'
BY BimiQueryFailsStep, OwnAnswersStep, WalkReturnsStep, ParentAnswersStep, WalkOnStep
   DEF LookupStep

-----------------------------------------------------------------------------
(* The TLS rows                                                            *)

\* No host is the target of two MX records.
NoHostTwice ==
    \A z \in Zones : \A i, j \in 1 .. Len(z.mx) : z.mx[i] = z.mx[j] => i = j

\* What a row without an error says of the zone.
RowTells(r) ==
    CASE r.kind = "tlsrpt" ->
             r.content = (IF \E i \in 1 .. Len(zone.rpt) : zone.rpt[i] = "rua" /\
                               \A j \in 1 .. Len(zone.rpt) :
                                   j # i => zone.rpt[j] = "other"
                          THEN {"rua"} ELSE {})
      [] r.kind = "mtasts" ->
             /\ r.content = (IF zone.file = "good" THEN {"good"} ELSE {})
             /\ r.content = {} /\ stsRecord # "failed" => zone.file = "none" /\ ~zone.sts
      [] r.kind = "tlsa" -> r.content = zone.tlsa[r.host]

Hosts == {zone.mx[i] : i \in 1 .. Len(zone.mx)}

\* The hosts whose rows are saved.
Passed == {zone.mx[i] : i \in 1 .. Len(zone.mx) - Len(hostsLeft)}

TlsPhase ==
    /\ tlsAt \in {"idle", "tlsrpt", "sts", "file", "mx", "udp", "tcp", "done", "mxfailed"}
    /\ tlsAt = "idle" => tlsRows = {}
    /\ tlsAt # "idle" => zone \in Zones
    /\ tlsAt \in {"file"} => stsRecord \in {"found", "absent", "failed"}
                              /\ (stsRecord = "found" => zone.sts)
                              /\ (stsRecord = "absent" => ~zone.sts)
    /\ tlsAt \in {"udp", "tcp"} => /\ hostsLeft \in Seq(STRING) /\ hostsLeft # <<>>
                                   /\ EndOf(hostsLeft, zone.mx)

\* The row of a kind and host is one, and it is there once its lookup is over.
RowsOfLookups ==
    /\ \A r, q \in tlsRows : r.kind = q.kind /\ r.host = q.host => r = q
    /\ \A r \in tlsRows :
          \/ r.kind = "tlsrpt" /\ r.host = "" /\ tlsAt # "tlsrpt"
          \/ r.kind = "mtasts" /\ r.host = "" /\ tlsAt \notin {"tlsrpt", "sts", "file"}
          \/ /\ r.kind = "tlsa"
             /\ \/ tlsAt \in {"udp", "tcp"} /\ r.host \in Passed
                \/ tlsAt = "done"
    /\ tlsAt \notin {"idle", "tlsrpt"} => \E r \in tlsRows : r.kind = "tlsrpt"
    /\ tlsAt \notin {"idle", "tlsrpt", "sts", "file"} => \E r \in tlsRows : r.kind = "mtasts"
    /\ tlsAt \in {"udp", "tcp"} =>
          \A h \in Passed : \E r \in tlsRows : r.kind = "tlsa" /\ r.host = h
    /\ tlsAt = "done" =>
          \A h \in Hosts : \E r \in tlsRows : r.kind = "tlsa" /\ r.host = h

TlsInv ==
    /\ TlsPhase
    /\ RowsOfLookups
    /\ \A r \in tlsRows : ~r.failed => RowTells(r)

LEMMA TlsInvInit == TlsInit => TlsInv
BY DEF TlsInit, TlsInv, TlsPhase, RowsOfLookups

LEMMA BeginTlsStep ==
    ASSUME TlsInv, BeginTls
    PROVE  TlsInv'
BY DEF BeginTls, TlsInv, TlsPhase, RowsOfLookups

\* A row of another kind or host is saved next to the others.
LEMMA NewRow ==
    ASSUME RowsOfLookups, NEW row, Saved(row),
           \A r \in tlsRows : ~(r.kind = row.kind /\ r.host = row.host)
    PROVE  /\ row \in tlsRows' /\ tlsRows \subseteq tlsRows'
           /\ \A r \in tlsRows' : r \in tlsRows \/ r = row
           /\ \A r, q \in tlsRows' : r.kind = q.kind /\ r.host = q.host => r = q
<1>1. /\ row \in tlsRows' /\ tlsRows \subseteq tlsRows'
      /\ \A r \in tlsRows' : r \in tlsRows \/ r = row
  BY DEF Saved
<1>2. ASSUME NEW r \in tlsRows', NEW q \in tlsRows', r.kind = q.kind, r.host = q.host
      PROVE  r = q
  <2>1. CASE r \in tlsRows /\ q \in tlsRows
    BY <1>2, <2>1 DEF RowsOfLookups
  <2>2. CASE r = row \/ q = row
    BY <1>1, <1>2, <2>2
  <2> QED BY <1>1, <2>1, <2>2
<1> QED
  BY <1>1, <1>2

LEMMA RptTells ==
    ASSUME NEW z \in Zones, zone = z
    PROVE  /\ IsFiniteSet(Rpt)
           /\ ~(Cardinality(Rpt) > 1 \/ {zone.rpt[i] : i \in Rpt} = {"norua"}) =>
                (IF Cardinality(Rpt) = 1 THEN {zone.rpt[i] : i \in Rpt} ELSE {}) =
                (IF \E i \in 1 .. Len(zone.rpt) : zone.rpt[i] = "rua" /\
                               \A j \in 1 .. Len(zone.rpt) :
                                   j # i => zone.rpt[j] = "other"
                 THEN {"rua"} ELSE {})
<1>1. zone.rpt \in Seq({"other", "rua", "norua"}) /\ Len(zone.rpt) \in Nat
  BY TlsAssumption
<1>2. IsFiniteSet(Rpt) /\ Cardinality(Rpt) \in Nat
  <2>1. IsFiniteSet(1 .. Len(zone.rpt))
    BY <1>1, FS_Interval
  <2> QED BY <2>1, FS_Subset, FS_CardinalityType DEF Rpt
<1> DEFINE alone(i) == zone.rpt[i] = "rua" /\ \A j \in 1 .. Len(zone.rpt) :
                                                 j # i => zone.rpt[j] = "other"
<1>3. ASSUME ~(Cardinality(Rpt) > 1 \/ {zone.rpt[i] : i \in Rpt} = {"norua"})
      PROVE  (IF Cardinality(Rpt) = 1 THEN {zone.rpt[i] : i \in Rpt} ELSE {}) =
             (IF \E i \in 1 .. Len(zone.rpt) : alone(i) THEN {"rua"} ELSE {})
  <2>1. CASE Cardinality(Rpt) = 1
    <3>1. PICK k : Rpt = {k}
      BY <1>2, <2>1, FS_Singleton
    <3>2. k \in 1 .. Len(zone.rpt) /\ zone.rpt[k] # "other"
      BY <3>1 DEF Rpt
    <3>3. zone.rpt[k] # "norua"
      BY <1>3, <3>1
    <3>4. zone.rpt[k] = "rua"
      BY <1>1, <3>2, <3>3
    <3>5. \A j \in 1 .. Len(zone.rpt) : j # k => zone.rpt[j] = "other"
      BY <3>1 DEF Rpt
    <3>6. {zone.rpt[i] : i \in Rpt} = {"rua"}
      BY <3>1, <3>4
    <3> QED BY <2>1, <3>2, <3>4, <3>5, <3>6
  <2>2. CASE Cardinality(Rpt) # 1
    <3>1. Cardinality(Rpt) = 0
      BY <1>2, <1>3, <2>2
    <3>2. Rpt = {}
      BY <1>2, <3>1, FS_EmptySet
    <3>3. \A i \in 1 .. Len(zone.rpt) : zone.rpt[i] = "other"
      BY <3>2 DEF Rpt
    <3> QED BY <2>2, <3>3
  <2> QED BY <2>1, <2>2
<1> QED
  BY <1>2, <1>3

LEMMA LookupTLSRPTStep ==
    ASSUME TlsInv, LookupTLSRPT
    PROVE  TlsInv'
<1>1. /\ tlsAt = "tlsrpt" /\ tlsAt' = "sts" /\ UNCHANGED <<zone, hostsLeft, serversLeft, stsRecord>>
      /\ zone \in Zones /\ RowsOfLookups /\ TlsPhase
      /\ \A r \in tlsRows : ~r.failed => RowTells(r)
  BY DEF LookupTLSRPT, TlsInv, TlsPhase
<1>2. PICK content, failed :
         Saved(Row("tlsrpt", "", content, failed))
            /\ (~failed => content =
                 (IF \E i \in 1 .. Len(zone.rpt) : zone.rpt[i] = "rua" /\
                               \A j \in 1 .. Len(zone.rpt) :
                                   j # i => zone.rpt[j] = "other"
                  THEN {"rua"} ELSE {}))
  BY <1>1, RptTells DEF LookupTLSRPT
<1> DEFINE row == Row("tlsrpt", "", content, failed)
<1>3. row.kind = "tlsrpt" /\ row.host = "" /\ row.content = content /\ row.failed = failed
  BY DEF Row
<1>4. \A r \in tlsRows : FALSE
  BY <1>1 DEF RowsOfLookups
<1>5. tlsRows' = {row}
  BY <1>2, <1>4 DEF Saved
<1> HIDE DEF row
<1>6. ~row.failed => RowTells(row)'
  BY <1>1, <1>2, <1>3 DEF RowTells
<1> QED
  BY <1>1, <1>3, <1>5, <1>6 DEF TlsInv, TlsPhase, RowsOfLookups

LEMMA LookupSTSRecordStep ==
    ASSUME TlsInv, LookupSTSRecord
    PROVE  TlsInv'
<1>1. /\ tlsAt = "sts" /\ tlsAt' = "file" /\ UNCHANGED <<zone, hostsLeft, serversLeft, tlsRows>>
      /\ stsRecord' \in {"found", "absent", "failed"}
      /\ stsRecord' = "found" => zone.sts
      /\ stsRecord' = "absent" => ~zone.sts
      /\ \A r \in tlsRows : r.kind = "tlsrpt"
  BY DEF LookupSTSRecord, TlsInv, TlsPhase, RowsOfLookups
<1>2. \A r \in tlsRows : RowTells(r)' <=> RowTells(r)
  BY <1>1 DEF RowTells
<1> QED
  BY <1>1, <1>2 DEF TlsInv, TlsPhase, RowsOfLookups

LEMMA FetchPolicyStep ==
    ASSUME TlsInv, FetchPolicy
    PROVE  TlsInv'
<1>1. /\ tlsAt = "file" /\ tlsAt' = "mx" /\ UNCHANGED <<zone, hostsLeft, serversLeft, stsRecord>>
      /\ zone \in Zones /\ RowsOfLookups /\ TlsPhase
      /\ \A r \in tlsRows : ~r.failed => RowTells(r)
      /\ stsRecord \in {"found", "absent", "failed"}
      /\ stsRecord = "absent" => ~zone.sts
  BY DEF FetchPolicy, TlsInv, TlsPhase
<1>2. PICK content, failed :
         /\ Saved(Row("mtasts", "", content, failed))
         /\ ~failed => /\ content = (IF zone.file = "good" THEN {"good"} ELSE {})
                       /\ content = {} /\ stsRecord # "failed" => zone.file = "none" /\ ~zone.sts
  <2>1. CASE zone.file \in {"good", "bad"} /\ Saved(Row("mtasts", "", {zone.file}, zone.file = "bad"))
    BY <2>1
  <2>2. CASE zone.file = "none" /\ Saved(Row("mtasts", "", {}, stsRecord = "found"))
    BY <1>1, <2>2
  <2>3. CASE Saved(Row("mtasts", "", {}, TRUE))
    BY <2>3
  <2> QED BY <2>1, <2>2, <2>3 DEF FetchPolicy
<1> DEFINE row == Row("mtasts", "", content, failed)
<1>3. row.kind = "mtasts" /\ row.host = "" /\ row.content = content /\ row.failed = failed
  BY DEF Row
<1>4. \A r \in tlsRows : r.kind = "tlsrpt" /\ r.host = ""
  BY <1>1 DEF RowsOfLookups
<1>5. /\ row \in tlsRows' /\ tlsRows \subseteq tlsRows'
      /\ \A r \in tlsRows' : r \in tlsRows \/ r = row
      /\ \A r, q \in tlsRows' : r.kind = q.kind /\ r.host = q.host => r = q
  <2> HIDE DEF row
  <2> QED BY <1>1, <1>2, <1>3, <1>4, NewRow DEF row
<1> HIDE DEF row
<1>6. ~row.failed => RowTells(row)'
  BY <1>1, <1>2, <1>3 DEF RowTells
<1>7. \A r \in tlsRows : RowTells(r)' <=> RowTells(r)
  BY <1>1 DEF RowTells
<1>8. TlsPhase'
  BY <1>1 DEF TlsPhase
<1>9. RowsOfLookups'
  BY <1>1, <1>3, <1>4, <1>5 DEF RowsOfLookups
<1> QED
  BY <1>1, <1>5, <1>6, <1>7, <1>8, <1>9 DEF TlsInv

LEMMA LookupMXStep ==
    ASSUME TlsInv, LookupMX
    PROVE  TlsInv'
<1>1. /\ tlsAt = "mx" /\ UNCHANGED <<zone, stsRecord, tlsRows>>
      /\ zone \in Zones /\ RowsOfLookups /\ TlsPhase
      /\ \A r \in tlsRows : r.kind \in {"tlsrpt", "mtasts"} /\ r.host = ""
  BY DEF LookupMX, TlsInv, TlsPhase, RowsOfLookups
<1>2. \A r \in tlsRows : RowTells(r)' <=> RowTells(r)
  BY <1>1 DEF RowTells
<1>3. zone.mx \in Seq(STRING) /\ Len(zone.mx) \in Nat
  <2>1. zone.mx \in Seq(STRING)
    BY <1>1, TlsAssumption
  <2> QED BY <2>1
<1>4. CASE tlsAt' = "mxfailed"
  BY <1>1, <1>2, <1>4 DEF TlsInv, TlsPhase, RowsOfLookups
<1>5. CASE hostsLeft' = zone.mx /\ zone.mx = <<>> /\ tlsAt' = "done"
  <2>1. Hosts' = {}
    <3>1. zone'.mx = <<>>
      BY <1>1, <1>5
    <3> QED BY <3>1 DEF Hosts
  <2> QED BY <1>1, <1>2, <1>5, <2>1 DEF TlsInv, TlsPhase, RowsOfLookups
<1>6. CASE hostsLeft' = zone.mx /\ zone.mx # <<>> /\ tlsAt' = "udp"
  <2>1. Passed' = {} /\ EndOf(hostsLeft', zone.mx)
    <3>1. zone'.mx = zone.mx /\ Len(zone.mx) - Len(hostsLeft') = 0
      <4>1. zone' = zone /\ hostsLeft' = zone.mx
        BY <1>1, <1>6
      <4>2. Len(zone.mx) - Len(zone.mx) = 0
        BY <1>3
      <4> QED BY <4>1, <4>2
    <3>2. Passed' = {}
      BY <3>1 DEF Passed
    <3>3. EndOf(zone.mx, zone.mx)
      BY <1>3 DEF EndOf
    <3> QED BY <1>6, <3>2, <3>3
  <2> QED BY <1>1, <1>2, <1>3, <1>6, <2>1 DEF TlsInv, TlsPhase, RowsOfLookups
<1> QED
  BY <1>4, <1>5, <1>6 DEF LookupMX

\* The row of the host is saved, and the next host is asked for.
LEMMA HostDone ==
    ASSUME TlsInv, NoHostTwice, tlsAt \in {"udp", "tcp"}, NEW records, NEW failed,
           failed \/ records = zone.tlsa[Head(hostsLeft)],
           Saved(Row("tlsa", Head(hostsLeft), records, failed)), NextHost,
           UNCHANGED <<zone, stsRecord>>
    PROVE  TlsInv'
<1> PICK host : host = Head(hostsLeft)
  OBVIOUS
<1> DEFINE row == Row("tlsa", host, records, failed)
           L == Len(zone.mx)
           p == PlaceOf(hostsLeft, zone.mx)
<1>1. /\ zone \in Zones /\ RowsOfLookups /\ TlsPhase
      /\ \A r \in tlsRows : ~r.failed => RowTells(r)
      /\ hostsLeft \in Seq(STRING) /\ hostsLeft # <<>> /\ EndOf(hostsLeft, zone.mx)
      /\ zone.mx \in Seq(STRING) /\ L \in Nat /\ Len(hostsLeft) \in Nat
  BY TlsAssumption DEF TlsInv, TlsPhase
<1>2. /\ p \in 1 .. L /\ host = zone.mx[p]
      /\ Tail(hostsLeft) \in Seq(STRING) /\ EndOf(Tail(hostsLeft), zone.mx)
  BY <1>1, TailOfEnd
<1>3. /\ Len(Tail(hostsLeft)) = Len(hostsLeft) - 1 /\ p = L - Len(hostsLeft) + 1
      /\ Len(hostsLeft) >= 1
  BY <1>1 DEF PlaceOf
<1>4. row.kind = "tlsa" /\ row.host = zone.mx[p] /\ row.content = records /\ row.failed = failed
  BY <1>2 DEF Row
<1>5. zone.mx[p] \notin Passed
  <2> SUFFICES ASSUME NEW i \in 1 .. L - Len(hostsLeft), zone.mx[i] = zone.mx[p]
               PROVE  FALSE
    BY DEF Passed
  <2>1. i \in 1 .. L /\ i # p
    BY <1>1, <1>2, <1>3
  <2> QED BY <1>1, <1>2, <2>1 DEF NoHostTwice
<1>6. \A r \in tlsRows : ~(r.kind = "tlsa" /\ r.host = zone.mx[p])
  BY <1>1, <1>5 DEF RowsOfLookups
<1> HIDE DEF row
<1>7. /\ row \in tlsRows' /\ tlsRows \subseteq tlsRows'
      /\ \A r \in tlsRows' : r \in tlsRows \/ r = row
      /\ \A r, q \in tlsRows' : r.kind = q.kind /\ r.host = q.host => r = q
  BY <1>1, <1>4, <1>6, NewRow DEF row
<1>8. ~row.failed => RowTells(row)'
  BY <1>2, <1>4 DEF RowTells
<1>9. \A r \in tlsRows : RowTells(r)' <=> RowTells(r)
  BY DEF RowTells
<1>10. hostsLeft' = Tail(hostsLeft) /\ tlsAt' = IF Len(hostsLeft) = 1 THEN "done" ELSE "udp"
  BY DEF NextHost
<1>11. Passed' = Passed \cup {zone.mx[p]}
  <2>1. L - Len(hostsLeft') = p /\ L - Len(hostsLeft) = p - 1
    BY <1>1, <1>3, <1>10
  <2>2. Passed' = {zone.mx[i] : i \in 1 .. p} /\ Passed = {zone.mx[i] : i \in 1 .. p - 1}
    BY <2>1 DEF Passed
  <2>3. \A i : i \in 1 .. p <=> i \in 1 .. p - 1 \/ i = p
    BY <1>2
  <2> QED BY <2>2, <2>3
<1>12. TlsPhase'
  <2>1. Len(hostsLeft) # 1 => Tail(hostsLeft) # <<>>
    <3>1. ASSUME Tail(hostsLeft) = <<>>
          PROVE  Len(Tail(hostsLeft)) = 0
      <4>1. Len(<<>>) = 0
        OBVIOUS
      <4> QED BY <3>1, <4>1, Zenon
    <3> QED BY <1>1, <1>3, <3>1
  <2> QED BY <1>1, <1>2, <1>10, <2>1 DEF TlsPhase
<1>13. \A h \in Passed' : \E r \in tlsRows' : r.kind = "tlsa" /\ r.host = h
  <2>1. \A h \in Passed : \E r \in tlsRows : r.kind = "tlsa" /\ r.host = h
    BY <1>1 DEF RowsOfLookups
  <2> HIDE DEF p
  <2> QED BY <1>4, <1>7, <1>11, <2>1
<1>14. Len(hostsLeft) = 1 => Hosts' = Passed'
  BY <1>1, <1>3, <1>10 DEF Hosts, Passed
<1>15. RowsOfLookups'
  <2>1. \A r \in tlsRows' :
          \/ r.kind = "tlsrpt" /\ r.host = ""
          \/ r.kind = "mtasts" /\ r.host = ""
          \/ r.kind = "tlsa" /\ r.host \in Passed'
    BY <1>1, <1>4, <1>7, <1>11 DEF RowsOfLookups
  <2>2. /\ \E r \in tlsRows' : r.kind = "tlsrpt"
        /\ \E r \in tlsRows' : r.kind = "mtasts"
    BY <1>1, <1>7 DEF RowsOfLookups
  <2>3. tlsAt' \in {"udp", "done"} /\ (tlsAt' = "done" => Hosts' = Passed')
    BY <1>10, <1>14
  <2> QED BY <1>7, <1>13, <2>1, <2>2, <2>3 DEF RowsOfLookups
<1> QED
  BY <1>1, <1>7, <1>8, <1>9, <1>12, <1>15 DEF TlsInv

LEMMA SameHostStep ==
    ASSUME TlsInv, tlsAt \in {"udp", "tcp"}, tlsAt' \in {"udp", "tcp"},
           UNCHANGED <<zone, hostsLeft, stsRecord, tlsRows>>
    PROVE  TlsInv'
<1>1. \A r : RowTells(r)' <=> RowTells(r)
  BY DEF RowTells
<1>2. Passed' = Passed /\ Hosts' = Hosts
  BY DEF Passed, Hosts
<1> QED
  BY <1>1, <1>2 DEF TlsInv, TlsPhase, RowsOfLookups

LEMMA TlsStepKeeps ==
    ASSUME TlsInv, NoHostTwice, TlsStep
    PROVE  TlsInv'
<1>1. CASE LookupTLSRPT \/ LookupSTSRecord \/ FetchPolicy \/ LookupMX
  BY <1>1, LookupTLSRPTStep, LookupSTSRecordStep, FetchPolicyStep, LookupMXStep
<1>2. CASE UdpAnswers
  BY <1>2, HostDone, SameHostStep DEF UdpAnswers, HostRow
<1>3. CASE TcpAnswers
  BY <1>3, HostDone DEF TcpAnswers, HostRow
<1>4. CASE ServerFails
  BY <1>4, SameHostStep DEF ServerFails
<1>5. CASE HostFails
  BY <1>5, HostDone DEF HostFails
<1> QED
  BY <1>1, <1>2, <1>3, <1>4, <1>5 DEF TlsStep

LEMMA RowsTell == TlsInv => RowsTellTheZone
<1> SUFFICES ASSUME TlsInv
             PROVE  RowsTellTheZone
  OBVIOUS
<1>1. \A r \in tlsRows : ~r.failed => RowTells(r)
  BY DEF TlsInv
<1>2. ASSUME tlsAt \in {"done", "mxfailed"}, NEW kind \in {"tlsrpt", "mtasts"}
      PROVE  Cardinality({r \in tlsRows : r.kind = kind}) = 1
  <2>1. PICK r \in tlsRows : r.kind = kind
    BY <1>2 DEF TlsInv, RowsOfLookups
  <2>2. \A q \in tlsRows : q.kind = kind => q = r
    BY <1>2, <2>1 DEF TlsInv, RowsOfLookups
  <2>3. {q \in tlsRows : q.kind = kind} = {r}
    BY <2>1, <2>2
  <2> QED BY <2>3, FS_Singleton
<1>3. ASSUME tlsAt = "done", NEW host \in ToSet(zone.mx)
      PROVE  Cardinality({r \in tlsRows : r.kind = "tlsa" /\ r.host = host}) = 1
  <2>1. host \in Hosts
    <3>1. zone \in Zones
      BY <1>3 DEF TlsInv, TlsPhase
    <3>2. zone.mx \in Seq(STRING)
      BY <3>1, TlsAssumption
    <3> QED BY <1>3, <3>2 DEF Hosts, ToSet
  <2>2. PICK r \in tlsRows : r.kind = "tlsa" /\ r.host = host
    BY <1>3, <2>1 DEF TlsInv, RowsOfLookups
  <2>3. \A q \in tlsRows : q.kind = "tlsa" /\ q.host = host => q = r
    <3>1. \A q \in tlsRows : r.kind = q.kind /\ r.host = q.host => r = q
      BY <2>2 DEF TlsInv, RowsOfLookups
    <3> QED BY <2>2, <3>1
  <2>4. {q \in tlsRows : q.kind = "tlsa" /\ q.host = host} = {r}
    BY <2>2, <2>3
  <2> QED BY <2>4, FS_Singleton
<1> QED
  BY <1>1, <1>2, <1>3 DEF RowsTellTheZone, RowTells

-----------------------------------------------------------------------------
(* The theorems: a behaviour makes one of the lookups                      *)

LEMMA MarkStands ==
    ASSUME MarkInv, UNCHANGED markVars
    PROVE  MarkInv'
BY DEF MarkInv, MarkPhase, Settled, RevocationKnown, markVars

LEMMA SpfStands ==
    ASSUME SpfInv, UNCHANGED spfVars
    PROVE  SpfInv'
<1>1. UNCHANGED <<origin, spfAt, target, frames, found, consulted, lookups, over, faults, entry>>
  BY DEF spfVars
<1>2. /\ AuthorisedBy(origin)' = AuthorisedBy(origin)
      /\ Reachable(origin)' = Reachable(origin)
      /\ LookupsNeeded(origin)' = LookupsNeeded(origin)
      /\ AllSites(origin)' = AllSites(origin)
  BY <1>1 DEF AuthorisedBy, Reachable, LookupsNeeded, AllSites
<1>3. FramesOK' <=> FramesOK
  BY <1>1 DEF FramesOK, FrameOK
<1>4. Entered' = Entered
  BY <1>1 DEF Entered
<1>5. SpfShape'
  BY <1>1, <1>2, <1>3, <1>4 DEF SpfInv, SpfShape
<1>6. \A n, i : ReadAt(n, i)' <=> ReadAt(n, i)
  BY <1>1 DEF ReadAt, InHand
<1>7. ReadSites' = ReadSites
  BY <1>2, <1>6 DEF ReadSites
<1>8. SpfExact => SpfExact'
  BY <1>1, <1>4, <1>6, <1>7 DEF SpfExact, Rec
<1> QED
  BY <1>1, <1>2, <1>5, <1>8 DEF SpfInv

LEMMA BimiStands ==
    ASSUME BimiInv, UNCHANGED walkVars, UNCHANGED bimiVars
    PROVE  BimiInv'
<1>1. WalkInv'
  BY WalkStands DEF BimiInv
<1>2. UNCHANGED <<start, walkAt, orgDomain, bimiAt, ownSet, orgSet, bimi>>
  BY DEF walkVars, bimiVars
<1> QED
  BY <1>1, <1>2 DEF BimiInv, DiscoveryExact

LEMMA TlsStands ==
    ASSUME TlsInv, UNCHANGED tlsVars
    PROVE  TlsInv'
<1>1. UNCHANGED <<zone, tlsAt, hostsLeft, serversLeft, stsRecord, tlsRows>>
  BY DEF tlsVars
<1>2. Passed' = Passed /\ Hosts' = Hosts
  BY <1>1 DEF Passed, Hosts
<1>3. \A r : RowTells(r)' <=> RowTells(r)
  BY <1>1 DEF RowTells
<1> QED
  BY <1>1, <1>2, <1>3 DEF TlsInv, TlsPhase, RowsOfLookups

\* A step of the lookups is a step of one of them, and leaves the others alone.
LEMMA OneLookup ==
    ASSUME [LookupsNext]_lookupVars
    PROVE  /\ \/ \E d \in Names : ResolveSpf(d)
              \/ SpfStep
              \/ UNCHANGED spfVars
           /\ \/ \E d \in LookupDomains : BeginLookup(d)
              \/ LookupStep
              \/ UNCHANGED walkVars /\ UNCHANGED bimiVars
           /\ BeginTls \/ TlsStep \/ UNCHANGED tlsVars
           /\ \/ \E rec \in MarkRecords : BeginMarks(rec)
              \/ markAt # "idle" /\ MarkStep
              \/ UNCHANGED markVars
<1>1. CASE BeginOne
  BY <1>1 DEF BeginOne, ExceptSpf, ExceptBimi, ExceptTls, ExceptMark
<1>2. CASE SpfRunning
  BY <1>2 DEF SpfRunning, ExceptSpf
<1>3. CASE BimiRunning
  BY <1>3 DEF BimiRunning, ExceptBimi
<1>4. CASE TlsRunning
  BY <1>4 DEF TlsRunning, ExceptTls
<1>5. CASE MarkRunning
  BY <1>5 DEF MarkRunning, ExceptMark
<1>6. CASE UNCHANGED lookupVars
  BY <1>6 DEF lookupVars
<1> QED
  BY <1>1, <1>2, <1>3, <1>4, <1>5, <1>6 DEF LookupsNext

\* Whatever records the names publish and whichever lookups fail, expand (spf/resolve.go)
\* finds no network that no reachable record authorises; when all answer and the limit
\* is not reached it finds every one, and the limit stops exactly the evaluations that
\* need more than MaxLookups lookups.
THEOREM SpfExpansionExact == LookupsSpec => []ExpansionExact
<1>1. LookupsInit => SpfInv
  BY SpfInvInit DEF LookupsInit
<1>2. SpfInv /\ [LookupsNext]_lookupVars => SpfInv'
  BY OneLookup, ResolveSpfStep, SpfStepKeeps, SpfStands
<1> QED
  BY <1>1, <1>2, ExactWhenDone, PTL DEF LookupsSpec

LEMMA BimiAlways == LookupsSpec => []BimiInv
<1>1. LookupsInit => BimiInv
  BY BimiInvInit DEF LookupsInit
<1>2. BimiInv /\ [LookupsNext]_lookupVars => BimiInv'
  BY OneLookup, BeginLookupStep, LookupStepKeeps, BimiStands
<1> QED
  BY <1>1, <1>2, PTL DEF LookupsSpec

\* For every name, suffix list, limit and set of answers, TreeWalkOrgDomain
\* (psl/treewalk.go) ends at the boundary the owner declared, asks at most MaxQueries
\* names and skips none it should have asked.
THEOREM TreeWalkExact == LookupsSpec => []WalkExact
<1>1. BimiInv => WalkExact
  BY DEF BimiInv, WalkInv
<1> QED
  BY <1>1, BimiAlways, PTL

\* bimi.Lookup (bimi/lookup.go) calls a record published exactly when an evaluator may
\* use it, and absent only when both names answered without a candidate.
THEOREM BimiDiscoveryExact == LookupsSpec => []DiscoveryExact
<1>1. BimiInv => DiscoveryExact
  BY DEF BimiInv
<1> QED
  BY <1>1, BimiAlways, PTL

\* A row snapshotTLSPolicy (handlers/enrich_worker.go) stores without an error says what the
\* domain publishes, however many servers failed and whichever answers were cut, and
\* every lookup that ended has one row.  A host under two MX preferences is asked twice
\* (tlspolicy.go:339) and may get two rows, hence the hypothesis.
THEOREM TlsRowsTellTheZone == NoHostTwice => (LookupsSpec => []RowsTellTheZone)
<1> SUFFICES ASSUME NoHostTwice
             PROVE  LookupsSpec => []RowsTellTheZone
  OBVIOUS
<1>1. LookupsInit => TlsInv
  BY TlsInvInit DEF LookupsInit
<1>2. TlsInv /\ [LookupsNext]_lookupVars => TlsInv'
  BY OneLookup, BeginTlsStep, TlsStepKeeps, TlsStands
<1> QED
  BY <1>1, <1>2, RowsTell, PTL DEF LookupsSpec

LEMMA MarkAlways == LookupsSpec => []MarkInv
<1>1. LookupsInit => MarkInv
  BY MarkInvInit DEF LookupsInit
<1>2. MarkInv /\ [LookupsNext]_lookupVars => MarkInv'
  BY OneLookup, MarkInvBegin, MarkInvStep, MarkStands
<1> QED
  BY <1>1, <1>2, PTL DEF LookupsSpec

\* Validate (bimi/validate.go) calls a record valid exactly with a conforming logo and,
\* where the record names an authority, a certificate that vouches for that very mark.
THEOREM MarkVouchedWhenValid == LookupsSpec => []ValidMeansVouched
BY MarkAlways, VouchedWhenValid, PTL

\* checkRevocation (bimi/evidence.go) says good or revoked only on a signed answer that
\* says so, and good from a list only while the list is fresh.
THEOREM MarkRevocationHonest == LookupsSpec => []RevocationHonest
BY MarkAlways, RevocationIsHonest, PTL
=============================================================================
