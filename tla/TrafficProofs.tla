---------------------------- MODULE TrafficProofs ----------------------------
(***************************************************************************)
(* TrafficAccountedFor and RulesMatchPages for any pool of reports, any     *)
(* seed mail, any lookups and any filters.  StatisticsProofs has the parts  *)
(* about messages and X1 to X11; here are the views of TLS sessions and of  *)
(* their failures, those of BIMI (errors reported by evaluators, what is    *)
(* told of broken reports, the lines of the page, the verdicts stamped on   *)
(* seed mail), and after them the rules X12 to X19 and X20 to X30.  The     *)
(* argument for the views is that of StatisticsProofs, whose lemmas about   *)
(* sums it uses; verdicts are stored one by one by a fold, and lookups row  *)
(* by row, so each need an invariant of their own (BimiInv, LookupInv).     *)
(***************************************************************************)
EXTENDS StatisticsProofs, SequenceTheorems

-----------------------------------------------------------------------------
(* TLS reports: weights, and sums over groups                               *)

\* w weighs the elements of a finite set.
Weighed(w, S) == IsFiniteSet(S) /\ \A x \in S : w[x] \in Nat

LEMMA WeighedInt ==
    ASSUME NEW w, NEW S, Weighed(w, S)
    PROVE  /\ IsFiniteSet(S) /\ \A x \in S : w[x] \in Int
           /\ Over(w, S) \in Nat
BY OverNat DEF Weighed

LEMMA WeighedSubset ==
    ASSUME NEW w, NEW S, Weighed(w, S), NEW A \in SUBSET S
    PROVE  /\ Weighed(w, A) /\ Over(w, A) \in Nat /\ Over(w, S) \in Nat
           /\ Over(w, A) <= Over(w, S)
<1>1. Weighed(w, A)
  BY FS_Subset DEF Weighed
<1>2. Over(w, A) <= Over(w, S)
  BY OverSubset DEF Weighed
<1> QED
  BY <1>1, <1>2, WeighedInt

LEMMA WeighedSplit ==
    ASSUME NEW w, NEW S, Weighed(w, S), NEW A, NEW B, S = A \cup B, A \cap B = {}
    PROVE  /\ Over(w, S) = Over(w, A) + Over(w, B)
           /\ Over(w, S) \in Nat /\ Over(w, A) \in Nat /\ Over(w, B) \in Nat
<1>1. A \in SUBSET S /\ B \in SUBSET S
  OBVIOUS
<1>2. Over(w, S) = Over(w, A) + Over(w, B)
  BY WeighedInt, OverSplit
<1> QED
  BY <1>1, <1>2, WeighedSubset

\* The same of a set of elements with a renamed copy of it.
Relabelled(w, S, h, T, v) ==
    /\ \A x \in S : h[x] \in T /\ v[h[x]] = w[x]
    /\ \A t \in T : \E x \in S : h[x] = t
    /\ \A x, y \in S : h[x] = h[y] => x = y

LEMMA OverRelabel ==
    ASSUME NEW w, NEW S, Weighed(w, S), NEW h, NEW T, NEW v, Relabelled(w, S, h, T, v)
    PROVE  Over(v, T) = Over(w, S) /\ IsFiniteSet(T) /\ Cardinality(T) = Cardinality(S)
<1> USE DEF Relabelled
<1>1. T = Image(h, S)
  BY DEF Image
<1>2. IsFiniteSet(T)
  BY <1>1, ImageFinite DEF Weighed
<1>3. ASSUME NEW t \in T PROVE v[t] = Over(w, {x \in S : h[x] = t})
  <2>1. PICK x \in S : h[x] = t
    OBVIOUS
  <2>2. {y \in S : h[y] = t} = {x}
    BY <2>1
  <2>3. w[x] \in Int
    BY WeighedInt
  <2>4. Over(w, {x}) = w[x]
    BY <2>3, OverSingle
  <2> QED
    BY <2>1, <2>2, <2>4
<1>4. Grouping(w, S, h, T, v)
  BY <1>2, <1>3, WeighedInt DEF Grouping
<1>5. Cardinality(T) = Cardinality(S)
  <2> DEFINE g == [x \in S |-> h[x]]
  <2>1. g \in Bijection(S, T)
    BY <1>1 DEF Bijection, Injection, Surjection, IsInjective, Image
  <2> HIDE DEF g
  <2>2. ExistsBijection(S, T)
    BY <2>1 DEF ExistsBijection
  <2> QED
    BY <2>2, FS_Bijection DEF Weighed
<1> QED
  BY <1>2, <1>4, <1>5, OverGroups

\* Whatever weighs the groups, the sum of the groups is that of the elements.
LEMMA GroupsAddUp ==
    ASSUME NEW w, NEW S, Weighed(w, S), NEW key, DOMAIN key = S,
           NEW g, DOMAIN g = Range(key),
           \A k \in DOMAIN g : g[k].messages = Over(w, {x \in S : key[x] = k})
    PROVE  GroupSum(g) = Over(w, S)
<1> DEFINE m == [k \in DOMAIN g |-> g[k].messages]
<1>1. Range(key) = Image(key, S)
  BY DEF Range, Image
<1>2. IsFiniteSet(DOMAIN g)
  BY <1>1, ImageFinite DEF Weighed
<1>3. \A x \in S : key[x] \in DOMAIN g
  BY DEF Range
<1>4. Grouping(w, S, key, DOMAIN g, m)
  BY <1>2, <1>3, WeighedInt DEF Grouping
<1>5. GroupSum(g) = Over(m, DOMAIN g)
  BY DEF GroupSum, Over
<1> HIDE DEF m
<1> QED
  BY <1>4, <1>5, OverGroups

\* The size of a set, by groups.
LEMMA CountedByGroups ==
    ASSUME NEW S, IsFiniteSet(S), NEW key, NEW g,
           DOMAIN g = Image(key, S), g = [k \in DOMAIN g |-> g[k]],
           \A k \in DOMAIN g : g[k] = Cardinality({x \in S : key[x] = k})
    PROVE  SumOf(g) = Cardinality(S)
<1> DEFINE one == [x \in S |-> 1]
<1>1. \A A \in SUBSET S : IsFiniteSet(A) /\ \A x \in A : one[x] = 1
  BY FS_Subset
<1>2. IsFiniteSet(DOMAIN g) /\ \A x \in S : key[x] \in DOMAIN g
  BY ImageFinite DEF Image
<1>3. \A x \in S : one[x] \in Int
  OBVIOUS
<1> HIDE DEF one
<1>4. \A A \in SUBSET S : Over(one, A) = Cardinality(A)
  BY <1>1, OverOnes
<1>5. \A k \in DOMAIN g : g[k] = Over(one, {x \in S : key[x] = k})
  BY <1>4
<1>6. Grouping(one, S, key, DOMAIN g, g)
  BY <1>2, <1>3, <1>5 DEF Grouping
<1>7. Over(g, DOMAIN g) = Over(one, S)
  BY <1>6, OverGroups
<1> QED
  BY <1>4, <1>7, SumIsOver

-----------------------------------------------------------------------------
(* The policy entries and failure details of TLS reports                    *)

AllEntries == Entries(TlsPool)
AllDetails == DetailsOf(AllEntries)
DetailCount == [x \in AllDetails |-> x.det.count]
EntrySuccess == [e \in AllEntries |-> e.pol.success]
EntryFailure == [e \in AllEntries |-> e.pol.failure]
EntryCount == [e \in AllEntries |-> e.pol.success + e.pol.failure]

LEMMA EntryIn ==
    ASSUME NEW R \in SUBSET TlsPool, NEW e \in Entries(R)
    PROVE  /\ e = [rep |-> e.rep, pol |-> e.pol]
           /\ e.rep \in R /\ e.pol \in e.rep.policies
           /\ e.rep.begin \in Int /\ IsFiniteSet(e.pol.fails)
           /\ e.pol.success \in Nat /\ e.pol.failure \in Nat
           /\ e \in AllEntries
BY TlsRowsAssumption DEF Entries, AllEntries

LEMMA EntriesFinite ==
    ASSUME NEW R \in SUBSET TlsPool
    PROVE  IsFiniteSet(Entries(R)) /\ Entries(R) \in SUBSET AllEntries
<1> DEFINE of == [r \in R |-> {[rep |-> r, pol |-> p] : p \in r.policies}]
<1>1. ASSUME NEW r \in R PROVE IsFiniteSet(of[r])
  <2> DEFINE pair == [p \in r.policies |-> [rep |-> r, pol |-> p]]
  <2>1. of[r] = {pair[p] : p \in r.policies} /\ IsFiniteSet(r.policies)
    BY TlsRowsAssumption
  <2> HIDE DEF pair, of
  <2> QED
    BY <2>1, ImageFinite DEF Image
<1>2. IsFiniteSet(R)
  BY TlsRowsAssumption, FS_Subset
<1>3. Entries(R) = UNION {of[r] : r \in R}
  BY DEF Entries
<1> HIDE DEF of
<1>4. IsFiniteSet({of[r] : r \in R})
  BY <1>2, ImageFinite DEF Image
<1>5. Entries(R) \in SUBSET AllEntries
  BY EntryIn
<1> QED
  BY <1>1, <1>3, <1>4, <1>5, FS_UNION

LEMMA EntriesWeighed ==
    ASSUME NEW E \in SUBSET AllEntries
    PROVE  /\ Weighed(EntryCount, E) /\ Weighed(EntrySuccess, E) /\ Weighed(EntryFailure, E)
           /\ \A e \in E : /\ EntrySuccess[e] = e.pol.success /\ EntryFailure[e] = e.pol.failure
                           /\ EntryCount[e] = e.pol.success + e.pol.failure
<1>1. IsFiniteSet(E)
  BY EntriesFinite, FS_Subset DEF AllEntries
<1>2. \A e \in E : /\ EntrySuccess[e] = e.pol.success /\ EntryFailure[e] = e.pol.failure
                   /\ EntryCount[e] = e.pol.success + e.pol.failure
                   /\ e.pol.success \in Nat /\ e.pol.failure \in Nat
  BY EntryIn DEF AllEntries, EntrySuccess, EntryFailure, EntryCount
<1>3. \A e \in E : EntryCount[e] \in Nat
  BY <1>2
<1> QED
  BY <1>1, <1>2, <1>3 DEF Weighed

LEMMA AppliedOver ==
    ASSUME NEW E \in SUBSET AllEntries
    PROVE  /\ Applied(E).messages = Over(EntryCount, E)
           /\ Applied(E).messages \in Nat
<1>1. [e \in E |-> e.pol.success + e.pol.failure] = [e \in E |-> EntryCount[e]]
  BY EntriesWeighed
<1>2. Applied(E).messages = Over(EntryCount, E)
  BY <1>1 DEF Applied, Over
<1> QED
  BY <1>2, EntriesWeighed, WeighedInt

\* Whatever the entries are grouped by, their sum is the same.
LEMMA AppliedByAddsUp ==
    ASSUME NEW E \in SUBSET AllEntries, NEW key, DOMAIN key = E
    PROVE  GroupSum(AppliedBy(key)) = Applied(E).messages
<1> DEFINE g == AppliedBy(key)
<1>1. DOMAIN g = Range(key)
  BY DEF AppliedBy
<1>2. \A k \in DOMAIN g : g[k].messages = Applied({e \in E : key[e] = k}).messages
  BY DEF AppliedBy
<1> HIDE DEF g
<1>3. \A k \in DOMAIN g : g[k].messages = Over(EntryCount, {e \in E : key[e] = k})
  BY <1>2, AppliedOver
<1>4. GroupSum(g) = Over(EntryCount, E)
  BY <1>1, <1>3, EntriesWeighed, GroupsAddUp
<1> QED
  BY <1>4, AppliedOver DEF g

LEMMA DetailIn ==
    ASSUME NEW E \in SUBSET AllEntries, NEW x \in DetailsOf(E)
    PROVE  /\ [rep |-> x.rep, pol |-> x.pol] \in E
           /\ x = [rep |-> x.rep, pol |-> x.pol, det |-> x.det]
           /\ x.det \in x.pol.fails /\ x.det.count \in Nat
           /\ x.rep \in TlsPool /\ x.rep.begin \in Int
           /\ x \in AllDetails
<1>1. PICK e \in E : x \in {[rep |-> e.rep, pol |-> e.pol, det |-> d] : d \in e.pol.fails}
  BY DEF DetailsOf
<1>2. PICK d \in e.pol.fails : x = [rep |-> e.rep, pol |-> e.pol, det |-> d]
  BY <1>1
<1>3. /\ e = [rep |-> e.rep, pol |-> e.pol] /\ e.rep \in TlsPool
      /\ e.pol \in e.rep.policies /\ e.rep.begin \in Int
  BY EntryIn DEF AllEntries
<1>4. d.count \in Nat
  BY <1>2, <1>3, TlsRowsAssumption
<1>5. x \in AllDetails
  BY <1>1 DEF AllDetails, DetailsOf
<1> QED
  BY <1>2, <1>3, <1>4, <1>5

LEMMA DetailsFinite ==
    ASSUME NEW X \in SUBSET AllDetails
    PROVE  Weighed(DetailCount, X) /\ \A x \in X : DetailCount[x] = x.det.count
<1> DEFINE of == [e \in AllEntries |->
                     {[rep |-> e.rep, pol |-> e.pol, det |-> d] : d \in e.pol.fails}]
<1>1. ASSUME NEW e \in AllEntries PROVE IsFiniteSet(of[e])
  <2> DEFINE triple == [d \in e.pol.fails |-> [rep |-> e.rep, pol |-> e.pol, det |-> d]]
  <2>1. of[e] = {triple[d] : d \in e.pol.fails} /\ IsFiniteSet(e.pol.fails)
    BY EntryIn DEF AllEntries
  <2> HIDE DEF triple, of
  <2> QED
    BY <2>1, ImageFinite DEF Image
<1>2. IsFiniteSet(AllEntries)
  BY EntriesFinite DEF AllEntries
<1>3. AllDetails = UNION {of[e] : e \in AllEntries}
  BY DEF AllDetails, DetailsOf
<1> HIDE DEF of
<1>4. IsFiniteSet({of[e] : e \in AllEntries})
  BY <1>2, ImageFinite DEF Image
<1>5. IsFiniteSet(AllDetails)
  BY <1>1, <1>3, <1>4, FS_UNION
<1>6. IsFiniteSet(X)
  BY <1>5, FS_Subset
<1>7. \A x \in X : x.det.count \in Nat
  BY DetailIn DEF AllDetails
<1> QED
  BY <1>6, <1>7 DEF Weighed, DetailCount

LEMMA CountOver ==
    ASSUME NEW X \in SUBSET AllDetails
    PROVE  Count(X) = Over(DetailCount, X) /\ Count(X) \in Nat
<1>1. [x \in X |-> x.det.count] = [x \in X |-> DetailCount[x]]
  BY DetailsFinite
<1>2. Count(X) = Over(DetailCount, X)
  BY <1>1 DEF Count, Observed, Over
<1> QED
  BY <1>2, DetailsFinite, WeighedInt

LEMMA CountSplit ==
    ASSUME NEW X \in SUBSET AllDetails, NEW A, NEW B, X = A \cup B, A \cap B = {}
    PROVE  /\ Count(X) = Count(A) + Count(B)
           /\ Count(A) \in Nat /\ Count(B) \in Nat
<1>1. A \in SUBSET AllDetails /\ B \in SUBSET AllDetails
  OBVIOUS
<1>2. Weighed(DetailCount, X)
  BY DetailsFinite
<1>3. Over(DetailCount, X) = Over(DetailCount, A) + Over(DetailCount, B)
  BY <1>2, WeighedSplit
<1> QED
  BY <1>1, <1>3, CountOver

\* Whatever the observations are grouped by, their sum is the same.
LEMMA ObservedByAddsUp ==
    ASSUME NEW X \in SUBSET AllDetails, NEW key, DOMAIN key = X
    PROVE  GroupSum(ObservedBy(key)) = Count(X)
<1> DEFINE g == ObservedBy(key)
<1>1. DOMAIN g = Range(key)
  BY DEF ObservedBy
<1>2. \A k \in DOMAIN g : g[k].messages = Count({x \in X : key[x] = k})
  BY DEF ObservedBy, Count
<1> HIDE DEF g
<1>3. \A k \in DOMAIN g : g[k].messages = Over(DetailCount, {x \in X : key[x] = k})
  BY <1>2, CountOver
<1>4. GroupSum(g) = Over(DetailCount, X)
  BY <1>1, <1>3, DetailsFinite, GroupsAddUp
<1> QED
  BY <1>4, CountOver DEF g

-----------------------------------------------------------------------------
(* Sessions: entries of a report for the same domain and hosts              *)

\* The entries of one report for a domain and its hosts, and their session.
SameSession(E, r, d, m) ==
    {e \in E : e.rep = r /\ e.pol.domain = d /\ PolicyMXPatterns(e.pol) = m}
SessionOf(E, r, d, m) ==
    [rep |-> r, domain |-> d, mx |-> m, entries |-> Cardinality(SameSession(E, r, d, m)),
     success |-> Greatest({e.pol.success : e \in SameSession(E, r, d, m)}),
     failure |-> Greatest({e.pol.failure : e \in SameSession(E, r, d, m)})]
SessionWith(E, e) == SessionOf(E, e.rep, e.pol.domain, PolicyMXPatterns(e.pol))
SessionsOf(E) == {SessionWith(E, e) : e \in E}

SessionCount(S) == [s \in S |-> s.success + s.failure]

LEMMA SessionsAre ==
    ASSUME NEW f, PoliciesIn(f) \in SUBSET AllEntries
    PROVE  Sessions(f) = SessionsOf(PoliciesIn(f))
<1> DEFINE E == PoliciesIn(f)
           key(e) == <<e.rep.id, e.pol.domain, PolicyMXPatterns(e.pol)>>
           of(k) == {e \in E : key(e) = k}
           session(k) == [rep |-> (CHOOSE e \in of(k) : TRUE).rep, domain |-> k[2], mx |-> k[3],
                          entries |-> Cardinality(of(k)),
                          success |-> Greatest({e.pol.success : e \in of(k)}),
                          failure |-> Greatest({e.pol.failure : e \in of(k)})]
<1>1. Sessions(f) = {session(k) : k \in {key(e) : e \in E}}
  BY DEF Sessions
<1>2. ASSUME NEW e \in E PROVE session(key(e)) = SessionWith(E, e)
  <2> DEFINE G == of(key(e))
  <2>1. e \in G
    OBVIOUS
  <2>2. \A x \in G : x.rep.id = e.rep.id /\ x.pol.domain = e.pol.domain
                       /\ PolicyMXPatterns(x.pol) = PolicyMXPatterns(e.pol)
    OBVIOUS
  <2>3. \A x \in G : x.rep \in TlsPool /\ e.rep \in TlsPool
    BY EntryIn DEF AllEntries
  <2>4. \A x \in G : x.rep = e.rep
    BY <2>2, <2>3, TlsRowsAssumption
  <2>5. G = SameSession(E, e.rep, e.pol.domain, PolicyMXPatterns(e.pol))
    BY <2>2, <2>4 DEF SameSession
  <2>6. (CHOOSE x \in G : TRUE).rep = e.rep
    BY <2>1, <2>4
  <2>7. key(e)[2] = e.pol.domain /\ key(e)[3] = PolicyMXPatterns(e.pol)
    OBVIOUS
  <2> QED
    BY <2>5, <2>6, <2>7 DEF SessionWith, SessionOf
<1> HIDE DEF E, key, of, session
<1>3. {session(k) : k \in {key(e) : e \in E}} = {SessionWith(E, e) : e \in E}
  BY <1>2
<1> QED
  BY <1>1, <1>3 DEF SessionsOf, E, session, of, key

\* What the entries E of a report r say of one domain and its hosts.
LEMMA SessionFacts ==
    ASSUME NEW E \in SUBSET AllEntries, NEW e \in E, NEW s, s = SessionWith(E, e),
           NEW G, G = SameSession(E, s.rep, s.domain, s.mx)
    PROVE  /\ s.rep = e.rep /\ s.domain = e.pol.domain /\ s.mx = PolicyMXPatterns(e.pol)
           /\ s.rep \in TlsPool /\ e \in G /\ G \in SUBSET E
           /\ s.success \in Nat /\ s.failure \in Nat
           /\ \E x \in G : x.pol.success = s.success
           /\ \E x \in G : x.pol.failure = s.failure
           /\ \A x \in G : x.pol.success <= s.success /\ x.pol.failure <= s.failure
           /\ s.entries = Cardinality(G) /\ s = SessionOf(E, s.rep, s.domain, s.mx)
<1>1. /\ s.rep = e.rep /\ s.domain = e.pol.domain /\ s.mx = PolicyMXPatterns(e.pol)
      /\ s = SessionOf(E, s.rep, s.domain, s.mx)
  BY DEF SessionWith, SessionOf
<1>2. e \in G /\ G \in SUBSET E
  BY <1>1 DEF SameSession
<1>3. /\ s.success = Greatest({x.pol.success : x \in G})
      /\ s.failure = Greatest({x.pol.failure : x \in G})
      /\ s.entries = Cardinality(G)
  BY <1>1 DEF SessionOf
<1>4. s.rep \in TlsPool
  BY <1>1, EntryIn DEF AllEntries
<1>5. /\ IsFiniteSet(G)
      /\ \A x \in G : /\ EntrySuccess[x] = x.pol.success /\ EntryFailure[x] = x.pol.failure
                      /\ x.pol.success \in Nat /\ x.pol.failure \in Nat
  <2>1. G \in SUBSET AllEntries
    BY <1>2
  <2>2. \A x \in G : x.pol.success \in Nat /\ x.pol.failure \in Nat
    BY <2>1, EntryIn DEF AllEntries
  <2> QED
    BY <2>1, <2>2, EntriesWeighed DEF Weighed
<1> DEFINE P == {x.pol.success : x \in G}
           Q == {x.pol.failure : x \in G}
<1>6. P = Image(EntrySuccess, G) /\ Q = Image(EntryFailure, G)
  BY <1>5 DEF Image
<1>7. /\ P \in SUBSET Int /\ P # {} /\ e.pol.success \in P
      /\ Q \in SUBSET Int /\ Q # {} /\ e.pol.failure \in Q
  BY <1>2, <1>5
<1>8. IsFiniteSet(P) /\ IsFiniteSet(Q)
  <2>1. IsFiniteSet(Image(EntrySuccess, G)) /\ IsFiniteSet(Image(EntryFailure, G))
    BY <1>5, ImageFinite
  <2> QED
    BY <1>6, <2>1
<1>9. \A x \in G : x.pol.success \in P /\ x.pol.failure \in Q
  OBVIOUS
<1>10. /\ \A y \in P : \E x \in G : x.pol.success = y
       /\ \A y \in Q : \E x \in G : x.pol.failure = y
  OBVIOUS
<1> HIDE DEF P, Q
<1>11. /\ Greatest(P) \in P /\ \A y \in P : y <= Greatest(P)
       /\ Greatest(Q) \in Q /\ \A y \in Q : y <= Greatest(Q)
  BY <1>7, <1>8, LeastGreatest
<1>12. s.success = Greatest(P) /\ s.failure = Greatest(Q)
  BY <1>3 DEF P, Q
<1>13. /\ \E x \in G : x.pol.success = s.success
       /\ \E x \in G : x.pol.failure = s.failure
       /\ \A x \in G : x.pol.success <= s.success /\ x.pol.failure <= s.failure
  BY <1>9, <1>10, <1>11, <1>12
<1>14. s.success \in Nat /\ s.failure \in Nat
  BY <1>5, <1>13
<1> QED
  BY <1>1, <1>2, <1>3, <1>4, <1>13, <1>14

SessionSuccess(S) == [s \in S |-> s.success]
SessionFailure(S) == [s \in S |-> s.failure]

LEMMA SessionsWeighed ==
    ASSUME NEW E \in SUBSET AllEntries, NEW S \in SUBSET SessionsOf(E)
    PROVE  /\ \A s \in S : s.success \in Nat /\ s.failure \in Nat /\ s.rep \in TlsPool
           /\ Weighed(SessionCount(S), S) /\ Weighed(SessionSuccess(S), S)
           /\ Weighed(SessionFailure(S), S)
<1> DEFINE of == [e \in E |-> SessionWith(E, e)]
<1>1. SessionsOf(E) = Image(of, E)
  BY DEF SessionsOf, Image
<1>2. IsFiniteSet(E)
  BY EntriesWeighed DEF Weighed
<1> HIDE DEF of
<1>3. IsFiniteSet(SessionsOf(E))
  BY <1>1, <1>2, ImageFinite
<1>4. IsFiniteSet(S)
  BY <1>3, FS_Subset
<1>5. ASSUME NEW s \in S PROVE s.success \in Nat /\ s.failure \in Nat /\ s.rep \in TlsPool
  <2>1. PICK e \in E : s = SessionWith(E, e)
    BY DEF SessionsOf
  <2> QED
    BY <2>1, SessionFacts
<1> QED
  BY <1>4, <1>5 DEF Weighed, SessionCount, SessionSuccess, SessionFailure

LEMMA TriedOver ==
    ASSUME NEW E \in SUBSET AllEntries, NEW S \in SUBSET SessionsOf(E),
           NEW A \in SUBSET S
    PROVE  /\ Tried(A).messages = Over(SessionCount(S), A)
           /\ Tried(A).success = Over(SessionSuccess(S), A)
           /\ Tried(A).failure = Over(SessionFailure(S), A)
           /\ Tried(A).messages = Tried(A).success + Tried(A).failure
           /\ Tried(A).messages \in Nat /\ Tried(A).success \in Nat /\ Tried(A).failure \in Nat
<1>1. /\ [s \in A |-> s.success + s.failure] = [s \in A |-> SessionCount(S)[s]]
      /\ [s \in A |-> s.success] = [s \in A |-> SessionSuccess(S)[s]]
      /\ [s \in A |-> s.failure] = [s \in A |-> SessionFailure(S)[s]]
  BY DEF SessionCount, SessionSuccess, SessionFailure
<1>2. /\ Tried(A).messages = Over(SessionCount(S), A)
      /\ Tried(A).success = Over(SessionSuccess(S), A)
      /\ Tried(A).failure = Over(SessionFailure(S), A)
  BY <1>1 DEF Tried, Over
<1>3. /\ Weighed(SessionCount(S), A) /\ Weighed(SessionSuccess(S), A)
      /\ Weighed(SessionFailure(S), A)
  BY SessionsWeighed, WeighedSubset
<1>4. \A s \in A : SessionCount(S)[s] = SessionSuccess(S)[s] + SessionFailure(S)[s]
  BY DEF SessionCount, SessionSuccess, SessionFailure
<1>5. Over(SessionCount(S), A) = Over(SessionSuccess(S), A) + Over(SessionFailure(S), A)
  BY <1>3, <1>4, WeighedInt, OverSum
<1> QED
  BY <1>2, <1>3, <1>5, WeighedInt

\* Whatever the sessions are grouped by, their sum is the same.
LEMMA TriedByAddsUp ==
    ASSUME NEW E \in SUBSET AllEntries, NEW S \in SUBSET SessionsOf(E),
           NEW key, DOMAIN key = S
    PROVE  GroupSum(TriedBy(key)) = Tried(S).messages
<1> DEFINE g == TriedBy(key)
<1>1. DOMAIN g = Range(key)
  BY DEF TriedBy
<1>2. \A k \in DOMAIN g : g[k].messages = Tried({s \in S : key[s] = k}).messages
  BY DEF TriedBy
<1> HIDE DEF g
<1>3. \A k \in DOMAIN g : g[k].messages = Over(SessionCount(S), {s \in S : key[s] = k})
  BY <1>2, TriedOver
<1>4. Weighed(SessionCount(S), S)
  BY SessionsWeighed
<1>5. GroupSum(g) = Over(SessionCount(S), S)
  BY <1>1, <1>3, <1>4, GroupsAddUp
<1> QED
  BY <1>5, TriedOver DEF g


\* The most that one entry says is within what all of them say.
LEMMA MostWithinSum ==
    ASSUME NEW E \in SUBSET AllEntries, NEW e \in E, NEW s, s = SessionWith(E, e),
           NEW G, G = SameSession(E, s.rep, s.domain, s.mx)
    PROVE  /\ s.success + s.failure <= Over(EntryCount, G)
           /\ s.failure <= Over(EntryFailure, G)
           /\ Over(EntryCount, G) \in Nat /\ Over(EntryFailure, G) \in Nat
<1>1. PICK x \in G : x.pol.success = s.success
  BY SessionFacts
<1>2. PICK y \in G : y.pol.failure = s.failure
  BY SessionFacts
<1>3. G \in SUBSET AllEntries /\ s.success \in Nat /\ s.failure \in Nat
  BY SessionFacts
<1>4. /\ Weighed(EntryCount, G) /\ Weighed(EntrySuccess, G) /\ Weighed(EntryFailure, G)
      /\ \A z \in G : EntryCount[z] = EntrySuccess[z] + EntryFailure[z]
      /\ EntrySuccess[x] = s.success /\ EntryFailure[y] = s.failure
  BY <1>1, <1>2, <1>3, EntriesWeighed
<1>5. Over(EntryCount, G) = Over(EntrySuccess, G) + Over(EntryFailure, G)
  BY <1>4, WeighedInt, OverSum
<1>6. {x} \in SUBSET G /\ {y} \in SUBSET G
  OBVIOUS
<1>7. Over(EntrySuccess, {x}) <= Over(EntrySuccess, G)
  BY <1>4, <1>6, WeighedSubset
<1>8. Over(EntryFailure, {y}) <= Over(EntryFailure, G)
  BY <1>4, <1>6, WeighedSubset
<1>9. EntrySuccess[x] \in Int /\ EntryFailure[y] \in Int
  BY <1>3, <1>4
<1>10. Over(EntrySuccess, {x}) = s.success /\ Over(EntryFailure, {y}) = s.failure
  BY <1>4, <1>9, OverSingle
<1>11. Over(EntryCount, G) \in Nat /\ Over(EntryFailure, G) \in Nat /\ Over(EntrySuccess, G) \in Nat
  BY <1>4, WeighedInt
<1> QED
  BY <1>3, <1>5, <1>7, <1>8, <1>10, <1>11

-----------------------------------------------------------------------------
(* SessionsAddUp: filters, and sessions against their entries               *)

\* What the totals of TLS reports rest on: only reports of the pool are stored.
TlsInv == tlsStored \in SUBSET TlsPool /\ now \in Int /\ now >= FirstNow

IsTlsFilter(f) ==
    /\ f = [domain |-> f.domain, from |-> f.from, to |-> f.to, requireDkim |-> f.requireDkim,
            host |-> f.host, ip |-> AnyValue, type |-> AnyValue, sender |-> AnyValue]
    /\ f.from \in Nat /\ f.to \in Int /\ f.requireDkim \in BOOLEAN

LEMMA TlsScopeIsFilter ==
    ASSUME TlsInv, NEW f \in TlsScopes
    PROVE  IsTlsFilter(f)
<1>1. PICK x \in TlsFilters :
         f = [AllTls EXCEPT !.domain = x.domain, !.requireDkim = x.requireDkim, !.host = x.host,
                            !.from = IF x.back = 0 THEN 0 ELSE now - x.back,
                            !.to = IF x.until = 0 THEN 0 ELSE now - x.until]
  BY DEF TlsScopes
<1>2. x.back \in Nat /\ x.until \in Nat /\ x.back <= FirstNow /\ x.requireDkim \in BOOLEAN
  BY FiltersAssumption
<1> DEFINE a == IF x.back = 0 THEN 0 ELSE now - x.back
           b == IF x.until = 0 THEN 0 ELSE now - x.until
<1>3. a \in Nat /\ b \in Int
  BY <1>2, RowsAssumption DEF TlsInv
<1>4. f = [AllTls EXCEPT !.domain = x.domain, !.requireDkim = x.requireDkim, !.host = x.host,
                         !.from = a, !.to = b]
  BY <1>1
<1> HIDE DEF a, b
<1>5. f = [domain |-> x.domain, from |-> a, to |-> b, requireDkim |-> x.requireDkim,
           host |-> x.host, ip |-> AnyValue, type |-> AnyValue, sender |-> AnyValue]
  BY <1>4 DEF AllTls
<1> QED
  BY <1>2, <1>3, <1>5 DEF IsTlsFilter

LEMMA PoliciesAre ==
    ASSUME TlsInv, NEW f
    PROVE  /\ PoliciesIn(f) \in SUBSET AllEntries
           /\ PoliciesIn(f) \in SUBSET Entries(tlsStored)
           /\ Sessions(f) = SessionsOf(PoliciesIn(f))
<1>1. PoliciesIn(f) \in SUBSET Entries(tlsStored)
  BY DEF PoliciesIn
<1>2. Entries(tlsStored) \in SUBSET AllEntries
  BY EntriesFinite DEF TlsInv
<1>3. PoliciesIn(f) \in SUBSET AllEntries
  BY <1>1, <1>2
<1> QED
  BY <1>1, <1>3, SessionsAre

\* Entries grouped by their session: no more is counted than they say, and all of it
\* where no two entries describe the same sessions.
LEMMA SessionsWithinEntries ==
    ASSUME NEW E \in SUBSET AllEntries, NEW S, S = SessionsOf(E)
    PROVE  /\ Tried(S).messages <= Over(EntryCount, E)
           /\ Tried(S).failure <= Over(EntryFailure, E)
           /\ (\A s \in S : s.entries > 1 => s.success + s.failure = 0)
                => Tried(S).messages = Over(EntryCount, E)
<1> DEFINE key == [e \in E |-> SessionWith(E, e)]
           sums == [s \in S |-> Over(EntryCount, SameSession(E, s.rep, s.domain, s.mx))]
           fails == [s \in S |-> Over(EntryFailure, SameSession(E, s.rep, s.domain, s.mx))]
<1>1. /\ Weighed(EntryCount, E) /\ Weighed(EntryFailure, E)
      /\ \A e \in E : EntryCount[e] = e.pol.success + e.pol.failure
  BY EntriesWeighed
<1>2. /\ Weighed(SessionCount(S), S) /\ Weighed(SessionFailure(S), S)
      /\ \A s \in S : s.success \in Nat /\ s.failure \in Nat
  BY SessionsWeighed
<1>3. ASSUME NEW s \in S
      PROVE  {e \in E : key[e] = s} = SameSession(E, s.rep, s.domain, s.mx)
  <2>1. PICK e \in E : s = SessionWith(E, e)
    BY DEF SessionsOf
  <2>2. s = SessionOf(E, s.rep, s.domain, s.mx)
    BY <2>1, SessionFacts
  <2>3. ASSUME NEW x \in E, key[x] = s PROVE x \in SameSession(E, s.rep, s.domain, s.mx)
    BY <2>3 DEF SessionWith, SessionOf, SameSession
  <2>4. ASSUME NEW x \in SameSession(E, s.rep, s.domain, s.mx) PROVE x \in E /\ key[x] = s
    BY <2>2, <2>4 DEF SessionWith, SameSession
  <2> QED
    BY <2>3, <2>4 DEF SameSession
<1>4. \A e \in E : key[e] \in S
  BY DEF SessionsOf
<1>5. ASSUME NEW s \in S
      PROVE  /\ s.success + s.failure <= sums[s] /\ s.failure <= fails[s]
             /\ sums[s] \in Nat /\ fails[s] \in Nat
             /\ s.entries = 1 \/ (s.success = 0 /\ s.failure = 0) => sums[s] = s.success + s.failure
             /\ s.entries \in Nat /\ s.entries > 0
  <2> DEFINE G == SameSession(E, s.rep, s.domain, s.mx)
  <2>1. PICK e \in E : s = SessionWith(E, e)
    BY DEF SessionsOf
  <2>2. /\ e \in G /\ G \in SUBSET E /\ s.entries = Cardinality(G)
        /\ \E x \in G : x.pol.success = s.success
        /\ \E x \in G : x.pol.failure = s.failure
        /\ \A x \in G : x.pol.success <= s.success /\ x.pol.failure <= s.failure
    BY <2>1, SessionFacts
  <2> HIDE DEF G
  <2>3. IsFiniteSet(G) /\ G # {}
    BY <1>1, <2>2, FS_Subset DEF Weighed
  <2>4. s.entries \in Nat /\ s.entries > 0
    BY <2>2, <2>3, FS_CardinalityType, FS_EmptySet
  <2>5. ASSUME s.entries = 1 PROVE Over(EntryCount, G) = s.success + s.failure
    <3>1. PICK x : G = {x}
      BY <2>2, <2>3, <2>5, FS_Singleton
    <3>2. x.pol.success = s.success /\ x.pol.failure = s.failure /\ x \in E
      BY <2>2, <3>1
    <3>3. EntryCount[x] = s.success + s.failure /\ EntryCount[x] \in Int
      BY <1>1, <1>2, <3>2
    <3> QED
      BY <3>1, <3>3, OverSingle
  <2>6. ASSUME s.success = 0, s.failure = 0 PROVE Over(EntryCount, G) = s.success + s.failure
    <3>1. \A x \in G : x.pol.success \in Nat /\ x.pol.failure \in Nat
      BY <2>2, EntryIn DEF AllEntries
    <3>2. \A x \in G : EntryCount[x] = 0
      BY <1>1, <2>2, <2>6, <3>1
    <3> QED
      BY <2>3, <2>6, <3>2, OverZero
  <2>7. /\ s.success + s.failure <= Over(EntryCount, G) /\ s.failure <= Over(EntryFailure, G)
        /\ Over(EntryCount, G) \in Nat /\ Over(EntryFailure, G) \in Nat
    BY <2>1, MostWithinSum DEF G
  <2> QED
    BY <2>4, <2>5, <2>6, <2>7 DEF G
<1>6. /\ \A s \in S : sums[s] = Over(EntryCount, {e \in E : key[e] = s})
      /\ \A s \in S : fails[s] = Over(EntryFailure, {e \in E : key[e] = s})
  BY <1>3
<1> HIDE DEF key, sums, fails
<1>7. IsFiniteSet(S)
  BY <1>2 DEF Weighed
<1>8. Grouping(EntryCount, E, key, S, sums) /\ Grouping(EntryFailure, E, key, S, fails)
  BY <1>1, <1>4, <1>6, <1>7, WeighedInt DEF Grouping
<1>9. Over(sums, S) = Over(EntryCount, E) /\ Over(fails, S) = Over(EntryFailure, E)
  BY <1>8, OverGroups
<1>10. /\ \A s \in S : /\ SessionCount(S)[s] = s.success + s.failure
                       /\ SessionFailure(S)[s] = s.failure
  BY DEF SessionCount, SessionFailure
<1>11. /\ \A s \in S : /\ SessionCount(S)[s] \in Int /\ sums[s] \in Int
                       /\ SessionCount(S)[s] <= sums[s]
       /\ \A s \in S : /\ SessionFailure(S)[s] \in Int /\ fails[s] \in Int
                       /\ SessionFailure(S)[s] <= fails[s]
  BY <1>2, <1>5, <1>10
<1>12. Over(SessionCount(S), S) <= Over(sums, S) /\ Over(SessionFailure(S), S) <= Over(fails, S)
  BY <1>7, <1>11, OverMono
<1>13. ASSUME \A s \in S : s.entries > 1 => s.success + s.failure = 0
       PROVE  Over(SessionCount(S), S) = Over(sums, S)
  <2>1. ASSUME NEW s \in S PROVE SessionCount(S)[s] = sums[s]
    BY <1>2, <1>5, <1>10, <1>13
  <2> QED
    BY <2>1, OverAgrees
<1> QED
  BY <1>9, <1>12, <1>13, TriedOver

LEMMA TlsFilterWith ==
    ASSUME NEW f, IsTlsFilter(f), NEW d
    PROVE  /\ IsTlsFilter([f EXCEPT !.domain = d])
           /\ IsTlsFilter([f EXCEPT !.requireDkim = FALSE])
           /\ IsTlsFilter([AllTls EXCEPT !.from = f.from])
<1>1. IsTlsFilter([f EXCEPT !.domain = d])
  BY DEF IsTlsFilter
<1>2. \A b \in BOOLEAN : IsTlsFilter([f EXCEPT !.requireDkim = b])
  BY DEF IsTlsFilter
<1>3. IsTlsFilter([f EXCEPT !.requireDkim = FALSE])
  BY <1>2
<1>4. \A b \in BOOLEAN : AllTls.requireDkim = b => IsTlsFilter([AllTls EXCEPT !.from = f.from])
  <2> SUFFICES ASSUME NEW b \in BOOLEAN, AllTls.requireDkim = b
               PROVE  IsTlsFilter([AllTls EXCEPT !.from = f.from])
    OBVIOUS
  <2>1. AllTls = [domain |-> AnyValue, from |-> 0, to |-> 0, requireDkim |-> b,
                  host |-> AnyValue, ip |-> AnyValue, type |-> AnyValue, sender |-> AnyValue]
    BY Zenon DEF AllTls
  <2>2. [AllTls EXCEPT !.from = f.from]
           = [domain |-> AnyValue, from |-> f.from, to |-> 0, requireDkim |-> b,
              host |-> AnyValue, ip |-> AnyValue, type |-> AnyValue, sender |-> AnyValue]
    BY <2>1
  <2> QED
    BY <2>2 DEF IsTlsFilter
<1>5. AllTls.requireDkim = FALSE
  BY Zenon DEF AllTls
<1>6. AllTls.requireDkim \in BOOLEAN
  BY <1>5
<1>7. IsTlsFilter([AllTls EXCEPT !.from = f.from])
  BY <1>4, <1>6
<1> QED
  BY <1>1, <1>3, <1>7

\* The entries of a domain are those of a filter on it.
LEMMA PoliciesOfDomain ==
    ASSUME NEW f, IsTlsFilter(f), NEW d, d # AnyValue, f.domain \in {AnyValue, d}
    PROVE  PoliciesIn([f EXCEPT !.domain = d]) = {e \in PoliciesIn(f) : e.pol.domain = d}
<1> DEFINE g == [f EXCEPT !.domain = d]
<1>1. g.domain = d /\ g.from = f.from /\ g.to = f.to /\ g.requireDkim = f.requireDkim
  BY DEF IsTlsFilter
<1> HIDE DEF g
<1>2. \A r : CountsFor(r, g) <=> CountsFor(r, f)
  BY <1>1 DEF CountsFor, InWindow
<1>3. \A e : (g.domain \in {AnyValue, e.pol.domain}) <=> e.pol.domain = d
  BY <1>1
<1>4. PoliciesIn(g) = {e \in PoliciesIn(f) : e.pol.domain = d}
  BY <1>2, <1>3 DEF PoliciesIn
<1> QED
  BY <1>4 DEF g

\* So are its sessions.
LEMMA SessionsOfDomain ==
    ASSUME TlsInv, NEW f, IsTlsFilter(f), NEW d, d # AnyValue, f.domain \in {AnyValue, d}
    PROVE  Sessions([f EXCEPT !.domain = d]) = {s \in Sessions(f) : s.domain = d}
<1> DEFINE E == PoliciesIn(f)
           D == PoliciesIn([f EXCEPT !.domain = d])
<1>1. D = {e \in E : e.pol.domain = d}
  BY PoliciesOfDomain
<1>2. Sessions([f EXCEPT !.domain = d]) = SessionsOf(D) /\ Sessions(f) = SessionsOf(E)
  BY PoliciesAre
<1> HIDE DEF D, E
<1>3. ASSUME NEW e \in D PROVE SessionWith(D, e) = SessionWith(E, e)
  <2>1. e.pol.domain = d
    BY <1>1
  <2>2. SameSession(D, e.rep, e.pol.domain, PolicyMXPatterns(e.pol))
          = SameSession(E, e.rep, e.pol.domain, PolicyMXPatterns(e.pol))
    BY <1>1, <2>1 DEF SameSession
  <2> QED
    BY <2>2 DEF SessionWith, SessionOf
<1>4. \A e \in E : SessionWith(E, e).domain = e.pol.domain
  BY DEF SessionWith, SessionOf
<1>5. SessionsOf(D) = {s \in SessionsOf(E) : s.domain = d}
  BY <1>1, <1>3, <1>4 DEF SessionsOf
<1> QED
  BY <1>2, <1>5

-----------------------------------------------------------------------------
(* SessionsAddUp: there is a median reporter                                *)

LEMMA TimesMono ==
    ASSUME NEW a \in Int, NEW b \in Int, a <= b, NEW c \in Nat
    PROVE  a * c <= b * c
OBVIOUS

LEMMA TimesCancel ==
    ASSUME NEW a \in Int, NEW b \in Int, NEW c \in Nat, c # 0, a * c <= b * c
    PROVE  a <= b
OBVIOUS

\* Fractions with positive denominators are ordered.
NotAbove(x, y) == ~DropsBy(x, y, 0)

IsRate(x) == x = <<x[1], x[2]>> /\ x[1] \in Nat /\ x[2] \in Nat /\ x[2] # 0

LEMMA NotAboveIs ==
    ASSUME NEW x, NEW y, IsRate(x), IsRate(y)
    PROVE  NotAbove(x, y) <=> x[1] * y[2] <= y[1] * x[2]
BY DEF NotAbove, DropsBy, IsRate

LEMMA RatesOrdered ==
    ASSUME NEW x, NEW y, NEW z, IsRate(x), IsRate(y), IsRate(z)
    PROVE  /\ NotAbove(x, y) \/ NotAbove(y, x)
           /\ NotAbove(x, y) /\ NotAbove(y, z) => NotAbove(x, z)
           /\ NotAbove(x, x)
<1>1. PICK a \in Nat, b \in Nat, c \in Nat, d \in Nat, e \in Nat, g \in Nat :
         /\ a = x[1] /\ b = x[2] /\ c = y[1] /\ d = y[2] /\ e = z[1] /\ g = z[2]
         /\ b # 0 /\ d # 0 /\ g # 0
  BY DEF IsRate
<1>2. /\ NotAbove(x, y) <=> a * d <= c * b
      /\ NotAbove(y, x) <=> c * b <= a * d
      /\ NotAbove(y, z) <=> c * g <= e * d
      /\ NotAbove(x, z) <=> a * g <= e * b
      /\ NotAbove(x, x) <=> a * b <= a * b
  BY <1>1, NotAboveIs
<1>3. ASSUME a * d <= c * b, c * g <= e * d PROVE a * g <= e * b
  <2>1. (a * d) * g <= (c * b) * g
    BY <1>3, TimesMono
  <2>2. (c * g) * b <= (e * d) * b
    BY <1>3, TimesMono
  <2>3. (a * d) * g = (a * g) * d /\ (c * b) * g = (c * g) * b /\ (e * d) * b = (e * b) * d
    OBVIOUS
  <2>4. (a * g) * d <= (e * b) * d
    BY <2>1, <2>2, <2>3
  <2>5. a * g \in Int /\ e * b \in Int
    OBVIOUS
  <2> QED
    BY <1>1, <2>4, <2>5, TimesCancel
<1>4. a * d <= c * b \/ c * b <= a * d
  OBVIOUS
<1>5. a * b <= a * b
  OBVIOUS
<1> QED
  BY <1>2, <1>3, <1>4, <1>5

\* Those of R whose rate is at most, or at least, that of o.
Below(rate, R, o) == {x \in R : NotAbove(rate[x], rate[o])}
Above(rate, R, o) == {x \in R : NotAbove(rate[o], rate[x])}

LEMMA BelowGrows ==
    ASSUME NEW R, IsFiniteSet(R), NEW rate, \A o \in R : IsRate(rate[o]),
           NEW x \in R, NEW y \in R, ~NotAbove(rate[y], rate[x])
    PROVE  Cardinality(Below(rate, R, x)) < Cardinality(Below(rate, R, y))
<1> DEFINE X == Below(rate, R, x)
           Y == Below(rate, R, y)
<1>1. y \in Y /\ y \notin X
  BY RatesOrdered DEF Below
<1>2. X \in SUBSET Y
  <2> SUFFICES ASSUME NEW z \in X PROVE z \in Y
    OBVIOUS
  <2>1. z \in R /\ NotAbove(rate[z], rate[x]) /\ NotAbove(rate[x], rate[y])
    BY RatesOrdered DEF Below
  <2>2. NotAbove(rate[z], rate[y])
    BY <2>1, RatesOrdered
  <2> QED
    BY <2>1, <2>2 DEF Below
<1>3. IsFiniteSet(Y)
  BY FS_Subset DEF Below
<1> HIDE DEF X, Y
<1>4. X \in SUBSET (Y \ {y})
  BY <1>1, <1>2
<1>5. IsFiniteSet(Y \ {y}) /\ Cardinality(Y \ {y}) < Cardinality(Y)
  BY <1>1, <1>3, Smaller
<1>6. Cardinality(X) <= Cardinality(Y \ {y}) /\ Cardinality(X) \in Nat
  BY <1>4, <1>5, FS_Subset, FS_CardinalityType
<1>7. Cardinality(Y \ {y}) \in Nat /\ Cardinality(Y) \in Nat
  BY <1>3, <1>5, FS_CardinalityType
<1> QED
  BY <1>5, <1>6, <1>7 DEF X, Y

\* Of finitely many, one has the most below it, and one the least.
LEMMA BelowExtremes ==
    ASSUME NEW R, IsFiniteSet(R), NEW rate, NEW S \in SUBSET R, S # {}
    PROVE  /\ \E o \in S : \A x \in S : Cardinality(Below(rate, R, x)) <= Cardinality(Below(rate, R, o))
           /\ \E o \in S : \A x \in S : Cardinality(Below(rate, R, o)) <= Cardinality(Below(rate, R, x))
<1> DEFINE size == [o \in S |-> Cardinality(Below(rate, R, o))]
<1>1. \A o \in S : size[o] \in Int
  BY FS_Subset, FS_CardinalityType DEF Below
<1>2. \A o \in S : size[o] = Cardinality(Below(rate, R, o))
  OBVIOUS
<1> HIDE DEF size
<1>3. IsFiniteSet(Image(size, S)) /\ Image(size, S) \in SUBSET Int /\ Image(size, S) # {}
  BY <1>1, FS_Subset, ImageFinite DEF Image
<1>4. PICK n \in Image(size, S) : \A y \in Image(size, S) : n <= y
  BY <1>3, Extremes
<1>5. PICK m \in Image(size, S) : \A y \in Image(size, S) : y <= m
  BY <1>3, Extremes
<1>6. \A o \in S : size[o] \in Image(size, S)
  BY DEF Image
<1>7. PICK a \in S : size[a] = n
  BY DEF Image
<1>8. PICK b \in S : size[b] = m
  BY DEF Image
<1>9. /\ \A x \in S : size[x] <= size[b]
      /\ \A x \in S : size[a] <= size[x]
  BY <1>4, <1>5, <1>6, <1>7, <1>8
<1> QED
  BY <1>2, <1>9

LEMMA MedianExists ==
    ASSUME NEW R, IsFiniteSet(R), R # {}, NEW rate, \A o \in R : IsRate(rate[o])
    PROVE  \E o \in R : /\ 2 * Cardinality(Below(rate, R, o)) >= Cardinality(R)
                        /\ 2 * Cardinality(Above(rate, R, o)) >= Cardinality(R)
<1> DEFINE size(o) == Cardinality(Below(rate, R, o))
           n == Cardinality(R)
           Good == {o \in R : 2 * size(o) >= n}
<1>1. n \in Nat /\ \A o \in R : size(o) \in Nat
  BY FS_Subset, FS_CardinalityType DEF Below
<1>2. PICK top \in R : \A x \in R : size(x) <= size(top)
  BY BelowExtremes
<1>3. \A x \in R : NotAbove(rate[x], rate[top])
  <2> SUFFICES ASSUME NEW x \in R, ~NotAbove(rate[x], rate[top]) PROVE FALSE
    OBVIOUS
  <2>1. size(top) < size(x)
    BY BelowGrows
  <2> QED
    BY <1>1, <1>2, <2>1
<1>4. top \in Good
  <2>1. Below(rate, R, top) = R
    BY <1>3 DEF Below
  <2> QED
    BY <1>1, <2>1
<1>5. PICK m \in Good : \A x \in Good : size(m) <= size(x)
  BY <1>4, BelowExtremes
<1> DEFINE Less == {x \in R : ~NotAbove(rate[m], rate[x])}
           A == Above(rate, R, m)
<1>6. A = R \ Less
  BY DEF Above
<1>7. CASE Less = {}
  BY <1>1, <1>5, <1>6, <1>7
<1>8. CASE Less # {}
  <2>1. PICK l \in Less : \A x \in Less : size(x) <= size(l)
    BY <1>8, BelowExtremes
  <2>2. l \in R /\ m \in R
    BY <1>5
  <2>3. size(l) < size(m)
    BY <2>2, BelowGrows
  <2>4. l \notin Good
    BY <1>1, <1>5, <2>2, <2>3
  <2>5. Less \in SUBSET Below(rate, R, l)
    <3> SUFFICES ASSUME NEW x \in Less, ~NotAbove(rate[x], rate[l]) PROVE FALSE
      BY DEF Below
    <3>1. size(l) < size(x)
      BY <2>2, BelowGrows
    <3> QED
      BY <1>1, <2>1, <2>2, <3>1
  <2> HIDE DEF Less
  <2>6. IsFiniteSet(Below(rate, R, l))
    BY FS_Subset DEF Below
  <2>7. Cardinality(Less) <= size(l) /\ Cardinality(Less) \in Nat /\ IsFiniteSet(Less)
    BY <2>5, <2>6, FS_Subset, FS_CardinalityType
  <2>8. Less \in SUBSET R
    BY <2>5 DEF Below
  <2>9. Cardinality(R \ Less) = n - Cardinality(Less)
    <3>1. R \cap Less = Less
      BY <2>8
    <3>2. Cardinality(R \ Less) = Cardinality(R) - Cardinality(R \cap Less)
      BY FS_Difference
    <3> QED
      BY <3>1, <3>2
  <2>10. 2 * size(l) < n
    BY <1>1, <2>2, <2>4
  <2>11. 2 * Cardinality(A) >= n
    BY <1>1, <1>6, <2>2, <2>7, <2>9, <2>10
  <2> QED
    BY <1>5, <2>11
<1> QED
  BY <1>7, <1>8

-----------------------------------------------------------------------------
(* SessionsAddUp                                                            *)

\* Each report of sessions S is counted at its organisation once.
LEMMA ReportsByOrg ==
    ASSUME NEW E \in SUBSET AllEntries, NEW S, S = SessionsOf(E), NEW g,
           DOMAIN g = {s.rep.org : s \in S}, g = [o \in DOMAIN g |-> g[o]],
           \A o \in DOMAIN g :
              g[o] = Cardinality({s.rep.id : s \in {t \in S : t.rep.org = o}})
    PROVE  SumOf(g) = Cardinality({s.rep : s \in S})
<1> DEFINE R == {s.rep : s \in S}
           rep == [s \in S |-> s.rep]
           org == [r \in R |-> r.org]
           id == [r \in R |-> r.id]
<1>1. R \in SUBSET TlsPool /\ IsFiniteSet(S)
  BY SessionsWeighed DEF Weighed
<1>2. R = Image(rep, S)
  BY DEF Image
<1>3. IsFiniteSet(R)
  <2> HIDE DEF R, rep
  <2> QED
    BY <1>1, <1>2, ImageFinite
<1>4. DOMAIN g = Image(org, R)
  BY DEF Image
<1>5. ASSUME NEW o \in DOMAIN g PROVE g[o] = Cardinality({r \in R : org[r] = o})
  <2> DEFINE Q == {r \in R : r.org = o}
             I == {s.rep.id : s \in {t \in S : t.rep.org = o}}
             w == [r \in Q |-> 1]
             v == [i \in I |-> 1]
             h == [r \in Q |-> r.id]
  <2>1. \A x, y \in Q : x.id = y.id => x = y
    BY <1>1, TlsRowsAssumption
  <2>2. \A i \in I : \E r \in Q : r.id = i
    OBVIOUS
  <2>3. \A r \in Q : r.id \in I
    OBVIOUS
  <2>4. IsFiniteSet(Q)
    BY <1>3, FS_Subset
  <2>5. Q = {r \in R : org[r] = o}
    OBVIOUS
  <2>6. g[o] = Cardinality(I)
    OBVIOUS
  <2> HIDE DEF Q, I, R
  <2>7. Weighed(w, Q)
    BY <2>4 DEF Weighed
  <2>8. Relabelled(w, Q, h, I, v)
    BY <2>1, <2>2, <2>3 DEF Relabelled
  <2> HIDE DEF w, v, h
  <2>9. Cardinality(I) = Cardinality(Q)
    BY <2>7, <2>8, OverRelabel
  <2> QED
    BY <2>5, <2>6, <2>9
<1> HIDE DEF R, org
<1>6. SumOf(g) = Cardinality(R)
  BY <1>3, <1>4, <1>5, CountedByGroups
<1> QED
  BY <1>6 DEF R

\* There is a median reporter exactly where a session was tried.
LEMMA MediansOfShares ==
    ASSUME NEW g, IsFiniteSet(DOMAIN g),
           \A o \in DOMAIN g : g[o].messages \in Nat /\ g[o].success \in Nat,
           NEW R, R = {o \in DOMAIN g : g[o].messages > 0},
           NEW rate, \A o \in R : rate[o] = TlsRateOf(g[o])
    PROVE  /\ (\E o \in R : /\ 2 * Cardinality(Below(rate, R, o)) >= Cardinality(R)
                            /\ 2 * Cardinality(Above(rate, R, o)) >= Cardinality(R))
                <=> GroupSum(g) # 0
<1> DEFINE m == [o \in DOMAIN g |-> g[o].messages]
<1>1. GroupSum(g) = Over(m, DOMAIN g)
  BY DEF GroupSum, Over
<1>2. Weighed(m, DOMAIN g) /\ \A o \in DOMAIN g : m[o] = g[o].messages
  BY DEF Weighed
<1> HIDE DEF m
<1>3. IsFiniteSet(R) /\ \A o \in R : IsRate(rate[o])
  <2>1. IsFiniteSet(R)
    BY FS_Subset
  <2>2. ASSUME NEW o \in R PROVE IsRate(rate[o])
    <3>0. g[o].messages \in Nat /\ g[o].messages > 0 /\ g[o].success \in Nat
      OBVIOUS
    <3>1. rate[o] = <<100 * g[o].success, g[o].messages>> /\ g[o].messages # 0
      <4>1. g[o].messages # 0
        BY <3>0
      <4>2. rate[o] = TlsRateOf(g[o])
        OBVIOUS
      <4>3. TlsRateOf(g[o]) = <<100 * g[o].success, g[o].messages>>
        BY ONLY <4>1, Zenon DEF TlsRateOf
      <4> QED
        BY <4>1, <4>2, <4>3
    <3>2. 100 * g[o].success \in Nat /\ g[o].messages \in Nat
      BY <3>0
    <3> QED
      BY <3>1, <3>2 DEF IsRate
  <2> QED
    BY <2>1, <2>2
<1>4. ASSUME R = {} PROVE GroupSum(g) = 0
  <2>1. \A o \in DOMAIN g : m[o] = 0
    BY <1>2, <1>4
  <2> QED
    BY <1>1, <2>1, OverZero
<1>5. ASSUME NEW o \in R PROVE GroupSum(g) # 0
  <2>1. {o} \in SUBSET DOMAIN g /\ m[o] \in Int /\ m[o] > 0
    BY <1>2
  <2>2. Over(m, {o}) = m[o]
    BY <2>1, OverSingle
  <2>3. Over(m, {o}) <= Over(m, DOMAIN g) /\ Over(m, DOMAIN g) \in Nat
    BY <1>2, <2>1, WeighedSubset
  <2> QED
    BY <1>1, <2>1, <2>2, <2>3
<1>6. CASE R = {}
  BY <1>4, <1>6
<1>7. CASE R # {}
  <2>1. \E o \in R : /\ 2 * Cardinality(Below(rate, R, o)) >= Cardinality(R)
                     /\ 2 * Cardinality(Above(rate, R, o)) >= Cardinality(R)
    BY <1>3, <1>7, MedianExists
  <2> QED
    BY <1>5, <1>7, <2>1
<1> QED
  BY <1>6, <1>7

LEMMA VolumeAddsUp ==
    ASSUME TlsInv, NEW f
    PROVE  LET volume == TLSVolume(f)
           IN  /\ GroupSum(volume.shares) = TLSRate(f).messages
               /\ SumOf(volume.reports) = Cardinality({s.rep : s \in Sessions(f)})
               /\ volume.medians = {} <=> TLSRate(f).messages = 0
<1> DEFINE S == Sessions(f)
           E == PoliciesIn(f)
           key == [s \in S |-> s.rep.org]
           g == TriedBy(key)
           R == {o \in DOMAIN g : g[o].messages > 0}
           rate == [o \in R |-> TlsRateOf(g[o])]
           reports == TLSVolume(f).reports
<1>1. E \in SUBSET AllEntries /\ S = SessionsOf(E)
  BY PoliciesAre
<1>2. TLSVolume(f).shares = g
  BY DEF TLSVolume
<1>3. GroupSum(g) = Tried(S).messages
  <2> HIDE DEF E
  <2>1. DOMAIN key = S /\ S \in SUBSET SessionsOf(E)
    BY <1>1
  <2> HIDE DEF S, key
  <2> QED
    BY <1>1, <2>1, TriedByAddsUp
<1>4. DOMAIN g = Image(key, S) /\ DOMAIN g = {s.rep.org : s \in S}
  BY DEF TriedBy, Range, Image
<1>5. DOMAIN reports = DOMAIN g /\ reports = [o \in DOMAIN reports |-> reports[o]]
  BY <1>2 DEF TLSVolume
<1>6. \A o \in DOMAIN g : reports[o] = Cardinality({s.rep.id : s \in {t \in S : t.rep.org = o}})
  BY <1>2 DEF TLSVolume
<1>7. SumOf(reports) = Cardinality({s.rep : s \in S})
  <2> HIDE DEF E, S, reports, g
  <2>1. DOMAIN reports = {s.rep.org : s \in S}
    BY <1>4, <1>5
  <2>2. \A o \in DOMAIN reports :
           reports[o] = Cardinality({s.rep.id : s \in {t \in S : t.rep.org = o}})
    BY <1>5, <1>6
  <2> QED
    BY <1>1, <1>5, <2>1, <2>2, ReportsByOrg
<1>8. ASSUME NEW o \in DOMAIN g
      PROVE  g[o].messages \in Nat /\ g[o].success \in Nat
  <2> DEFINE A == {s \in S : key[s] = o}
  <2>1. g[o] = Tried(A)
    BY DEF TriedBy
  <2>2. A \in SUBSET S
    OBVIOUS
  <2> HIDE DEF A, S, E
  <2> QED
    BY <1>1, <2>1, <2>2, TriedOver
<1>9. IsFiniteSet(DOMAIN g)
  <2>1. IsFiniteSet(S)
    BY <1>1, SessionsWeighed DEF Weighed
  <2> QED
    BY <1>4, <2>1, ImageFinite
<1>10. TLSVolume(f).medians
         = {rate[o] : o \in {x \in R : /\ 2 * Cardinality(Below(rate, R, x)) >= Cardinality(R)
                                       /\ 2 * Cardinality(Above(rate, R, x)) >= Cardinality(R)}}
  BY DEF TLSVolume, Below, Above, NotAbove
<1>11. (\E o \in R : /\ 2 * Cardinality(Below(rate, R, o)) >= Cardinality(R)
                     /\ 2 * Cardinality(Above(rate, R, o)) >= Cardinality(R))
         <=> GroupSum(g) # 0
  <2>1. \A o \in R : rate[o] = TlsRateOf(g[o])
    OBVIOUS
  <2> HIDE DEF g, rate
  <2> QED
    BY <1>8, <1>9, <2>1, MediansOfShares
<1>12. TLSVolume(f).medians = {} <=> GroupSum(g) = 0
  BY <1>10, <1>11
<1> QED
  BY <1>2, <1>3, <1>7, <1>12 DEF TLSRate

LEMMA MixAddsUp ==
    ASSUME TlsInv, NEW f
    PROVE  LET mix == TLSPolicyMix(f)
               applied == GroupSum(mix.overall)
           IN  /\ applied = Applied(PoliciesIn(f)).messages
               /\ GroupSum(mix.byReporter) = applied
               /\ GroupSum(TLSReadiness(f).modes) = applied
               /\ applied >= TLSRate(f).messages
               /\ mix.multi = 0 => applied = TLSRate(f).messages
<1> DEFINE E == PoliciesIn(f)
           S == Sessions(f)
           M == {s \in S : s.entries > 1}
           kindOf == [e \in E |-> PolicyType(e)]
           reporterOf == [e \in E |-> <<e.rep.org, PolicyType(e)>>]
           modeOf == [e \in E |-> IF StsMode(e.pol) = "" THEN "(none)" ELSE StsMode(e.pol)]
<1>1. E \in SUBSET AllEntries /\ S = SessionsOf(E)
  BY PoliciesAre
<1>2. /\ TLSPolicyMix(f).overall = AppliedBy(kindOf)
      /\ TLSPolicyMix(f).byReporter = AppliedBy(reporterOf)
      /\ TLSReadiness(f).modes = AppliedBy(modeOf)
      /\ TLSPolicyMix(f).multi = Tried(M).messages
      /\ TLSRate(f) = Tried(S)
  BY DEF TLSPolicyMix, TLSReadiness, TLSRate
<1>3. DOMAIN kindOf = E /\ DOMAIN reporterOf = E /\ DOMAIN modeOf = E
  OBVIOUS
<1> HIDE DEF E, kindOf, reporterOf, modeOf
<1>4. /\ GroupSum(AppliedBy(kindOf)) = Applied(E).messages
      /\ GroupSum(AppliedBy(reporterOf)) = Applied(E).messages
      /\ GroupSum(AppliedBy(modeOf)) = Applied(E).messages
  BY <1>1, <1>3, AppliedByAddsUp
<1>5. Applied(E).messages = Over(EntryCount, E) /\ Applied(E).messages \in Nat
  BY <1>1, AppliedOver
<1>6. Tried(S).messages \in Nat /\ Tried(S).messages <= Over(EntryCount, E)
  <2> HIDE DEF S
  <2> QED
    BY <1>1, SessionsWithinEntries, TriedOver
<1>7. ASSUME Tried(M).messages = 0 PROVE Tried(S).messages = Over(EntryCount, E)
  <2>1. M \in SUBSET S /\ \A s \in S : s.entries > 1 => s \in M
    OBVIOUS
  <2> HIDE DEF M, S
  <2>2. Tried(M).messages = Over(SessionCount(S), M)
    BY <1>1, <2>1, TriedOver
  <2>3. Weighed(SessionCount(S), S) /\ \A s \in S : s.success \in Nat /\ s.failure \in Nat
    BY <1>1, SessionsWeighed
  <2>4. Weighed(SessionCount(S), M)
    BY <2>1, <2>3, WeighedSubset
  <2>5. ASSUME NEW s \in M PROVE s.success + s.failure = 0
    <3>1. SessionCount(S)[s] = s.success + s.failure
      BY <2>1 DEF SessionCount
    <3>2. {s} \in SUBSET M /\ SessionCount(S)[s] \in Int
      BY <2>1, <2>3, <3>1
    <3>3. Over(SessionCount(S), {s}) <= Over(SessionCount(S), M)
      BY <2>4, <3>2, WeighedSubset
    <3>4. Over(SessionCount(S), {s}) = SessionCount(S)[s]
      BY <3>2, OverSingle
    <3>5. s.success \in Nat /\ s.failure \in Nat
      BY <2>1, <2>3
    <3> QED
      BY <1>7, <2>2, <3>1, <3>3, <3>4, <3>5
  <2>6. \A s \in S : s.entries > 1 => s.success + s.failure = 0
    BY <2>1, <2>5
  <2> QED
    BY <1>1, <2>6, SessionsWithinEntries
<1> HIDE DEF S, M
<1> QED
  BY <1>2, <1>4, <1>5, <1>6, <1>7 DEF E

LEMMA SessionsAgree ==
    ASSUME TlsInv, NEW f, IsTlsFilter(f)
    PROVE  SessionsAddUp(f)
<1> DEFINE S == Sessions(f)
           E == PoliciesIn(f)
           domainOf == [s \in S |-> s.domain]
           dayOf == [s \in S |-> s.rep.begin]
<1>1. E \in SUBSET AllEntries /\ S = SessionsOf(E)
  BY PoliciesAre
<1>2. /\ TLSRateByDomain(f) = TriedBy(domainOf) /\ TLSDailySeries(f) = TriedBy(dayOf)
      /\ TLSRate(f) = Tried(S)
  BY DEF TLSRateByDomain, TLSDailySeries, TLSRate
<1>3. DOMAIN domainOf = S /\ DOMAIN dayOf = S
  OBVIOUS
<1>4. GroupSum(TriedBy(domainOf)) = Tried(S).messages /\ GroupSum(TriedBy(dayOf)) = Tried(S).messages
  <2> HIDE DEF S, E, domainOf, dayOf
  <2>1. S \in SUBSET SessionsOf(E)
    BY <1>1
  <2> QED
    BY <1>1, <1>3, <2>1, TriedByAddsUp
<1>5. ASSUME NEW d \in DOMAIN TriedBy(domainOf) \ {AnyValue}
      PROVE  TriedBy(domainOf)[d] = TLSRate([f EXCEPT !.domain = d])
  <2>1. PICK s \in S : s.domain = d
    BY DEF TriedBy, Range
  <2>2. PICK e \in E : s = SessionWith(E, e)
    BY <1>1 DEF SessionsOf
  <2>3. e.pol.domain = d
    BY <2>1, <2>2 DEF SessionWith, SessionOf
  <2>4. f.domain \in {AnyValue, d}
    BY <2>3 DEF PoliciesIn
  <2>5. Sessions([f EXCEPT !.domain = d]) = {t \in S : t.domain = d}
    BY <2>4, SessionsOfDomain
  <2>6. TriedBy(domainOf)[d] = Tried({t \in S : domainOf[t] = d})
    BY DEF TriedBy
  <2>7. {t \in S : domainOf[t] = d} = {t \in S : t.domain = d}
    OBVIOUS
  <2> QED
    BY <2>5, <2>6, <2>7 DEF TLSRate
<1> HIDE DEF domainOf, dayOf, E
<1> QED
  BY <1>2, <1>4, <1>5, VolumeAddsUp, MixAddsUp DEF SessionsAddUp

-----------------------------------------------------------------------------
(* SummariesAgree                                                           *)

\* The reports since a date, however the query asks for them.
Since(from) == {r \in tlsStored : from = 0 \/ r.begin >= from}

LEMMA SinceIs ==
    ASSUME TlsInv, NEW from \in Nat, NEW f, IsTlsFilter(f), f.from = from, f.to = 0,
           f.requireDkim = FALSE, f.domain = AnyValue
    PROVE  /\ Since(from) \in SUBSET TlsPool
           /\ TlsReportsIn(f) = Since(from)
           /\ PoliciesIn(f) = Entries(Since(from))
           /\ Since(from) = {r \in tlsStored : from > 0 => r.begin >= from}
<1>1. \A r \in tlsStored : r.begin \in Int
  BY TlsRowsAssumption DEF TlsInv
<1>2. Since(from) = {r \in tlsStored : from > 0 => r.begin >= from}
  BY <1>1 DEF Since
<1>3. \A r \in tlsStored : CountsFor(r, f) <=> r \in Since(from)
  BY <1>2 DEF CountsFor, InWindow
<1>4. TlsReportsIn(f) = Since(from)
  BY <1>2, <1>3 DEF TlsReportsIn
<1>5. PoliciesIn(f) = {e \in Entries(tlsStored) : e.rep \in Since(from)}
  <2>1. \A e \in Entries(tlsStored) : e.rep \in tlsStored
    BY EntryIn DEF TlsInv
  <2> QED
    BY <1>3, <2>1 DEF PoliciesIn
<1>6. {e \in Entries(tlsStored) : e.rep \in Since(from)} = Entries(Since(from))
  BY <1>2 DEF Entries
<1> QED
  BY <1>2, <1>4, <1>5, <1>6 DEF TlsInv

\* A report is of several policies where one of its sessions has several entries.
LEMMA MultiIsSession ==
    ASSUME NEW R \in SUBSET TlsPool, NEW S, S = SessionsOf(Entries(R))
    PROVE  {s.rep : s \in {x \in S : x.entries > 1}} = {r \in R : MultiPolicy(r)}
<1> DEFINE E == Entries(R)
<1>1. E \in SUBSET AllEntries
  BY EntriesFinite
<1>2. ASSUME NEW s \in S, s.entries > 1 PROVE s.rep \in R /\ MultiPolicy(s.rep)
  <2> DEFINE G == SameSession(E, s.rep, s.domain, s.mx)
  <2>1. PICK e \in E : s = SessionWith(E, e)
    BY DEF SessionsOf
  <2>2. e \in G /\ s.entries = Cardinality(G) /\ s.rep = e.rep /\ G \in SUBSET E
    BY <1>1, <2>1, SessionFacts
  <2>3. PICK x \in G : x # e
    <3>1. G # {e}
      <4>1. Cardinality({e}) = 1
        BY FS_Singleton
      <4> QED
        BY <1>2, <2>2, <4>1
    <3> QED
      BY <2>2, <3>1
  <2>4. /\ x.rep = e.rep /\ x.pol.domain = e.pol.domain
        /\ PolicyMXPatterns(x.pol) = PolicyMXPatterns(e.pol)
    BY <2>2, <2>3 DEF SameSession
  <2>5. /\ x = [rep |-> x.rep, pol |-> x.pol] /\ e = [rep |-> e.rep, pol |-> e.pol]
        /\ x.pol \in e.rep.policies /\ e.pol \in e.rep.policies /\ e.rep \in R
    BY <2>2, <2>3, <2>4, EntryIn
  <2>6. x.pol # e.pol
    BY <2>3, <2>4, <2>5
  <2> QED
    BY <2>2, <2>4, <2>5, <2>6 DEF MultiPolicy
<1>3. ASSUME NEW r \in R, MultiPolicy(r) PROVE \E s \in S : s.entries > 1 /\ s.rep = r
  <2>1. PICK p \in r.policies, q \in r.policies :
           p # q /\ p.domain = q.domain /\ PolicyMXPatterns(p) = PolicyMXPatterns(q)
    BY <1>3 DEF MultiPolicy
  <2> DEFINE e == [rep |-> r, pol |-> p]
             x == [rep |-> r, pol |-> q]
             s == SessionWith(E, e)
             G == SameSession(E, s.rep, s.domain, s.mx)
  <2>2. e \in E /\ x \in E /\ e # x /\ e.rep = r /\ e.pol = p /\ x.rep = r /\ x.pol = q
    BY <2>1 DEF Entries
  <2> HIDE DEF e, x
  <2>3. /\ e \in G /\ s.entries = Cardinality(G) /\ G \in SUBSET E /\ s \in S
        /\ s.rep = r /\ s.domain = p.domain /\ s.mx = PolicyMXPatterns(p)
    <3>1. s \in S
      BY <2>2 DEF SessionsOf
    <3> HIDE DEF s, G
    <3>2. s = SessionWith(E, e) /\ G = SameSession(E, s.rep, s.domain, s.mx)
      BY DEF s, G
    <3> QED
      BY <1>1, <2>2, <3>1, <3>2, SessionFacts
  <2>4. x \in G
    BY <2>1, <2>2, <2>3 DEF SameSession
  <2> HIDE DEF s, G
  <2>5. IsFiniteSet(G)
    BY <1>1, <2>3, EntriesWeighed DEF Weighed
  <2>6. Cardinality(G) \in Nat /\ Cardinality(G) # 0 /\ Cardinality(G) # 1
    BY <2>2, <2>3, <2>4, <2>5, FS_CardinalityType, FS_EmptySet, FS_Singleton
  <2> QED
    BY <2>3, <2>6
<1> QED
  BY <1>2, <1>3

\* The groups that TLSSessionTotals sums, and the most that a group's entries say.
GroupsOf(R) ==
    UNION {{<<r, p.domain, PolicyMXPatterns(p)>> : p \in r.policies} : r \in R}
PoliciesAt(g) == {q \in g[1].policies : q.domain = g[2] /\ PolicyMXPatterns(q) = g[3]}
MostAt(g) == Greatest({p.success : p \in PoliciesAt(g)})
WorstAt(g) == Greatest({p.failure : p \in PoliciesAt(g)})

\* The groups of the totals are the sessions.
LEMMA GroupsAreSessions ==
    ASSUME NEW R \in SUBSET TlsPool, NEW S, S = SessionsOf(Entries(R)),
           NEW groups, groups = GroupsOf(R),
           NEW most, \A g \in groups : most[g] = MostAt(g),
           NEW worst, \A g \in groups : worst[g] = WorstAt(g)
    PROVE  /\ Over(most, groups) = Tried(S).success
           /\ Over(worst, groups) = Tried(S).failure
<1> DEFINE E == Entries(R)
           name == [s \in S |-> <<s.rep, s.domain, s.mx>>]
<1>1. E \in SUBSET AllEntries
  BY EntriesFinite
<1>2. ASSUME NEW s \in S
      PROVE  /\ name[s] \in groups /\ s = SessionOf(E, s.rep, s.domain, s.mx)
             /\ most[name[s]] = s.success /\ worst[name[s]] = s.failure
  <2>1. PICK e \in E : s = SessionWith(E, e)
    BY DEF SessionsOf
  <2> DEFINE G == SameSession(E, s.rep, s.domain, s.mx)
             P == {q \in s.rep.policies : q.domain = s.domain /\ PolicyMXPatterns(q) = s.mx}
  <2>2. /\ s.rep = e.rep /\ s.domain = e.pol.domain /\ s.mx = PolicyMXPatterns(e.pol)
        /\ s = SessionOf(E, s.rep, s.domain, s.mx)
    BY <1>1, <2>1, SessionFacts
  <2>3. e.rep \in R /\ e.pol \in e.rep.policies
    BY EntryIn
  <2>4. name[s] = <<s.rep, s.domain, s.mx>>
    OBVIOUS
  <2>5. <<s.rep, s.domain, s.mx>> \in groups
    BY <2>2, <2>3 DEF GroupsOf
  <2>6. s.success = Greatest({x.pol.success : x \in G}) /\ s.failure = Greatest({x.pol.failure : x \in G})
    BY <2>2 DEF SessionOf
  <2>7. G = {[rep |-> s.rep, pol |-> p] : p \in P}
    BY <2>2, <2>3 DEF SameSession, Entries
  <2>8. /\ {x.pol.success : x \in G} = {p.success : p \in P}
        /\ {x.pol.failure : x \in G} = {p.failure : p \in P}
    <3>1. \A x \in G : x.pol \in P
      BY <2>7
    <3>2. ASSUME NEW p \in P PROVE \E x \in G : x.pol = p
      <4>1. [rep |-> s.rep, pol |-> p] \in G
        BY <2>7
      <4>2. [rep |-> s.rep, pol |-> p].pol = p
        OBVIOUS
      <4> HIDE DEF G, P
      <4> QED
        BY <4>1, <4>2
    <3> HIDE DEF G, P
    <3> QED
      BY <3>1, <3>2
  <2>9. most[name[s]] = Greatest({p.success : p \in P}) /\ worst[name[s]] = Greatest({p.failure : p \in P})
    BY <2>4, <2>5 DEF MostAt, WorstAt, PoliciesAt
  <2> HIDE DEF G, P
  <2> QED
    BY <2>2, <2>4, <2>5, <2>6, <2>8, <2>9
<1>3. ASSUME NEW g \in groups PROVE \E s \in S : name[s] = g
  <2>1. PICK r \in R : g \in {<<r, p.domain, PolicyMXPatterns(p)>> : p \in r.policies}
    BY DEF GroupsOf
  <2>2. PICK p \in r.policies : g = <<r, p.domain, PolicyMXPatterns(p)>>
    BY <2>1
  <2> DEFINE e == [rep |-> r, pol |-> p]
  <2>3. e \in E
    BY DEF Entries
  <2>4. SessionWith(E, e) \in S
    BY <2>3 DEF SessionsOf
  <2>5. name[SessionWith(E, e)] = g
    BY <2>2, <2>4 DEF SessionWith, SessionOf
  <2> QED
    BY <2>4, <2>5
<1>4. ASSUME NEW s \in S, NEW t \in S, name[s] = name[t] PROVE s = t
  <2>1. s.rep = t.rep /\ s.domain = t.domain /\ s.mx = t.mx
    BY <1>4
  <2> QED
    BY <1>2, <2>1
<1>5. S \in SUBSET SessionsOf(E)
  OBVIOUS
<1> HIDE DEF name, E
<1>6. /\ Weighed(SessionSuccess(S), S) /\ Weighed(SessionFailure(S), S)
      /\ Over(SessionSuccess(S), S) = Tried(S).success /\ Over(SessionFailure(S), S) = Tried(S).failure
  BY <1>1, <1>5, SessionsWeighed, TriedOver
<1>7. /\ Relabelled(SessionSuccess(S), S, name, groups, most)
      /\ Relabelled(SessionFailure(S), S, name, groups, worst)
  BY <1>2, <1>3, <1>4 DEF Relabelled, SessionSuccess, SessionFailure
<1> QED
  BY <1>6, <1>7, OverRelabel

LEMMA SummariesMatch ==
    ASSUME TlsInv, NEW f, IsTlsFilter(f)
    PROVE  SummariesAgree(f)
<1> DEFINE all == [AllTls EXCEPT !.from = f.from]
           bare == [all EXCEPT !.requireDkim = FALSE]
           R == Since(f.from)
           S == Sessions(all)
           E == Entries(R)
           groups == GroupsOf(R)
           most == [g \in groups |-> MostAt(g)]
           worst == [g \in groups |-> WorstAt(g)]
           multi == {r \in R : MultiPolicy(r)}
<1>1. /\ IsTlsFilter(all) /\ all.from = f.from /\ all.to = 0 /\ all.requireDkim = FALSE
      /\ all.domain = AnyValue /\ f.from \in Nat
  <2>1. IsTlsFilter(all) /\ f.from \in Nat
    BY TlsFilterWith DEF IsTlsFilter
  <2>2. all.requireDkim = FALSE /\ all.to = 0 /\ all.domain = AnyValue
    BY Zenon DEF AllTls
  <2>3. all.from = f.from
    BY DEF AllTls
  <2> QED
    BY <2>1, <2>2, <2>3
<1> HIDE DEF all
<1>2. /\ IsTlsFilter(bare) /\ bare.from = f.from /\ bare.to = 0 /\ bare.requireDkim = FALSE
      /\ bare.domain = AnyValue
  <2>1. IsTlsFilter(bare)
    BY <1>1, TlsFilterWith
  <2>2. bare.requireDkim = FALSE
    BY <1>1, Zenon DEF IsTlsFilter
  <2>3. bare.from = f.from /\ bare.to = 0 /\ bare.domain = AnyValue
    BY <1>1 DEF IsTlsFilter
  <2> QED
    BY <2>1, <2>2, <2>3
<1> HIDE DEF bare
<1>3. /\ R \in SUBSET TlsPool /\ PoliciesIn(all) = E /\ TlsReportsIn(bare) = R
      /\ R = {r \in tlsStored : f.from > 0 => r.begin >= f.from}
  <2>1. /\ R \in SUBSET TlsPool /\ PoliciesIn(all) = E
        /\ R = {r \in tlsStored : f.from > 0 => r.begin >= f.from}
    BY <1>1, SinceIs
  <2>2. TlsReportsIn(bare) = R
    BY <1>1, <1>2, SinceIs
  <2> QED
    BY <2>1, <2>2
<1>4. S = SessionsOf(E) /\ E \in SUBSET AllEntries
  BY <1>3, PoliciesAre
<1>5. Over(most, groups) = Tried(S).success /\ Over(worst, groups) = Tried(S).failure
  <2>1. /\ \A g \in groups : most[g] = MostAt(g)
        /\ \A g \in groups : worst[g] = WorstAt(g)
    OBVIOUS
  <2> HIDE DEF most, worst, S, R, groups
  <2>2. groups = GroupsOf(R)
    BY DEF groups
  <2>3. S = SessionsOf(Entries(R))
    BY <1>4
  <2> QED
    BY <1>3, <2>1, <2>2, <2>3, GroupsAreSessions
<1>6. /\ TLSSessionTotals(f.from).success = Over(most, groups)
      /\ TLSSessionTotals(f.from).failure = Over(worst, groups)
      /\ TLSSessionTotals(f.from).multi = Cardinality(multi)
  BY DEF TLSSessionTotals, Over, Since, GroupsOf, MostAt, WorstAt, PoliciesAt
<1>7. TLSHygiene(all).multiPolicy = Cardinality(multi)
  BY <1>3 DEF TLSHygiene, bare
<1>8. {s.rep : s \in {x \in S : x.entries > 1}} = multi
  <2> HIDE DEF S, R
  <2> QED
    BY <1>3, <1>4, MultiIsSession
<1>9. TLSRPTSummary(f.from) = Applied(E)
  BY <1>3 DEF TLSRPTSummary
<1> HIDE DEF most, worst, groups, R, S, E
<1>10. /\ Applied(E).messages = Over(EntryCount, E) /\ Applied(E).messages \in Nat
       /\ Tried(S).messages <= Over(EntryCount, E)
       /\ Tried(S).messages = Tried(S).success + Tried(S).failure
  BY <1>4, AppliedOver, SessionsWithinEntries, TriedOver
<1>11. ASSUME Cardinality(multi) = 0 PROVE Tried(S).messages = Over(EntryCount, E)
  <2>1. IsFiniteSet(multi)
    BY <1>3, TlsRowsAssumption, FS_Subset
  <2>2. multi = {}
    BY <1>11, <2>1, FS_EmptySet
  <2>3. \A s \in S : ~(s.entries > 1)
    BY <1>8, <2>2
  <2> QED
    BY <1>4, <2>3, SessionsWithinEntries
<1> HIDE DEF multi
<1>12. TLSRate(all) = Tried(S)
  BY DEF TLSRate, S
<1>13. Tried(S).success \in Nat /\ Tried(S).failure \in Nat
  BY <1>4, TriedOver
<1>14. /\ TLSSessionTotals(f.from).success = TLSRate(all).success
       /\ TLSSessionTotals(f.from).failure = TLSRate(all).failure
       /\ TLSSessionTotals(f.from).multi = TLSHygiene(all).multiPolicy
       /\ TLSSessionTotals(f.from).multi
             = Cardinality({s.rep : s \in {x \in Sessions(all) : x.entries > 1}})
       /\ TLSRPTSummary(f.from).messages
             >= TLSSessionTotals(f.from).success + TLSSessionTotals(f.from).failure
       /\ TLSSessionTotals(f.from).multi = 0
             => TLSRPTSummary(f.from).messages
                  = TLSSessionTotals(f.from).success + TLSSessionTotals(f.from).failure
  BY <1>5, <1>6, <1>7, <1>8, <1>9, <1>10, <1>11, <1>12, <1>13 DEF S
<1> QED
  BY <1>14 DEF SummariesAgree, all

-----------------------------------------------------------------------------
(* ExclusionTold, and the result types of what failed                       *)

LEMMA ExclusionIsTold ==
    ASSUME TlsInv, NEW f, IsTlsFilter(f)
    PROVE  ExclusionTold(f)
<1> DEFINE bare == [f EXCEPT !.requireDkim = FALSE]
           L == TlsReportsIn(bare)
           In == TlsReportsIn(f)
           Out == {r \in L : r.transport = "smtp" /\ r.dkim # "valid"}
           transport == [r \in L |-> r.transport]
           sizes == TLSHygiene(f).transports
<1>1. /\ bare.domain = f.domain /\ bare.from = f.from /\ bare.to = f.to
      /\ bare.requireDkim = FALSE
  <2>1. \A b \in BOOLEAN : LET g == [f EXCEPT !.requireDkim = b]
                           IN  /\ g.domain = f.domain /\ g.from = f.from /\ g.to = f.to
                               /\ g.requireDkim = b
    BY DEF IsTlsFilter
  <2> QED
    BY <2>1
<1> HIDE DEF bare
<1>2. \A r : CountsFor(r, bare) <=> InWindow(r, f)
  BY <1>1 DEF CountsFor, InWindow
<1>3. \A r : CountsFor(r, f) <=> InWindow(r, f) /\ Counted(r, f.requireDkim)
  BY DEF CountsFor, Counted, IsTlsFilter
<1>4. In = {r \in L : Counted(r, f.requireDkim)}
  BY <1>1, <1>2, <1>3 DEF TlsReportsIn
<1>5. {s.rep : s \in Sessions(f)} \subseteq In
  <2> SUFFICES ASSUME NEW s \in Sessions(f) PROVE s.rep \in In
    OBVIOUS
  <2>1. PICK e \in PoliciesIn(f) : s = SessionWith(PoliciesIn(f), e)
    BY PoliciesAre DEF SessionsOf
  <2>2. s.rep = e.rep
    BY <2>1 DEF SessionWith, SessionOf
  <2>3. e.rep \in tlsStored /\ e.pol \in e.rep.policies
    BY EntryIn DEF TlsInv, PoliciesIn
  <2>4. CountsFor(e.rep, f) /\ f.domain \in {AnyValue, e.pol.domain}
    BY DEF PoliciesIn
  <2> QED
    BY <2>2, <2>3, <2>4 DEF TlsReportsIn
<1>6. IsFiniteSet(L)
  <2>1. L \in SUBSET TlsPool
    BY DEF TlsReportsIn, TlsInv
  <2> QED
    BY <2>1, TlsRowsAssumption, FS_Subset
<1>7. /\ TLSHygiene(f).reports = Cardinality(L)
      /\ f.requireDkim = TRUE => TLSHygiene(f).excluded = Cardinality(Out)
      /\ f.requireDkim = FALSE => TLSHygiene(f).excluded = 0
  <2>1. {r \in {x \in L : x.transport = "smtp"} : r.dkim # "valid"} = Out
    OBVIOUS
  <2> QED
    BY <2>1 DEF TLSHygiene, bare
<1>8. Cardinality(In) + TLSHygiene(f).excluded = TLSHygiene(f).reports
  <2>1. CASE f.requireDkim = TRUE
    <3>1. Out \in SUBSET L /\ In = L \ Out
      BY <1>4, <2>1 DEF Counted
    <3> HIDE DEF L, In, Out
    <3>2. L \cap Out = Out
      BY <3>1
    <3>3. Cardinality(L \ Out) = Cardinality(L) - Cardinality(L \cap Out)
      BY <1>6, FS_Difference
    <3>4. Cardinality(L) \in Nat /\ Cardinality(Out) \in Nat
      BY <1>6, <3>1, FS_Subset, FS_CardinalityType
    <3>5. TLSHygiene(f).excluded = Cardinality(Out)
      BY <1>7, <2>1, Zenon
    <3>6. Cardinality(In) = Cardinality(L) - Cardinality(Out)
      BY <3>1, <3>2, <3>3
    <3> QED
      BY <1>7, <3>4, <3>5, <3>6
  <2>2. CASE f.requireDkim = FALSE
    <3>1. In = L
      BY <1>4, <2>2 DEF Counted
    <3>2. Cardinality(L) \in Nat
      BY <1>6, FS_CardinalityType
    <3> QED
      BY <1>7, <2>2, <3>1, <3>2
  <2>3. f.requireDkim \in BOOLEAN
    BY DEF IsTlsFilter
  <2>4. f.requireDkim = TRUE \/ f.requireDkim = FALSE
    BY <2>3
  <2> QED
    BY ONLY <2>1, <2>2, <2>4
<1>9. SumOf(sizes) = TLSHygiene(f).reports
  <2>1. /\ DOMAIN sizes = Image(transport, L)
        /\ sizes = [t \in DOMAIN sizes |-> sizes[t]]
    BY DEF TLSHygiene, Image, bare
  <2>2. \A t \in DOMAIN sizes : sizes[t] = Cardinality({r \in L : transport[r] = t})
    <3>1. \A t \in DOMAIN sizes : sizes[t] = Cardinality({r \in L : r.transport = t})
      BY DEF TLSHygiene, bare
    <3>2. \A t : {r \in L : r.transport = t} = {r \in L : transport[r] = t}
      OBVIOUS
    <3> QED
      BY <3>1, <3>2
  <2> HIDE DEF sizes, transport, L
  <2>3. SumOf(sizes) = Cardinality(L)
    BY <1>6, <2>1, <2>2, CountedByGroups
  <2> QED
    BY <1>7, <2>3
<1>10. /\ In = {r \in L : Counted(r, f.requireDkim)}
       /\ {s.rep : s \in Sessions(f)} \subseteq In
       /\ Cardinality(In) + TLSHygiene(f).excluded = TLSHygiene(f).reports
       /\ SumOf(TLSHygiene(f).transports) = TLSHygiene(f).reports
  BY <1>4, <1>5, <1>8, <1>9
<1> QED
  BY <1>10 DEF ExclusionTold, bare


LEMMA FailuresAre ==
    ASSUME TlsInv, NEW f
    PROVE  /\ FailuresIn(f) \in SUBSET AllDetails
           /\ FailuresIn(f) \in SUBSET DetailsOf(PoliciesIn(f))
<1>1. PoliciesIn(f) \in SUBSET AllEntries
  BY PoliciesAre
<1>2. DetailsOf(PoliciesIn(f)) \in SUBSET AllDetails
  BY <1>1, DetailIn
<1> QED
  BY <1>2 DEF FailuresIn

\* Result types, by their groups.
LEMMA TypesAddUp ==
    ASSUME TlsInv, NEW f
    PROVE  /\ TLSFailureBreakdown(f).total = Count(FailuresIn(f))
           /\ GroupSum(TLSFailureBreakdown(f).groups) = Count(FailuresIn(f))
<1> DEFINE X == FailuresIn(f)
           key == [x \in X |-> IF x.det.type = "" THEN "(unspecified)" ELSE x.det.type]
           types == ObservedBy(key)
           T == DOMAIN types
           w == [t \in T |-> types[t].messages]
           groupOf == [t \in T |-> TLSResultGroup(t)]
           groups == TLSFailureBreakdown(f).groups
<1>1. X \in SUBSET AllDetails /\ DOMAIN key = X
  BY FailuresAre
<1>2. GroupSum(types) = Count(X)
  <2> HIDE DEF key
  <2> QED
    BY <1>1, ObservedByAddsUp
<1>3. TLSFailureBreakdown(f).types = types /\ TLSFailureBreakdown(f).total = GroupSum(types)
  BY DEF TLSFailureBreakdown
<1>4. \A t \in T : types[t].messages \in Nat
  <2> SUFFICES ASSUME NEW t \in T PROVE types[t].messages \in Nat
    OBVIOUS
  <2>1. types[t].messages = Count({x \in X : key[x] = t})
    BY DEF ObservedBy, Count
  <2>2. {x \in X : key[x] = t} \in SUBSET AllDetails
    BY <1>1
  <2> HIDE DEF key, types
  <2> QED
    BY <2>1, <2>2, CountOver
<1>5. IsFiniteSet(T)
  <2>1. T = Image(key, X)
    BY DEF ObservedBy, Range, Image
  <2>2. IsFiniteSet(X)
    BY <1>1, DetailsFinite DEF Weighed
  <2> HIDE DEF key, T
  <2> QED
    BY <2>1, <2>2, ImageFinite
<1>6. Weighed(w, T) /\ GroupSum(types) = Over(w, T)
  BY <1>4, <1>5 DEF Weighed, GroupSum, Over
<1>7. DOMAIN groups = Range(groupOf)
  <2>1. DOMAIN groups = {TLSResultGroup(t) : t \in T}
    BY DEF TLSFailureBreakdown
  <2>2. Range(groupOf) = {TLSResultGroup(t) : t \in T}
    BY DEF Range
  <2> QED
    BY <2>1, <2>2
<1>8. ASSUME NEW g \in DOMAIN groups
      PROVE  groups[g].messages = Over(w, {t \in T : groupOf[t] = g})
  <2>1. groups[g].messages = SumOf([t \in {u \in T : TLSResultGroup(u) = g} |-> types[t].messages])
    BY DEF TLSFailureBreakdown
  <2>2. {t \in T : groupOf[t] = g} = {u \in T : TLSResultGroup(u) = g}
    OBVIOUS
  <2>3. \A S \in SUBSET T : [t \in S |-> types[t].messages] = [t \in S |-> w[t]]
    OBVIOUS
  <2>4. {u \in T : TLSResultGroup(u) = g} \in SUBSET T
    OBVIOUS
  <2> HIDE DEF T, w, types
  <2> QED
    BY <2>1, <2>2, <2>3, <2>4 DEF Over
<1>9. DOMAIN groupOf = T
  OBVIOUS
<1> HIDE DEF groups, groupOf, w, types
<1>10. GroupSum(groups) = Over(w, T)
  BY <1>6, <1>7, <1>8, <1>9, GroupsAddUp
<1> QED
  BY <1>2, <1>3, <1>6, <1>10 DEF groups

-----------------------------------------------------------------------------
(* ObservationsAddUp: receivers, reasons, families and senders              *)

LEMMA CountApart ==
    ASSUME NEW X \in SUBSET AllDetails, NEW A \in SUBSET X
    PROVE  /\ Count(X) = Count(A) + Count(X \ A)
           /\ Count(A) \in Nat /\ Count(X \ A) \in Nat
<1> DEFINE B == X \ A
<1>1. X = A \cup B /\ A \cap B = {}
  OBVIOUS
<1> HIDE DEF B
<1>2. Count(X) = Count(A) + Count(B) /\ Count(A) \in Nat /\ Count(B) \in Nat
  BY <1>1, CountSplit
<1> QED
  BY <1>2 DEF B

\* Receiving hosts and addresses.
LEMMA ReceiversAddUp ==
    ASSUME TlsInv, NEW f
    PROVE  LET receivers == TLSReceivers(f)
               total == Count(FailuresIn(f))
           IN  /\ GroupSum(receivers.byHost) = total
               /\ GroupSum(receivers.byIP) + receivers.unspecifiedIP = total
               /\ GroupSum(receivers.heloMismatches) <= total
<1> DEFINE X == FailuresIn(f)
           named == {x \in X : Receiving(x) # NoAddress}
           odd == {x \in X : x.det.helo # << >> /\ x.det.host # << >> /\ x.det.helo # x.det.host}
           host == [x \in X |-> HostOf(x)]
           ip == [x \in named |-> <<Receiving(x), HostOf(x)>>]
           helo == [x \in odd |-> <<x.det.host, x.det.helo>>]
<1>1. X \in SUBSET AllDetails
  BY FailuresAre
<1>2. /\ TLSReceivers(f).byHost = ObservedBy(host) /\ DOMAIN host = X
      /\ TLSReceivers(f).byIP = ObservedBy(ip) /\ DOMAIN ip = named
      /\ TLSReceivers(f).heloMismatches = ObservedBy(helo) /\ DOMAIN helo = odd
      /\ TLSReceivers(f).unspecifiedIP = Count(X \ named)
  BY DEF TLSReceivers
<1>3. named \in SUBSET X /\ odd \in SUBSET X
  OBVIOUS
<1> HIDE DEF X, named, odd, host, ip, helo
<1>4. /\ named \in SUBSET AllDetails /\ odd \in SUBSET AllDetails
  BY <1>1, <1>3
<1>5. Count(X) = Count(named) + Count(X \ named)
  BY <1>1, <1>3, CountApart
<1>6. Count(X) = Count(odd) + Count(X \ odd) /\ Count(odd) \in Nat /\ Count(X \ odd) \in Nat
  BY <1>1, <1>3, CountApart
<1>7. GroupSum(ObservedBy(host)) = Count(X)
  BY <1>1, <1>2, ObservedByAddsUp
<1>8. GroupSum(ObservedBy(ip)) = Count(named)
  BY <1>2, <1>4, ObservedByAddsUp
<1>9. GroupSum(ObservedBy(helo)) = Count(odd)
  BY <1>2, <1>4, ObservedByAddsUp
<1> QED
  BY <1>2, <1>5, <1>6, <1>7, <1>8, <1>9 DEF X

\* What has a reason and what has none; address families; the policy hosts.
LEMMA ReasonsAddUp ==
    ASSUME TlsInv, NEW f
    PROVE  LET reasons == TLSReasons(f)
               family == TLSFamilySplit(f)
               endpoint == TLSEndpointHealth(f)
               total == Count(FailuresIn(f))
           IN  /\ GroupSum(reasons.overall) = GroupSum(reasons.byType)
               /\ GroupSum(reasons.overall) + reasons.without = total
               /\ GroupSum(family.sending) = total /\ GroupSum(family.receiving) = total
               /\ GroupSum(endpoint.byType) = GroupSum(endpoint.byDay)
<1> DEFINE X == FailuresIn(f)
           given == {x \in X : x.det.reason # ""}
           T == {"sts-policy-fetch-error", "sts-webpki-invalid", "sts-policy-invalid"}
           served == OfTypes(f, T)
           reason == [x \in given |-> x.det.reason]
           typed == [x \in given |-> <<x.det.reason, x.det.type>>]
           sending == [x \in X |-> Family(Sending(x))]
           receiving == [x \in X |-> Family(Receiving(x))]
           type == [x \in served |-> x.det.type]
           day == [x \in served |-> x.rep.begin]
<1>1. X \in SUBSET AllDetails
  BY FailuresAre
<1>2. /\ TLSReasons(f).overall = ObservedBy(reason) /\ DOMAIN reason = given
      /\ TLSReasons(f).byType = ObservedBy(typed) /\ DOMAIN typed = given
      /\ TLSReasons(f).without = Count(X \ given)
  BY DEF TLSReasons
<1>3. /\ TLSFamilySplit(f).sending = ObservedBy(sending) /\ DOMAIN sending = X
      /\ TLSFamilySplit(f).receiving = ObservedBy(receiving) /\ DOMAIN receiving = X
  BY DEF TLSFamilySplit
<1>4. /\ TLSEndpointHealth(f).byType = ObservedBy(type) /\ DOMAIN type = served
      /\ TLSEndpointHealth(f).byDay = ObservedBy(day) /\ DOMAIN day = served
  BY DEF TLSEndpointHealth
<1>5. given \in SUBSET X /\ served \in SUBSET X
  BY DEF OfTypes
<1> HIDE DEF X, given, served, reason, typed, sending, receiving, type, day
<1>6. /\ given \in SUBSET AllDetails /\ served \in SUBSET AllDetails
  BY <1>1, <1>5
<1>7. Count(X) = Count(given) + Count(X \ given)
  BY <1>1, <1>5, CountApart
<1>8. GroupSum(ObservedBy(reason)) = Count(given)
  BY <1>2, <1>6, ObservedByAddsUp
<1>9. GroupSum(ObservedBy(typed)) = Count(given)
  BY <1>2, <1>6, ObservedByAddsUp
<1>10. GroupSum(ObservedBy(sending)) = Count(X)
  BY <1>1, <1>3, ObservedByAddsUp
<1>11. GroupSum(ObservedBy(receiving)) = Count(X)
  BY <1>1, <1>3, ObservedByAddsUp
<1>12. GroupSum(ObservedBy(type)) = Count(served)
  BY <1>4, <1>6, ObservedByAddsUp
<1>13. GroupSum(ObservedBy(day)) = Count(served)
  BY <1>4, <1>6, ObservedByAddsUp
<1> QED
  BY <1>2, <1>3, <1>4, <1>7, <1>8, <1>9, <1>10, <1>11, <1>12, <1>13 DEF X

\* A table of sums over some addresses, rolled up by what groups them.
RolledUp(g, T, of) ==
    [k \in Range(of) |->
        LET members == {ip \in T : of[ip] = k}
        IN  [messages |-> SumOf([ip \in members |-> g[ip].messages]),
             ips |-> Cardinality(members)]]

LEMMA RollUp ==
    ASSUME NEW g, NEW w, NEW T, \A t \in T : w[t] = g[t].messages, Weighed(w, T),
           NEW of, DOMAIN of = T
    PROVE  GroupSum(RolledUp(g, T, of)) = Over(w, T)
<1> DEFINE r == RolledUp(g, T, of)
<1>1. DOMAIN r = Range(of)
  BY DEF RolledUp
<1>2. ASSUME NEW k \in DOMAIN r PROVE r[k].messages = Over(w, {ip \in T : of[ip] = k})
  <2> DEFINE members == {ip \in T : of[ip] = k}
  <2>1. r[k].messages = SumOf([ip \in members |-> g[ip].messages])
    BY DEF RolledUp
  <2>2. members \in SUBSET T
    OBVIOUS
  <2> HIDE DEF members, r
  <2>3. [ip \in members |-> g[ip].messages] = [ip \in members |-> w[ip]]
    BY <2>2
  <2> QED
    BY <2>1, <2>3 DEF Over, members
<1> HIDE DEF r
<1>3. GroupSum(r) = Over(w, T)
  BY <1>1, <1>2, GroupsAddUp
<1> QED
  BY <1>3 DEF r

\* Sending addresses, with the networks and organisations of those listed.
LEMMA SendersAddUp ==
    ASSUME TlsInv, NEW f, NEW n \in Nat, NEW T \in TLSSenders(f, n)
    PROVE  /\ GroupSum(T.byNetwork) = GroupSum(T.byIP)
           /\ GroupSum(T.byOrg) = GroupSum(T.byIP)
           /\ GroupSum(T.byIP) + T.unspecifiedIP <= Count(FailuresIn(f))
           /\ Cardinality(DOMAIN T.byIP) < n =>
                 GroupSum(T.byIP) + T.unspecifiedIP = Count(FailuresIn(f))
<1> DEFINE X == FailuresIn(f)
           named == {x \in X : Sending(x) # NoAddress}
           key == [x \in named |-> Sending(x)]
           all == ObservedBy(key)
           D == DOMAIN all
           w == [ip \in D |-> all[ip].messages]
<1>1. PICK U \in TopSets(all, n) :
         T = [byIP |-> [ip \in U |-> all[ip]],
              byNetwork |-> RolledUp(all, U, [ip \in U |-> NetworkOf[ip]]),
              byOrg |-> RolledUp(all, U, [ip \in U |-> WhoisOf[ip]]),
              unspecifiedIP |-> Count(X \ named)]
  BY DEF TLSSenders, RolledUp
<1>2. /\ U \in SUBSET D
      /\ Cardinality(U) = IF Cardinality(D) < n THEN Cardinality(D) ELSE n
  BY <1>1 DEF TopSets
<1>3. X \in SUBSET AllDetails /\ named \in SUBSET X
  BY FailuresAre
<1>4. named \in SUBSET AllDetails
  BY <1>3
<1>5. D = Image(key, named) /\ DOMAIN key = named
  BY DEF ObservedBy, Range, Image
<1>6. \A ip \in D : all[ip].messages = Count({x \in named : key[x] = ip})
  BY DEF ObservedBy, Count
<1>7. \A ip \in D : w[ip] = all[ip].messages
  OBVIOUS
<1>8. GroupSum(all) = Over(w, D)
  BY DEF GroupSum, Over
<1> HIDE DEF X, named, key, all, D, w
<1>9. Count(X) = Count(named) + Count(X \ named) /\ Count(X \ named) \in Nat
  BY <1>3, CountApart
<1>10. GroupSum(all) = Count(named)
  BY <1>4, <1>5, ObservedByAddsUp DEF all
<1>11. IsFiniteSet(D)
  BY <1>4, <1>5, DetailsFinite, ImageFinite DEF Weighed
<1>12. ASSUME NEW ip \in D PROVE w[ip] \in Nat
  <2>1. {x \in named : key[x] = ip} \in SUBSET AllDetails
    BY <1>4
  <2> QED
    BY <1>6, <1>7, <2>1, CountOver
<1>13. Weighed(w, D)
  BY <1>11, <1>12 DEF Weighed
<1>14. Weighed(w, U) /\ Over(w, U) \in Nat /\ Over(w, D) \in Nat /\ Over(w, U) <= Over(w, D)
  BY <1>2, <1>13, WeighedSubset
<1>15. \A ip \in U : w[ip] = all[ip].messages
  BY <1>2, <1>7
<1>16. GroupSum([ip \in U |-> all[ip]]) = Over(w, U)
  <2>1. [ip \in U |-> all[ip].messages] = [ip \in U |-> w[ip]]
    BY <1>15
  <2> QED
    BY <2>1 DEF GroupSum, Over
<1>17. \A of : DOMAIN of = U => GroupSum(RolledUp(all, U, of)) = Over(w, U)
  BY <1>14, <1>15, RollUp
<1>18. /\ GroupSum(RolledUp(all, U, [ip \in U |-> NetworkOf[ip]])) = Over(w, U)
       /\ GroupSum(RolledUp(all, U, [ip \in U |-> WhoisOf[ip]])) = Over(w, U)
  BY <1>17
<1>19. Cardinality(U) < n => U = D
  <2>1. Cardinality(U) \in Nat /\ Cardinality(D) \in Nat
    BY <1>2, <1>11, FS_Subset, FS_CardinalityType
  <2>2. Cardinality(U) < n => Cardinality(U) = Cardinality(D)
    BY <1>2, <2>1
  <2> QED
    BY <1>2, <1>11, <2>2, FS_Subset
<1>20. /\ T.byIP = [ip \in U |-> all[ip]] /\ DOMAIN T.byIP = U
       /\ T.byNetwork = RolledUp(all, U, [ip \in U |-> NetworkOf[ip]])
       /\ T.byOrg = RolledUp(all, U, [ip \in U |-> WhoisOf[ip]])
       /\ T.unspecifiedIP = Count(X \ named)
  BY <1>1
<1>21. Count(X) = Over(w, D) + T.unspecifiedIP /\ T.unspecifiedIP \in Nat
  BY <1>8, <1>9, <1>10, <1>20
<1>22. Over(w, U) + T.unspecifiedIP <= Count(X)
  BY <1>14, <1>21
<1>23. Cardinality(DOMAIN T.byIP) < n => Over(w, U) + T.unspecifiedIP = Count(X)
  BY <1>19, <1>20, <1>21
<1> QED
  BY <1>16, <1>18, <1>20, <1>22, <1>23 DEF X

-----------------------------------------------------------------------------
(* ObservationsAddUp: incidents                                             *)

\* The maximal runs of the days D.
Runs(D) == {s \in D \X D : /\ s[1] <= s[2]
                           /\ s[1] .. s[2] \subseteq D
                           /\ s[1] - 1 \notin D /\ s[2] + 1 \notin D}

LEMMA RunAt ==
    ASSUME NEW D \in SUBSET Int, IsFiniteSet(D), NEW d \in D
    PROVE  \E s \in Runs(D) : s[1] <= d /\ d <= s[2]
<1> DEFINE A == {a \in D : a <= d /\ a .. d \subseteq D}
           B == {b \in D : d <= b /\ d .. b \subseteq D}
<1>1. d \in A /\ d \in B
  BY d .. d = {d}
<1>2. /\ A \in SUBSET Int /\ IsFiniteSet(A) /\ A # {}
      /\ B \in SUBSET Int /\ IsFiniteSet(B) /\ B # {}
  BY <1>1, FS_Subset
<1> HIDE DEF A, B
<1>3. PICK a \in A : \A y \in A : a <= y
  BY <1>2, Extremes
<1>4. PICK b \in B : \A y \in B : y <= b
  BY <1>2, Extremes
<1>5. /\ a \in D /\ a <= d /\ a .. d \subseteq D /\ a \in Int
      /\ b \in D /\ d <= b /\ d .. b \subseteq D /\ b \in Int
  BY <1>2 DEF A, B
<1>6. a - 1 \notin D
  <2> SUFFICES ASSUME a - 1 \in D PROVE FALSE
    OBVIOUS
  <2>1. (a - 1) .. d = {a - 1} \cup (a .. d) /\ a - 1 <= d
    BY <1>5
  <2>2. a - 1 \in A
    BY <1>5, <2>1 DEF A
  <2> QED
    BY <1>3, <1>5, <2>2
<1>7. b + 1 \notin D
  <2> SUFFICES ASSUME b + 1 \in D PROVE FALSE
    OBVIOUS
  <2>1. d .. (b + 1) = {b + 1} \cup (d .. b) /\ d <= b + 1
    BY <1>5
  <2>2. b + 1 \in B
    BY <1>5, <2>1 DEF B
  <2> QED
    BY <1>4, <1>5, <2>2
<1>8. a .. b \subseteq D
  <2>1. a .. b = (a .. d) \cup (d .. b)
    BY <1>5
  <2> QED
    BY <1>5, <2>1
<1> DEFINE s == <<a, b>>
<1>9. s \in D \X D /\ s[1] = a /\ s[2] = b
  BY <1>5
<1> HIDE DEF s
<1>10. s \in Runs(D)
  BY <1>5, <1>6, <1>7, <1>8, <1>9 DEF Runs
<1> QED
  BY <1>5, <1>9, <1>10

LEMMA PairIn ==
    ASSUME NEW D, NEW p \in D \X D
    PROVE  p = <<p[1], p[2]>> /\ p[1] \in D /\ p[2] \in D
OBVIOUS

\* Between two runs there is a day without.
LEMMA RunsApart ==
    ASSUME NEW D \in SUBSET Int, NEW s \in Runs(D), NEW t \in Runs(D), s # t
    PROVE  s[2] + 1 < t[1] \/ t[2] + 1 < s[1]
<1>1. /\ s = <<s[1], s[2]>> /\ s[1] \in Int /\ s[2] \in Int
      /\ t = <<t[1], t[2]>> /\ t[1] \in Int /\ t[2] \in Int
  <2>1. s \in D \X D /\ t \in D \X D
    BY DEF Runs
  <2> QED
    BY <2>1, PairIn
<1>2. /\ s[1] <= s[2] /\ s[1] - 1 \notin D /\ s[2] + 1 \notin D
      /\ \A x \in Int : s[1] <= x /\ x <= s[2] => x \in D
      /\ t[1] <= t[2] /\ t[1] - 1 \notin D /\ t[2] + 1 \notin D
      /\ \A x \in Int : t[1] <= x /\ x <= t[2] => x \in D
  BY <1>1 DEF Runs
<1> SUFFICES ASSUME t[1] <= s[2] + 1, s[1] <= t[2] + 1 PROVE FALSE
  BY <1>1
<1> DEFINE a == s[1]  b == s[2]  c == t[1]  e == t[2]
<1>3. a = c
  <2>1. CASE a < c
    <3>1. c - 1 \in Int /\ a <= c - 1 /\ c - 1 <= b
      BY <1>1, <2>1
    <3> QED
      BY <1>2, <3>1
  <2>2. CASE c < a
    <3>1. a - 1 \in Int /\ c <= a - 1 /\ a - 1 <= e
      BY <1>1, <2>2
    <3> QED
      BY <1>2, <3>1
  <2> QED
    BY <1>1, <2>1, <2>2
<1>4. b = e
  <2>1. CASE b < e
    <3>1. b + 1 \in Int /\ c <= b + 1 /\ b + 1 <= e
      BY <1>1, <1>2, <1>3, <2>1
    <3> QED
      BY <1>2, <3>1
  <2>2. CASE e < b
    <3>1. e + 1 \in Int /\ a <= e + 1 /\ e + 1 <= b
      BY <1>1, <1>2, <1>3, <2>2
    <3> QED
      BY <1>2, <3>1
  <2> QED
    BY <1>1, <2>1, <2>2
<1> QED
  BY <1>1, <1>3, <1>4

PairOf(x) == <<x.det.type, HostOf(x)>>
OfPair(X, k) == {x \in X : PairOf(x) = k}
PairDays(X, k) == {x.rep.begin : x \in OfPair(X, k)}
IncidentOf(X, k, s) ==
    [type |-> k[1], host |-> k[2], first |-> s[1], last |-> s[2],
     days |-> s[2] - s[1] + 1, ongoing |-> s[2] = now,
     messages |-> Count({x \in OfPair(X, k) : x.rep.begin \in s[1] .. s[2]})]
IncidentsOf(X) ==
    UNION {{IncidentOf(X, k, s) : s \in Runs(PairDays(X, k))} : k \in {PairOf(x) : x \in X}}
Typed(f) == {x \in FailuresIn(f) : x.det.type # ""}

LEMMA IncidentsAre ==
    ASSUME NEW f
    PROVE  TLSIncidents(f) = IncidentsOf(Typed(f))
BY Zenon DEF TLSIncidents, IncidentsOf, IncidentOf, Typed, PairOf, OfPair, PairDays, Runs

\* What an incident counts.
Holds(i, x) ==
    i.type = x.det.type /\ i.host = HostOf(x) /\ i.first <= x.rep.begin /\ x.rep.begin <= i.last

LEMMA PairDaysFinite ==
    ASSUME NEW X \in SUBSET AllDetails, NEW k
    PROVE  PairDays(X, k) \in SUBSET Int /\ IsFiniteSet(PairDays(X, k))
<1> DEFINE day == [x \in X |-> x.rep.begin]
           S == OfPair(X, k)
<1>1. S \in SUBSET X /\ \A x \in X : x.rep.begin \in Int
  BY DetailIn DEF OfPair, AllDetails
<1>2. PairDays(X, k) = {day[x] : x \in S}
  BY <1>1 DEF PairDays
<1>3. IsFiniteSet(S)
  BY <1>1, DetailsFinite, FS_Subset DEF Weighed
<1>4. \A x \in S : day[x] \in Int
  BY <1>1
<1> HIDE DEF day, S
<1> QED
  BY <1>2, <1>3, <1>4, ImageFinite DEF Image

LEMMA IncidentFacts ==
    ASSUME NEW X \in SUBSET AllDetails, NEW i \in IncidentsOf(X)
    PROVE  /\ \E s \in Runs(PairDays(X, <<i.type, i.host>>)) :
                 i = IncidentOf(X, <<i.type, i.host>>, s) /\ s[1] = i.first /\ s[2] = i.last
           /\ i.first \in Int /\ i.last \in Int /\ i.first <= i.last
           /\ i.days = i.last - i.first + 1
           /\ i.messages = Count({x \in X : Holds(i, x)})
           /\ \E x \in X : Holds(i, x)
<1>1. PICK k \in {PairOf(x) : x \in X} : i \in {IncidentOf(X, k, s) : s \in Runs(PairDays(X, k))}
  BY DEF IncidentsOf
<1>2. PICK s \in Runs(PairDays(X, k)) : i = IncidentOf(X, k, s)
  BY <1>1
<1>3. k = <<k[1], k[2]>>
  BY <1>1 DEF PairOf
<1>4. i.type = k[1] /\ i.host = k[2] /\ i.first = s[1] /\ i.last = s[2]
  BY <1>2 DEF IncidentOf
<1>5. k = <<i.type, i.host>>
  BY <1>3, <1>4
<1>6. i.days = s[2] - s[1] + 1
  BY <1>2 DEF IncidentOf
<1>7. i.messages = Count({x \in OfPair(X, k) : x.rep.begin \in s[1] .. s[2]})
  BY <1>2 DEF IncidentOf
<1>8. s[1] \in PairDays(X, k) /\ s[1] <= s[2] /\ s[1] \in Int /\ s[2] \in Int
  BY PairDaysFinite DEF Runs
<1>9. ASSUME NEW x \in X
      PROVE  Holds(i, x) <=> x \in OfPair(X, k) /\ x.rep.begin \in s[1] .. s[2]
  <2>1. x.rep.begin \in Int
    BY DetailIn DEF AllDetails
  <2>2. PairOf(x) = k <=> i.type = x.det.type /\ i.host = HostOf(x)
    BY <1>5 DEF PairOf
  <2> QED
    BY <1>4, <1>8, <2>1, <2>2 DEF Holds, OfPair
<1>10. {x \in X : Holds(i, x)} = {x \in OfPair(X, k) : x.rep.begin \in s[1] .. s[2]}
  BY <1>9 DEF OfPair
<1>11. \E x \in X : Holds(i, x)
  <2>1. PICK x \in OfPair(X, k) : x.rep.begin = s[1]
    BY <1>8 DEF PairDays
  <2>2. x \in X /\ x.rep.begin \in s[1] .. s[2]
    BY <1>8, <2>1 DEF OfPair
  <2> QED
    BY <1>9, <2>1, <2>2
<1> QED
  BY <1>2, <1>4, <1>5, <1>6, <1>7, <1>8, <1>10, <1>11

\* Each observation is in an incident.
LEMMA IncidentAt ==
    ASSUME NEW X \in SUBSET AllDetails, NEW x \in X
    PROVE  \E i \in IncidentsOf(X) : Holds(i, x)
<1> DEFINE k == PairOf(x)
<1>1. x.rep.begin \in PairDays(X, k)
  BY DEF PairDays, OfPair
<1>2. PairDays(X, k) \in SUBSET Int /\ IsFiniteSet(PairDays(X, k))
  BY PairDaysFinite
<1> HIDE DEF k
<1>3. PICK s \in Runs(PairDays(X, k)) : s[1] <= x.rep.begin /\ x.rep.begin <= s[2]
  BY <1>1, <1>2, RunAt
<1> DEFINE i == IncidentOf(X, k, s)
<1>4. i \in IncidentsOf(X)
  BY DEF IncidentsOf, k
<1>5. i.type = k[1] /\ i.host = k[2] /\ i.first = s[1] /\ i.last = s[2]
  BY DEF IncidentOf
<1>6. k[1] = x.det.type /\ k[2] = HostOf(x)
  BY DEF k, PairOf
<1>7. Holds(i, x)
  BY <1>3, <1>5, <1>6 DEF Holds
<1> QED
  BY <1>4, <1>7

\* Two incidents of a type and a host have a day between them.
LEMMA IncidentsApart ==
    ASSUME NEW X \in SUBSET AllDetails, NEW i \in IncidentsOf(X), NEW j \in IncidentsOf(X),
           i # j, i.type = j.type, i.host = j.host
    PROVE  i.last + 1 < j.first \/ j.last + 1 < i.first
<1> DEFINE k == <<i.type, i.host>>
<1>1. PICK s \in Runs(PairDays(X, k)) :
         i = IncidentOf(X, k, s) /\ s[1] = i.first /\ s[2] = i.last
  BY IncidentFacts
<1>2. PICK t \in Runs(PairDays(X, <<j.type, j.host>>)) :
         j = IncidentOf(X, <<j.type, j.host>>, t) /\ t[1] = j.first /\ t[2] = j.last
  BY IncidentFacts
<1>3. k = <<j.type, j.host>>
  OBVIOUS
<1>4. t \in Runs(PairDays(X, k)) /\ j = IncidentOf(X, k, t)
  BY <1>2, <1>3
<1> HIDE DEF k
<1>5. s # t
  BY <1>1, <1>4
<1>6. PairDays(X, k) \in SUBSET Int
  BY PairDaysFinite
<1>7. s[2] + 1 < t[1] \/ t[2] + 1 < s[1]
  BY <1>4, <1>5, <1>6, RunsApart
<1> QED
  BY <1>1, <1>2, <1>7

LEMMA IncidentsAddUp ==
    ASSUME NEW X \in SUBSET AllDetails, NEW I, I = IncidentsOf(X)
    PROVE  SumOf([i \in I |-> i.messages]) = Count(X)
<1> DEFINE key == [x \in X |-> CHOOSE i \in I : Holds(i, x)]
           m == [i \in I |-> i.messages]
<1>1. \A x \in X : key[x] \in I /\ Holds(key[x], x)
  BY IncidentAt
<1>2. ASSUME NEW x \in X, NEW i \in I, Holds(i, x) PROVE key[x] = i
  <2> DEFINE j == key[x]
  <2>1. j \in I /\ Holds(j, x)
    BY <1>1
  <2> HIDE DEF j
  <2>2. i.type = j.type /\ i.host = j.host
    BY <1>2, <2>1 DEF Holds
  <2>3. /\ i.first \in Int /\ i.last \in Int /\ j.first \in Int /\ j.last \in Int
        /\ x.rep.begin \in Int
    BY <2>1, IncidentFacts, DetailIn DEF AllDetails
  <2>4. /\ i.first <= x.rep.begin /\ x.rep.begin <= i.last
        /\ j.first <= x.rep.begin /\ x.rep.begin <= j.last
    BY <1>2, <2>1 DEF Holds
  <2>5. ~(i.last + 1 < j.first) /\ ~(j.last + 1 < i.first)
    BY <2>3, <2>4
  <2>6. j = i
    BY <2>1, <2>2, <2>5, IncidentsApart
  <2> QED
    BY <2>6 DEF j
<1>3. \A i \in I : {x \in X : key[x] = i} = {x \in X : Holds(i, x)}
  BY <1>1, <1>2
<1>4. ASSUME NEW i \in I
      PROVE  m[i] = Count({x \in X : key[x] = i}) /\ \E x \in X : key[x] = i
  <2>1. i.messages = Count({x \in X : Holds(i, x)}) /\ \E x \in X : Holds(i, x)
    BY IncidentFacts
  <2>2. m[i] = i.messages
    OBVIOUS
  <2> HIDE DEF key, m
  <2>3. m[i] = Count({x \in X : key[x] = i})
    BY <1>3, <2>1, <2>2
  <2>4. \E x \in X : key[x] = i
    BY <1>2, <2>1
  <2> QED
    BY <2>3, <2>4
<1>5. m = [i \in I |-> m[i]]
  OBVIOUS
<1> HIDE DEF key, m
<1>6. I = Image(key, X)
  BY <1>1, <1>4 DEF Image
<1>7. Weighed(DetailCount, X)
  BY DetailsFinite
<1>8. IsFiniteSet(I)
  BY <1>6, <1>7, ImageFinite DEF Weighed
<1>9. \A i \in I : m[i] = Over(DetailCount, {x \in X : key[x] = i})
  BY <1>4, CountOver
<1>10. Grouping(DetailCount, X, key, I, m)
  BY <1>1, <1>7, <1>8, <1>9, WeighedInt DEF Grouping
<1>11. Over(m, I) = Over(DetailCount, X)
  BY <1>10, OverGroups
<1>12. SumOf(m) = Over(m, I)
  BY <1>5 DEF Over
<1> QED
  BY <1>11, <1>12, CountOver DEF m

\* Incidents, and what names no type, are what was observed.
LEMMA IncidentsTold ==
    ASSUME TlsInv, NEW f
    PROVE  LET I == TLSIncidents(f)
               unspecified == Count({x \in FailuresIn(f) : x.det.type = ""})
           IN  /\ SumOf([i \in I |-> i.messages]) + unspecified = Count(FailuresIn(f))
               /\ \A i, j \in I :
                     i # j /\ i.type = j.type /\ i.host = j.host =>
                         i.last + 1 < j.first \/ j.last + 1 < i.first
               /\ \A i \in I : i.last - i.first + 1 = i.days
<1> DEFINE X == FailuresIn(f)
           T == Typed(f)
           I == TLSIncidents(f)
           U == {x \in X : x.det.type = ""}
<1>1. X \in SUBSET AllDetails /\ T \in SUBSET X /\ X \ T = U
  BY FailuresAre DEF Typed
<1>2. T \in SUBSET AllDetails /\ I = IncidentsOf(T)
  BY <1>1, IncidentsAre
<1> HIDE DEF X, T, I, U
<1>3. Count(X) = Count(T) + Count(U)
  BY <1>1, CountApart
<1>4. SumOf([i \in I |-> i.messages]) = Count(T)
  BY <1>2, IncidentsAddUp
<1>5. \A i, j \in I :
         i # j /\ i.type = j.type /\ i.host = j.host =>
             i.last + 1 < j.first \/ j.last + 1 < i.first
  BY <1>2, IncidentsApart
<1>6. \A i \in I : i.last - i.first + 1 = i.days
  BY <1>2, IncidentFacts
<1> QED
  BY <1>3, <1>4, <1>5, <1>6 DEF X, I, U

-----------------------------------------------------------------------------
(* ObservationsAddUp: what the details leave out                            *)

EntryDetails == [e \in AllEntries |-> DetailSum(e.pol)]
EntryRest == [e \in AllEntries |-> Unattributed(e.pol)]

\* The details of an entry, summed in its policy and in the observations.
LEMMA DetailsOfEntry ==
    ASSUME NEW e \in AllEntries, NEW X, X = {[rep |-> e.rep, pol |-> e.pol, det |-> d] : d \in e.pol.fails}
    PROVE  /\ DetailSum(e.pol) = Over(DetailCount, X) /\ DetailSum(e.pol) \in Nat
           /\ X \in SUBSET AllDetails
<1> DEFINE F == e.pol.fails
           w == [d \in F |-> d.count]
           h == [d \in F |-> [rep |-> e.rep, pol |-> e.pol, det |-> d]]
<1>1. IsFiniteSet(F) /\ \A d \in F : d.count \in Nat
  BY EntryIn, TlsRowsAssumption DEF AllEntries
<1>2. X \in SUBSET AllDetails
  BY DEF AllDetails, DetailsOf
<1>3. \A d \in F : h[d] \in X /\ h[d].det = d
  OBVIOUS
<1>4. \A x \in X : \E d \in F : h[d] = x
  OBVIOUS
<1>5. \A x \in X : DetailCount[x] = x.det.count
  BY <1>2, DetailsFinite
<1>6. DetailSum(e.pol) = SumOf(w) /\ w = [d \in F |-> w[d]] /\ \A d \in F : w[d] = d.count
  BY DEF DetailSum
<1> HIDE DEF F, h, w
<1>7. Weighed(w, F)
  BY <1>1, <1>6 DEF Weighed
<1>8. Relabelled(w, F, h, X, DetailCount)
  BY <1>3, <1>4, <1>5, <1>6 DEF Relabelled
<1>9. Over(DetailCount, X) = Over(w, F)
  BY <1>7, <1>8, OverRelabel
<1>10. SumOf(w) = Over(w, F)
  BY <1>6 DEF Over
<1> QED
  BY <1>2, <1>6, <1>7, <1>9, <1>10, WeighedInt

LEMMA RestWeighed ==
    ASSUME NEW E \in SUBSET AllEntries
    PROVE  /\ Weighed(EntryDetails, E) /\ Weighed(EntryRest, E)
           /\ \A e \in E : /\ EntryDetails[e] = DetailSum(e.pol)
                           /\ EntryRest[e] = Unattributed(e.pol)
                           /\ EntryFailure[e] <= EntryDetails[e] + EntryRest[e]
<1>1. IsFiniteSet(E)
  BY EntriesWeighed DEF Weighed
<1>2. ASSUME NEW e \in E
      PROVE  /\ EntryDetails[e] \in Nat /\ EntryRest[e] \in Nat
             /\ EntryDetails[e] = DetailSum(e.pol) /\ EntryRest[e] = Unattributed(e.pol)
             /\ EntryFailure[e] <= EntryDetails[e] + EntryRest[e]
  <2>1. e \in AllEntries
    OBVIOUS
  <2>2. DetailSum(e.pol) \in Nat
    BY <2>1, DetailsOfEntry
  <2>3. EntryFailure[e] = e.pol.failure /\ e.pol.failure \in Nat
    BY <2>1, EntryIn, EntriesWeighed DEF AllEntries
  <2>4. EntryDetails[e] = DetailSum(e.pol) /\ EntryRest[e] = Unattributed(e.pol)
    BY <2>1 DEF EntryDetails, EntryRest
  <2> QED
    BY <2>2, <2>3, <2>4 DEF Unattributed
<1> QED
  BY <1>1, <1>2 DEF Weighed

\* The details of entries, entry by entry.
LEMMA DetailsByEntry ==
    ASSUME NEW E \in SUBSET AllEntries
    PROVE  Count(DetailsOf(E)) = Over(EntryDetails, E)
<1> DEFINE X == DetailsOf(E)
           key == [x \in X |-> [rep |-> x.rep, pol |-> x.pol]]
<1>1. X \in SUBSET AllDetails /\ \A x \in X : key[x] \in E
  BY DetailIn
<1>2. ASSUME NEW e \in E PROVE EntryDetails[e] = Over(DetailCount, {x \in X : key[x] = e})
  <2> DEFINE D == {[rep |-> e.rep, pol |-> e.pol, det |-> d] : d \in e.pol.fails}
  <2>1. e \in AllEntries /\ e = [rep |-> e.rep, pol |-> e.pol]
    BY EntryIn DEF AllEntries
  <2>2. D \in SUBSET X /\ \A x \in D : key[x] = e
    BY <2>1 DEF DetailsOf
  <2>3. ASSUME NEW x \in X, key[x] = e PROVE x \in D
    <3>1. x = [rep |-> x.rep, pol |-> x.pol, det |-> x.det] /\ x.det \in x.pol.fails
      BY DetailIn
    <3>2. x.rep = e.rep /\ x.pol = e.pol
      BY <2>3
    <3> QED
      BY <3>1, <3>2
  <2>4. {x \in X : key[x] = e} = D
    BY <2>2, <2>3
  <2>5. EntryDetails[e] = DetailSum(e.pol)
    BY <2>1 DEF EntryDetails
  <2> HIDE DEF X, key
  <2>6. DetailSum(e.pol) = Over(DetailCount, D)
    BY <2>1, DetailsOfEntry
  <2> QED
    BY <2>4, <2>5, <2>6
<1> HIDE DEF X, key
<1>3. Weighed(DetailCount, X)
  BY <1>1, DetailsFinite
<1>4. IsFiniteSet(E)
  BY EntriesWeighed DEF Weighed
<1>5. Grouping(DetailCount, X, key, E, EntryDetails)
  BY <1>1, <1>2, <1>3, <1>4, WeighedInt DEF Grouping
<1>6. Over(EntryDetails, E) = Over(DetailCount, X)
  BY <1>5, OverGroups
<1> QED
  BY <1>1, <1>6, CountOver DEF X

\* A filter that names no host sees every detail of its entries.
LEMMA FailuresOfAll ==
    ASSUME NEW f, IsTlsFilter(f), f.host = AnyValue
    PROVE  FailuresIn(f) = DetailsOf(PoliciesIn(f))
<1>1. f.ip = AnyValue /\ f.type = AnyValue /\ f.sender = AnyValue
  BY DEF IsTlsFilter
<1> QED
  BY <1>1 DEF FailuresIn

LEMMA EntriesListed ==
    ASSUME TlsInv, NEW f, IsTlsFilter(f)
    PROVE  PoliciesIn(f) \in SUBSET Entries(TlsReportsIn([f EXCEPT !.requireDkim = FALSE]))
<1> DEFINE L == TlsReportsIn([f EXCEPT !.requireDkim = FALSE])
<1>1. TlsReportsIn(f) \in SUBSET L
  BY ExclusionIsTold DEF ExclusionTold
<1> HIDE DEF L
<1>2. ASSUME NEW e \in PoliciesIn(f) PROVE e \in Entries(L)
  <2>1. e.rep \in tlsStored /\ e.pol \in e.rep.policies /\ e = [rep |-> e.rep, pol |-> e.pol]
    BY EntryIn DEF TlsInv, PoliciesIn
  <2>2. CountsFor(e.rep, f) /\ f.domain \in {AnyValue, e.pol.domain}
    BY DEF PoliciesIn
  <2>3. e.rep \in L
    BY <1>1, <2>1, <2>2 DEF TlsReportsIn
  <2> QED
    BY <2>1, <2>3 DEF Entries
<1> QED
  BY <1>2 DEF L

\* No failure of a session is left out of both the details and what is told of them.
LEMMA FailuresAreTold ==
    ASSUME TlsInv, NEW f, IsTlsFilter(f), f.host = AnyValue
    PROVE  Count(FailuresIn(f)) + TLSHygiene(f).unattributed >= TLSRate(f).failure
<1> DEFINE E == PoliciesIn(f)
           L == TlsReportsIn([f EXCEPT !.requireDkim = FALSE])
           A == Entries(L)
           S == Sessions(f)
<1>1. E \in SUBSET A /\ E \in SUBSET AllEntries /\ S = SessionsOf(E)
  BY EntriesListed, PoliciesAre
<1>2. L \in SUBSET TlsPool
  BY DEF TlsReportsIn, TlsInv
<1>3. TLSHygiene(f).unattributed = SumOf([e \in A |-> Unattributed(e.pol)])
  BY DEF TLSHygiene
<1>4. Count(FailuresIn(f)) = Count(DetailsOf(E)) /\ TLSRate(f).failure = Tried(S).failure
  BY FailuresOfAll DEF TLSRate
<1> HIDE DEF E, L, A, S
<1>5. A \in SUBSET AllEntries
  BY <1>2, EntriesFinite DEF A
<1>6. Weighed(EntryRest, A) /\ \A e \in A : EntryRest[e] = Unattributed(e.pol)
  BY <1>5, RestWeighed
<1>7. TLSHygiene(f).unattributed = Over(EntryRest, A)
  <2>1. [e \in A |-> Unattributed(e.pol)] = [e \in A |-> EntryRest[e]]
    BY <1>6
  <2> QED
    BY <1>3, <2>1 DEF Over
<1>8. /\ Over(EntryRest, E) <= Over(EntryRest, A)
      /\ Over(EntryRest, E) \in Nat /\ Over(EntryRest, A) \in Nat
  BY <1>1, <1>6, WeighedSubset
<1>9. Count(FailuresIn(f)) = Over(EntryDetails, E)
  BY <1>1, <1>4, DetailsByEntry
<1>10. TLSRate(f).failure <= Over(EntryFailure, E)
  BY <1>1, <1>4, SessionsWithinEntries
<1> DEFINE both == [e \in E |-> EntryDetails[e] + EntryRest[e]]
<1>11. /\ Weighed(EntryDetails, E) /\ Weighed(EntryRest, E) /\ Weighed(EntryFailure, E)
       /\ \A e \in E : EntryFailure[e] <= EntryDetails[e] + EntryRest[e]
  BY <1>1, RestWeighed, EntriesWeighed
<1>12. IsFiniteSet(E) /\ \A e \in E : /\ EntryDetails[e] \in Int /\ EntryRest[e] \in Int
                                      /\ EntryFailure[e] \in Int
  BY <1>11 DEF Weighed
<1>13. \A e \in E : /\ both[e] = EntryDetails[e] + EntryRest[e] /\ both[e] \in Int
                    /\ EntryFailure[e] <= both[e]
  BY <1>11, <1>12
<1> HIDE DEF both
<1>14. Over(both, E) = Over(EntryDetails, E) + Over(EntryRest, E)
  BY <1>12, <1>13, OverSum
<1>15. Over(EntryFailure, E) <= Over(both, E)
  BY <1>12, <1>13, OverMono
<1>16. TLSRate(f).failure \in Int /\ Over(EntryFailure, E) \in Int /\ Over(EntryDetails, E) \in Int
  <2>1. S \in SUBSET SessionsOf(E)
    BY <1>1
  <2>2. Tried(S).failure \in Nat
    BY <1>1, <2>1, TriedOver
  <2> QED
    BY <1>4, <1>11, <2>2, WeighedInt
<1> QED
  BY <1>7, <1>8, <1>9, <1>10, <1>14, <1>15, <1>16

LEMMA ObservationsAgree ==
    ASSUME TlsInv, NEW f, IsTlsFilter(f)
    PROVE  ObservationsAddUp(f)
<1>1. /\ TLSFailureBreakdown(f).total = Count(FailuresIn(f))
      /\ GroupSum(TLSFailureBreakdown(f).groups) = Count(FailuresIn(f))
  BY TypesAddUp
<1>2. \A n \in {1, 50} : \A T \in TLSSenders(f, n) :
         /\ GroupSum(T.byNetwork) = GroupSum(T.byIP) /\ GroupSum(T.byOrg) = GroupSum(T.byIP)
         /\ GroupSum(T.byIP) + T.unspecifiedIP <= Count(FailuresIn(f))
         /\ Cardinality(DOMAIN T.byIP) < n =>
               GroupSum(T.byIP) + T.unspecifiedIP = Count(FailuresIn(f))
  <2>1. 1 \in Nat /\ 50 \in Nat
    OBVIOUS
  <2> QED
    BY <2>1, SendersAddUp
<1>3. f.host = AnyValue =>
         Count(FailuresIn(f)) + TLSHygiene(f).unattributed >= TLSRate(f).failure
  BY FailuresAreTold
<1> QED
  BY <1>1, <1>2, <1>3, ReceiversAddUp, ReasonsAddUp, IncidentsTold, Zenon DEF ObservationsAddUp

-----------------------------------------------------------------------------
(* The inductive invariant, and no session twice or left out                *)

\* Each step stores TLS reports of the pool, and time does not go back.
LEMMA TlsInvStep ==
    ASSUME TlsInv, [StatsNext]_statsVars
    PROVE  TlsInv'
<1>1. ASSUME UNCHANGED tlsVars, now' \in {now, now + 1} PROVE TlsInv'
  <2>1. FirstNow \in Int
    BY RowsAssumption
  <2> QED
    BY <1>1, <2>1 DEF tlsVars, TlsInv
<1>2. ASSUME RowsNext PROVE now' \in {now, now + 1}
  BY <1>2 DEF RowsNext, ImportReport, LabelSource, ExpectSelector, LocateSource, CacheSpf,
              ClearDNSCache, ManageDomains, DayPasses
<1>3. ASSUME TlsNext PROVE TlsInv'
  <2>1. ASSUME NEW r \in TlsPool, ImportTlsReport(r) PROVE TlsInv'
    BY <2>1 DEF ImportTlsReport, rowVars, TlsInv
  <2>2. ASSUME NEW d, NEW s, Snapshot(d, s) PROVE TlsInv'
    BY <2>2 DEF Snapshot, rowVars, TlsInv
  <2>3. CASE DayPasses /\ UNCHANGED tlsVars
    BY <1>1, <2>3 DEF DayPasses
  <2> QED
    BY <1>3, <2>1, <2>2, <2>3 DEF TlsNext
<1>4. CASE UNCHANGED statsVars
  BY <1>1, <1>4 DEF statsVars, rowVars
<1>5. CASE StatsNext
  <2>1. CASE RowsNext /\ UNCHANGED tlsVars
    BY <1>1, <1>2, <2>1
  <2>2. CASE DayPasses /\ UNCHANGED tlsVars
    BY <1>1, <2>2 DEF DayPasses
  <2>3. CASE TlsNext
    BY <1>3, <2>3
  <2>4. CASE UNCHANGED <<rowVars, tlsVars>>
    BY <1>1, <2>4 DEF rowVars
  <2> QED
    BY <1>5, <2>1, <2>2, <2>3, <2>4 DEF StatsNext
<1> QED
  BY <1>4, <1>5

\* The stored TLS reports are among those that may be imported.
LEMMA TlsKept == StatsSpec => []TlsInv
<1>1. StatsInit => TlsInv
  <2> SUFFICES ASSUME StatsInit PROVE TlsInv
    OBVIOUS
  <2>1. now = FirstNow
    BY DEF StatsInit, RowsInit
  <2>2. tlsStored = {}
    BY DEF StatsInit, TlsInit
  <2>3. FirstNow \in Int
    BY RowsAssumption
  <2> QED
    BY <2>1, <2>2, <2>3 DEF TlsInv
<1>2. TlsInv /\ [StatsNext]_statsVars => TlsInv'
  BY TlsInvStep
<1> QED
  BY <1>1, <1>2, PTL DEF StatsSpec

\* The part of TrafficAccountedFor about TLS reports, for every pool of reports and
\* every filter: each view of sessions counts a session once, the pages and the summary
\* agree, what is kept out for its signature is told, and the views of failures split the
\* same observations (stats_tls.go, stats_tls_failures.go, tlsrpt.go).
THEOREM SessionsAreAccountedFor == StatsSpec => []SessionsAccountedFor
<1>1. TlsInv => SessionsAccountedFor
  <2> SUFFICES ASSUME TlsInv, NEW f \in TlsScopes
               PROVE  /\ SessionsAddUp(f) /\ SummariesAgree(f)
                      /\ ExclusionTold(f) /\ ObservationsAddUp(f)
    BY DEF SessionsAccountedFor
  <2>1. IsTlsFilter(f)
    BY TlsScopeIsFilter
  <2> QED
    BY <2>1, SessionsAgree, SummariesMatch, ExclusionIsTold, ObservationsAgree
<1> QED
  BY <1>1, TlsKept, PTL

-----------------------------------------------------------------------------
(* BIMI: the assertions of reports, their errors and what a filter reads    *)


AllAssertions == UNION {AssertionsOf(r) : r \in Pool}
AllErrors == ErrorsOf(AllAssertions)
ErrorCount == [e \in AllErrors |-> e.count]

\* An assertion of a report, and what an import may rely on.
SoundAssertion(s) ==
    /\ s.evidence \in Int
    /\ Numbered(s.errors)
    /\ \A n \in DOMAIN s.errors : s.errors[n].raw # << >> => s.errors[n].raw[1] \in Int

LEMMA PlaceFacts ==
    ASSUME NEW r \in Pool, NEW p \in AssertionPlaces(r)
    PROVE  /\ p[1] \in DOMAIN r.bimi /\ p[2] \in DOMAIN r.bimi[p[1]].assertions
           /\ p = <<p[1], p[2]>>
           /\ SoundAssertion(AssertionAt(r, p))
<1>1. PICK i \in DOMAIN r.bimi : \E k \in DOMAIN r.bimi[i].assertions : p = <<i, k>>
  BY DEF AssertionPlaces
<1>2. PICK k \in DOMAIN r.bimi[i].assertions : p = <<i, k>>
  BY <1>1
<1>3. p[1] = i /\ p[2] = k
  BY <1>2
<1> QED
  BY <1>1, <1>2, <1>3, BimiRowsAssumption DEF AssertionAt, SoundAssertion

LEMMA PlacesFinite ==
    ASSUME NEW r \in Pool
    PROVE  /\ IsFiniteSet(DOMAIN r.bimi)
           /\ IsFiniteSet(AssertionPlaces(r)) /\ IsFiniteSet(ErrorPlaces(r))
<1>1. IsFiniteSet(DOMAIN r.bimi)
  <2>1. PICK n \in Nat : DOMAIN r.bimi = 1 .. n
    BY BimiRowsAssumption DEF Numbered
  <2> QED
    BY <2>1, FS_Interval, 1 \in Int, n \in Int, Zenon
<1>2. IsFiniteSet(AssertionPlaces(r))
  <2> DEFINE dom == [i \in DOMAIN r.bimi |-> DOMAIN r.bimi[i].assertions]
  <2>1. \A i \in DOMAIN r.bimi : \E n \in Nat : dom[i] = 1 .. n
    BY BimiRowsAssumption DEF Numbered
  <2>2. AssertionPlaces(r) = UNION {{<<i, k>> : k \in dom[i]} : i \in DOMAIN r.bimi}
    <3>1. ASSUME NEW p \in AssertionPlaces(r)
          PROVE  p \in UNION {{<<i, k>> : k \in dom[i]} : i \in DOMAIN r.bimi}
      <4>1. p[1] \in DOMAIN r.bimi /\ p[2] \in dom[p[1]] /\ p = <<p[1], p[2]>>
        BY PlaceFacts
      <4> HIDE DEF dom
      <4> QED
        BY <4>1
    <3>2. ASSUME NEW i \in DOMAIN r.bimi, NEW k \in dom[i]
          PROVE  <<i, k>> \in AssertionPlaces(r)
      BY DEF AssertionPlaces
    <3> HIDE DEF dom
    <3> QED
      BY <3>1, <3>2
  <2> HIDE DEF dom
  <2> QED
    BY <1>1, <2>1, <2>2, FanoutFinite
<1>3. IsFiniteSet(ErrorPlaces(r))
  <2> DEFINE P == AssertionPlaces(r)
             dom == [p \in P |-> DOMAIN AssertionAt(r, p).errors]
  <2>1. \A p \in P : \E n \in Nat : dom[p] = 1 .. n
    BY PlaceFacts DEF Numbered, SoundAssertion
  <2>2. ErrorPlaces(r) = UNION {{<<p, k>> : k \in dom[p]} : p \in P}
    BY DEF ErrorPlaces
  <2> HIDE DEF dom, P
  <2>3. IsFiniteSet(P)
    BY <1>2 DEF P
  <2> QED
    BY <2>1, <2>2, <2>3, FanoutFinite
<1> QED
  BY <1>1, <1>2, <1>3

LEMMA AssertionIn ==
    ASSUME NEW r \in Pool, NEW s \in AssertionsOf(r)
    PROVE  /\ s.rep = ReportRow(r) /\ s.at \in AssertionPlaces(r)
           /\ s.aligned = Given(r.bimi[s.at[1]].aligned)
           /\ s.l = Given(AssertionAt(r, s.at).l) /\ s.a = Given(AssertionAt(r, s.at).a)
           /\ s.selector = SelectorOf(AssertionAt(r, s.at))
           /\ s.evidence = AssertionAt(r, s.at).evidence
           /\ s.errors = AssertionAt(r, s.at).errors
           /\ SoundAssertion(s)
<1>1. PICK p \in AssertionPlaces(r) :
        s = [rep |-> ReportRow(r), at |-> p, aligned |-> Given(r.bimi[p[1]].aligned),
             selector |-> SelectorOf(AssertionAt(r, p)), l |-> Given(AssertionAt(r, p).l),
             a |-> Given(AssertionAt(r, p).a), evidence |-> AssertionAt(r, p).evidence,
             errors |-> AssertionAt(r, p).errors]
  BY DEF AssertionsOf
<1>2. SoundAssertion(AssertionAt(r, p))
  BY PlaceFacts
<1>3. SoundAssertion(s)
  BY <1>1, <1>2 DEF SoundAssertion
<1> QED
  BY <1>1, <1>3

LEMMA AssertionsFinite ==
    /\ IsFiniteSet(AllAssertions)
    /\ \A s \in AllAssertions : SoundAssertion(s)
    /\ \A s \in AllAssertions : \E r \in Pool : s \in AssertionsOf(r)
<1>1. ASSUME NEW r \in Pool PROVE IsFiniteSet(AssertionsOf(r))
  <2> DEFINE h == [p \in AssertionPlaces(r) |->
                     [rep |-> ReportRow(r), at |-> p, aligned |-> Given(r.bimi[p[1]].aligned),
                      selector |-> SelectorOf(AssertionAt(r, p)), l |-> Given(AssertionAt(r, p).l),
                      a |-> Given(AssertionAt(r, p).a), evidence |-> AssertionAt(r, p).evidence,
                      errors |-> AssertionAt(r, p).errors]]
  <2>1. AssertionsOf(r) = Image(h, AssertionPlaces(r))
    BY DEF AssertionsOf, Image
  <2> HIDE DEF h
  <2> QED
    BY <2>1, PlacesFinite, ImageFinite
<1> DEFINE h == [r \in Pool |-> AssertionsOf(r)]
<1>2. AllAssertions = UNION Image(h, Pool) /\ \A T \in Image(h, Pool) : IsFiniteSet(T)
  BY <1>1 DEF AllAssertions, Image
<1>3. IsFiniteSet(Image(h, Pool))
  BY RowsAssumption, ImageFinite
<1>4. IsFiniteSet(AllAssertions)
  BY <1>2, <1>3, FS_UNION
<1>5. \A s \in AllAssertions : \E r \in Pool : s \in AssertionsOf(r)
  BY DEF AllAssertions
<1> QED
  BY <1>4, <1>5, AssertionIn

LEMMA ErrorIn ==
    ASSUME NEW A \in SUBSET AllAssertions, NEW e \in ErrorsOf(A)
    PROVE  /\ e.asn \in A /\ e.n \in DOMAIN e.asn.errors
           /\ e.element = e.asn.errors[e.n].element /\ e.class = Given(e.asn.errors[e.n].class)
           /\ e.type = e.asn.errors[e.n].type /\ e.count = StoredCount(e.asn.errors[e.n])
           /\ e.count \in Nat
           /\ e \in AllErrors
<1>1. PICK s \in A : \E i \in DOMAIN s.errors :
        e = [asn |-> s, n |-> i, element |-> s.errors[i].element,
             class |-> Given(s.errors[i].class), type |-> s.errors[i].type,
             count |-> StoredCount(s.errors[i])]
  BY DEF ErrorsOf
<1>2. PICK i \in DOMAIN s.errors :
        e = [asn |-> s, n |-> i, element |-> s.errors[i].element,
             class |-> Given(s.errors[i].class), type |-> s.errors[i].type,
             count |-> StoredCount(s.errors[i])]
  BY <1>1
<1>3. SoundAssertion(s) /\ s \in AllAssertions
  BY AssertionsFinite
<1>4. StoredCount(s.errors[i]) \in Nat
  BY <1>3 DEF SoundAssertion, StoredCount, BadCount, NoNumber
<1>5. e \in AllErrors
  BY <1>2, <1>3 DEF AllErrors, ErrorsOf
<1> QED
  BY <1>2, <1>4, <1>5

LEMMA ErrorsFinite ==
    ASSUME NEW E \in SUBSET AllErrors
    PROVE  /\ IsFiniteSet(E) /\ Weighed(ErrorCount, E)
           /\ \A e \in E : e.count \in Nat /\ e.asn \in AllAssertions
<1> DEFINE dom == [s \in AllAssertions |-> DOMAIN s.errors]
           F == UNION {{<<s, i>> : i \in dom[s]} : s \in AllAssertions}
           h == [x \in F |-> [asn |-> x[1], n |-> x[2], element |-> x[1].errors[x[2]].element,
                              class |-> Given(x[1].errors[x[2]].class),
                              type |-> x[1].errors[x[2]].type,
                              count |-> StoredCount(x[1].errors[x[2]])]]
<1>1. IsFiniteSet(F)
  <2>1. \A s \in AllAssertions : \E n \in Nat : dom[s] = 1 .. n
    BY AssertionsFinite DEF SoundAssertion, Numbered
  <2> HIDE DEF dom
  <2> QED
    BY <2>1, AssertionsFinite, FanoutFinite
<1>2. AllErrors \subseteq Image(h, F)
  <2> SUFFICES ASSUME NEW e \in AllErrors PROVE e \in Image(h, F)
    OBVIOUS
  <2>1. PICK s \in AllAssertions : \E i \in DOMAIN s.errors :
          e = [asn |-> s, n |-> i, element |-> s.errors[i].element,
               class |-> Given(s.errors[i].class), type |-> s.errors[i].type,
               count |-> StoredCount(s.errors[i])]
    BY DEF AllErrors, ErrorsOf
  <2>2. PICK i \in DOMAIN s.errors :
          e = [asn |-> s, n |-> i, element |-> s.errors[i].element,
               class |-> Given(s.errors[i].class), type |-> s.errors[i].type,
               count |-> StoredCount(s.errors[i])]
    BY <2>1
  <2>3. <<s, i>> \in F /\ h[<<s, i>>] = e
    BY <2>2
  <2> HIDE DEF F, h
  <2> QED
    BY <2>3 DEF Image
<1> HIDE DEF F, h, dom
<1>3. IsFiniteSet(Image(h, F))
  BY <1>1, ImageFinite
<1>4. IsFiniteSet(AllErrors) /\ IsFiniteSet(E)
  BY <1>2, <1>3, FS_Subset
<1>5. \A e \in E : e.count \in Nat /\ e.asn \in AllAssertions
  BY ErrorIn DEF AllErrors
<1> QED
  BY <1>4, <1>5 DEF Weighed, ErrorCount

LEMMA OccurringOver ==
    ASSUME NEW E \in SUBSET AllErrors
    PROVE  Occurring(E) = Over(ErrorCount, E) /\ Occurring(E) \in Nat
<1>1. [e \in E |-> e.count] = [e \in E |-> ErrorCount[e]]
  BY DEF ErrorCount
<1>2. Occurring(E) = Over(ErrorCount, E)
  BY <1>1 DEF Occurring, Over
<1> QED
  BY <1>2, ErrorsFinite, WeighedInt

\* Errors by a key: what each of the groups K counts makes what all of them count.
LEMMA OccurringGroups ==
    ASSUME NEW E \in SUBSET AllErrors, NEW key, NEW K, IsFiniteSet(K),
           \A e \in E : key[e] \in K,
           NEW g, \A k \in K : g[k] = Occurring({e \in E : key[e] = k})
    PROVE  Over(g, K) = Occurring(E)
<1>1. \A k \in K : {e \in E : key[e] = k} \in SUBSET AllErrors
  OBVIOUS
<1>2. \A k \in K : g[k] = Over(ErrorCount, {e \in E : key[e] = k})
  BY <1>1, OccurringOver
<1>3. IsFiniteSet(E) /\ \A e \in E : ErrorCount[e] \in Int
  BY ErrorsFinite DEF Weighed
<1>4. Grouping(ErrorCount, E, key, K, g)
  BY <1>2, <1>3 DEF Grouping
<1> QED
  BY <1>4, OverGroups, OccurringOver

LEMMA OccurringSplit ==
    ASSUME NEW E \in SUBSET AllErrors, NEW A \in SUBSET E
    PROVE  /\ Occurring(E) = Occurring(A) + Occurring(E \ A)
           /\ Occurring(E) \in Nat /\ Occurring(A) \in Nat /\ Occurring(E \ A) \in Nat
<1> DEFINE B == E \ A
<1>1. A \in SUBSET AllErrors /\ B \in SUBSET AllErrors /\ E = A \cup B /\ A \cap B = {}
  OBVIOUS
<1>2. Weighed(ErrorCount, E)
  BY ErrorsFinite
<1> HIDE DEF B
<1>3. Over(ErrorCount, E) = Over(ErrorCount, A) + Over(ErrorCount, B)
  BY <1>1, <1>2, WeighedSplit
<1>4. /\ Occurring(E) = Occurring(A) + Occurring(B)
      /\ Occurring(E) \in Nat /\ Occurring(A) \in Nat /\ Occurring(B) \in Nat
  BY <1>1, <1>3, OccurringOver
<1> QED
  BY <1>4 DEF B


LEMMA BimiReads ==
    ASSUME StatsInv, NEW f
    PROVE  /\ BimiReportsIn(f) \in SUBSET Pool /\ BimiReportsIn(f) \in SUBSET stored
           /\ IsFiniteSet(BimiReportsIn(f))
           /\ AssertionsIn(f) \in SUBSET AllAssertions /\ IsFiniteSet(AssertionsIn(f))
           /\ BimiErrorsIn(f) \in SUBSET AllErrors
           /\ \A s \in AssertionsIn(f) : \E r \in BimiReportsIn(f) : s \in AssertionsOf(r)
           /\ \A r \in BimiReportsIn(f) : AssertionsOf(r) \in SUBSET AssertionsIn(f)
<1>1. BimiReportsIn(f) \in SUBSET Pool /\ BimiReportsIn(f) \in SUBSET stored
  BY DEF BimiReportsIn, StatsInv
<1>2. IsFiniteSet(BimiReportsIn(f))
  BY <1>1, RowsAssumption, FS_Subset
<1>3. /\ \A s \in AssertionsIn(f) : \E r \in BimiReportsIn(f) : s \in AssertionsOf(r)
      /\ \A r \in BimiReportsIn(f) : AssertionsOf(r) \in SUBSET AssertionsIn(f)
  BY <1>1 DEF AssertionsIn, AssertionRows
<1>4. AssertionsIn(f) \in SUBSET AllAssertions
  BY <1>1, <1>3 DEF AllAssertions
<1>5. IsFiniteSet(AssertionsIn(f))
  BY <1>4, AssertionsFinite, FS_Subset
<1>6. BimiErrorsIn(f) \in SUBSET AllErrors
  BY <1>4, ErrorIn DEF BimiErrorsIn
<1> QED
  BY <1>1, <1>2, <1>3, <1>4, <1>5, <1>6

-----------------------------------------------------------------------------
(* EligibleAgrees                                                           *)


LEMMA SumByDomain ==
    ASSUME NEW J \in SUBSET AllRows, NEW K, IsFiniteSet(K), \A j \in J : j.rep.domain \in K,
           NEW g, g = [d \in K |-> g[d]],
           \A d \in K : g[d] = Messages({j \in J : j.rep.domain = d})
    PROVE  SumOf(g) = Messages(J)
<1> DEFINE key == [j \in J |-> j.rep.domain]
<1>1. \A d \in K : {j \in J : key[j] = d} = {j \in J : j.rep.domain = d}
  OBVIOUS
<1>2. \A j \in J : key[j] \in K
  OBVIOUS
<1> HIDE DEF key
<1>3. RowGroups(J, key, K, g)
  BY <1>1, <1>2 DEF RowGroups
<1>4. Over(g, K) = Messages(J)
  BY <1>3, MessagesGroups
<1> QED
  BY <1>4, SumIsOver

LEMMA DomainsFinite ==
    ASSUME NEW J \in SUBSET AllRows
    PROVE  IsFiniteSet({j.rep.domain : j \in J})
<1> DEFINE key == [j \in J |-> j.rep.domain]
<1>1. Range(key) = {j.rep.domain : j \in J} /\ DOMAIN key = J
  BY DEF Range
<1> HIDE DEF key
<1> QED
  BY <1>1, KeysFinite

\* The lines of GetBIMIEligibleVolume, one by domain, and their sums.
LEMMA EligibleLines ==
    ASSUME StatsInv, NEW f
    PROVE  /\ BimiEligibleVolume(f).total = Messages(Where(f))
           /\ BimiEligibleVolume(f).passed = Messages(Passing(Where(f)))
<1> DEFINE J == Where(f)
           P == Passing(J)
           K == {j.rep.domain : j \in J}
           v == BimiEligibleVolume(f)
           total == [d \in K |-> Messages({j \in J : j.rep.domain = d})]
           passed == [d \in K |-> Messages(Passing({j \in J : j.rep.domain = d}))]
<1>1. v.total = SumOf(total) /\ v.passed = SumOf(passed)
  <2>1. /\ v.total = SumOf([d \in DOMAIN v.domains |-> v.domains[d]["total"]])
        /\ v.passed = SumOf([d \in DOMAIN v.domains |-> v.domains[d]["passed"]])
    BY DEF BimiEligibleVolume
  <2>2. /\ DOMAIN v.domains = K
        /\ \A d \in K : /\ v.domains[d].total = Messages({j \in J : j.rep.domain = d})
                        /\ v.domains[d].passed = Messages(Passing({j \in J : j.rep.domain = d}))
    BY DEF BimiEligibleVolume
  <2>3. /\ [d \in DOMAIN v.domains |-> v.domains[d]["total"]] = total
        /\ [d \in DOMAIN v.domains |-> v.domains[d]["passed"]] = passed
    <3> HIDE DEF v
    <3> QED
      BY <2>2
  <2> QED
    BY <2>1, <2>3
<1>2. J \in SUBSET AllRows /\ P \in SUBSET AllRows
  BY WhereRows DEF Passing
<1>3. IsFiniteSet(K) /\ (\A j \in J : j.rep.domain \in K) /\ \A j \in P : j.rep.domain \in K
  BY <1>2, DomainsFinite DEF Passing
<1>4. \A d \in K : passed[d] = Messages({j \in P : j.rep.domain = d})
  <2> SUFFICES ASSUME NEW d \in K PROVE passed[d] = Messages({j \in P : j.rep.domain = d})
    OBVIOUS
  <2>1. Passing({j \in J : j.rep.domain = d}) = {j \in P : j.rep.domain = d}
    BY DEF Passing
  <2> QED
    BY <2>1
<1>5. /\ total = [d \in K |-> total[d]] /\ passed = [d \in K |-> passed[d]]
      /\ \A d \in K : total[d] = Messages({j \in J : j.rep.domain = d})
  OBVIOUS
<1> HIDE DEF K, P, total, passed, v, J
<1>6. SumOf(total) = Messages(J)
  BY <1>2, <1>3, <1>5, SumByDomain
<1>7. SumOf(passed) = Messages(P)
  BY <1>2, <1>3, <1>4, <1>5, SumByDomain
<1> QED
  BY <1>1, <1>6, <1>7 DEF v, J, P

\* A row is eligible exactly when it passed and its published policy is.
LEMMA EligibleByRow ==
    ASSUME NEW j
    PROVE  EligibleRow(j) <=> j \in Passing({j}) /\ BimiEligible(j.rep.tuple)
<1> DEFINE t == j.rep.tuple
<1>1. /\ ("p" \in Blockers(t)) <=> t.p \notin {"quarantine", "reject"}
      /\ ("sp" \in Blockers(t)) <=> t.sp = "none"
      /\ ("pct" \in Blockers(t)) <=> (t.p = "quarantine" /\ t.pct \notin {NoPct, 100})
      /\ \A x \in Blockers(t) : x \in {"p", "sp", "pct"}
  BY DEF Blockers
<1>2. BimiEligible(t) <=> /\ t.p \in {"quarantine", "reject"} /\ t.sp # "none"
                          /\ ~(t.p = "quarantine" /\ t.pct \notin {NoPct, 100})
  BY <1>1 DEF BimiEligible
<1>3. j \in Passing({j}) <=> (j.row.dkim \/ j.row.spf)
  BY DEF Passing
<1> QED
  BY <1>2, <1>3 DEF EligibleRow

\* The reports that say something of BIMI and have rows are among those that say something.
LEMMA ReportersWithin ==
    ASSUME StatsInv, NEW f
    PROVE  BimiCoverage(f).reportsWith <= BimiHygiene(f).withBimi
<1> DEFINE W == {j \in Where(f) : j.rep.hasBimi}
           R == {r \in BimiReportsIn(f) : r.hasBimi}
           ids == {j.rep.id : j \in W}
           idOf == [r \in R |-> r.id]
<1>1. BimiCoverage(f).reportsWith = Cardinality(ids)
  BY DEF BimiCoverage
<1>2. BimiHygiene(f).withBimi = Cardinality(R)
  BY DEF BimiHygiene
<1>3. IsFiniteSet(R)
  BY BimiReads, FS_Subset
<1>4. ids \in SUBSET Image(idOf, R)
  <2> SUFFICES ASSUME NEW j \in W PROVE j.rep.id \in Image(idOf, R)
    OBVIOUS
  <2>1. j \in JoinOf(stored) /\ Scoped(j, f) /\ InWindow(j.rep, f)
    BY DEF Where, WhereNoTime
  <2>2. j.rep \in stored /\ f.domain \in {AnyValue, j.rep.domain}
    BY <2>1, RowIn DEF Scoped, StatsInv
  <2>3. j.rep \in R /\ idOf[j.rep] = j.rep.id
    BY <2>1, <2>2 DEF BimiReportsIn
  <2> HIDE DEF R, idOf
  <2> QED
    BY <2>3 DEF Image
<1> HIDE DEF ids, idOf, R
<1>5. /\ IsFiniteSet(Image(idOf, R)) /\ Cardinality(Image(idOf, R)) <= Cardinality(R)
  BY <1>3, ImageFinite
<1>6. IsFiniteSet(ids) /\ Cardinality(ids) <= Cardinality(Image(idOf, R))
  BY <1>4, <1>5, FS_Subset
<1>7. Cardinality(ids) \in Nat /\ Cardinality(Image(idOf, R)) \in Nat /\ Cardinality(R) \in Nat
  BY <1>3, <1>5, <1>6, FS_CardinalityType
<1> QED
  BY <1>1, <1>2, <1>5, <1>6, <1>7

LEMMA EligibleMatches ==
    ASSUME StatsInv, IsFiniteSet(managed), NEW f
    PROVE  EligibleAgrees(f)
<1> DEFINE J == Where(f)
           totals == DashboardStats(f).totals
           scope == BimiScope(f)
           K == {j.rep.domain : j \in J} \cup managed
<1>1. totals.messages = Messages(J) /\ totals.passed = Messages(Passing(J))
  BY DEF DashboardStats, Totals
<1>2. J \in SUBSET AllRows
  BY WhereRows
<1>3. /\ BimiCoverage(f).total = Messages(J)
      /\ BimiCoverage(f).covered = Messages({j \in J : j.rep.hasBimi})
  BY DEF BimiCoverage
<1>4. Messages({j \in J : j.rep.hasBimi}) <= Messages(J)
  <2>1. {j \in J : j.rep.hasBimi} \in SUBSET J
    OBVIOUS
  <2> HIDE DEF J
  <2> QED
    BY <1>2, <2>1, MessagesSubset
<1>5. SumOf(scope) = Messages(J)
  <2>1. IsFiniteSet(K) /\ \A j \in J : j.rep.domain \in K
    BY <1>2, DomainsFinite, FS_Union
  <2>2. scope = [d \in K |-> scope[d]] /\ \A d \in K : scope[d] = Messages({j \in J : j.rep.domain = d})
    BY DEF BimiScope
  <2> HIDE DEF J, K, scope
  <2> QED
    BY <1>2, <2>1, <2>2, SumByDomain
<1>6. /\ BimiEligibleVolume(f).total = totals.messages
      /\ BimiEligibleVolume(f).passed = totals.passed
  BY <1>1, EligibleLines
<1>7. \A j \in J : EligibleRow(j) <=> j \in Passing({j}) /\ BimiEligible(j.rep.tuple)
  BY EligibleByRow
<1> HIDE DEF totals
<1>8. /\ BimiCoverage(f).total = totals.messages
      /\ BimiCoverage(f).covered <= BimiCoverage(f).total
      /\ SumOf(scope) = totals.messages
  BY <1>1, <1>3, <1>4, <1>5
<1> QED
  BY <1>6, <1>7, <1>8, ReportersWithin DEF EligibleAgrees, totals

-----------------------------------------------------------------------------
(* BimiErrorsAddUp: error lines and shares                                  *)


\* The tuple an error is listed under.
ErrorKey(e) == [org |-> e.asn.rep.org, domain |-> e.asn.aligned, selector |-> e.asn.selector,
                element |-> e.element, class |-> e.class, type |-> e.type]

LEMMA ErrorStatsAre ==
    ASSUME NEW E
    PROVE  /\ DOMAIN BimiErrorStats(E) = {ErrorKey(e) : e \in E}
           /\ \A k \in DOMAIN BimiErrorStats(E) :
                 BimiErrorStats(E)[k] = [count |-> Occurring({e \in E : ErrorKey(e) = k}),
                                         seen |-> SeenIn({e.asn.rep : e \in {x \in E : ErrorKey(x) = k}})]
<1> DEFINE key == [e \in E |-> ErrorKey(e)]
<1>1. /\ DOMAIN BimiErrorStats(E) = Range(key)
      /\ \A k \in Range(key) :
            BimiErrorStats(E)[k] = [count |-> Occurring({e \in E : key[e] = k}),
                                    seen |-> SeenIn({e.asn.rep : e \in {x \in E : key[x] = k}})]
  BY DEF BimiErrorStats, ErrorKey
<1>2. Range(key) = {ErrorKey(e) : e \in E}
  BY DEF Range
<1>3. \A k : {e \in E : key[e] = k} = {e \in E : ErrorKey(e) = k}
  OBVIOUS
<1> QED
  BY <1>1, <1>2, <1>3

LEMMA ErrorKeysFinite ==
    ASSUME NEW E \in SUBSET AllErrors
    PROVE  IsFiniteSet({ErrorKey(e) : e \in E})
<1> DEFINE key == [e \in E |-> ErrorKey(e)]
<1>1. {ErrorKey(e) : e \in E} = Image(key, E)
  BY DEF Image
<1> HIDE DEF key
<1> QED
  BY <1>1, ErrorsFinite, ImageFinite

\* The lines of some of the tuples, and the errors under them.
LEMMA LinesCount ==
    ASSUME NEW E \in SUBSET AllErrors, NEW K \in SUBSET DOMAIN BimiErrorStats(E)
    PROVE  SumOf([k \in K |-> BimiErrorStats(E)[k].count])
             = Occurring({e \in E : ErrorKey(e) \in K})
<1> DEFINE X == {e \in E : ErrorKey(e) \in K}
           key == [e \in X |-> ErrorKey(e)]
           g == [k \in K |-> BimiErrorStats(E)[k].count]
<1>1. IsFiniteSet(K)
  BY ErrorStatsAre, ErrorKeysFinite, FS_Subset
<1>2. \A k \in K : g[k] = Occurring({e \in X : key[e] = k})
  <2> SUFFICES ASSUME NEW k \in K PROVE g[k] = Occurring({e \in X : key[e] = k})
    OBVIOUS
  <2>1. BimiErrorStats(E)[k].count = Occurring({e \in E : ErrorKey(e) = k})
    <3>1. k \in DOMAIN BimiErrorStats(E)
      OBVIOUS
    <3> HIDE DEF X, key, g
    <3>2. BimiErrorStats(E)[k] = [count |-> Occurring({e \in E : ErrorKey(e) = k}),
                                  seen |-> SeenIn({e.asn.rep : e \in {x \in E : ErrorKey(x) = k}})]
      BY <3>1, ErrorStatsAre, Zenon
    <3> QED
      BY <3>2
  <2>2. {e \in X : key[e] = k} = {e \in E : ErrorKey(e) = k}
    OBVIOUS
  <2> QED
    BY <2>1, <2>2
<1>3. X \in SUBSET AllErrors /\ (\A e \in X : key[e] \in K) /\ g = [k \in K |-> g[k]]
  OBVIOUS
<1> HIDE DEF X, key, g
<1>4. Over(g, K) = Occurring(X)
  BY <1>1, <1>2, <1>3, OccurringGroups
<1>5. SumOf(g) = Over(g, K)
  BY <1>3, SumIsOver
<1> QED
  BY <1>4, <1>5 DEF g, X

\* A split of the errors by a key, with those of one class told apart.
Shares(E, key, split) ==
    /\ E \in SUBSET AllErrors /\ DOMAIN key = E /\ DOMAIN split = Range(key)
    /\ \A k \in DOMAIN split :
          split[k] = [total |-> Occurring({e \in E : key[e] = k}),
                      permanent |-> Occurring({e \in {x \in E : key[x] = k} : e.class = "perm"})]

LEMMA SharesAddUp ==
    ASSUME NEW E, NEW key, NEW split, Shares(E, key, split)
    PROVE  /\ SumOf([k \in DOMAIN split |-> split[k]["total"]]) = Occurring(E)
           /\ SumOf([k \in DOMAIN split |-> split[k]["permanent"]])
                = Occurring({e \in E : e.class = "perm"})
<1> DEFINE K == DOMAIN split
           P == {e \in E : e.class = "perm"}
           t == [k \in K |-> split[k]["total"]]
           p == [k \in K |-> split[k]["permanent"]]
<1>0. E \in SUBSET AllErrors /\ DOMAIN key = E /\ DOMAIN split = Range(key)
  BY DEF Shares
<1>1. IsFiniteSet(K) /\ \A e \in E : key[e] \in K
  <2>1. K = Image(key, E)
    BY <1>0 DEF Range, Image
  <2>2. \A e \in E : key[e] \in Image(key, E)
    BY DEF Image
  <2>3. IsFiniteSet(E)
    BY <1>0, ErrorsFinite
  <2> HIDE DEF K
  <2>4. IsFiniteSet(Image(key, E))
    BY <2>3, ImageFinite
  <2> QED
    BY <2>1, <2>2, <2>4
<1>2. \A k \in K : t[k] = Occurring({e \in E : key[e] = k})
  <2> SUFFICES ASSUME NEW k \in K PROVE t[k] = Occurring({e \in E : key[e] = k})
    OBVIOUS
  <2>1. split[k] = [total |-> Occurring({e \in E : key[e] = k}),
                    permanent |-> Occurring({e \in {x \in E : key[x] = k} : e.class = "perm"})]
    BY Zenon DEF Shares
  <2>2. t[k] = split[k]["total"]
    OBVIOUS
  <2> HIDE DEF t
  <2> QED
    BY <2>1, <2>2
<1>3. \A k \in K : p[k] = Occurring({e \in P : key[e] = k})
  <2> SUFFICES ASSUME NEW k \in K PROVE p[k] = Occurring({e \in P : key[e] = k})
    OBVIOUS
  <2>1. {e \in {x \in E : key[x] = k} : e.class = "perm"} = {e \in P : key[e] = k}
    OBVIOUS
  <2>2. split[k] = [total |-> Occurring({e \in E : key[e] = k}),
                    permanent |-> Occurring({e \in {x \in E : key[x] = k} : e.class = "perm"})]
    BY Zenon DEF Shares
  <2>3. p[k] = split[k]["permanent"]
    OBVIOUS
  <2> HIDE DEF p, P
  <2> QED
    BY <2>1, <2>2, <2>3
<1>4. /\ P \in SUBSET AllErrors /\ \A e \in P : key[e] \in K
      /\ t = [k \in K |-> t[k]] /\ p = [k \in K |-> p[k]]
  BY <1>0, <1>1
<1> HIDE DEF K, P, t, p
<1>5. Over(t, K) = Occurring(E)
  BY <1>0, <1>1, <1>2, OccurringGroups
<1>6. Over(p, K) = Occurring(P)
  BY <1>1, <1>3, <1>4, OccurringGroups
<1>7. SumOf(t) = Over(t, K) /\ SumOf(p) = Over(p, K)
  BY <1>4, SumIsOver
<1> QED
  BY <1>5, <1>6, <1>7 DEF K, P, t, p

\* GetBIMIPermanentShare, its buckets and its splits.
LEMMA ShareAddsUp ==
    ASSUME StatsInv, NEW f
    PROVE  LET share == BimiPermanentShare(f)
               errors == BimiErrors(f)
               within(split, x) == SumOf([k \in DOMAIN split |-> split[k][x]])
           IN  /\ share.total = Occurring(BimiErrorsIn(f))
               /\ within(share.byOrg, "total") = share.total
               /\ within(share.byElement, "total") = share.total
               /\ within(share.byOrg, "permanent") = share.permanent
               /\ within(share.byElement, "permanent") = share.permanent
               /\ share.unknown = SumOf([k \in {x \in DOMAIN errors : x.class \notin {"perm", "temp"}} |->
                                            errors[k].count])
<1> DEFINE share == BimiPermanentShare(f)
           errors == BimiErrors(f)
           E == BimiErrorsIn(f)
           P == {e \in E : e.class = "perm"}
           T == {e \in E : e.class = "temp"}
           org == [e \in E |-> e.asn.rep.org]
           element == [e \in E |-> e.element]
           K == {x \in DOMAIN errors : x.class \notin {"perm", "temp"}}
<1>1. E \in SUBSET AllErrors
  BY BimiReads
<1>2. /\ share.total = Occurring(E) /\ share.permanent = Occurring(P)
      /\ share.unknown = Occurring(E) - Occurring(P) - Occurring(T)
  BY DEF BimiPermanentShare
<1>3. /\ DOMAIN share.byOrg = Range(org) /\ DOMAIN org = E
      /\ \A k \in DOMAIN share.byOrg :
            share.byOrg[k] = [total |-> Occurring({e \in E : org[e] = k}),
                              permanent |-> Occurring({e \in {x \in E : org[x] = k} : e.class = "perm"})]
  BY DEF BimiPermanentShare
<1>4. /\ DOMAIN share.byElement = Range(element) /\ DOMAIN element = E
      /\ \A k \in DOMAIN share.byElement :
            share.byElement[k] = [total |-> Occurring({e \in E : element[e] = k}),
                                  permanent |-> Occurring({e \in {x \in E : element[x] = k} : e.class = "perm"})]
  BY DEF BimiPermanentShare
<1>5. /\ SumOf([k \in DOMAIN share.byOrg |-> share.byOrg[k]["total"]]) = Occurring(E)
      /\ SumOf([k \in DOMAIN share.byOrg |-> share.byOrg[k]["permanent"]]) = Occurring(P)
  <2> DEFINE split == share.byOrg
  <2>1. Shares(E, org, split)
    BY <1>1, <1>3 DEF Shares
  <2> HIDE DEF share, org, E, split
  <2>2. /\ SumOf([k \in DOMAIN split |-> split[k]["total"]]) = Occurring(E)
        /\ SumOf([k \in DOMAIN split |-> split[k]["permanent"]]) = Occurring({e \in E : e.class = "perm"})
    BY <2>1, SharesAddUp
  <2> QED
    BY <2>2 DEF split
<1>6. /\ SumOf([k \in DOMAIN share.byElement |-> share.byElement[k]["total"]]) = Occurring(E)
      /\ SumOf([k \in DOMAIN share.byElement |-> share.byElement[k]["permanent"]]) = Occurring(P)
  <2> DEFINE split == share.byElement
  <2>1. Shares(E, element, split)
    BY <1>1, <1>4 DEF Shares
  <2> HIDE DEF share, element, E, split
  <2>2. /\ SumOf([k \in DOMAIN split |-> split[k]["total"]]) = Occurring(E)
        /\ SumOf([k \in DOMAIN split |-> split[k]["permanent"]]) = Occurring({e \in E : e.class = "perm"})
    BY <2>1, SharesAddUp
  <2> QED
    BY <2>2 DEF split
<1>7. Occurring(E) - Occurring(P) - Occurring(T) = Occurring((E \ P) \ T)
  <2>1. P \in SUBSET E /\ E \ P \in SUBSET AllErrors /\ T \in SUBSET (E \ P)
    BY <1>1
  <2> HIDE DEF E, P, T
  <2>2. /\ Occurring(E) = Occurring(P) + Occurring(E \ P)
        /\ Occurring(P) \in Nat /\ Occurring(E \ P) \in Nat
    BY <1>1, <2>1, OccurringSplit
  <2>3. /\ Occurring(E \ P) = Occurring(T) + Occurring((E \ P) \ T)
        /\ Occurring(T) \in Nat /\ Occurring((E \ P) \ T) \in Nat
    BY <2>1, OccurringSplit
  <2> QED
    BY <2>2, <2>3
<1>8. SumOf([k \in K |-> errors[k].count]) = Occurring((E \ P) \ T)
  <2>1. errors = BimiErrorStats(E)
    BY DEF BimiErrors
  <2>2. DOMAIN errors = {ErrorKey(e) : e \in E}
    BY <2>1, ErrorStatsAre
  <2>3. {e \in E : ErrorKey(e) \in K} = (E \ P) \ T
    <3>1. \A e \in E : ErrorKey(e).class = e.class /\ ErrorKey(e) \in DOMAIN errors
      BY <2>2 DEF ErrorKey
    <3> HIDE DEF E, errors
    <3> QED
      BY <3>1
  <2>4. K \in SUBSET DOMAIN BimiErrorStats(E)
    BY <2>1
  <2>5. SumOf([k \in K |-> BimiErrorStats(E)[k].count]) = Occurring({e \in E : ErrorKey(e) \in K})
    <3> HIDE DEF E, K
    <3> QED
      BY <1>1, <2>4, LinesCount
  <2> QED
    BY <2>1, <2>3, <2>5
<1> HIDE DEF share, errors, E, P, T, org, element
<1>9. share.unknown = SumOf([k \in K |-> errors[k].count])
  BY <1>2, <1>7, <1>8
<1> QED
  BY <1>2, <1>5, <1>6, <1>9 DEF share, errors, E

-----------------------------------------------------------------------------
(* BimiErrorsAddUp: configurations and evaluators                           *)

\* The errors of some of the assertions.
LEMMA ErrorsOfSome ==
    ASSUME NEW A \in SUBSET AllAssertions, NEW B \in SUBSET A
    PROVE  ErrorsOf(B) = {e \in ErrorsOf(A) : e.asn \in B}
<1>1. ASSUME NEW e \in ErrorsOf(B) PROVE e \in ErrorsOf(A) /\ e.asn \in B
  <2>1. e.asn \in B
    BY ErrorIn
  <2>2. e \in ErrorsOf(A)
    BY DEF ErrorsOf
  <2> QED
    BY <2>1, <2>2
<1>2. ASSUME NEW e \in ErrorsOf(A), e.asn \in B PROVE e \in ErrorsOf(B)
  <2>1. PICK s \in A : e \in {[asn |-> s, n |-> i, element |-> s.errors[i].element,
                               class |-> Given(s.errors[i].class), type |-> s.errors[i].type,
                               count |-> StoredCount(s.errors[i])] : i \in DOMAIN s.errors}
    BY DEF ErrorsOf
  <2>2. e.asn = s
    BY <2>1
  <2> QED
    BY <1>2, <2>1, <2>2 DEF ErrorsOf
<1> QED
  BY <1>1, <1>2

ErrorGroups(E, key, K, g) ==
    /\ E \in SUBSET AllErrors /\ IsFiniteSet(K) /\ \A e \in E : key[e] \in K
    /\ \A k \in K : g[k] = Occurring({e \in E : key[e] = k})

LEMMA ErrorGroupsAddUp ==
    ASSUME NEW E, NEW key, NEW K, NEW g, ErrorGroups(E, key, K, g)
    PROVE  Over(g, K) = Occurring(E)
BY OccurringGroups DEF ErrorGroups

\* What one evaluator said of one configuration.
ErrorsBy(f, c, o) == ErrorsOf({s \in AssertionsIn(f) : Config(s) = c /\ s.rep.org = o})
OrgsOf(f, c) == {s.rep.org : s \in {x \in AssertionsIn(f) : Config(x) = c}}
ConfigsIn(f) == {Config(s) : s \in AssertionsIn(f)}

LEMMA DivergenceIs ==
    ASSUME NEW f
    PROVE  /\ DOMAIN BimiDivergence(f) = ConfigsIn(f)
           /\ \A c \in ConfigsIn(f) :
                 /\ BimiDivergence(f)[c].count = [o \in OrgsOf(f, c) |-> Occurring(ErrorsBy(f, c, o))]
                 /\ DOMAIN BimiDivergence(f)[c].errors = OrgsOf(f, c)
BY DEF BimiDivergence, ConfigsIn, OrgsOf, ErrorsBy

\* GetBIMIDivergence counts each error once.
LEMMA DivergenceAddsUp ==
    ASSUME StatsInv, NEW f
    PROVE  LET divergence == BimiDivergence(f)
           IN  SumOf([c \in DOMAIN divergence |-> SumOf(divergence[c].count)])
                 = Occurring(BimiErrorsIn(f))
<1> DEFINE A == AssertionsIn(f)
           E == BimiErrorsIn(f)
           C == ConfigsIn(f)
           divergence == BimiDivergence(f)
           config == [e \in E |-> Config(e.asn)]
           of(c) == {e \in E : config[e] = c}
           g == [c \in C |-> SumOf(divergence[c].count)]
<1>1. A \in SUBSET AllAssertions /\ IsFiniteSet(A) /\ E \in SUBSET AllErrors
  BY BimiReads
<1>2. \A e \in E : e.asn \in A
  BY <1>1, ErrorIn DEF BimiErrorsIn
<1>3. IsFiniteSet(C) /\ \A e \in E : config[e] \in C
  <2> DEFINE h == [s \in A |-> Config(s)]
  <2>1. C = Image(h, A)
    BY DEF ConfigsIn, Image
  <2>2. \A e \in E : config[e] \in C
    BY <1>2 DEF ConfigsIn
  <2> HIDE DEF h
  <2> QED
    BY <1>1, <2>1, <2>2, ImageFinite
<1>4. ASSUME NEW c \in C PROVE g[c] = Occurring(of(c))
  <2> DEFINE X == of(c)
             O == OrgsOf(f, c)
             org == [e \in X |-> e.asn.rep.org]
             n == [o \in O |-> Occurring(ErrorsBy(f, c, o))]
  <2>1. g[c] = SumOf(n)
    BY DivergenceIs
  <2>2. X \in SUBSET AllErrors
    BY <1>1
  <2>3. IsFiniteSet(O)
    <3> DEFINE B == {x \in A : Config(x) = c}
               h == [s \in B |-> s.rep.org]
    <3>1. IsFiniteSet(B) /\ O = Image(h, B)
      BY <1>1, FS_Subset DEF OrgsOf, Image
    <3> HIDE DEF h, B
    <3> QED
      BY <3>1, ImageFinite
  <2>4. \A e \in X : org[e] \in O
    BY <1>2 DEF OrgsOf
  <2>5. ASSUME NEW o \in O PROVE ErrorsBy(f, c, o) = {e \in X : org[e] = o}
    <3> DEFINE B == {s \in A : Config(s) = c /\ s.rep.org = o}
    <3>1. B \in SUBSET A /\ ErrorsBy(f, c, o) = ErrorsOf(B) /\ E = ErrorsOf(A)
      BY DEF ErrorsBy, BimiErrorsIn
    <3>2. {e \in E : e.asn \in B} = {e \in X : org[e] = o}
      BY <1>2
    <3> HIDE DEF A, B, E
    <3>3. ErrorsOf(B) = {e \in ErrorsOf(A) : e.asn \in B}
      BY <1>1, <3>1, ErrorsOfSome
    <3> QED
      BY <3>1, <3>2, <3>3
  <2>6. \A o \in O : n[o] = Occurring({e \in X : org[e] = o})
    BY <2>5
  <2>7. n = [o \in O |-> n[o]]
    OBVIOUS
  <2> HIDE DEF g, n, X, O, org
  <2>8. ErrorGroups(X, org, O, n)
    BY <2>2, <2>3, <2>4, <2>6 DEF ErrorGroups
  <2>9. Over(n, O) = Occurring(X)
    BY <2>8, ErrorGroupsAddUp
  <2> QED
    BY <2>1, <2>7, <2>9, SumIsOver DEF X
<1>5. g = [c \in C |-> g[c]] /\ DOMAIN divergence = C
  BY DivergenceIs
<1>6. [c \in DOMAIN divergence |-> SumOf(divergence[c].count)] = g
  BY <1>5
<1> HIDE DEF config, E, C, divergence, g
<1>7. Over(g, C) = Occurring(E)
  <2>1. ErrorGroups(E, config, C, g)
    BY <1>1, <1>3, <1>4 DEF ErrorGroups
  <2> QED
    BY <2>1, ErrorGroupsAddUp
<1>8. SumOf(g) = Over(g, C)
  BY <1>5, SumIsOver
<1> QED
  BY <1>6, <1>7, <1>8 DEF divergence, E

\* A configuration of the divergence table is one of the list, evaluator by evaluator.
LEMMA ConfigsAgree ==
    ASSUME StatsInv, NEW f
    PROVE  LET divergence == BimiDivergence(f)
               reported == DOMAIN BimiReportedConfigs(f)
               configs == {k[2] : k \in reported}
           IN  /\ configs = DOMAIN divergence
               /\ \A c \in configs :
                     DOMAIN divergence[c].errors = {k[1] : k \in {x \in reported : x[2] = c}}
<1> DEFINE A == AssertionsIn(f)
           reported == DOMAIN BimiReportedConfigs(f)
<1>1. reported = {<<s.rep.org, Config(s)>> : s \in A}
  BY DEF BimiReportedConfigs
<1>2. {k[2] : k \in reported} = ConfigsIn(f)
  <2>1. ASSUME NEW k \in reported PROVE k[2] \in ConfigsIn(f)
    BY <1>1 DEF ConfigsIn
  <2>2. ASSUME NEW s \in A PROVE Config(s) \in {k[2] : k \in reported}
    <3> DEFINE k == <<s.rep.org, Config(s)>>
    <3>1. k \in reported /\ k[2] = Config(s)
      BY <1>1
    <3> HIDE DEF k, reported
    <3> QED
      BY <3>1
  <2> HIDE DEF reported
  <2> QED
    BY <2>1, <2>2 DEF ConfigsIn
<1>3. ASSUME NEW c \in ConfigsIn(f)
      PROVE  OrgsOf(f, c) = {k[1] : k \in {x \in reported : x[2] = c}}
  <2>1. ASSUME NEW s \in A, Config(s) = c
        PROVE  s.rep.org \in {k[1] : k \in {x \in reported : x[2] = c}}
    <3> DEFINE k == <<s.rep.org, Config(s)>>
    <3>1. k \in reported /\ k[2] = c /\ k[1] = s.rep.org
      BY <1>1, <2>1
    <3> HIDE DEF k, reported
    <3> QED
      BY <3>1
  <2>2. ASSUME NEW k \in reported, k[2] = c PROVE k[1] \in OrgsOf(f, c)
    <3>1. PICK s \in A : k = <<s.rep.org, Config(s)>>
      BY <1>1
    <3> QED
      BY <2>2, <3>1 DEF OrgsOf
  <2> HIDE DEF reported
  <2> QED
    BY <2>1, <2>2 DEF OrgsOf
<1> HIDE DEF reported
<1> QED
  BY <1>2, <1>3, DivergenceIs DEF reported

\* An evidence date that the freshness table lists belongs to a configuration, and an
\* age is that of a date before the end of the window.
LEMMA FreshnessAgrees ==
    ASSUME StatsInv, NEW f
    PROVE  \A k \in DOMAIN BimiFreshness(f) :
              /\ \E c \in ConfigsIn(f) : c.domain = k[2] /\ c.selector = k[3]
              /\ BimiFreshness(f)[k].age > 0 =>
                    BimiFreshness(f)[k].evaluated < BimiFreshness(f)[k].windowEnd
<1> SUFFICES ASSUME NEW k \in DOMAIN BimiFreshness(f)
             PROVE  /\ \E c \in ConfigsIn(f) : c.domain = k[2] /\ c.selector = k[3]
                    /\ BimiFreshness(f)[k].age > 0 =>
                          BimiFreshness(f)[k].evaluated < BimiFreshness(f)[k].windowEnd
  OBVIOUS
<1> DEFINE A == {s \in AssertionsIn(f) : EvaluatedOn(s) > 0}
           S == {s \in A : <<s.rep.org, s.aligned, s.selector>> = k}
           dates == {EvaluatedOn(s) : s \in S}
           ends == {s.rep.begin + s.rep.hours \div 24 : s \in S}
           evaluated == Greatest(dates)
           windowEnd == Greatest(ends)
<1>1. k \in {<<s.rep.org, s.aligned, s.selector>> : s \in A}
  BY DEF BimiFreshness
<1>2. BimiFreshness(f)[k] = [evaluated |-> evaluated, windowEnd |-> windowEnd,
         age |-> IF windowEnd > evaluated THEN windowEnd - evaluated ELSE 0]
  BY DEF BimiFreshness
<1>3. PICK s \in A : k = <<s.rep.org, s.aligned, s.selector>>
  BY <1>1
<1>4. Config(s) \in ConfigsIn(f) /\ Config(s).domain = k[2] /\ Config(s).selector = k[3]
  BY <1>3 DEF ConfigsIn, Config
<1>5. \A x \in S : EvaluatedOn(x) \in Int /\ x.rep.begin + x.rep.hours \div 24 \in Int
  <2> SUFFICES ASSUME NEW x \in S
               PROVE  EvaluatedOn(x) \in Int /\ x.rep.begin + x.rep.hours \div 24 \in Int
    OBVIOUS
  <2>1. PICK r \in Pool : x \in AssertionsOf(r)
    BY BimiReads
  <2>2. x.rep = ReportRow(r) /\ SoundAssertion(x)
    BY <2>1, AssertionIn
  <2>3. r.begin \in Int /\ r.hours \in Int
    BY RowsAssumption, BimiRowsAssumption
  <2>4. x.rep.begin = r.begin /\ x.rep.hours = r.hours
    BY <2>2 DEF ReportRow
  <2> HIDE DEF S
  <2>5. x.rep.begin + x.rep.hours \div 24 \in Int
    BY <2>3, <2>4
  <2>6. EvaluatedOn(x) \in Int
    BY <2>2 DEF EvaluatedOn, DateUnread, SoundAssertion
  <2> QED
    BY <2>5, <2>6
<1>6. IsFiniteSet(S) /\ S # {}
  <2>1. S \in SUBSET AssertionsIn(f) /\ s \in S
    BY <1>3
  <2> QED
    BY <2>1, BimiReads, FS_Subset
<1>7. evaluated \in Int
  <2> DEFINE h == [x \in S |-> EvaluatedOn(x)]
  <2>1. dates = Image(h, S) /\ dates \in SUBSET Int /\ dates # {}
    BY <1>5, <1>6 DEF Image
  <2> HIDE DEF h, S, dates
  <2>2. IsFiniteSet(dates)
    BY <1>6, <2>1, ImageFinite
  <2> QED
    BY <2>1, <2>2, LeastGreatest
<1>8. windowEnd \in Int
  <2> DEFINE h == [x \in S |-> x.rep.begin + x.rep.hours \div 24]
  <2>1. ends = Image(h, S) /\ ends \in SUBSET Int /\ ends # {}
    BY <1>5, <1>6 DEF Image
  <2> HIDE DEF h, S, ends
  <2>2. IsFiniteSet(ends)
    BY <1>6, <2>1, ImageFinite
  <2> QED
    BY <2>1, <2>2, LeastGreatest
<1> HIDE DEF evaluated, windowEnd, A
<1>9. BimiFreshness(f)[k].age > 0 => BimiFreshness(f)[k].evaluated < BimiFreshness(f)[k].windowEnd
  BY <1>2, <1>7, <1>8
<1> QED
  BY <1>4, <1>9

\* What was declined by policy is listed with all errors, and with the same numbers.
LEMMA RejectionsAgree ==
    ASSUME StatsInv, NEW f, NEW k \in DOMAIN BimiPolicyRejections(f)
    PROVE  BimiPolicyRejections(f)[k] = BimiErrors(f)[k]
<1> DEFINE E == BimiErrorsIn(f)
           P == {e \in E : e.element = "evidence" /\ e.type = "policy"}
<1>1. BimiPolicyRejections(f) = BimiErrorStats(P) /\ BimiErrors(f) = BimiErrorStats(E)
  BY DEF BimiPolicyRejections, BimiErrors
<1>2. k \in {ErrorKey(e) : e \in P}
  BY <1>1, ErrorStatsAre
<1>3. {e \in P : ErrorKey(e) = k} = {e \in E : ErrorKey(e) = k}
  <2>1. k.element = "evidence" /\ k.type = "policy"
    BY <1>2 DEF ErrorKey
  <2> QED
    BY <2>1 DEF ErrorKey
<1>4. k \in {ErrorKey(e) : e \in E}
  BY <1>2
<1> HIDE DEF E, P
<1>5. /\ BimiErrorStats(P)[k] = [count |-> Occurring({e \in P : ErrorKey(e) = k}),
                                 seen |-> SeenIn({e.asn.rep : e \in {x \in P : ErrorKey(x) = k}})]
      /\ BimiErrorStats(E)[k] = [count |-> Occurring({e \in E : ErrorKey(e) = k}),
                                 seen |-> SeenIn({e.asn.rep : e \in {x \in E : ErrorKey(x) = k}})]
  BY <1>2, <1>4, ErrorStatsAre
<1> QED
  BY <1>1, <1>3, <1>5

LEMMA BimiErrorsAgree ==
    ASSUME StatsInv, NEW f
    PROVE  BimiErrorsAddUp(f)
<1> DEFINE E == BimiErrorsIn(f)
           errors == BimiErrors(f)
           K == DOMAIN errors
<1>1. SumOf([k \in K |-> errors[k].count]) = Occurring(E)
  <2>1. E \in SUBSET AllErrors /\ errors = BimiErrorStats(E)
    BY BimiReads DEF BimiErrors
  <2>2. {e \in E : ErrorKey(e) \in K} = E
    BY <2>1, ErrorStatsAre
  <2>3. K \in SUBSET DOMAIN BimiErrorStats(E)
    BY <2>1
  <2> HIDE DEF E, K, errors
  <2>4. SumOf([k \in K |-> BimiErrorStats(E)[k].count]) = Occurring({e \in E : ErrorKey(e) \in K})
    BY <2>1, <2>3, LinesCount
  <2> QED
    BY <2>1, <2>2, <2>4
<1>2. BimiImpressions(f).errors = Occurring(E)
  BY DEF BimiImpressions
<1>3. {k[2] : k \in DOMAIN BimiReportedConfigs(f)} = ConfigsIn(f)
  BY ConfigsAgree, DivergenceIs
<1>4. \A k \in DOMAIN BimiPolicyRejections(f) : BimiPolicyRejections(f)[k] = errors[k]
  BY RejectionsAgree
<1> HIDE DEF E, K, errors
<1> QED
  BY <1>1, <1>2, <1>3, <1>4, ShareAddsUp, DivergenceAddsUp, ConfigsAgree, FreshnessAgrees
     DEF BimiErrorsAddUp, E, K, errors

-----------------------------------------------------------------------------
(* BimiHygieneTold                                                          *)


LEMMA ZeroOver ==
    ASSUME NEW w, NEW S, Weighed(w, S), Over(w, S) = 0, NEW x \in S
    PROVE  w[x] = 0
<1>1. IsFiniteSet(S) /\ \A y \in S : w[y] \in Int
  BY WeighedInt
<1>2. Weighed(w, S \ {x})
  BY <1>1, FS_Subset DEF Weighed
<1>3. Over(w, S \ {x}) \in Nat /\ w[x] \in Nat
  BY <1>2, WeighedInt DEF Weighed
<1>4. Over(w, S) = w[x] + Over(w, S \ {x})
  BY <1>1, OverRemove
<1> QED
  BY <1>3, <1>4

LEMMA PartOfSum ==
    ASSUME NEW w, NEW S, Weighed(w, S), NEW x \in S
    PROVE  w[x] <= Over(w, S)
<1>1. IsFiniteSet(S) /\ \A y \in S : w[y] \in Int
  BY WeighedInt
<1>2. Weighed(w, S \ {x})
  BY <1>1, FS_Subset DEF Weighed
<1>3. Over(w, S \ {x}) \in Nat /\ w[x] \in Nat
  BY <1>2, WeighedInt DEF Weighed
<1>4. Over(w, S) = w[x] + Over(w, S \ {x})
  BY <1>1, OverRemove
<1> QED
  BY <1>3, <1>4

\* A function on 1 .. n is a sequence.
LEMMA ListNumbered ==
    ASSUME NEW n \in Nat, NEW s, s = [k \in 1 .. n |-> s[k]]
    PROVE  Numbered(s) /\ Len(s) = n
<1> DEFINE S == {s[k] : k \in 1 .. n}
<1>1. s \in [1 .. n -> S]
  OBVIOUS
<1>2. s \in Seq(S)
  BY <1>1, SeqDef
<1>3. Len(s) \in Nat /\ DOMAIN s = 1 .. Len(s) /\ DOMAIN s = 1 .. n
  BY <1>2, LenProperties
<1>4. Len(s) = n
  BY <1>2
<1> QED
  BY <1>3, <1>4 DEF Numbered

LEMMA RepeatsFacts ==
    ASSUME NEW s, Numbered(s)
    PROVE  /\ Repeats(s) \in Nat
           /\ Repeats(s) = 0 => \A i, k \in DOMAIN s : s[i] = s[k] => i = k
<1> DEFINE D == DOMAIN s
<1>1. Len(s) \in Nat /\ D = 1 .. Len(s)
  BY DEF Numbered
<1>2. IsFiniteSet(D) /\ Cardinality(D) = Len(s)
  <2> DEFINE n == Len(s)
  <2>1. n \in Int /\ 1 \in Int /\ n \in Nat
    BY <1>1
  <2> HIDE DEF n
  <2>2. IsFiniteSet(1 .. n) /\ Cardinality(1 .. n) = IF 1 > n THEN 0 ELSE n - 1 + 1
    BY <2>1, FS_Interval, Zenon
  <2>3. Cardinality(1 .. n) = n
    BY <2>1, <2>2
  <2> QED
    BY <1>1, <2>2, <2>3 DEF n
<1>3. Range(s) = Image(s, D)
  BY DEF Range, Image
<1>4. /\ IsFiniteSet(Range(s)) /\ Cardinality(Range(s)) <= Len(s)
      /\ Cardinality(Range(s)) \in Nat
  BY <1>2, <1>3, ImageFinite, FS_CardinalityType
<1>5. ASSUME NEW i \in D, NEW k \in D, s[i] = s[k], i # k
      PROVE  Cardinality(Range(s)) # Len(s)
  <2> DEFINE T == D \ {i}
  <2>1. Image(s, D) = Image(s, T)
    BY <1>5 DEF Image
  <2>2. /\ IsFiniteSet(T) /\ Cardinality(T) \in Nat /\ ~(Cardinality(D) <= Cardinality(T))
        /\ Cardinality(D) \in Nat
    BY <1>2, Smaller
  <2> HIDE DEF T, D
  <2>3. Cardinality(Image(s, T)) <= Cardinality(T)
    BY <2>2, ImageFinite
  <2> QED
    BY <1>2, <1>3, <1>4, <2>1, <2>2, <2>3
<1> QED
  BY <1>1, <1>4, <1>5 DEF Repeats

Elements(r) == [i \in DOMAIN r.bimi |-> <<Given(r.bimi[i].aligned), Given(r.bimi[i].assertion)>>]
ConfigsOf(d) == [k \in DOMAIN d.assertions |->
                    <<SelectorOf(d.assertions[k]), Given(d.assertions[k].l), Given(d.assertions[k].a)>>]
TuplesOf(asn) == [n \in DOMAIN asn.errors |->
                     <<asn.errors[n].element, Given(asn.errors[n].class), asn.errors[n].type>>]

ConfigRepeats(r) == [i \in DOMAIN r.bimi |-> Repeats(ConfigsOf(r.bimi[i]))]
TupleRepeats(r) == [p \in AssertionPlaces(r) |-> Repeats(TuplesOf(AssertionAt(r, p)))]
UnknownsAt(r) == [q \in ErrorPlaces(r) |-> Unknowns(ErrorAt(r, q))]
AbsentElements(r) == [i \in DOMAIN r.bimi |-> Absent(r.bimi[i], {"aligned", "assertion"})]
AbsentAssertions(r) ==
    [p \in AssertionPlaces(r) |-> Absent(AssertionAt(r, p), {"selector", "l", "a"})]
AbsentErrors(r) == [q \in ErrorPlaces(r) |-> Absent(ErrorAt(r, q), {"class"})]
UnreadAt(r) == {p \in AssertionPlaces(r) : DateUnread(AssertionAt(r, p))}
BadAt(r) == {q \in ErrorPlaces(r) : BadCount(ErrorAt(r, q))}

LEMMA HygieneIs ==
    ASSUME NEW r
    PROVE  LET h == BimiHygieneOf(r)
           IN  /\ h["dupTuples"] = Repeats(Elements(r)) + Over(ConfigRepeats(r), DOMAIN r.bimi)
                                     + Over(TupleRepeats(r), AssertionPlaces(r))
               /\ h["badCounts"] = Cardinality(BadAt(r))
               /\ h["unknownTypes"] = Over(UnknownsAt(r), ErrorPlaces(r))
               /\ h["missingAttrs"] = Over(AbsentElements(r), DOMAIN r.bimi)
                                        + Over(AbsentAssertions(r), AssertionPlaces(r))
                                        + Over(AbsentErrors(r), ErrorPlaces(r))
               /\ h["malformed"] = r.malformed + Cardinality(UnreadAt(r))
<1>1. /\ SumOf(ConfigRepeats(r)) = Over(ConfigRepeats(r), DOMAIN r.bimi)
      /\ SumOf(TupleRepeats(r)) = Over(TupleRepeats(r), AssertionPlaces(r))
  BY SumIsOver DEF ConfigRepeats, TupleRepeats
<1>2. SumOf(UnknownsAt(r)) = Over(UnknownsAt(r), ErrorPlaces(r))
  BY SumIsOver DEF UnknownsAt
<1>3. /\ SumOf(AbsentElements(r)) = Over(AbsentElements(r), DOMAIN r.bimi)
      /\ SumOf(AbsentAssertions(r)) = Over(AbsentAssertions(r), AssertionPlaces(r))
      /\ SumOf(AbsentErrors(r)) = Over(AbsentErrors(r), ErrorPlaces(r))
  BY SumIsOver DEF AbsentElements, AbsentAssertions, AbsentErrors
<1>4. BimiHygieneOf(r)
        = [dupTuples |-> Repeats(Elements(r)) + SumOf(ConfigRepeats(r)) + SumOf(TupleRepeats(r)),
           badCounts |-> Cardinality(BadAt(r)),
           unknownTypes |-> SumOf(UnknownsAt(r)),
           missingAttrs |-> SumOf(AbsentElements(r)) + SumOf(AbsentAssertions(r))
                              + SumOf(AbsentErrors(r)),
           malformed |-> r.malformed + Cardinality(UnreadAt(r))]
  BY DEF BimiHygieneOf, Elements, ConfigRepeats, ConfigsOf, TupleRepeats, TuplesOf, UnknownsAt,
         AbsentElements, AbsentAssertions, AbsentErrors, UnreadAt, BadAt
<1> QED
  BY <1>1, <1>2, <1>3, <1>4

LEMMA AbsentFacts ==
    ASSUME NEW rec, NEW fields, IsFiniteSet(fields)
    PROVE  /\ Absent(rec, fields) \in Nat
           /\ Absent(rec, fields) = 0 => \A x \in fields : Given(rec[x]) = rec[x]
<1> DEFINE A == {x \in fields : rec[x] = "absent"}
<1>1. IsFiniteSet(A)
  BY FS_Subset
<1> HIDE DEF A
<1>2. Cardinality(A) \in Nat /\ (Cardinality(A) = 0 => A = {})
  BY <1>1, FS_CardinalityType, FS_EmptySet
<1> QED
  BY <1>2 DEF A, Absent, Given

LEMMA FewFinite ==
    ASSUME NEW a, NEW b, NEW c
    PROVE  IsFiniteSet({a}) /\ IsFiniteSet({a, b}) /\ IsFiniteSet({a, b, c})
<1>1. IsFiniteSet({a}) /\ IsFiniteSet({b}) /\ IsFiniteSet({c})
  BY FS_Singleton
<1>2. {a, b} = {a} \cup {b} /\ {a, b, c} = {a, b} \cup {c}
  OBVIOUS
<1>3. IsFiniteSet({a} \cup {b})
  BY <1>1, FS_Union
<1>4. IsFiniteSet({a, b})
  BY <1>2, <1>3
<1>5. IsFiniteSet({a, b} \cup {c})
  BY <1>1, <1>4, FS_Union
<1> QED
  BY <1>1, <1>2, <1>4, <1>5

LEMMA UnknownFacts ==
    ASSUME NEW e
    PROVE  /\ Unknowns(e) \in Nat
           /\ Unknowns(e) = 0 => Given(e.class) \in {"temp", "perm"}
<1> DEFINE F == {"element", "class", "type"}
           A == {x \in F :
                   CASE x = "element" -> e.element \notin ErrorElements
                     [] x = "class" -> e.class \notin {"temp", "perm"}
                     [] x = "type" -> e.element \in ErrorElements
                                        /\ e.type \notin {""} \cup TypesOf(e.element)}
<1>1. IsFiniteSet(F)
  BY FewFinite
<1>2. IsFiniteSet(A)
  BY <1>1, FS_Subset
<1>3. Unknowns(e) = Cardinality(A)
  BY DEF Unknowns
<1>4. A = {} => Given(e.class) \in {"temp", "perm"}
  BY DEF Given
<1> HIDE DEF A
<1>5. Cardinality(A) \in Nat /\ (Cardinality(A) = 0 => A = {})
  BY <1>2, FS_CardinalityType, FS_EmptySet
<1> QED
  BY <1>3, <1>4, <1>5

\* What an import may rely on makes every count one.
LEMMA HygieneFacts ==
    ASSUME NEW r \in Pool
    PROVE  /\ Numbered(Elements(r))
           /\ \A i \in DOMAIN r.bimi : Numbered(ConfigsOf(r.bimi[i]))
           /\ \A p \in AssertionPlaces(r) : Numbered(TuplesOf(AssertionAt(r, p)))
           /\ Weighed(ConfigRepeats(r), DOMAIN r.bimi)
           /\ Weighed(TupleRepeats(r), AssertionPlaces(r))
           /\ Weighed(UnknownsAt(r), ErrorPlaces(r))
           /\ Weighed(AbsentElements(r), DOMAIN r.bimi)
           /\ Weighed(AbsentAssertions(r), AssertionPlaces(r))
           /\ Weighed(AbsentErrors(r), ErrorPlaces(r))
           /\ IsFiniteSet(BadAt(r)) /\ IsFiniteSet(UnreadAt(r)) /\ r.malformed \in Nat
<1>1. /\ IsFiniteSet(DOMAIN r.bimi) /\ IsFiniteSet(AssertionPlaces(r))
      /\ IsFiniteSet(ErrorPlaces(r))
  BY PlacesFinite
<1>2. IsFiniteSet(BadAt(r)) /\ IsFiniteSet(UnreadAt(r)) /\ r.malformed \in Nat
  BY <1>1, FS_Subset, BimiRowsAssumption DEF BadAt, UnreadAt
<1>3. Numbered(Elements(r))
  <2> DEFINE s == Elements(r)
             n == Len(r.bimi)
  <2>1. n \in Nat /\ DOMAIN r.bimi = 1 .. n
    BY BimiRowsAssumption DEF Numbered
  <2>2. s = [k \in 1 .. n |-> s[k]]
    BY <2>1 DEF Elements
  <2> HIDE DEF s, n
  <2> QED
    BY <2>1, <2>2, ListNumbered DEF s
<1>4. ASSUME NEW i \in DOMAIN r.bimi PROVE Numbered(ConfigsOf(r.bimi[i]))
  <2> DEFINE s == ConfigsOf(r.bimi[i])
             n == Len(r.bimi[i].assertions)
  <2>1. n \in Nat /\ DOMAIN r.bimi[i].assertions = 1 .. n
    BY BimiRowsAssumption DEF Numbered
  <2>2. s = [k \in 1 .. n |-> s[k]]
    BY <2>1 DEF ConfigsOf
  <2> HIDE DEF s, n
  <2> QED
    BY <2>1, <2>2, ListNumbered DEF s
<1>5. ASSUME NEW p \in AssertionPlaces(r) PROVE Numbered(TuplesOf(AssertionAt(r, p)))
  <2> DEFINE s == TuplesOf(AssertionAt(r, p))
             n == Len(AssertionAt(r, p).errors)
  <2>1. n \in Nat /\ DOMAIN AssertionAt(r, p).errors = 1 .. n
    BY PlaceFacts DEF SoundAssertion, Numbered
  <2>2. s = [k \in 1 .. n |-> s[k]]
    BY <2>1 DEF TuplesOf
  <2> HIDE DEF s, n
  <2> QED
    BY <2>1, <2>2, ListNumbered DEF s
<1>6. Weighed(ConfigRepeats(r), DOMAIN r.bimi)
  BY <1>1, <1>4, RepeatsFacts DEF Weighed, ConfigRepeats
<1>7. Weighed(TupleRepeats(r), AssertionPlaces(r))
  BY <1>1, <1>5, RepeatsFacts DEF Weighed, TupleRepeats
<1>8. Weighed(UnknownsAt(r), ErrorPlaces(r))
  BY <1>1, UnknownFacts DEF Weighed, UnknownsAt
<1>9. Weighed(AbsentElements(r), DOMAIN r.bimi)
  BY <1>1, FewFinite, AbsentFacts DEF Weighed, AbsentElements
<1>10. Weighed(AbsentAssertions(r), AssertionPlaces(r))
  BY <1>1, FewFinite, AbsentFacts DEF Weighed, AbsentAssertions
<1>11. Weighed(AbsentErrors(r), ErrorPlaces(r))
  BY <1>1, FewFinite, AbsentFacts DEF Weighed, AbsentErrors
<1> QED
  BY <1>2, <1>3, <1>4, <1>5, <1>6, <1>7, <1>8, <1>9, <1>10, <1>11

HygieneFields == {"dupTuples", "badCounts", "unknownTypes", "missingAttrs", "malformed"}

LEMMA HygieneCounts ==
    ASSUME NEW r \in Pool
    PROVE  LET h == BimiHygieneOf(r)
           IN  /\ \A x \in HygieneFields : h[x] \in Nat
               /\ Cardinality(UnreadAt(r)) <= h["malformed"]
               /\ h["dupTuples"] = 0 => Over(TupleRepeats(r), AssertionPlaces(r)) = 0
               /\ h["badCounts"] = 0 => BadAt(r) = {}
               /\ h["unknownTypes"] = 0 => Over(UnknownsAt(r), ErrorPlaces(r)) = 0
               /\ h["missingAttrs"] = 0 => /\ Over(AbsentElements(r), DOMAIN r.bimi) = 0
                                           /\ Over(AbsentAssertions(r), AssertionPlaces(r)) = 0
<1>1. /\ Repeats(Elements(r)) \in Nat
      /\ Over(ConfigRepeats(r), DOMAIN r.bimi) \in Nat
      /\ Over(TupleRepeats(r), AssertionPlaces(r)) \in Nat
  BY HygieneFacts, RepeatsFacts, WeighedInt
<1>2. Over(UnknownsAt(r), ErrorPlaces(r)) \in Nat
  BY HygieneFacts, WeighedInt
<1>3. /\ Over(AbsentElements(r), DOMAIN r.bimi) \in Nat
      /\ Over(AbsentAssertions(r), AssertionPlaces(r)) \in Nat
      /\ Over(AbsentErrors(r), ErrorPlaces(r)) \in Nat
  BY HygieneFacts, WeighedInt
<1>4. /\ Cardinality(BadAt(r)) \in Nat /\ (Cardinality(BadAt(r)) = 0 => BadAt(r) = {})
      /\ Cardinality(UnreadAt(r)) \in Nat /\ r.malformed \in Nat
  BY HygieneFacts, FS_CardinalityType, FS_EmptySet
<1> DEFINE h == BimiHygieneOf(r)
<1>5. /\ h["dupTuples"] = Repeats(Elements(r)) + Over(ConfigRepeats(r), DOMAIN r.bimi)
                            + Over(TupleRepeats(r), AssertionPlaces(r))
      /\ h["badCounts"] = Cardinality(BadAt(r))
      /\ h["unknownTypes"] = Over(UnknownsAt(r), ErrorPlaces(r))
      /\ h["missingAttrs"] = Over(AbsentElements(r), DOMAIN r.bimi)
                               + Over(AbsentAssertions(r), AssertionPlaces(r))
                               + Over(AbsentErrors(r), ErrorPlaces(r))
      /\ h["malformed"] = r.malformed + Cardinality(UnreadAt(r))
  BY HygieneIs
<1> HIDE DEF h
<1>6. \A x \in HygieneFields : h[x] \in Nat
  BY <1>1, <1>2, <1>3, <1>4, <1>5 DEF HygieneFields
<1>7. Cardinality(UnreadAt(r)) <= h["malformed"]
  BY <1>4, <1>5
<1>8. /\ h["dupTuples"] = 0 => Over(TupleRepeats(r), AssertionPlaces(r)) = 0
      /\ h["badCounts"] = 0 => BadAt(r) = {}
      /\ h["unknownTypes"] = 0 => Over(UnknownsAt(r), ErrorPlaces(r)) = 0
  BY <1>1, <1>4, <1>5
<1>9. h["missingAttrs"] = 0 => /\ Over(AbsentElements(r), DOMAIN r.bimi) = 0
                              /\ Over(AbsentAssertions(r), AssertionPlaces(r)) = 0
  BY <1>3, <1>5
<1> QED
  BY <1>6, <1>7, <1>8, <1>9 DEF h


HygieneWeight(f, x) == [r \in BimiReportsIn(f) |-> BimiHygieneOf(r)[x]]

LEMMA BrokenIs ==
    ASSUME StatsInv, NEW f, NEW x \in HygieneFields
    PROVE  /\ BimiHygiene(f).broken[x] = Over(HygieneWeight(f, x), BimiReportsIn(f))
           /\ Weighed(HygieneWeight(f, x), BimiReportsIn(f))
<1> DEFINE R == BimiReportsIn(f)
           w == HygieneWeight(f, x)
<1>1. R \in SUBSET Pool /\ IsFiniteSet(R)
  BY BimiReads
<1>2. \A r \in R : w[r] \in Nat
  BY <1>1, HygieneCounts DEF HygieneWeight
<1>3. [r \in R |-> HygieneRows[r][x]] = w
  BY <1>1 DEF HygieneRows, HygieneWeight
<1>4. BimiHygiene(f).broken[x] = SumOf([r \in R |-> HygieneRows[r][x]])
  BY DEF BimiHygiene, HygieneFields
<1>5. w = [r \in R |-> w[r]]
  BY DEF HygieneWeight
<1> HIDE DEF w, R
<1>6. SumOf(w) = Over(w, R)
  BY <1>5, SumIsOver
<1> QED
  BY <1>1, <1>2, <1>3, <1>4, <1>6 DEF Weighed, w, R

LEMMA UnreadOfReport ==
    ASSUME NEW r \in Pool, NEW S, \A s \in S : s \in AssertionsOf(r) /\ DateUnread(s)
    PROVE  IsFiniteSet(S) /\ Cardinality(S) <= Cardinality(UnreadAt(r)) /\ Cardinality(S) \in Nat
<1> DEFINE U == UnreadAt(r)
           h == [p \in U |->
                   [rep |-> ReportRow(r), at |-> p, aligned |-> Given(r.bimi[p[1]].aligned),
                    selector |-> SelectorOf(AssertionAt(r, p)), l |-> Given(AssertionAt(r, p).l),
                    a |-> Given(AssertionAt(r, p).a), evidence |-> AssertionAt(r, p).evidence,
                    errors |-> AssertionAt(r, p).errors]]
<1>1. IsFiniteSet(U)
  BY HygieneFacts
<1>2. ASSUME NEW s \in S PROVE s \in Image(h, U)
  <2>1. s \in AssertionsOf(r) /\ DateUnread(s)
    OBVIOUS
  <2>2. PICK p \in AssertionPlaces(r) :
          s = [rep |-> ReportRow(r), at |-> p, aligned |-> Given(r.bimi[p[1]].aligned),
               selector |-> SelectorOf(AssertionAt(r, p)), l |-> Given(AssertionAt(r, p).l),
               a |-> Given(AssertionAt(r, p).a), evidence |-> AssertionAt(r, p).evidence,
               errors |-> AssertionAt(r, p).errors]
    BY <2>1 DEF AssertionsOf
  <2>3. s.evidence = AssertionAt(r, p).evidence
    BY <2>2
  <2>4. p \in U
    BY <2>1, <2>3 DEF UnreadAt, DateUnread
  <2>5. h[p] = s
    BY <2>2, <2>4
  <2> HIDE DEF h, U
  <2> QED
    BY <2>4, <2>5 DEF Image
<1> HIDE DEF h, U
<1>3. /\ IsFiniteSet(Image(h, U)) /\ Cardinality(Image(h, U)) <= Cardinality(U)
      /\ Cardinality(Image(h, U)) \in Nat /\ Cardinality(U) \in Nat
  BY <1>1, ImageFinite, FS_CardinalityType
<1>4. S \subseteq Image(h, U)
  BY <1>2
<1>5. IsFiniteSet(S) /\ Cardinality(S) <= Cardinality(Image(h, U)) /\ Cardinality(S) \in Nat
  BY <1>3, <1>4, FS_Subset, FS_CardinalityType
<1> QED
  BY <1>3, <1>5 DEF U

LEMMA UnreadTold ==
    ASSUME StatsInv, NEW f
    PROVE  BimiHygiene(f).unparsedDates <= BimiHygiene(f).broken["malformed"]
<1> DEFINE R == BimiReportsIn(f)
           S == {s \in AssertionsIn(f) : DateUnread(s)}
           w == HygieneWeight(f, "malformed")
           key == [s \in S |-> CHOOSE r \in R : s \in AssertionsOf(r)]
           one == [s \in S |-> 1]
           g == [r \in R |-> Cardinality({s \in S : key[s] = r})]
<1>1. R \in SUBSET Pool /\ IsFiniteSet(R) /\ IsFiniteSet(S)
  BY BimiReads, FS_Subset
<1>2. \A s \in S : key[s] \in R /\ s \in AssertionsOf(key[s])
  BY BimiReads
<1>3. ASSUME NEW r \in R
      PROVE  /\ g[r] \in Nat /\ g[r] <= Cardinality(UnreadAt(r))
             /\ g[r] = Over(one, {s \in S : key[s] = r})
  <2> DEFINE T == {s \in S : key[s] = r}
  <2>1. \A s \in T : s \in AssertionsOf(r) /\ DateUnread(s)
    BY <1>2
  <2>2. r \in Pool /\ g[r] = Cardinality(T) /\ \A s \in T : one[s] = 1
    BY <1>1
  <2> HIDE DEF T, g, one, key, S, R
  <2>3. IsFiniteSet(T) /\ Cardinality(T) <= Cardinality(UnreadAt(r)) /\ Cardinality(T) \in Nat
    BY <2>1, <2>2, UnreadOfReport
  <2>4. Over(one, T) = Cardinality(T)
    BY <2>2, <2>3, OverOnes
  <2> QED
    BY <2>2, <2>3, <2>4 DEF T
<1>4. ASSUME NEW r \in R PROVE Cardinality(UnreadAt(r)) <= w[r] /\ w[r] \in Nat
                               /\ Cardinality(UnreadAt(r)) \in Nat
  <2>1. r \in Pool /\ w[r] = BimiHygieneOf(r)["malformed"]
    BY <1>1 DEF HygieneWeight
  <2>2. Cardinality(UnreadAt(r)) \in Nat
    BY <2>1, HygieneFacts, FS_CardinalityType
  <2>3. "malformed" \in HygieneFields
    BY DEF HygieneFields
  <2> HIDE DEF w
  <2> QED
    BY <2>1, <2>2, <2>3, HygieneCounts
<1>5. \A s \in S : one[s] \in Int /\ one[s] = 1
  OBVIOUS
<1>6. \A s \in S : key[s] \in R
  BY <1>2
<1>7. "malformed" \in HygieneFields
  BY DEF HygieneFields
<1>8. BimiHygiene(f).unparsedDates = Cardinality(S)
  BY DEF BimiHygiene
<1> HIDE DEF R, S, w, key, one, g
<1>9. Grouping(one, S, key, R, g)
  BY <1>1, <1>3, <1>5, <1>6 DEF Grouping
<1>10. Over(g, R) = Over(one, S)
  BY <1>9, OverGroups
<1>11. Over(one, S) = Cardinality(S)
  BY <1>1, <1>5, OverOnes
<1>12. \A r \in R : g[r] \in Int /\ w[r] \in Int /\ g[r] <= w[r]
  <2> SUFFICES ASSUME NEW r \in R PROVE g[r] \in Int /\ w[r] \in Int /\ g[r] <= w[r]
    OBVIOUS
  <2> DEFINE u == Cardinality(UnreadAt(r))
  <2>1. g[r] \in Nat /\ g[r] <= u
    BY <1>3
  <2>2. u <= w[r] /\ w[r] \in Nat /\ u \in Nat
    BY <1>4
  <2> HIDE DEF u
  <2> QED
    BY <2>1, <2>2
<1>13. Over(g, R) <= Over(w, R)
  BY <1>1, <1>12, OverMono
<1>14. BimiHygiene(f).broken["malformed"] = Over(w, R)
  BY <1>7, BrokenIs DEF w, R
<1> QED
  BY <1>8, <1>10, <1>11, <1>13, <1>14

LEMMA NothingBroken ==
    ASSUME StatsInv, NEW f, NEW x \in HygieneFields, BimiHygiene(f).broken[x] = 0,
           NEW r \in BimiReportsIn(f)
    PROVE  r \in Pool /\ BimiHygieneOf(r)[x] = 0
<1>1. r \in Pool
  BY BimiReads
<1>2. HygieneWeight(f, x)[r] = 0
  BY BrokenIs, ZeroOver
<1> QED
  BY <1>1, <1>2 DEF HygieneWeight

\* Where an error of the page is in its report.
LEMMA ErrorPlaced ==
    ASSUME StatsInv, NEW f, NEW e \in BimiErrorsIn(f)
    PROVE  \E r \in BimiReportsIn(f) :
              /\ r \in Pool /\ e.asn.at \in AssertionPlaces(r)
              /\ <<e.asn.at, e.n>> \in ErrorPlaces(r)
              /\ ErrorAt(r, <<e.asn.at, e.n>>) = e.asn.errors[e.n]
              /\ e.asn.errors = AssertionAt(r, e.asn.at).errors
              /\ e.n \in DOMAIN e.asn.errors
<1>1. AssertionsIn(f) \in SUBSET AllAssertions
  BY BimiReads
<1>2. e \in ErrorsOf(AssertionsIn(f))
  BY DEF BimiErrorsIn
<1>3. e.asn \in AssertionsIn(f) /\ e.n \in DOMAIN e.asn.errors
  BY <1>1, <1>2, ErrorIn
<1>4. PICK r \in BimiReportsIn(f) : e.asn \in AssertionsOf(r)
  BY <1>3, BimiReads
<1>5. r \in Pool
  BY BimiReads
<1>6. e.asn.at \in AssertionPlaces(r) /\ e.asn.errors = AssertionAt(r, e.asn.at).errors
  BY <1>4, <1>5, AssertionIn
<1>7. <<e.asn.at, e.n>> \in ErrorPlaces(r)
  BY <1>3, <1>6 DEF ErrorPlaces
<1>8. ErrorAt(r, <<e.asn.at, e.n>>) = e.asn.errors[e.n]
  BY <1>6 DEF ErrorAt
<1> QED
  BY <1>3, <1>5, <1>6, <1>7, <1>8

LEMMA CountsTold ==
    ASSUME StatsInv, NEW f, BimiHygiene(f).broken["badCounts"] = 0, NEW e \in BimiErrorsIn(f)
    PROVE  e.count > 0
<1>1. PICK r \in BimiReportsIn(f) :
        /\ r \in Pool /\ <<e.asn.at, e.n>> \in ErrorPlaces(r)
        /\ ErrorAt(r, <<e.asn.at, e.n>>) = e.asn.errors[e.n]
  BY ErrorPlaced
<1>2. "badCounts" \in HygieneFields
  BY DEF HygieneFields
<1>3. BimiHygieneOf(r)["badCounts"] = 0
  BY <1>2, NothingBroken
<1>4. BadAt(r) = {}
  BY <1>1, <1>3, HygieneCounts
<1>5. ~BadCount(e.asn.errors[e.n])
  BY <1>1, <1>4 DEF BadAt
<1>6. AssertionsIn(f) \in SUBSET AllAssertions /\ e \in ErrorsOf(AssertionsIn(f))
  BY BimiReads DEF BimiErrorsIn
<1>7. e.count = StoredCount(e.asn.errors[e.n]) /\ e.count \in Nat
  BY <1>6, ErrorIn
<1>8. e.asn \in AllAssertions /\ e.n \in DOMAIN e.asn.errors
  BY <1>6, ErrorIn
<1>9. SoundAssertion(e.asn)
  BY <1>8, AssertionsFinite
<1> QED
  BY <1>5, <1>7, <1>8, <1>9 DEF StoredCount, BadCount, NoNumber, SoundAssertion

LEMMA TypesTold ==
    ASSUME StatsInv, NEW f, BimiHygiene(f).broken["unknownTypes"] = 0, NEW e \in BimiErrorsIn(f)
    PROVE  e.class \in {"perm", "temp"}
<1>1. PICK r \in BimiReportsIn(f) :
        /\ r \in Pool /\ <<e.asn.at, e.n>> \in ErrorPlaces(r)
        /\ ErrorAt(r, <<e.asn.at, e.n>>) = e.asn.errors[e.n]
  BY ErrorPlaced
<1>2. "unknownTypes" \in HygieneFields
  BY DEF HygieneFields
<1>3. BimiHygieneOf(r)["unknownTypes"] = 0
  BY <1>2, NothingBroken
<1>4. Over(UnknownsAt(r), ErrorPlaces(r)) = 0 /\ Weighed(UnknownsAt(r), ErrorPlaces(r))
  BY <1>1, <1>3, HygieneCounts, HygieneFacts
<1>5. UnknownsAt(r)[<<e.asn.at, e.n>>] = 0
  BY <1>1, <1>4, ZeroOver
<1>6. Unknowns(e.asn.errors[e.n]) = 0
  BY <1>1, <1>5 DEF UnknownsAt
<1>7. Given(e.asn.errors[e.n].class) \in {"temp", "perm"}
  BY <1>6, UnknownFacts
<1>8. AssertionsIn(f) \in SUBSET AllAssertions /\ e \in ErrorsOf(AssertionsIn(f))
  BY BimiReads DEF BimiErrorsIn
<1>9. e.class = Given(e.asn.errors[e.n].class)
  BY <1>8, ErrorIn
<1> QED
  BY <1>7, <1>9

LEMMA TuplesTold ==
    ASSUME StatsInv, NEW f, BimiHygiene(f).broken["dupTuples"] = 0,
           NEW e \in BimiErrorsIn(f), NEW g \in BimiErrorsIn(f),
           e.asn = g.asn, e.element = g.element, e.class = g.class, e.type = g.type
    PROVE  e.n = g.n
<1>1. PICK r \in BimiReportsIn(f) :
        /\ r \in Pool /\ e.asn.at \in AssertionPlaces(r)
        /\ e.asn.errors = AssertionAt(r, e.asn.at).errors
  BY ErrorPlaced
<1>2. "dupTuples" \in HygieneFields
  BY DEF HygieneFields
<1>3. BimiHygieneOf(r)["dupTuples"] = 0
  BY <1>2, NothingBroken
<1>4. /\ Over(TupleRepeats(r), AssertionPlaces(r)) = 0
      /\ Weighed(TupleRepeats(r), AssertionPlaces(r))
  BY <1>1, <1>3, HygieneCounts, HygieneFacts
<1>5. TupleRepeats(r)[e.asn.at] = 0
  BY <1>1, <1>4, ZeroOver
<1> DEFINE s == TuplesOf(AssertionAt(r, e.asn.at))
<1>6. Repeats(s) = 0 /\ Numbered(s)
  BY <1>1, <1>5, HygieneFacts DEF TupleRepeats
<1>7. AssertionsIn(f) \in SUBSET AllAssertions /\ {e, g} \subseteq ErrorsOf(AssertionsIn(f))
  BY BimiReads DEF BimiErrorsIn
<1>8. /\ e.n \in DOMAIN e.asn.errors /\ g.n \in DOMAIN e.asn.errors
      /\ e.element = e.asn.errors[e.n].element /\ e.class = Given(e.asn.errors[e.n].class)
      /\ e.type = e.asn.errors[e.n].type
      /\ g.element = e.asn.errors[g.n].element /\ g.class = Given(e.asn.errors[g.n].class)
      /\ g.type = e.asn.errors[g.n].type
  <2>1. /\ e.n \in DOMAIN e.asn.errors
        /\ e.element = e.asn.errors[e.n].element /\ e.class = Given(e.asn.errors[e.n].class)
        /\ e.type = e.asn.errors[e.n].type
    BY <1>7, ErrorIn
  <2>2. /\ g.n \in DOMAIN g.asn.errors
        /\ g.element = g.asn.errors[g.n].element /\ g.class = Given(g.asn.errors[g.n].class)
        /\ g.type = g.asn.errors[g.n].type
    BY <1>7, ErrorIn
  <2> QED
    BY <2>1, <2>2
<1>9. e.n \in DOMAIN s /\ g.n \in DOMAIN s /\ s[e.n] = s[g.n]
  BY <1>1, <1>8 DEF TuplesOf
<1> HIDE DEF s
<1> QED
  BY <1>6, <1>9, RepeatsFacts

LEMMA AttributesTold ==
    ASSUME StatsInv, NEW f, BimiHygiene(f).broken["missingAttrs"] = 0,
           NEW r \in BimiReportsIn(f), NEW s \in AssertionsOf(r)
    PROVE  /\ s.aligned = r.bimi[s.at[1]].aligned
           /\ s.l = AssertionAt(r, s.at).l /\ s.a = AssertionAt(r, s.at).a
<1>1. "missingAttrs" \in HygieneFields
  BY DEF HygieneFields
<1>2. r \in Pool /\ BimiHygieneOf(r)["missingAttrs"] = 0
  BY <1>1, NothingBroken
<1>3. /\ Over(AbsentElements(r), DOMAIN r.bimi) = 0
      /\ Over(AbsentAssertions(r), AssertionPlaces(r)) = 0
  BY <1>2, HygieneCounts
<1>4. /\ Weighed(AbsentElements(r), DOMAIN r.bimi)
      /\ Weighed(AbsentAssertions(r), AssertionPlaces(r))
  BY <1>2, HygieneFacts
<1>5. /\ s.at \in AssertionPlaces(r)
      /\ s.aligned = Given(r.bimi[s.at[1]].aligned)
      /\ s.l = Given(AssertionAt(r, s.at).l) /\ s.a = Given(AssertionAt(r, s.at).a)
  BY <1>2, AssertionIn
<1>6. s.at[1] \in DOMAIN r.bimi
  BY <1>2, <1>5, PlaceFacts
<1>7. AbsentElements(r)[s.at[1]] = 0 /\ AbsentAssertions(r)[s.at] = 0
  BY <1>3, <1>4, <1>5, <1>6, ZeroOver
<1>8. /\ Absent(r.bimi[s.at[1]], {"aligned", "assertion"}) = 0
      /\ Absent(AssertionAt(r, s.at), {"selector", "l", "a"}) = 0
  BY <1>5, <1>6, <1>7 DEF AbsentElements, AbsentAssertions
<1>9. /\ Given(r.bimi[s.at[1]]["aligned"]) = r.bimi[s.at[1]]["aligned"]
      /\ Given(AssertionAt(r, s.at)["l"]) = AssertionAt(r, s.at)["l"]
      /\ Given(AssertionAt(r, s.at)["a"]) = AssertionAt(r, s.at)["a"]
  BY <1>8, FewFinite, AbsentFacts
<1> QED
  BY <1>5, <1>9

LEMMA HygieneIsTold ==
    ASSUME StatsInv, NEW f
    PROVE  BimiHygieneTold(f)
BY UnreadTold, CountsTold, TypesTold, TuplesTold, AttributesTold DEF BimiHygieneTold

-----------------------------------------------------------------------------
(* BimiPagesAgree                                                           *)


PoliciesOf(d, f) == IF d \in DOMAIN BimiReadiness(f) THEN BimiReadiness(f)[d].eligible ELSE {TRUE}

LEMMA PageLine ==
    ASSUME NEW f, NEW d \in DOMAIN PageRows(f)
    PROVE  LET row == PageRows(f)[d]
           IN  /\ row.eligible = (IF d \in DOMAIN BimiReadiness(f)
                                  THEN BimiReadiness(f)[d].eligible ELSE {})
               /\ row.state = (IF DomainState(d) = {} THEN {"absent"}
                               ELSE {s.state : s \in DomainState(d)})
               /\ row.checked = (DomainState(d) # {}) /\ row.validated = Checked(d)
               /\ row.valid = BimiValid(d)
               /\ row.codes = {x.code : x \in {y \in FindingsOf(d) : Checked(d) /\ y.severity = "error"}}
               /\ row.agreement = (CASE ~Checked(d) -> ""
                                     [] Checked(d) /\ Compared(d) = {} -> "not applicable"
                                     [] Checked(d) /\ Compared(d) # {} ->
                                           IF Disagrees(d) THEN "disagrees" ELSE "agrees")
BY DEF PageRows

\* A class of a domain comes from one of its current records.
LEMMA ClassIn ==
    ASSUME NEW f, NEW d, DomainState(d) # {}, NEW c
    PROVE  c \in ReadinessClasses(d, f) <=>
             \E s \in DomainState(d) :
                \/ s.state = "declined" /\ c = "declined"
                \/ s.state \notin {"declined", "published"} /\ c = "no_record"
                \/ /\ s.state = "published"
                   /\ \E e \in PoliciesOf(d, f) :
                         c = IF e THEN IF Checked(d) /\ ~BimiValid(d) THEN "broken" ELSE "valid"
                             ELSE "blocked"
<1> DEFINE part(s) == CASE s.state = "declined" -> {"declined"}
                        [] s.state = "published" ->
                              {IF e THEN IF Checked(d) /\ ~BimiValid(d) THEN "broken" ELSE "valid"
                               ELSE "blocked" : e \in PoliciesOf(d, f)}
                        [] OTHER -> {"no_record"}
<1>1. ReadinessClasses(d, f) = UNION {part(s) : s \in DomainState(d)}
  BY DEF ReadinessClasses, PoliciesOf
<1>2. ASSUME NEW s \in DomainState(d)
      PROVE  c \in part(s) <=>
                \/ s.state = "declined" /\ c = "declined"
                \/ s.state \notin {"declined", "published"} /\ c = "no_record"
                \/ /\ s.state = "published"
                   /\ \E e \in PoliciesOf(d, f) :
                         c = IF e THEN IF Checked(d) /\ ~BimiValid(d) THEN "broken" ELSE "valid"
                             ELSE "blocked"
  <2>1. CASE s.state = "declined"
    BY <2>1
  <2>2. CASE s.state = "published"
    BY <2>2
  <2>3. CASE s.state \notin {"declined", "published"}
    BY <2>3
  <2> QED
    BY <2>1, <2>2, <2>3
<1> HIDE DEF part
<1> QED
  BY <1>1, <1>2

LEMMA UncheckedClass ==
    ASSUME NEW f, NEW d
    PROVE  "unchecked" \in ReadinessClasses(d, f) <=> DomainState(d) = {}
<1>1. CASE DomainState(d) = {}
  BY <1>1 DEF ReadinessClasses
<1>2. CASE DomainState(d) # {}
  BY <1>2, ClassIn
<1> QED
  BY <1>1, <1>2

\* Whether a domain is blocked is a question of its published tuples.
LEMMA Readies ==
    ASSUME NEW f, NEW d
    PROVE  /\ PoliciesOf(d, f) \in SUBSET BOOLEAN
           /\ FALSE \in PoliciesOf(d, f) <=>
                 d \in DOMAIN BimiReadiness(f) /\ FALSE \in BimiReadiness(f)[d].eligible
<1>1. \A x \in DOMAIN BimiReadiness(f) :
        BimiReadiness(f)[x].eligible = {BimiEligible(t) : t \in BimiReadiness(f)[x].tuples}
  BY DEF BimiReadiness
<1>2. \A t : BimiEligible(t) \in BOOLEAN
  BY DEF BimiEligible
<1>3. CASE d \in DOMAIN BimiReadiness(f)
  <2>1. PoliciesOf(d, f) = BimiReadiness(f)[d].eligible
    BY <1>3 DEF PoliciesOf
  <2>2. \A e \in BimiReadiness(f)[d].eligible : e \in BOOLEAN
    BY <1>1, <1>2, <1>3
  <2> QED
    BY <1>3, <2>1, <2>2
<1>4. CASE d \notin DOMAIN BimiReadiness(f)
  <2>1. PoliciesOf(d, f) = {TRUE}
    BY <1>4 DEF PoliciesOf
  <2> QED
    BY <1>4, <2>1
<1> QED
  BY <1>3, <1>4

LEMMA ClassesMatch ==
    ASSUME NEW f, NEW d \in DOMAIN PageRows(f)
    PROVE  LET class == ReadinessClasses(d, f)
               row == PageRows(f)[d]
           IN  /\ "unchecked" \in class <=> ~row.checked
               /\ "blocked" \in class <=> "published" \in row.state /\ FALSE \in row.eligible
               /\ "broken" \in class => row.validated /\ ~row.valid
               /\ class \cap {"blocked", "broken", "valid", "declined"} # {} => HasBIMIRecord(d)
<1> DEFINE class == ReadinessClasses(d, f)
           row == PageRows(f)[d]
<1>1. /\ row.eligible = (IF d \in DOMAIN BimiReadiness(f) THEN BimiReadiness(f)[d].eligible ELSE {})
      /\ row.state = (IF DomainState(d) = {} THEN {"absent"} ELSE {s.state : s \in DomainState(d)})
      /\ row.checked = (DomainState(d) # {}) /\ row.validated = Checked(d)
      /\ row.valid = BimiValid(d)
  BY PageLine
<1> HIDE DEF row
<1>2. "unchecked" \in class <=> ~row.checked
  BY <1>1, UncheckedClass
<1>3. CASE DomainState(d) = {}
  <2>1. class = {"unchecked"}
    BY <1>3 DEF ReadinessClasses
  <2>2. "published" \notin row.state
    BY <1>1, <1>3
  <2> HIDE DEF class
  <2> QED
    BY <1>2, <2>1, <2>2 DEF row, class
<1>4. CASE DomainState(d) # {}
  <2>1. "blocked" \in class <=>
          (\E s \in DomainState(d) : s.state = "published") /\ FALSE \in PoliciesOf(d, f)
    <3>1. PoliciesOf(d, f) \in SUBSET BOOLEAN
      BY Readies
    <3>2. ASSUME NEW s \in DomainState(d), s.state = "published", FALSE \in PoliciesOf(d, f)
          PROVE  "blocked" \in class
      BY <1>4, <3>2, ClassIn
    <3>3. ASSUME "blocked" \in class
          PROVE  (\E s \in DomainState(d) : s.state = "published") /\ FALSE \in PoliciesOf(d, f)
      <4>1. PICK s \in DomainState(d) :
              /\ s.state = "published"
              /\ \E e \in PoliciesOf(d, f) :
                    "blocked" = IF e THEN IF Checked(d) /\ ~BimiValid(d) THEN "broken" ELSE "valid"
                                ELSE "blocked"
        BY <1>4, <3>3, ClassIn
      <4>2. PICK e \in PoliciesOf(d, f) : e # TRUE
        BY <4>1
      <4>3. e = FALSE
        BY <3>1, <4>2
      <4> QED
        BY <4>1, <4>2, <4>3
    <3> QED
      BY <3>2, <3>3
  <2>2. "broken" \in class =>
          (\E s \in DomainState(d) : s.state = "published") /\ Checked(d) /\ ~BimiValid(d)
    BY <1>4, ClassIn
  <2>3. "valid" \in class => \E s \in DomainState(d) : s.state = "published"
    BY <1>4, ClassIn
  <2>4. "declined" \in class => \E s \in DomainState(d) : s.state = "declined"
    BY <1>4, ClassIn
  <2>5. "published" \in row.state <=> \E s \in DomainState(d) : s.state = "published"
    BY <1>1, <1>4
  <2>6. FALSE \in row.eligible <=> FALSE \in PoliciesOf(d, f)
    BY <1>1, Readies
  <2>7. (\E s \in DomainState(d) : s.state \in {"published", "declined"}) => HasBIMIRecord(d)
    BY DEF HasBIMIRecord
  <2> HIDE DEF class
  <2>8. "blocked" \in class <=> "published" \in row.state /\ FALSE \in row.eligible
    BY <2>1, <2>5, <2>6
  <2>9. "broken" \in class => row.validated /\ ~row.valid
    BY <1>1, <2>2
  <2>10. class \cap {"blocked", "broken", "valid", "declined"} # {} => HasBIMIRecord(d)
    BY <2>1, <2>2, <2>3, <2>4, <2>7
  <2> QED
    BY <1>2, <2>8, <2>9, <2>10 DEF row, class
<1> QED
  BY <1>3, <1>4

\* A document that is invalid has an error, and so have two that disagree.
LEMMA CodesTold ==
    ASSUME NEW f, NEW d \in DOMAIN PageRows(f)
    PROVE  LET row == PageRows(f)[d]
           IN  /\ row.validated /\ ~row.valid => row.codes # {}
               /\ row.agreement = "disagrees" => "mark_mismatch" \in row.codes
<1> DEFINE row == PageRows(f)[d]
           errors == {y \in FindingsOf(d) : Checked(d) /\ y.severity = "error"}
<1>1. /\ row.validated = Checked(d) /\ row.valid = BimiValid(d)
      /\ row.codes = {x.code : x \in errors}
      /\ row.agreement = "disagrees" => Checked(d) /\ Disagrees(d)
  BY PageLine
<1>2. Checked(d) /\ ~BimiValid(d) => errors # {}
  BY DEF BimiValid
<1>3. Disagrees(d) => Finding("mark_mismatch", "error") \in FindingsOf(d)
  <2> SUFFICES ASSUME Disagrees(d) PROVE Finding("mark_mismatch", "error") \in FindingsOf(d)
    OBVIOUS
  <2>1. d \in {y \in {d} : Disagrees(y)}
    OBVIOUS
  <2> DEFINE D == {y \in {d} : Disagrees(y)}
             U == UNION {Range(s.findings) : s \in CurrentDetail(d, "indicator")
                                                      \cup CurrentDetail(d, "evidence")}
  <2>3. FindingsOf(d) = {Finding("mark_mismatch", "error") : x \in D} \cup U
    BY DEF FindingsOf
  <2> HIDE DEF D, U
  <2>2. Finding("mark_mismatch", "error") \in {Finding("mark_mismatch", "error") : x \in D}
    BY <2>1 DEF D
  <2> QED
    BY <2>2, <2>3
<1>4. /\ Finding("mark_mismatch", "error").severity = "error"
      /\ Finding("mark_mismatch", "error").code = "mark_mismatch"
  BY DEF Finding
<1> HIDE DEF row
<1>5. row.validated /\ ~row.valid => row.codes # {}
  BY <1>1, <1>2
<1>6. row.agreement = "disagrees" => "mark_mismatch" \in row.codes
  <2> SUFFICES ASSUME row.agreement = "disagrees" PROVE "mark_mismatch" \in row.codes
    OBVIOUS
  <2> DEFINE x == Finding("mark_mismatch", "error")
  <2>1. x \in errors /\ x.code = "mark_mismatch"
    BY <1>1, <1>3, <1>4
  <2> HIDE DEF x, errors
  <2> QED
    BY <1>1, <2>1
<1> QED
  BY <1>5, <1>6 DEF row

LEMMA PagesAgree ==
    ASSUME NEW f
    PROVE  BimiPagesAgree(f)
BY ClassesMatch, CodesTold DEF BimiPagesAgree

-----------------------------------------------------------------------------
(* VerdictsBelieved: a fold over the claims of one message                  *)


LastOf(s) == Max(s)
Folded(m, D, it) ==
    it = [s \in SUBSET D |->
             IF s = {} THEN verdicts
             ELSE SaveVerdict(it[s \ {LastOf(s)}], VerdictRow(m, Believed(m)[LastOf(s)]))]

LEMMA FoldUnfold ==
    ASSUME NEW m
    PROVE  Recorded(m) = (CHOOSE it : Folded(m, DOMAIN Believed(m), it))[DOMAIN Believed(m)]
BY DEF Recorded, FoldLeft, MapThenFoldSet, Folded, LastOf

LEMMA LastIn ==
    ASSUME NEW D \in SUBSET Int, IsFiniteSet(D), NEW s \in SUBSET D, s # {}
    PROVE  LastOf(s) \in s /\ s \ {LastOf(s)} \in SUBSET D
<1>1. s \in SUBSET Int /\ IsFiniteSet(s)
  BY FS_Subset
<1>2. \E x \in s : \A y \in s : y <= x
  BY <1>1, Extremes
<1>3. \E x \in s : \A y \in s : x >= y
  BY <1>1, <1>2
<1>4. LastOf(s) \in s
  BY <1>3 DEF LastOf, Max
<1> QED
  BY <1>4

LEMMA FoldStep ==
    ASSUME NEW m, NEW D, NEW it, Folded(m, D, it), NEW s \in SUBSET D
    PROVE  it[s] = IF s = {} THEN verdicts
                   ELSE SaveVerdict(it[s \ {LastOf(s)}], VerdictRow(m, Believed(m)[LastOf(s)]))
BY DEF Folded

LEMMA FoldUnique ==
    ASSUME NEW m, NEW D \in SUBSET Int, IsFiniteSet(D), NEW it, Folded(m, D, it),
           NEW T \in SUBSET D, NEW jt, Folded(m, T, jt), NEW U \in SUBSET T
    PROVE  it[U] = jt[U]
<1> DEFINE Bad == {Y \in SUBSET T : it[Y] # jt[Y]}
<1> SUFFICES ASSUME Bad # {} PROVE FALSE
  OBVIOUS
<1>1. \A Y \in SUBSET T : IsFiniteSet(Y) /\ Y \in SUBSET D
  BY FS_Subset
<1>2. PICK Y \in Bad : \A Z \in Bad : Cardinality(Y) <= Cardinality(Z)
  BY <1>1, SmallestExists
<1>3. Y \in SUBSET T /\ Y \in SUBSET D /\ IsFiniteSet(Y) /\ it[Y] # jt[Y]
  BY <1>1, <1>2
<1>4. Y # {}
  BY <1>3, FoldStep
<1> DEFINE Z == Y \ {LastOf(Y)}
<1>5. LastOf(Y) \in Y /\ Z \in SUBSET T
  BY <1>3, <1>4, LastIn
<1>6. ~(Cardinality(Y) <= Cardinality(Z))
  BY <1>3, <1>5, Smaller
<1>7. it[Z] = jt[Z]
  BY <1>2, <1>5, <1>6
<1>8. it[Y] = SaveVerdict(it[Z], VerdictRow(m, Believed(m)[LastOf(Y)]))
  <2>1. it[Y] = IF Y = {} THEN verdicts
                ELSE SaveVerdict(it[Y \ {LastOf(Y)}], VerdictRow(m, Believed(m)[LastOf(Y)]))
    BY <1>3 DEF Folded
  <2> QED
    BY <1>4, <2>1
<1>9. jt[Y] = SaveVerdict(jt[Z], VerdictRow(m, Believed(m)[LastOf(Y)]))
  <2>1. jt[Y] = IF Y = {} THEN verdicts
                ELSE SaveVerdict(jt[Y \ {LastOf(Y)}], VerdictRow(m, Believed(m)[LastOf(Y)]))
    BY <1>3 DEF Folded
  <2> QED
    BY <1>4, <2>1
<1> HIDE DEF Z, Bad
<1> QED
  BY <1>3, <1>7, <1>8, <1>9

LEMMA FoldExists ==
    ASSUME NEW m, NEW D \in SUBSET Int, IsFiniteSet(D)
    PROVE  \E it : Folded(m, D, it)
<1> DEFINE Bad == {T \in SUBSET D : ~ \E it : Folded(m, T, it)}
<1> SUFFICES ASSUME Bad # {} PROVE FALSE
  BY DEF Folded
<1>1. \A T \in SUBSET D : IsFiniteSet(T) /\ T \in SUBSET Int
  BY FS_Subset
<1>2. PICK T \in Bad : \A Y \in Bad : Cardinality(T) <= Cardinality(Y)
  BY <1>1, SmallestExists
<1> DEFINE Table(U) == CHOOSE it : Folded(m, U, it)
           rest(s) == s \ {LastOf(s)}
           it == [s \in SUBSET T |->
                    IF s = {} THEN verdicts
                    ELSE SaveVerdict(Table(rest(s))[rest(s)], VerdictRow(m, Believed(m)[LastOf(s)]))]
<1>3. ASSUME NEW s \in SUBSET T, s # {}
      PROVE  /\ LastOf(s) \in s /\ rest(s) \in SUBSET T /\ rest(s) \in SUBSET s
             /\ Folded(m, rest(s), Table(rest(s)))
  <2>1. T \in SUBSET D /\ s \in SUBSET D /\ IsFiniteSet(s) /\ IsFiniteSet(T)
    BY <1>1, <1>2
  <2>2. LastOf(s) \in s
    BY <1>3, <2>1, LastIn
  <2>3. Cardinality(s) <= Cardinality(T) /\ Cardinality(s) \in Nat /\ Cardinality(T) \in Nat
    BY <2>1, FS_Subset, FS_CardinalityType
  <2>4. ~(Cardinality(s) <= Cardinality(rest(s))) /\ Cardinality(rest(s)) \in Nat
    BY <2>1, <2>2, Smaller
  <2>5. rest(s) \in SUBSET D /\ rest(s) \in SUBSET T /\ rest(s) \in SUBSET s
    BY <2>1
  <2> HIDE DEF rest
  <2>6. rest(s) \notin Bad
    BY <1>2, <2>3, <2>4
  <2>7. \E i : Folded(m, rest(s), i)
    BY <2>5, <2>6
  <2> HIDE DEF Bad
  <2> QED
    BY <2>2, <2>5, <2>7
<1>4. ASSUME NEW s \in SUBSET T, s # {}
      PROVE  it[rest(s)] = Table(rest(s))[rest(s)]
  <2> DEFINE t == rest(s)
  <2>1. t \in SUBSET T /\ Folded(m, t, Table(t))
    BY <1>3, <1>4
  <2>2. CASE t = {}
    BY <2>1, <2>2, FoldStep
  <2>3. CASE t # {}
    <3>1. /\ LastOf(t) \in t /\ rest(t) \in SUBSET T /\ rest(t) \in SUBSET t
          /\ Folded(m, rest(t), Table(rest(t)))
      BY <1>3, <2>1, <2>3
    <3>2. t \in SUBSET Int /\ IsFiniteSet(t)
      BY <1>1, <1>2, <2>1
    <3>3. it[t] = SaveVerdict(Table(rest(t))[rest(t)], VerdictRow(m, Believed(m)[LastOf(t)]))
      BY <2>1, <2>3
    <3>4. Table(t)[t] = SaveVerdict(Table(t)[rest(t)], VerdictRow(m, Believed(m)[LastOf(t)]))
      <4> DEFINE tab == Table(t)
      <4>1. Folded(m, t, tab) /\ t \in SUBSET t
        BY <2>1
      <4> HIDE DEF tab, t
      <4>2. tab[t] = IF t = {} THEN verdicts
                     ELSE SaveVerdict(tab[t \ {LastOf(t)}], VerdictRow(m, Believed(m)[LastOf(t)]))
        BY <2>1, <4>1 DEF Folded
      <4> QED
        BY <2>3, <4>2 DEF tab
    <3>5. Table(t)[rest(t)] = Table(rest(t))[rest(t)]
      <4> DEFINE tab == Table(t)
                 u == rest(t)
                 jt == Table(rest(t))
      <4>1. Folded(m, t, tab) /\ Folded(m, u, jt) /\ u \in SUBSET t /\ u \in SUBSET u
        BY <2>1, <3>1
      <4> HIDE DEF tab, t, u, jt
      <4>2. tab[u] = jt[u]
        BY <3>2, <4>1, FoldUnique
      <4> QED
        BY <4>2 DEF tab, u, jt
    <3> HIDE DEF t, Table, rest, it
    <3> QED
      BY <3>3, <3>4, <3>5 DEF t
  <2> QED
    BY <2>2, <2>3
<1>5. Folded(m, T, it)
  <2>1. ASSUME NEW s \in SUBSET T, s # {}
        PROVE  it[s] = SaveVerdict(it[rest(s)], VerdictRow(m, Believed(m)[LastOf(s)]))
    <3>1. it[rest(s)] = Table(rest(s))[rest(s)]
      BY <1>4, <2>1
    <3> HIDE DEF Table, rest
    <3>2. it[s] = SaveVerdict(Table(rest(s))[rest(s)], VerdictRow(m, Believed(m)[LastOf(s)]))
      BY <2>1
    <3> QED
      BY <3>1, <3>2
  <2> HIDE DEF Table
  <2>2. it = [s \in SUBSET T |-> it[s]] /\ it[{}] = verdicts
    OBVIOUS
  <2> DEFINE g == it
  <2> HIDE DEF it
  <2>3. g = [s \in SUBSET T |->
               IF s = {} THEN verdicts
               ELSE SaveVerdict(g[s \ {LastOf(s)}], VerdictRow(m, Believed(m)[LastOf(s)]))]
    BY <2>1, <2>2
  <2> HIDE DEF g
  <2>4. Folded(m, T, g)
    BY <2>3 DEF Folded
  <2> QED
    BY <2>4 DEF g
<1> HIDE DEF it
<1> QED
  BY <1>2, <1>5

-----------------------------------------------------------------------------
(* VerdictsBelieved, and nothing twice or left out                          *)


\* A verdict that a seed message claimed at its top, of a time that has come.
SoundVerdict(v) ==
    /\ v.at \in Int /\ v.at <= now
    /\ \E m \in SeedMail :
          /\ m.headers # << >>
          /\ \E c \in Range(m.headers[1]) : v.receiver = c.receiver /\ v.result = c.result
    /\ v.matched # -1 => CurrentDetail(v.domain, "indicator") # {}

SoundRows(rows) ==
    /\ \E S : rows \in Seq(S)
    /\ \A i, k \in DOMAIN rows :
          rows[i].id = rows[k].id /\ rows[i].receiver = rows[k].receiver => i = k
    /\ \A i \in DOMAIN rows : SoundVerdict(rows[i])

LEMMA AppendAdds ==
    ASSUME NEW S, NEW rows \in Seq(S), NEW v
    PROVE  LET more == Append(rows, v)
           IN  /\ more \in Seq(S \cup {v})
               /\ Len(rows) \in Nat /\ DOMAIN rows = 1 .. Len(rows)
               /\ DOMAIN more = 1 .. Len(rows) + 1
               /\ \A i \in 1 .. Len(rows) : more[i] = rows[i]
               /\ more[Len(rows) + 1] = v
<1> DEFINE T == S \cup {v}
           more == Append(rows, v)
<1>1. Len(rows) \in Nat /\ rows \in [1 .. Len(rows) -> S] /\ DOMAIN rows = 1 .. Len(rows)
  BY LenProperties
<1>2. rows \in [1 .. Len(rows) -> T]
  BY <1>1
<1>3. rows \in Seq(T)
  BY <1>1, <1>2, SeqDef
<1>4. v \in T
  OBVIOUS
<1> HIDE DEF T
<1>5. /\ more \in Seq(T) /\ Len(more) = Len(rows) + 1
      /\ \A i \in 1 .. Len(rows) : more[i] = rows[i]
      /\ more[Len(rows) + 1] = v
  BY <1>3, <1>4, AppendProperties
<1>6. DOMAIN more = 1 .. Len(more)
  BY <1>5, LenProperties
<1> QED
  BY <1>1, <1>5, <1>6 DEF T

\* What is saved is a verdict of its own.
LEMMA SaveKeeps ==
    ASSUME NEW rows, SoundRows(rows), NEW v, SoundVerdict(v)
    PROVE  SoundRows(SaveVerdict(rows, v))
<1>1. CASE \E x \in Range(rows) : x.id = v.id /\ x.receiver = v.receiver
  BY <1>1 DEF SaveVerdict
<1>2. CASE ~ \E x \in Range(rows) : x.id = v.id /\ x.receiver = v.receiver
  <2> DEFINE more == Append(rows, v)
             n == Len(rows)
  <2>1. SaveVerdict(rows, v) = more
    BY <1>2 DEF SaveVerdict
  <2>2. PICK S : rows \in Seq(S)
    BY DEF SoundRows
  <2>3. /\ more \in Seq(S \cup {v}) /\ n \in Nat /\ DOMAIN rows = 1 .. n
        /\ DOMAIN more = 1 .. n + 1
        /\ \A i \in 1 .. n : more[i] = rows[i]
        /\ more[n + 1] = v
    BY <2>2, AppendAdds
  <2>4. \A i \in DOMAIN rows : ~(rows[i].id = v.id /\ rows[i].receiver = v.receiver)
    BY <1>2 DEF Range
  <2> HIDE DEF more, n
  <2>5. ASSUME NEW i \in DOMAIN more, NEW k \in DOMAIN more,
               more[i].id = more[k].id, more[i].receiver = more[k].receiver
        PROVE  i = k
    <3>1. i \in 1 .. n \/ i = n + 1
      BY <2>3
    <3>2. k \in 1 .. n \/ k = n + 1
      BY <2>3
    <3>3. CASE i \in 1 .. n /\ k \in 1 .. n
      BY <2>3, <2>5, <3>3 DEF SoundRows
    <3>4. CASE i \in 1 .. n /\ k = n + 1
      BY <2>3, <2>4, <2>5, <3>4
    <3>5. CASE i = n + 1 /\ k \in 1 .. n
      BY <2>3, <2>4, <2>5, <3>5
    <3> QED
      BY <3>1, <3>2, <3>3, <3>4, <3>5
  <2>6. ASSUME NEW i \in DOMAIN more PROVE SoundVerdict(more[i])
    <3>1. i \in 1 .. n \/ i = n + 1
      BY <2>3
    <3>2. CASE i \in 1 .. n
      BY <2>3, <3>2 DEF SoundRows
    <3>3. CASE i = n + 1
      BY <2>3, <3>3
    <3> QED
      BY <3>1, <3>2, <3>3
  <2>7. \E U : more \in Seq(U)
    BY <2>3
  <2>8. SoundRows(more)
    BY <2>5, <2>6, <2>7 DEF SoundRows
  <2> QED
    BY <2>1, <2>8
<1> QED
  BY <1>1, <1>2

\* A fold of sound verdicts is sound, claim by claim.
LEMMA FoldKeeps ==
    ASSUME NEW m, NEW D \in SUBSET Int, IsFiniteSet(D), NEW it, Folded(m, D, it),
           SoundRows(verdicts), \A i \in D : SoundVerdict(VerdictRow(m, Believed(m)[i]))
    PROVE  SoundRows(it[D])
<1> DEFINE Bad == {Y \in SUBSET D : ~SoundRows(it[Y])}
<1> SUFFICES ASSUME Bad # {} PROVE FALSE
  OBVIOUS
<1>1. \A Y \in SUBSET D : IsFiniteSet(Y)
  BY FS_Subset
<1>2. PICK Y \in Bad : \A Z \in Bad : Cardinality(Y) <= Cardinality(Z)
  BY <1>1, SmallestExists
<1>3. Y \in SUBSET D /\ IsFiniteSet(Y) /\ ~SoundRows(it[Y])
  BY <1>1, <1>2
<1>4. it[Y] = IF Y = {} THEN verdicts
              ELSE SaveVerdict(it[Y \ {LastOf(Y)}], VerdictRow(m, Believed(m)[LastOf(Y)]))
  BY <1>3 DEF Folded
<1>5. Y # {}
  BY <1>3, <1>4
<1> DEFINE Z == Y \ {LastOf(Y)}
<1>6. LastOf(Y) \in Y /\ Z \in SUBSET D
  BY <1>3, <1>5, LastIn
<1>7. ~(Cardinality(Y) <= Cardinality(Z))
  BY <1>3, <1>6, Smaller
<1>8. SoundRows(it[Z])
  BY <1>2, <1>6, <1>7
<1>9. SoundVerdict(VerdictRow(m, Believed(m)[LastOf(Y)]))
  BY <1>3, <1>6
<1>10. it[Y] = SaveVerdict(it[Z], VerdictRow(m, Believed(m)[LastOf(Y)]))
  BY <1>4, <1>5
<1> HIDE DEF Z, Bad
<1> QED
  BY <1>3, <1>8, <1>9, <1>10, SaveKeeps

LEMMA TimeHasCome ==
    ASSUME NEW m \in SeedMail, m.server <= now, now \in Int
    PROVE  VerdictTime(m) \in Int /\ VerdictTime(m) <= now
BY SeedMailAssumption DEF VerdictTime

\* What a message claims at its top makes a sound verdict.
LEMMA ClaimIsSound ==
    ASSUME NEW m \in SeedMail, m.server <= now, now \in Int, NEW i \in DOMAIN Believed(m)
    PROVE  SoundVerdict(VerdictRow(m, Believed(m)[i]))
<1> DEFINE c == Believed(m)[i]
           v == VerdictRow(m, c)
<1>1. m.headers # << >> /\ c \in Range(m.headers[1])
  BY DEF Believed, Range
<1>2. /\ v.receiver = c.receiver /\ v.result = c.result /\ v.at = VerdictTime(m)
      /\ v.matched = MatchIndicator(v.domain, c.hash)
  BY DEF VerdictRow
<1> HIDE DEF v, c
<1>3. v.at \in Int /\ v.at <= now
  BY <1>2, TimeHasCome
<1>4. v.matched # -1 => CurrentDetail(v.domain, "indicator") # {}
  BY <1>2 DEF MatchIndicator
<1>5. SoundVerdict(v)
  BY <1>1, <1>2, <1>3, <1>4 DEF SoundVerdict
<1> QED
  BY <1>5 DEF v, c

LEMMA ClaimsAreList ==
    ASSUME NEW m \in SeedMail
    PROVE  DOMAIN Believed(m) \in SUBSET Int /\ IsFiniteSet(DOMAIN Believed(m))
<1>1. CASE m.headers = << >>
  <2>1. DOMAIN Believed(m) = {}
    BY <1>1 DEF Believed
  <2> QED
    BY <2>1, FS_EmptySet
<1>2. CASE m.headers # << >>
  <2>1. Len(m.headers) \in Nat /\ m.headers = [k \in 1 .. Len(m.headers) |-> m.headers[k]]
    BY SeedMailAssumption DEF Numbered
  <2>2. Len(m.headers) # 0
    BY <1>2, <2>1
  <2>3. Numbered(m.headers[1])
    BY <2>1, <2>2, SeedMailAssumption
  <2> DEFINE n == Len(m.headers[1])
  <2>4. n \in Nat /\ DOMAIN Believed(m) = 1 .. n
    BY <1>2, <2>3 DEF Numbered, Believed
  <2>5. n \in Int /\ 1 \in Int
    BY <2>4
  <2> HIDE DEF n
  <2>6. IsFiniteSet(1 .. n)
    BY <2>5, FS_Interval, Zenon
  <2> QED
    BY <2>4, <2>6
<1> QED
  BY <1>1, <1>2

\* Reading a message keeps the verdicts sound.
LEMMA SeedKeeps ==
    ASSUME NEW m \in SeedMail, m.server <= now, now \in Int, SoundRows(verdicts)
    PROVE  SoundRows(Recorded(m))
<1> DEFINE D == DOMAIN Believed(m)
           it == CHOOSE i : Folded(m, D, i)
<1>1. D \in SUBSET Int /\ IsFiniteSet(D)
  BY ClaimsAreList
<1>2. \A i \in D : SoundVerdict(VerdictRow(m, Believed(m)[i]))
  BY ClaimIsSound
<1>3. Recorded(m) = it[D]
  BY FoldUnfold
<1> HIDE DEF D
<1>4. Folded(m, D, it)
  BY <1>1, FoldExists
<1> HIDE DEF it
<1>5. SoundRows(it[D])
  BY <1>1, <1>2, <1>4, FoldKeeps
<1> QED
  BY <1>3, <1>5


BimiInv == StatsInv /\ IsFiniteSet(managed) /\ SoundRows(verdicts)

\* A verdict stays sound while time passes and no row of a lookup is taken away.
LEMMA StaysSound ==
    ASSUME NEW v, SoundVerdict(v), now \in Int, now' \in {now, now + 1}, bimiRows' = bimiRows
    PROVE  SoundVerdict(v)'
<1>1. v.at <= now'
  BY DEF SoundVerdict
<1>2. CurrentDetail(v.domain, "indicator")' = CurrentDetail(v.domain, "indicator")
  BY DEF CurrentDetail, CurrentRow
<1> QED
  BY <1>1, <1>2 DEF SoundVerdict

LEMMA RowsStaySound ==
    ASSUME NEW rows, SoundRows(rows), now \in Int, now' \in {now, now + 1}, bimiRows' = bimiRows,
           verdicts' = rows
    PROVE  SoundRows(verdicts)'
<1>1. \A i \in DOMAIN rows : SoundVerdict(rows[i])'
  <2> SUFFICES ASSUME NEW i \in DOMAIN rows PROVE SoundVerdict(rows[i])'
    OBVIOUS
  <2> DEFINE v == rows[i]
  <2>1. SoundVerdict(v)
    BY DEF SoundRows
  <2> HIDE DEF v
  <2>2. SoundVerdict(v)'
    BY <2>1, StaysSound
  <2> QED
    BY <2>2 DEF v
<1>2. /\ \E S : rows \in Seq(S)
      /\ \A i, k \in DOMAIN rows :
            rows[i].id = rows[k].id /\ rows[i].receiver = rows[k].receiver => i = k
  BY DEF SoundRows
<1> QED
  BY <1>1, <1>2 DEF SoundRows

LEMMA NoVerdictIsSound == verdicts = << >> => SoundRows(verdicts)
<1> SUFFICES ASSUME verdicts = << >> PROVE SoundRows(verdicts)
  OBVIOUS
<1>1. verdicts \in Seq({}) /\ DOMAIN verdicts = {}
  BY EmptySeq
<1> QED
  BY <1>1 DEF SoundRows

\* The managed domains are finitely many: those of the stored reports come in at once.
LEMMA ManagedStep ==
    ASSUME StatsInv, IsFiniteSet(managed), RowsNext
    PROVE  IsFiniteSet(managed)' /\ now' \in {now, now + 1}
<1>1. CASE managed' = managed
  <2>1. now' \in {now, now + 1}
    BY DEF RowsNext, ImportReport, LabelSource, ExpectSelector, LocateSource, CacheSpf,
           ClearDNSCache, ManageDomains, DayPasses
  <2> QED
    BY <1>1, <2>1
<1>2. CASE ManageDomains
  <2> DEFINE h == [r \in stored |-> r.domain]
  <2>1. {r.domain : r \in stored} = Image(h, stored)
    BY DEF Image
  <2> HIDE DEF h
  <2>2. IsFiniteSet(stored)
    BY RowsAssumption, FS_Subset DEF StatsInv
  <2>3. IsFiniteSet({r.domain : r \in stored})
    BY <2>1, <2>2, ImageFinite
  <2>4. IsFiniteSet(managed \cup {r.domain : r \in stored})
    BY <2>3, FS_Union
  <2>5. \A d : IsFiniteSet(managed \ {d})
    BY FS_Subset
  <2>6. now' = now
    BY <1>2 DEF ManageDomains
  <2>7. \/ managed' = managed \cup {r.domain : r \in stored}
        \/ \E d \in managed : managed' = managed \ {d}
    BY <1>2 DEF ManageDomains
  <2> QED
    BY <2>4, <2>5, <2>6, <2>7
<1> QED
  BY <1>1, <1>2 DEF RowsNext, ImportReport, LabelSource, ExpectSelector, LocateSource, CacheSpf,
                    ClearDNSCache, DayPasses

LEMMA BimiInvStep ==
    ASSUME BimiInv, [StatsNext]_statsVars
    PROVE  BimiInv'
<1>1. StatsInv' /\ StatsInv /\ now \in Int
  BY StatsInvStep DEF BimiInv, StatsInv
<1>2. ASSUME UNCHANGED <<bimiRows, verdicts>>, now' \in {now, now + 1} PROVE SoundRows(verdicts)'
  BY <1>1, <1>2, RowsStaySound DEF BimiInv
<1>3. CASE UNCHANGED statsVars
  BY <1>1, <1>2, <1>3 DEF BimiInv, statsVars, rowVars, bimiVars
<1>4. CASE RowsNext /\ UNCHANGED bimiVars
  BY <1>1, <1>2, <1>4, ManagedStep DEF BimiInv, bimiVars
<1>5. CASE DayPasses /\ UNCHANGED bimiVars
  BY <1>1, <1>2, <1>5 DEF BimiInv, bimiVars, DayPasses
<1>6. CASE ~BimiAtStart /\ DayPasses /\ UNCHANGED <<tlsVars>> /\ verdicts' = verdicts
           /\ bimiRows' = bimiRows
  BY <1>1, <1>2, <1>6 DEF BimiInv, DayPasses
<1>7. CASE TlsNext /\ UNCHANGED bimiVars
  <2>1. CASE DayPasses
    BY <1>5, <1>7, <2>1
  <2>2. CASE ~DayPasses
    <3>1. UNCHANGED rowVars
      BY <1>7, <2>2 DEF TlsNext, ImportTlsReport, Snapshot
    <3> QED
      BY <1>1, <1>2, <1>7, <3>1 DEF BimiInv, bimiVars, rowVars
  <2> QED
    BY <2>1, <2>2
<1>8. CASE LooksUp /\ UNCHANGED <<rowVars, tlsVars>>
  <2>1. verdicts' = << >>
    BY <1>8 DEF LooksUp, SnapshotBimi
  <2>2. SoundRows(verdicts)'
    <3>1. << >> \in Seq({}) /\ DOMAIN << >> = {}
      BY EmptySeq
    <3> QED
      BY <2>1, <3>1 DEF SoundRows
  <2> QED
    BY <1>1, <1>8, <2>2 DEF BimiInv, rowVars
<1>9. CASE ReadsSeed /\ UNCHANGED <<rowVars, tlsVars>>
  <2>1. PICK m \in SeedMail : RecordSeed(m)
    BY <1>9 DEF ReadsSeed
  <2>2. m.server <= now /\ verdicts' = Recorded(m) /\ bimiRows' = bimiRows /\ now' = now
    BY <1>9, <2>1 DEF RecordSeed, rowVars
  <2>3. SoundRows(Recorded(m))
    BY <1>1, <2>2, SeedKeeps DEF BimiInv
  <2>4. SoundRows(verdicts)'
    BY <1>1, <2>2, <2>3, RowsStaySound
  <2> QED
    BY <1>1, <1>9, <2>4 DEF BimiInv, rowVars
<1> QED
  BY <1>3, <1>4, <1>5, <1>6, <1>7, <1>8, <1>9 DEF StatsNext

\* Stored verdicts are those of seed messages, each message and receiver once.
THEOREM VerdictsKeptSound == StatsSpec => []BimiInv
<1>1. StatsInit => BimiInv
  <2> SUFFICES ASSUME StatsInit PROVE BimiInv
    OBVIOUS
  <2>1. verdicts = << >> /\ stored = {} /\ managed = {} /\ now = FirstNow
    BY DEF StatsInit, RowsInit, BimiInit
  <2>2. StatsInv
    BY <2>1, RowsAssumption DEF StatsInv
  <2>3. IsFiniteSet(managed)
    BY <2>1, FS_EmptySet
  <2> QED
    BY <2>1, <2>2, <2>3, NoVerdictIsSound DEF BimiInv
<1>2. BimiInv /\ [StatsNext]_statsVars => BimiInv'
  BY BimiInvStep
<1> QED
  BY <1>1, <1>2, PTL DEF StatsSpec

CountGroups(S, key, g) ==
    /\ IsFiniteSet(S) /\ DOMAIN g = Image(key, S) /\ g = [k \in DOMAIN g |-> g[k]]
    /\ \A k \in DOMAIN g : g[k] = Cardinality({x \in S : key[x] = k})

LEMMA CountGroupsAddUp ==
    ASSUME NEW S, NEW key, NEW g, CountGroups(S, key, g)
    PROVE  SumOf(g) = Cardinality(S)
BY CountedByGroups DEF CountGroups

\* The summary by receiver and domain counts each verdict once.
LEMMA SummaryAddsUp ==
    ASSUME SoundRows(verdicts)
    PROVE  GroupSum(VerdictSummary(0)) = Len(verdicts)
<1> DEFINE I == DOMAIN verdicts
           key == [i \in I |-> VerdictKey(verdicts[i])]
           page == VerdictSummary(0)
           g == [k \in DOMAIN page |-> page[k].messages]
<1>1. Len(verdicts) \in Nat /\ I = 1 .. Len(verdicts)
  BY LenProperties DEF SoundRows
<1>2. IsFiniteSet(I) /\ Cardinality(I) = Len(verdicts)
  <2> DEFINE n == Len(verdicts)
  <2>1. n \in Int /\ 1 \in Int /\ n \in Nat
    BY <1>1
  <2> HIDE DEF n
  <2>2. IsFiniteSet(1 .. n) /\ Cardinality(1 .. n) = IF 1 > n THEN 0 ELSE n - 1 + 1
    BY <2>1, FS_Interval, Zenon
  <2>3. Cardinality(1 .. n) = n
    BY <2>1, <2>2
  <2> QED
    BY <1>1, <2>2, <2>3 DEF n
<1>3. \A k : VerdictsOf(k) = {i \in I : key[i] = k}
  BY DEF VerdictsOf
<1>4. VerdictKeys = Image(key, I)
  BY DEF VerdictKeys, Image, Range
<1>5. \A k \in Image(key, I) : VerdictsOf(k) # {}
  BY <1>3 DEF Image
<1>6. DOMAIN page = Image(key, I)
  <2>1. DOMAIN page = {x \in VerdictKeys : {i \in VerdictsOf(x) : 0 = 0 \/ verdicts[i].at >= 0} # {}}
    BY DEF VerdictSummary
  <2> HIDE DEF key, page, I
  <2> QED
    BY <1>4, <1>5, <2>1
<1>7. \A k \in DOMAIN page : g[k] = Cardinality({i \in I : key[i] = k})
  <2>1. \A k \in DOMAIN page :
          page[k].messages = Cardinality({i \in VerdictsOf(k) : 0 = 0 \/ verdicts[i].at >= 0})
    BY DEF VerdictSummary
  <2>2. \A k : {i \in VerdictsOf(k) : 0 = 0 \/ verdicts[i].at >= 0} = VerdictsOf(k)
    OBVIOUS
  <2> HIDE DEF page
  <2> QED
    BY <1>3, <2>1, <2>2
<1>8. DOMAIN g = Image(key, I) /\ g = [k \in DOMAIN g |-> g[k]]
  BY <1>6
<1>9. \A k \in DOMAIN g : g[k] = Cardinality({i \in I : key[i] = k})
  BY <1>7
<1>10. GroupSum(page) = SumOf(g)
  BY DEF GroupSum
<1> HIDE DEF g, key, I, page
<1>11. SumOf(g) = Cardinality(I)
  <2>1. CountGroups(I, key, g)
    BY <1>2, <1>8, <1>9 DEF CountGroups
  <2> QED
    BY <2>1, CountGroupsAddUp
<1> QED
  BY <1>2, <1>10, <1>11 DEF page

LEMMA VerdictsAreBelieved ==
    ASSUME SoundRows(verdicts)
    PROVE  VerdictsBelieved
<1>1. \A i, k \in DOMAIN verdicts :
         verdicts[i].id = verdicts[k].id /\ verdicts[i].receiver = verdicts[k].receiver => i = k
  BY DEF SoundRows
<1>2. ASSUME NEW v \in Range(verdicts)
      PROVE  /\ v.at <= now
             /\ \E m \in SeedMail :
                   /\ m.headers # << >>
                   /\ <<v.receiver, v.result>>
                        \in {<<c.receiver, c.result>> : c \in Range(m.headers[1])}
             /\ v.matched # -1 => CurrentDetail(v.domain, "indicator") # {}
  <2>1. SoundVerdict(v)
    BY DEF SoundRows, Range
  <2> QED
    BY <2>1 DEF SoundVerdict
<1> QED
  BY <1>1, <1>2, SummaryAddsUp DEF VerdictsBelieved

\* TrafficAccountedFor for every pool of reports, any seed mail and every filter: each
\* view of messages, of sessions, of reported BIMI errors and of stored verdicts accounts
\* for exactly what its page counts, and what is left out is told.
THEOREM TrafficIsAccountedFor == StatsSpec => []TrafficAccountedFor
<1>1. BimiInv => BimiAccountedFor
  <2> SUFFICES ASSUME BimiInv PROVE BimiAccountedFor
    OBVIOUS
  <2>1. StatsInv /\ IsFiniteSet(managed) /\ VerdictsBelieved
    BY VerdictsAreBelieved DEF BimiInv
  <2>2. ASSUME NEW f \in Scopes
        PROVE  /\ EligibleAgrees(f) /\ BimiErrorsAddUp(f)
               /\ BimiHygieneTold(f) /\ BimiPagesAgree(f)
    BY <2>1, EligibleMatches, BimiErrorsAgree, HygieneIsTold, PagesAgree
  <2> QED
    BY <2>1, <2>2 DEF BimiAccountedFor
<1>2. MessagesAccountedFor /\ SessionsAccountedFor /\ BimiAccountedFor => TrafficAccountedFor
  BY DEF TrafficAccountedFor
<1> QED
  BY <1>1, <1>2, MessagesAreAccountedFor, SessionsAreAccountedFor, VerdictsKeptSound, PTL

-----------------------------------------------------------------------------
(* The rules X12 to X19: the windows they read                              *)

\* A filter for a domain, its days and the signatures it asks for; 0 is no bound.
TlsWindow(d, x, y, b) ==
    [domain |-> d, from |-> x, to |-> y, requireDkim |-> b,
     host |-> AnyValue, ip |-> AnyValue, type |-> AnyValue, sender |-> AnyValue]

LEMMA TlsFields ==
    ASSUME NEW d, NEW x, NEW y, NEW b
    PROVE  /\ TlsWindow(d, x, y, b).domain = d /\ TlsWindow(d, x, y, b).from = x
           /\ TlsWindow(d, x, y, b).to = y /\ TlsWindow(d, x, y, b).requireDkim = b
           /\ TlsWindow(d, x, y, b).host = AnyValue /\ TlsWindow(d, x, y, b).ip = AnyValue
           /\ TlsWindow(d, x, y, b).type = AnyValue /\ TlsWindow(d, x, y, b).sender = AnyValue
BY DEF TlsWindow

\* f is such a filter.
IsWindow(f, d, x, y, b) == f = TlsWindow(d, x, y, b)

LEMMA TlsWith ==
    ASSUME NEW f, NEW d, NEW x, NEW y, NEW b, IsWindow(f, d, x, y, b), NEW v
    PROVE  /\ IsWindow([f EXCEPT !.domain = v], v, x, y, b)
           /\ IsWindow([f EXCEPT !.from = v], d, v, y, b)
           /\ IsWindow([f EXCEPT !.to = v], d, x, v, b)
           /\ IsWindow([f EXCEPT !.requireDkim = v], d, x, y, v)
BY DEF IsWindow, TlsWindow

LEMMA AllTlsIs == IsWindow(AllTls, AnyValue, 0, 0, FALSE)
BY Zenon DEF IsWindow, AllTls, TlsWindow

LEMMA RuleWindows ==
    /\ IsWindow(TlsRecent, AnyValue, Recent, 0, TlsCfg.requireDkim)
    /\ IsWindow(TlsEarlier, AnyValue, 0, Recent - 1, TlsCfg.requireDkim)
    /\ \A d : /\ IsWindow(TlsWeek(d), d, now - 7, 0, TlsCfg.requireDkim)
              /\ IsWindow(TlsLastWeek(d), d, now - 14, now - 8, TlsCfg.requireDkim)
<1>1. IsWindow(TlsRecent, AnyValue, Recent, 0, TlsCfg.requireDkim)
  <2>1. IsWindow([AllTls EXCEPT !.from = Recent], AnyValue, Recent, 0, FALSE)
    BY AllTlsIs, TlsWith, Zenon
  <2> QED
    BY <2>1, TlsWith, Zenon DEF TlsRecent
<1>2. IsWindow(TlsEarlier, AnyValue, 0, Recent - 1, TlsCfg.requireDkim)
  <2>1. IsWindow([AllTls EXCEPT !.to = Recent - 1], AnyValue, 0, Recent - 1, FALSE)
    BY AllTlsIs, TlsWith, Zenon
  <2> QED
    BY <2>1, TlsWith, Zenon DEF TlsEarlier
<1>3. ASSUME NEW d PROVE IsWindow(TlsWeek(d), d, now - 7, 0, TlsCfg.requireDkim)
  <2>1. IsWindow([AllTls EXCEPT !.domain = d], d, 0, 0, FALSE)
    BY AllTlsIs, TlsWith, Zenon
  <2>2. IsWindow([[AllTls EXCEPT !.domain = d] EXCEPT !.from = now - 7], d, now - 7, 0, FALSE)
    BY <2>1, TlsWith, Zenon
  <2> QED
    BY <2>2, TlsWith, Zenon DEF TlsWeek
<1>4. ASSUME NEW d PROVE IsWindow(TlsLastWeek(d), d, now - 14, now - 8, TlsCfg.requireDkim)
  <2>1. IsWindow([TlsWeek(d) EXCEPT !.from = now - 14], d, now - 14, 0, TlsCfg.requireDkim)
    BY <1>3, TlsWith, Zenon
  <2> QED
    BY <2>1, TlsWith, Zenon DEF TlsLastWeek
<1> QED
  BY <1>1, <1>2, <1>3, <1>4, Zenon

\* A report whose signature counts.
Trusted(r, b) == ~(b /\ r.transport = "smtp" /\ r.dkim # "valid")

\* What such a filter reads of the entries: those of the domain and the days.
ReadBy(e, d, x, y, b) ==
    /\ e \in Entries(tlsStored) /\ Trusted(e.rep, b)
    /\ d \in {AnyValue, e.pol.domain}
    /\ x > 0 => e.rep.begin >= x
    /\ y > 0 => e.rep.begin <= y

LEMMA WindowReads ==
    ASSUME NEW w, NEW d, NEW x, NEW y, NEW b, IsWindow(w, d, x, y, b)
    PROVE  /\ \A e : e \in PoliciesIn(w) <=> ReadBy(e, d, x, y, b)
           /\ FailuresIn(w) = DetailsOf(PoliciesIn(w))
<1>1. /\ w.domain = d /\ w.from = x /\ w.to = y /\ w.requireDkim = b
      /\ w.host = AnyValue /\ w.ip = AnyValue /\ w.type = AnyValue /\ w.sender = AnyValue
  BY TlsFields DEF IsWindow
<1>2. \A r : CountsFor(r, w) <=> /\ x > 0 => r.begin >= x
                                 /\ y > 0 => r.begin <= y
                                 /\ Trusted(r, b)
  BY <1>1 DEF CountsFor, InWindow, Trusted
<1>3. \A e : e \in PoliciesIn(w)
               <=> /\ e \in Entries(tlsStored) /\ CountsFor(e.rep, w)
                   /\ d \in {AnyValue, e.pol.domain}
  BY <1>1, Zenon DEF PoliciesIn
<1>4. FailuresIn(w) = DetailsOf(PoliciesIn(w))
  BY <1>1, Zenon DEF FailuresIn
<1>5. \A e : e \in PoliciesIn(w) <=> ReadBy(e, d, x, y, b)
  BY <1>2, <1>3 DEF ReadBy
<1> QED
  BY <1>4, <1>5, Zenon

LEMMA StoredEntries ==
    ASSUME TlsInv, NEW e \in Entries(tlsStored)
    PROVE  /\ e.rep \in tlsStored /\ e.pol \in e.rep.policies
           /\ e.rep.begin \in Int /\ e.rep.begin > 0
           /\ LowerCase(e.pol.domain) = e.pol.domain /\ e \in AllEntries
<1>1. e.rep \in tlsStored /\ e.pol \in e.rep.policies /\ tlsStored \in SUBSET TlsPool
      /\ e \in AllEntries
  BY EntryIn DEF TlsInv
<1> QED
  BY <1>1, TlsRowsAssumption, DomainsAssumption

-----------------------------------------------------------------------------
(* X12 and X15                                                              *)

LEMMA TlsWeeksApart ==
    ASSUME RulesInv, TlsInv
    PROVE  TlsWindowsApart
<1> SUFFICES ASSUME NEW d \in TlsReportDomains
             PROVE  LET f == TlsWeek(d)
                        prev == TlsLastWeek(d)
                    IN  /\ PoliciesIn(f) \cap PoliciesIn(prev) = {}
                        /\ PoliciesIn(prev) = PoliciesIn(PreviousWindow(f))
                        /\ \A e \in PoliciesIn([f EXCEPT !.from = now - 14]) :
                              e \in PoliciesIn(f) \cup PoliciesIn(prev)
  BY Zenon DEF TlsWindowsApart
<1> DEFINE f == TlsWeek(d)
           prev == TlsLastWeek(d)
           both == [f EXCEPT !.from = now - 14]
           back == IF now - 14 < 1 THEN 1 ELSE now - 14
           b == TlsCfg.requireDkim
<1>1. now \in Int /\ now > 8
  BY RuleDays
<1>2. /\ IsWindow(f, d, now - 7, 0, b) /\ IsWindow(prev, d, now - 14, now - 8, b)
      /\ IsWindow(both, d, now - 14, 0, b)
  BY RuleWindows, TlsWith, Zenon
<1>3. IsWindow(PreviousWindow(f), d, back, now - 8, b)
  <2>1. f.from = now - 7 /\ f.to = 0
    BY <1>2, TlsFields DEF IsWindow
  <2> HIDE DEF f
  <2>2. WindowEnd(f) = now
    BY <2>1 DEF WindowEnd
  <2>3. f.from - 1 = now - 8 /\ f.from - (WindowEnd(f) - f.from) = now - 14
    BY <1>1, <2>1, <2>2
  <2>4. PreviousWindow(f) = [[f EXCEPT !.to = f.from - 1]
           EXCEPT !.from = IF f.from - (WindowEnd(f) - f.from) < 1 THEN 1
                           ELSE f.from - (WindowEnd(f) - f.from)]
    BY Zenon DEF PreviousWindow
  <2>5. PICK u, v : u = now - 8 /\ v = back
    OBVIOUS
  <2>6. f.from - 1 = u /\ (IF f.from - (WindowEnd(f) - f.from) < 1 THEN 1
                           ELSE f.from - (WindowEnd(f) - f.from)) = v
    BY <2>3, <2>5
  <2>7. PreviousWindow(f) = [[f EXCEPT !.to = u] EXCEPT !.from = v]
    BY <2>4, <2>6, Zenon
  <2>8. IsWindow([f EXCEPT !.to = u], d, now - 7, u, b)
    BY <1>2, TlsWith, Zenon
  <2>9. IsWindow([[f EXCEPT !.to = u] EXCEPT !.from = v], d, v, u, b)
    BY <2>8, TlsWith, Zenon
  <2> HIDE DEF back
  <2> QED
    BY <2>5, <2>7, <2>9
<1>4. /\ \A e : e \in PoliciesIn(f) <=> ReadBy(e, d, now - 7, 0, b)
      /\ \A e : e \in PoliciesIn(both) <=> ReadBy(e, d, now - 14, 0, b)
      /\ \A e : e \in PoliciesIn(prev) <=> ReadBy(e, d, now - 14, now - 8, b)
      /\ \A e : e \in PoliciesIn(PreviousWindow(f)) <=> ReadBy(e, d, back, now - 8, b)
  <2> HIDE DEF f, both, prev, back
  <2>1. \A e : e \in PoliciesIn(f) <=> ReadBy(e, d, now - 7, 0, b)
    BY <1>2, WindowReads, Zenon
  <2>2. \A e : e \in PoliciesIn(both) <=> ReadBy(e, d, now - 14, 0, b)
    BY <1>2, WindowReads, Zenon
  <2>3. \A e : e \in PoliciesIn(prev) <=> ReadBy(e, d, now - 14, now - 8, b)
    BY <1>2, WindowReads, Zenon
  <2>4. \A e : e \in PoliciesIn(PreviousWindow(f)) <=> ReadBy(e, d, back, now - 8, b)
    BY <1>3, WindowReads, Zenon
  <2> QED
    BY <2>1, <2>2, <2>3, <2>4
<1>6. \A e \in Entries(tlsStored) : e.rep.begin \in Int /\ e.rep.begin > 0
  BY StoredEntries
<1>7. PICK F, P, B, Q : /\ F = PoliciesIn(f) /\ P = PoliciesIn(prev) /\ B = PoliciesIn(both)
                        /\ Q = PoliciesIn(PreviousWindow(f))
  OBVIOUS
<1> HIDE DEF f, prev, both
<1>5. F \cap P = {} /\ P = Q /\ \A e \in B : e \in F \cup P
  <2>1. ASSUME NEW e \in F, e \in P PROVE FALSE
    <3>1. ReadBy(e, d, now - 7, 0, b) /\ ReadBy(e, d, now - 14, now - 8, b)
      BY <1>4, <1>7, <2>1
    <3>2. /\ e \in Entries(tlsStored) /\ (now - 7 > 0 => e.rep.begin >= now - 7)
          /\ (now - 8 > 0 => e.rep.begin <= now - 8)
      BY <3>1, Zenon DEF ReadBy
    <3> QED
      BY <1>1, <1>6, <3>2
  <2>2. P = Q
    <3>1. ASSUME NEW e PROVE ReadBy(e, d, now - 14, now - 8, b) <=> ReadBy(e, d, back, now - 8, b)
      BY <1>1, <1>6 DEF ReadBy
    <3>2. \A e : e \in P <=> e \in Q
      BY <1>4, <1>7, <3>1, Zenon
    <3> QED
      BY <1>7, <3>2
  <2>3. \A e \in B : e \in F \cup P
    BY <1>1, <1>4, <1>6, <1>7 DEF ReadBy
  <2> QED
    BY <2>1, <2>2, <2>3
<1> QED
  BY <1>5, <1>7, Zenon DEF f, prev, both

\* S has no element but z.
Only(S, z) == \A x \in S : x = z

LEMMA OnlyOne ==
    ASSUME NEW S, NEW z, Only(S, z)
    PROVE  ~(Cardinality(S) > 1)
<1>1. S = {} \/ S = {z}
  BY DEF Only
<1>2. Cardinality({}) = 0 /\ Cardinality({z}) = 1
  BY FS_EmptySet, FS_Singleton
<1> QED
  BY <1>1, <1>2

\* The modes that reporters applied for a domain on one day.
ModesOn(f, k) ==
    {StsMode(e.pol) : e \in {x \in {y \in PoliciesIn(f) : y.rep.begin = k[1] /\ y.pol.domain = k[2]} :
                                x.pol.type = "sts"}} \ {""}

LEMMA DivergenceShows ==
    ASSUME NEW f
    PROVE  DivergenceDrifts(f)
<1> SUFFICES ASSUME NEW k, Cardinality(ModesOn(f, k)) > 1,
                    published[k[2]] # Unpublished, published[k[2]].sts.mode # ""
             PROVE  \E r \in TLSPolicyDrift(f) : r.domain = k[2] /\ r.field = "mode"
  BY Zenon DEF DivergenceDrifts, ModesOn
<1> DEFINE told == published[k[2]].sts.mode
<1>1. PICK m \in ModesOn(f, k) : m # told
  <2>1. ~Only(ModesOn(f, k), told)
    BY OnlyOne
  <2> QED
    BY <2>1 DEF Only
<1>2. PICK e \in PoliciesIn(f) : /\ e.pol.domain = k[2] /\ e.pol.type = "sts"
                                 /\ StsMode(e.pol) = m /\ m # ""
  BY <1>1 DEF ModesOn
<1> DEFINE known == {x \in PoliciesIn(f) : published[x.pol.domain] # Unpublished}
           snap(x) == published[x.pol.domain]
           differ(x, y, none) == x # none /\ y # none /\ x # y
           fields(x) ==
            IF x.pol.type # "sts" THEN {}
            ELSE {c \in {"mode", "max_age", "mx"} :
                     CASE c = "mode" -> differ(StsMode(x.pol), snap(x).sts.mode, "")
                       [] c = "max_age" -> differ(StsMaxAge(x.pol), snap(x).sts.maxAge, 0)
                       [] c = "mx" -> differ(PolicyMXPatterns(x.pol), snap(x).sts.mx, {})}
           hosts(x) == {h \in PolicyMXPatterns(x.pol) : "*" \notin Range(h)} \cap DOMAIN snap(x).tlsa
           rrset(x) == /\ x.pol.type = "tlsa"
                       /\ \E h \in hosts(x) : differ(x.pol.string, snap(x).tlsa[h], "")
           row(x, kind, field) ==
            [domain |-> x.pol.domain, kind |-> kind, field |-> field, org |-> x.rep.org]
<1>3. ASSUME NEW x \in known, NEW c \in fields(x) PROVE row(x, "mta_sts", c) \in TLSPolicyDrift(f)
  <2>1. TLSPolicyDrift(f) = UNION {{row(y, "mta_sts", k0) : k0 \in fields(y)} : y \in known}
                              \cup {row(y, "tlsa", "rrset") : y \in {z \in known : rrset(z)}}
    BY Zenon DEF TLSPolicyDrift
  <2>2. row(x, "mta_sts", c) \in UNION {{row(y, "mta_sts", k0) : k0 \in fields(y)} : y \in known}
    <3> HIDE DEF row, fields, known
    <3>1. row(x, "mta_sts", c) \in {row(x, "mta_sts", k0) : k0 \in fields(x)}
      BY Zenon
    <3>2. {row(x, "mta_sts", k0) : k0 \in fields(x)}
            \in {{row(y, "mta_sts", k0) : k0 \in fields(y)} : y \in known}
      BY Zenon
    <3> QED
      BY <3>1, <3>2, Zenon
  <2> HIDE DEF row, fields, known, rrset
  <2> QED
    BY <2>1, <2>2, Zenon
<1>4. e \in known
  BY <1>2
<1>5. "mode" \in fields(e)
  <2>1. differ(StsMode(e.pol), snap(e).sts.mode, "")
    BY <1>1, <1>2
  <2> HIDE DEF differ, snap
  <2> QED
    BY <1>2, <2>1
<1>6. row(e, "mta_sts", "mode").domain = k[2] /\ row(e, "mta_sts", "mode").field = "mode"
  BY <1>2
<1> HIDE DEF row, fields, known
<1> QED
  BY <1>3, <1>4, <1>5, <1>6

-----------------------------------------------------------------------------
(* X13: what is refused is on the incidents page, and was reached before    *)

\* The entries and the failures of a domain, of those of every domain.
LEMMA RecentOfDomain ==
    ASSUME NEW d, NEW w, w = [TlsRecent EXCEPT !.domain = d],
           NEW x \in DetailsOf(PoliciesIn(TlsRecent)), x.pol.domain = d
    PROVE  x \in FailuresIn(w)
<1>1. PICK e \in PoliciesIn(TlsRecent) :
         x \in {[rep |-> e.rep, pol |-> e.pol, det |-> c] : c \in e.pol.fails}
  BY DEF DetailsOf
<1>2. IsWindow(TlsRecent, AnyValue, Recent, 0, TlsCfg.requireDkim)
  BY RuleWindows
<1>3. IsWindow(w, d, Recent, 0, TlsCfg.requireDkim)
  BY <1>2, TlsWith
<1>4. e.pol.domain = d
  BY <1>1
<1>5. ReadBy(e, AnyValue, Recent, 0, TlsCfg.requireDkim)
  BY <1>2, WindowReads, Zenon
<1>6. ReadBy(e, d, Recent, 0, TlsCfg.requireDkim)
  BY <1>4, <1>5 DEF ReadBy
<1>7. e \in PoliciesIn(w) /\ FailuresIn(w) = DetailsOf(PoliciesIn(w))
  BY <1>3, <1>6, WindowReads, Zenon
<1>8. x \in DetailsOf(PoliciesIn(w))
  BY <1>1, <1>7 DEF DetailsOf
<1> QED
  BY <1>7, <1>8

LEMMA RecentFailures ==
    FailuresIn(TlsRecent) = DetailsOf(PoliciesIn(TlsRecent))
BY RuleWindows, WindowReads, Zenon

StripKey(x) == [org |-> x.rep.org, domain |-> x.pol.domain, host |-> x.det.host]

LEMMA StrippedFrom ==
    ASSUME NEW a \in TlsStarttlsStripped
    PROVE  \E x \in FailuresIn(TlsRecent) :
              /\ x.det.type = "starttls-not-supported" /\ x.det.host # << >>
              /\ a.domain = x.pol.domain /\ a.key[2] = x.det.host
              /\ Applied(ReachedBefore(StripKey(x))).success > 0
<1> DEFINE found(k) == StrippedNow[k].messages >= Setting(TlsCfg.stripMin, 5)
           before(k) == Applied(ReachedBefore(k)).success > 0
           silent(k) == Count({x \in DetailsOf(ReachedBefore(k)) :
                                  x.det.type = "starttls-not-supported"}) = 0
           alert(k) == Alert("tls_starttls_stripped", k.domain, <<k.org, k.host>>, "critical")
           refused == {y \in FailuresIn(TlsRecent) : /\ y.det.type = "starttls-not-supported"
                                                     /\ y.det.host # << >>}
           key == [x \in refused |-> StripKey(x)]
<1>1. TlsStarttlsStripped
        = {alert(k) : k \in {x \in DOMAIN StrippedNow : found(x) /\ before(x) /\ silent(x)}}
  BY Zenon DEF TlsStarttlsStripped
<1>2. \A k : alert(k).domain = k.domain /\ alert(k).key[2] = k.host
  BY DEF Alert
<1>3. StrippedNow = ObservedBy(key)
  BY Zenon DEF StrippedNow, StripKey
<1>4. DOMAIN StrippedNow = {StripKey(x) : x \in refused}
  BY <1>3 DEF ObservedBy, Range
<1> HIDE DEF found, silent, alert
<1>5. PICK k \in DOMAIN StrippedNow : a = alert(k) /\ before(k)
  BY <1>1
<1>6. PICK x \in refused : k = StripKey(x)
  BY <1>4, <1>5, Zenon
<1>7. k.domain = x.pol.domain /\ k.host = x.det.host
  BY <1>6 DEF StripKey
<1>8. a.domain = x.pol.domain /\ a.key[2] = x.det.host
  BY <1>2, <1>5, <1>7
<1> QED
  BY <1>5, <1>6, <1>8

LEMMA IncidentShown ==
    ASSUME TlsInv, NEW x \in FailuresIn(TlsRecent),
           x.det.type = "starttls-not-supported", x.det.host # << >>,
           NEW w, w = [TlsRecent EXCEPT !.domain = x.pol.domain]
    PROVE  \E i \in TLSIncidents(w) : i.type = "starttls-not-supported" /\ i.host = x.det.host
<1>1. x \in FailuresIn(w)
  BY RecentFailures, RecentOfDomain
<1>2. x \in Typed(w) /\ Typed(w) \in SUBSET AllDetails
  BY <1>1, FailuresAre DEF Typed
<1>3. PICK i \in IncidentsOf(Typed(w)) : Holds(i, x)
  BY <1>2, IncidentAt
<1>4. i.type = "starttls-not-supported" /\ i.host = x.det.host
  BY <1>3 DEF Holds, HostOf
<1> QED
  BY <1>3, <1>4, IncidentsAre

LEMMA AppliedSuccess ==
    ASSUME NEW E \in SUBSET AllEntries, Applied(E).success > 0
    PROVE  \E e \in E : e.pol.success > 0
<1> SUFFICES ASSUME \A e \in E : ~(e.pol.success > 0) PROVE FALSE
  OBVIOUS
<1>1. /\ IsFiniteSet(E)
      /\ \A e \in E : EntrySuccess[e] = e.pol.success /\ e.pol.success \in Nat
  BY EntriesWeighed DEF Weighed
<1>2. [e \in E |-> e.pol.success] = [e \in E |-> EntrySuccess[e]]
  BY <1>1
<1>3. Applied(E).success = Over(EntrySuccess, E)
  BY <1>2 DEF Applied, Over
<1>4. \A e \in E : EntrySuccess[e] = 0
  BY <1>1
<1> QED
  BY <1>1, <1>3, <1>4, OverZero

LEMMA RateSucceeds ==
    ASSUME TlsInv, NEW w, NEW e \in PoliciesIn(w), e.pol.success > 0
    PROVE  TLSRate(w).success > 0
<1> DEFINE E == PoliciesIn(w)
           S == SessionsOf(E)
           s == SessionWith(E, e)
<1>1. E \in SUBSET AllEntries /\ Sessions(w) = S
  BY PoliciesAre
<1>2. s \in S
  BY DEF SessionsOf
<1>3. e \in SameSession(E, s.rep, s.domain, s.mx)
      /\ \A x \in SameSession(E, s.rep, s.domain, s.mx) : x.pol.success <= s.success
  BY <1>1, SessionFacts
<1>4. s.success \in Nat /\ e.pol.success \in Nat
  <2>1. e.pol.success \in Nat
    BY <1>1, EntryIn DEF AllEntries
  <2> HIDE DEF E, s
  <2>2. S \in SUBSET SessionsOf(E)
    OBVIOUS
  <2> HIDE DEF S
  <2> QED
    BY <1>1, <1>2, <2>1, <2>2, SessionsWeighed
<1> HIDE DEF s
<1>5. s.success > 0
  BY <1>3, <1>4
<1>6. S \in SUBSET SessionsOf(E)
  OBVIOUS
<1> HIDE DEF S, E
<1>7. Weighed(SessionSuccess(S), S) /\ Tried(S).success = Over(SessionSuccess(S), S)
      /\ Tried(S).success \in Nat
  BY <1>1, <1>6, SessionsWeighed, TriedOver
<1>8. SessionSuccess(S)[s] <= Over(SessionSuccess(S), S)
  BY <1>2, <1>7, PartOfSum
<1>9. SessionSuccess(S)[s] = s.success
  BY <1>2 DEF SessionSuccess
<1> QED
  BY <1>1, <1>4, <1>5, <1>7, <1>8, <1>9 DEF TLSRate

LEMMA StrippedMatch ==
    ASSUME TlsInv, NEW a \in TlsStarttlsStripped
    PROVE  /\ \E i \in TLSIncidents([TlsRecent EXCEPT !.domain = a.domain]) :
                 i.type = "starttls-not-supported" /\ i.host = a.key[2]
           /\ TLSRate([TlsEarlier EXCEPT !.domain = a.domain]).success > 0
<1>1. PICK x \in FailuresIn(TlsRecent) :
         /\ x.det.type = "starttls-not-supported" /\ x.det.host # << >>
         /\ a.domain = x.pol.domain /\ a.key[2] = x.det.host
         /\ Applied(ReachedBefore(StripKey(x))).success > 0
  BY StrippedFrom
<1>2. \E i \in TLSIncidents([TlsRecent EXCEPT !.domain = a.domain]) :
         i.type = "starttls-not-supported" /\ i.host = a.key[2]
  BY <1>1, IncidentShown
<1> DEFINE k == StripKey(x)
           w == [TlsEarlier EXCEPT !.domain = a.domain]
<1>3. /\ \A e \in ReachedBefore(k) : e \in PoliciesIn(TlsEarlier) /\ Same(e.pol.domain, k.domain)
      /\ k.domain = a.domain
  BY <1>1 DEF ReachedBefore, StripKey
<1>4. PoliciesIn(TlsEarlier) \in SUBSET AllEntries /\ PoliciesIn(TlsEarlier) \in SUBSET Entries(tlsStored)
  BY PoliciesAre
<1>5. PICK e \in ReachedBefore(k) : e.pol.success > 0
  <2> HIDE DEF k
  <2>1. ReachedBefore(k) \in SUBSET AllEntries
    BY <1>3, <1>4
  <2> QED
    BY <1>1, <2>1, AppliedSuccess DEF k
<1>6. e.pol.domain = a.domain
  <2>1. LowerCase(e.pol.domain) = e.pol.domain
    BY <1>3, <1>4, <1>5, StoredEntries
  <2>2. x \in DetailsOf(PoliciesIn(TlsRecent)) /\ PoliciesIn(TlsRecent) \in SUBSET Entries(tlsStored)
        /\ PoliciesIn(TlsRecent) \in SUBSET AllEntries
    BY PoliciesAre, RecentFailures
  <2>3. [rep |-> x.rep, pol |-> x.pol] \in PoliciesIn(TlsRecent)
    BY <2>2, DetailIn
  <2>4. LowerCase(x.pol.domain) = x.pol.domain
    BY <2>2, <2>3, StoredEntries
  <2>5. Same(e.pol.domain, x.pol.domain)
    BY <1>1, <1>3, <1>5
  <2> QED
    BY <1>1, <2>1, <2>4, <2>5 DEF Same
<1>7. IsWindow(TlsEarlier, AnyValue, 0, Recent - 1, TlsCfg.requireDkim)
  BY RuleWindows
<1>8. IsWindow(w, a.domain, 0, Recent - 1, TlsCfg.requireDkim)
  BY <1>7, TlsWith, Zenon
<1>9. ReadBy(e, AnyValue, 0, Recent - 1, TlsCfg.requireDkim)
  BY <1>3, <1>5, <1>7, WindowReads, Zenon
<1>10. ReadBy(e, a.domain, 0, Recent - 1, TlsCfg.requireDkim)
  BY <1>6, <1>9 DEF ReadBy
<1>11. e \in PoliciesIn(w)
  BY <1>8, <1>10, WindowReads, Zenon
<1> HIDE DEF w
<1>12. TLSRate(w).success > 0
  BY <1>5, <1>11, RateSucceeds
<1> QED
  BY <1>2, <1>12 DEF w

-----------------------------------------------------------------------------
(* X14 and X17: what failed at all                                          *)

OccurrenceKey(x) ==
    [org |-> x.rep.org, domain |-> x.pol.domain, host |-> HostOf(x), type |-> x.det.type]

LEMMA OccurrencesAre ==
    ASSUME NEW types
    PROVE  DOMAIN Occurrences(types) = {OccurrenceKey(x) : x \in OfTypes(TlsRecent, types)}
<1> DEFINE key == [x \in OfTypes(TlsRecent, types) |-> OccurrenceKey(x)]
<1>1. Occurrences(types) = ObservedBy(key)
  BY Zenon DEF Occurrences, OccurrenceKey
<1>2. DOMAIN ObservedBy(key) = {OccurrenceKey(x) : x \in OfTypes(TlsRecent, types)}
  BY DEF ObservedBy, Range
<1> QED
  BY <1>1, <1>2

LEMMA ExpiredMatch ==
    TlsCertExpired # {} <=> "certificate-expired" \in DOMAIN TLSFailureBreakdown(TlsRecent).types
<1> DEFINE T == {"certificate-expired"}
           X == FailuresIn(TlsRecent)
           shown(x) == IF x.det.type = "" THEN "(unspecified)" ELSE x.det.type
<1>1. TlsCertExpired # {} <=> DOMAIN Occurrences(T) # {}
  BY DEF TlsCertExpired
<1>2. DOMAIN Occurrences(T) # {} <=> \E x \in X : x.det.type = "certificate-expired"
  <2>1. DOMAIN Occurrences(T) = {OccurrenceKey(x) : x \in OfTypes(TlsRecent, T)}
    BY OccurrencesAre
  <2>2. OfTypes(TlsRecent, T) = {x \in X : x.det.type = "certificate-expired"}
    BY DEF OfTypes
  <2> QED
    BY <2>1, <2>2
<1>3. DOMAIN TLSFailureBreakdown(TlsRecent).types = {shown(x) : x \in X}
  BY DEF TLSFailureBreakdown, ObservedBy, Range
<1>4. \A x : shown(x) = "certificate-expired" <=> x.det.type = "certificate-expired"
  OBVIOUS
<1> HIDE DEF X, shown, T
<1> QED
  BY <1>1, <1>2, <1>3, <1>4

LEMMA DaneMatch ==
    Pairs(TlsDaneInvalid)
      = {<<k.domain, <<k.type, k.host>>>> :
            k \in {x \in DOMAIN TLSDaneHealth(TlsRecent) : x.type # "dane-required"}}
<1> DEFINE T == {"tlsa-invalid", "dnssec-invalid"}
           U == {"tlsa-invalid", "dnssec-invalid", "dane-required"}
           X == OfTypes(TlsRecent, T)
           Y == OfTypes(TlsRecent, U)
           pair(k) == <<k.domain, <<k.type, k.host>>>>
           key(x) == [type |-> x.det.type, org |-> x.rep.org, domain |-> x.pol.domain,
                      host |-> HostOf(x)]
           show(x) == <<x.pol.domain, <<x.det.type, HostOf(x)>>>>
<1>1. Pairs(TlsDaneInvalid) = {show(x) : x \in X}
  <2>1. DOMAIN Occurrences(T) = {OccurrenceKey(x) : x \in X}
    BY OccurrencesAre
  <2>2. TlsDaneInvalid = {Alert("tls_dane_invalid", k.domain, <<k.type, k.host>>, "critical") :
                             k \in DOMAIN Occurrences(T)}
    BY Zenon DEF TlsDaneInvalid
  <2>3. \A k : LET a == Alert("tls_dane_invalid", k.domain, <<k.type, k.host>>, "critical")
               IN  <<a.domain, a.key>> = pair(k)
    BY DEF Alert
  <2>4. \A x : pair(OccurrenceKey(x)) = show(x)
    BY DEF OccurrenceKey
  <2> HIDE DEF pair, show, X, T
  <2>5. Pairs(TlsDaneInvalid) = {pair(k) : k \in DOMAIN Occurrences(T)}
    BY <2>2, <2>3 DEF Pairs
  <2> QED
    BY <2>1, <2>4, <2>5
<1>2. DOMAIN TLSDaneHealth(TlsRecent) = {key(x) : x \in Y}
  <2> DEFINE f == [x \in Y |-> key(x)]
  <2>1. TLSDaneHealth(TlsRecent) = ObservedBy(f)
    BY Zenon DEF TLSDaneHealth
  <2>2. DOMAIN ObservedBy(f) = {key(x) : x \in Y}
    <3> HIDE DEF Y, key
    <3> QED
      BY DEF ObservedBy, Range
  <2> QED
    BY <2>1, <2>2
<1>3. \A x : x \in X <=> x \in Y /\ x.det.type # "dane-required"
  BY DEF OfTypes
<1>4. \A x : key(x).type = x.det.type /\ pair(key(x)) = show(x)
  OBVIOUS
<1> HIDE DEF X, Y, pair, key, show
<1>5. {show(x) : x \in X} = {pair(k) : k \in {x \in DOMAIN TLSDaneHealth(TlsRecent) : x.type # "dane-required"}}
  BY <1>2, <1>3, <1>4
<1> QED
  BY <1>1, <1>5 DEF pair

-----------------------------------------------------------------------------
(* X16: the policy host                                                     *)

\* What the page lists of the types that the rule counts.
LEMMA FetchErrors ==
    ASSUME TlsInv, NEW f
    PROVE  LET byType == TLSEndpointHealth(f).byType
           IN  Count(OfTypes(f, {"sts-policy-fetch-error", "sts-webpki-invalid"}))
                 = GroupSum([t \in DOMAIN byType \ {"sts-policy-invalid"} |-> byType[t]])
<1> DEFINE T == {"sts-policy-fetch-error", "sts-webpki-invalid"}
           U == {"sts-policy-fetch-error", "sts-webpki-invalid", "sts-policy-invalid"}
           X == OfTypes(f, T)
           Y == OfTypes(f, U)
           whole == [x \in Y |-> x.det.type]
           part == [x \in X |-> x.det.type]
           fetched == DOMAIN ObservedBy(whole) \ {"sts-policy-invalid"}
<1>1. TLSEndpointHealth(f).byType = ObservedBy(whole)
  BY DEF TLSEndpointHealth
<1>2. X \in SUBSET AllDetails
  BY FailuresAre DEF OfTypes
<1>3. X = {x \in Y : x.det.type # "sts-policy-invalid"}
  BY DEF OfTypes
<1>4. DOMAIN ObservedBy(whole) = {x.det.type : x \in Y} /\ DOMAIN ObservedBy(part) = {x.det.type : x \in X}
  <2> HIDE DEF X, Y
  <2> QED
    BY DEF ObservedBy, Range
<1>5. DOMAIN ObservedBy(part) = fetched
  <2> HIDE DEF X, Y
  <2> QED
    BY <1>3, <1>4
<1>6. \A t \in fetched : ObservedBy(whole)[t] = ObservedBy(part)[t]
  <2> SUFFICES ASSUME NEW t \in fetched PROVE ObservedBy(whole)[t] = ObservedBy(part)[t]
    OBVIOUS
  <2>1. t \in DOMAIN ObservedBy(whole) /\ t \in DOMAIN ObservedBy(part) /\ t # "sts-policy-invalid"
    BY <1>5
  <2>2. {x \in Y : x.det.type = t} = {x \in X : x.det.type = t}
    <3> HIDE DEF X, Y
    <3> QED
      BY <1>3, <2>1
  <2>3. ObservedBy(whole)[t] = Observed({x \in Y : x.det.type = t})
    <3> HIDE DEF Y
    <3>1. {x \in DOMAIN whole : whole[x] = t} = {x \in Y : x.det.type = t}
      OBVIOUS
    <3> HIDE DEF whole
    <3> QED
      BY <2>1, <3>1 DEF ObservedBy
  <2>4. ObservedBy(part)[t] = Observed({x \in X : x.det.type = t})
    <3> HIDE DEF X
    <3>1. {x \in DOMAIN part : part[x] = t} = {x \in X : x.det.type = t}
      OBVIOUS
    <3> HIDE DEF part
    <3> QED
      BY <2>1, <3>1 DEF ObservedBy
  <2> QED
    BY <2>2, <2>3, <2>4
<1>7. [t \in fetched |-> ObservedBy(whole)[t]] = ObservedBy(part)
  <2>1. ObservedBy(part) = [t \in DOMAIN ObservedBy(part) |-> ObservedBy(part)[t]]
    BY Zenon DEF ObservedBy
  <2> HIDE DEF whole, part, fetched
  <2> QED
    BY <1>5, <1>6, <2>1
<1>8. GroupSum(ObservedBy(part)) = Count(X)
  <2>1. DOMAIN part = X
    OBVIOUS
  <2> HIDE DEF part, X
  <2> QED
    BY <1>2, <2>1, ObservedByAddsUp
<1> QED
  BY <1>1, <1>7, <1>8, Zenon

\* The failures of a domain.
LEMMA FailuresOfDomain ==
    ASSUME TlsInv, NEW d, d # AnyValue
    PROVE  FailuresIn([TlsRecent EXCEPT !.domain = d])
             = {x \in FailuresIn(TlsRecent) : x.pol.domain = d}
<1> DEFINE w == [TlsRecent EXCEPT !.domain = d]
           E == PoliciesIn(TlsRecent)
<1>1. IsWindow(TlsRecent, AnyValue, Recent, 0, TlsCfg.requireDkim)
  BY RuleWindows
<1>2. IsWindow(w, d, Recent, 0, TlsCfg.requireDkim)
  BY <1>1, TlsWith
<1>3. \A e : e \in PoliciesIn(w) <=> e \in E /\ e.pol.domain = d
  <2>1. \A e : ReadBy(e, d, Recent, 0, TlsCfg.requireDkim)
                 <=> ReadBy(e, AnyValue, Recent, 0, TlsCfg.requireDkim) /\ e.pol.domain = d
    BY DEF ReadBy
  <2>2. \A e : e \in PoliciesIn(w) <=> ReadBy(e, d, Recent, 0, TlsCfg.requireDkim)
    <3> HIDE DEF w
    <3> QED
      BY <1>2, WindowReads, Zenon
  <2>3. \A e : e \in E <=> ReadBy(e, AnyValue, Recent, 0, TlsCfg.requireDkim)
    BY <1>1, WindowReads, Zenon
  <2> HIDE DEF w, E
  <2> QED
    BY <2>1, <2>2, <2>3
<1>4. FailuresIn(w) = DetailsOf(PoliciesIn(w))
  <2> HIDE DEF w
  <2> QED
    BY <1>2, WindowReads, Zenon
<1> HIDE DEF w, E
<1>5. DetailsOf(PoliciesIn(w)) = {x \in DetailsOf(E) : x.pol.domain = d}
  BY <1>3 DEF DetailsOf
<1> QED
  BY <1>4, <1>5, RecentFailures DEF w, E

LEMMA HostErrorsMatch ==
    ASSUME TlsInv, NEW d \in DOMAIN PolicyHostErrors \ {AnyValue}
    PROVE  LET byType == TLSEndpointHealth([TlsRecent EXCEPT !.domain = d]).byType
           IN  /\ PolicyHostErrors[d].failures
                    = GroupSum([t \in DOMAIN byType \ {"sts-policy-invalid"} |-> byType[t]])
               /\ PolicyHostErrors[d].sessions = TLSRateByDomain(TlsRecent)[d].messages
<1> DEFINE w == [TlsRecent EXCEPT !.domain = d]
           T == {"sts-policy-fetch-error", "sts-webpki-invalid"}
           sessions == TLSRateByDomain(TlsRecent)
           failed(z) == Count({x \in OfTypes(TlsRecent, T) : x.pol.domain = z})
<1>1. PolicyHostErrors
        = [z \in DOMAIN sessions |-> [failures |-> failed(z), sessions |-> sessions[z].messages]]
  BY Zenon DEF PolicyHostErrors, TLSRateByDomain
<1> HIDE DEF sessions, failed
<1>2. PolicyHostErrors[d].failures = failed(d) /\ PolicyHostErrors[d].sessions = sessions[d].messages
  BY <1>1
<1>3. {x \in OfTypes(TlsRecent, T) : x.pol.domain = d} = OfTypes(w, T)
  <2>1. FailuresIn(w) = {x \in FailuresIn(TlsRecent) : x.pol.domain = d}
    BY FailuresOfDomain
  <2> HIDE DEF w, T
  <2> QED
    BY <2>1 DEF OfTypes
<1>4. failed(d) = Count(OfTypes(w, T))
  BY <1>3, Zenon DEF failed
<1>5. LET byType == TLSEndpointHealth(w).byType
      IN  Count(OfTypes(w, T))
            = GroupSum([t \in DOMAIN byType \ {"sts-policy-invalid"} |-> byType[t]])
  <2> HIDE DEF w
  <2> QED
    BY FetchErrors, Zenon
<1> HIDE DEF T
<1> QED
  BY <1>2, <1>4, <1>5, Zenon DEF sessions

-----------------------------------------------------------------------------
(* X18: who is silent                                                       *)

LEMMA TlsSilentMatch ==
    {a.key : a \in TlsReporterSilent} = TLSCoverage(TlsRecent, TlsCfg.gap).lapsed
<1> DEFINE gaps == TLSReporterGaps(14, Setting(TlsCfg.gap, 3))
           last(o) == Greatest({EndOf(r) : r \in {x \in tlsStored : x.org = o}})
<1>1. TlsReporterSilent = {Alert("tls_reporter_silent", "", o, "warning") : o \in gaps}
  BY Zenon DEF TlsReporterSilent
<1>2. gaps = {o \in {r.org : r \in tlsStored} : /\ last(o) >= now - 14
                                               /\ last(o) < now - Setting(TlsCfg.gap, 3)}
  BY Zenon DEF TLSReporterGaps
<1>3. TLSCoverage(TlsRecent, TlsCfg.gap).lapsed
        = {o \in {r.org : r \in tlsStored} : /\ last(o) >= now - 14
                                            /\ last(o) < now - Setting(TlsCfg.gap, 3)}
  BY DEF TLSCoverage
<1>4. \A o : Alert("tls_reporter_silent", "", o, "warning").key = o
  BY DEF Alert
<1> HIDE DEF last, gaps
<1>5. {a.key : a \in TlsReporterSilent} = gaps
  BY <1>1, <1>4
<1> QED
  BY <1>2, <1>3, <1>5

-----------------------------------------------------------------------------
(* X19: the node that fails now                                             *)

Named(x) == Receiving(x) # NoAddress /\ x.det.host # << >>
NodeOf(x) == <<x.det.host, Receiving(x)>>
NodesOf(h) == {Receiving(x) : x \in {y \in DetailsOf(Entries(tlsStored)) : Named(y) /\ y.det.host = h}}
NodeSeverity(k) == IF Cardinality(NodesOf(k[2][1])) > 1 THEN "critical" ELSE "warning"

LEMMA NewFailingIs ==
    ASSUME NEW a \in TlsNewFailingReceiver
    PROVE  /\ \E x \in FailuresIn(TlsRecent) :
                 Named(x) /\ a.domain = x.pol.domain /\ a.key = NodeOf(x)
           /\ \A y \in FailuresIn(TlsEarlier) : Named(y) => NodeOf(y) # a.key
           /\ a = Alert("tls_new_failing_receiver", a.domain, a.key,
                        NodeSeverity(<<a.domain, a.key>>))
<1> DEFINE addressed(X) == {x \in X : Receiving(x) # NoAddress /\ x.det.host # << >>}
           node(x) == <<x.det.host, Receiving(x)>>
           failing == ObservedBy([x \in addressed(FailuresIn(TlsRecent)) |-> <<x.pol.domain, node(x)>>])
           earlier == {node(x) : x \in addressed(FailuresIn(TlsEarlier))}
           nodes(h) == {Receiving(x) : x \in {y \in addressed(DetailsOf(Entries(tlsStored))) :
                                                y.det.host = h}}
           severity(k) == IF Cardinality(nodes(k[2][1])) > 1 THEN "critical" ELSE "warning"
           enough(k) == failing[k].messages >= Setting(TlsCfg.newFailing, 10)
<1>1. TlsNewFailingReceiver
        = {Alert("tls_new_failing_receiver", k[1], k[2], severity(k)) :
              k \in {x \in DOMAIN failing : enough(x) /\ x[2] \notin earlier}}
  BY Zenon DEF TlsNewFailingReceiver
<1>2. DOMAIN failing = {<<x.pol.domain, NodeOf(x)>> : x \in {y \in FailuresIn(TlsRecent) : Named(y)}}
  BY DEF ObservedBy, Range, Named, NodeOf
<1>3. earlier = {NodeOf(y) : y \in {z \in FailuresIn(TlsEarlier) : Named(z)}}
  BY DEF NodeOf, Named
<1>4. \A k : severity(k) = NodeSeverity(k)
  <2>1. \A h : nodes(h) = NodesOf(h)
    BY DEF NodesOf, Named
  <2> HIDE DEF nodes
  <2> QED
    BY <2>1, Zenon DEF NodeSeverity
<1> HIDE DEF failing, earlier, severity, enough
<1>5. PICK k \in DOMAIN failing :
         /\ a = Alert("tls_new_failing_receiver", k[1], k[2], severity(k))
         /\ k[2] \notin earlier
  BY <1>1
<1>6. PICK x \in FailuresIn(TlsRecent) : Named(x) /\ k = <<x.pol.domain, NodeOf(x)>>
  BY <1>2, <1>5
<1>7. a.domain = k[1] /\ a.key = k[2] /\ k = <<k[1], k[2]>>
  BY <1>5, <1>6 DEF Alert
<1>8. a.domain = x.pol.domain /\ a.key = NodeOf(x)
  BY <1>6, <1>7
<1>9. \A y \in FailuresIn(TlsEarlier) : Named(y) => NodeOf(y) # a.key
  BY <1>3, <1>5, <1>7
<1>10. k = <<a.domain, a.key>> /\ k[1] = a.domain /\ k[2] = a.key /\ severity(k) = NodeSeverity(k)
  BY <1>4, <1>7
<1>11. a = Alert("tls_new_failing_receiver", a.domain, a.key, NodeSeverity(<<a.domain, a.key>>))
  BY <1>5, <1>10
<1> QED
  BY <1>6, <1>8, <1>9, <1>11

LEMMA AddressListed ==
    ASSUME NEW f
    PROVE  DOMAIN TLSReceivers(f).byIP
             = {<<Receiving(x), HostOf(x)>> : x \in {y \in FailuresIn(f) : Receiving(y) # NoAddress}}
<1> DEFINE named == {x \in FailuresIn(f) : Receiving(x) # NoAddress}
           ip == [x \in named |-> <<Receiving(x), HostOf(x)>>]
<1>1. TLSReceivers(f).byIP = ObservedBy(ip)
  BY DEF TLSReceivers
<1> HIDE DEF named
<1>2. DOMAIN ObservedBy(ip) = {<<Receiving(x), HostOf(x)>> : x \in named}
  BY DEF ObservedBy, Range
<1> QED
  BY <1>1, <1>2 DEF named

LEMMA NewReceiversMatch ==
    ASSUME TlsInv, NEW a \in TlsNewFailingReceiver, NEW ip, ip = <<a.key[2], a.key[1]>>
    PROVE  /\ ip \in DOMAIN TLSReceivers(TlsRecent).byIP
           /\ a.key[1] # Unspecified => ip \notin DOMAIN TLSReceivers(TlsEarlier).byIP
           /\ a.severity = "critical" =>
                 \E x \in DOMAIN TLSReceivers(AllTls).byIP : x # ip /\ x[2] = ip[2]
<1>1. PICK x \in FailuresIn(TlsRecent) :
         Named(x) /\ a.domain = x.pol.domain /\ a.key = NodeOf(x)
  BY NewFailingIs
<1>2. /\ ip = <<Receiving(x), HostOf(x)>> /\ Receiving(x) # NoAddress /\ HostOf(x) = x.det.host
      /\ a.key[1] = x.det.host /\ ip[2] = x.det.host /\ ip[1] = Receiving(x)
  BY <1>1 DEF Named, NodeOf, HostOf
<1>3. ip \in DOMAIN TLSReceivers(TlsRecent).byIP
  BY <1>2, AddressListed
<1>4. ASSUME a.key[1] # Unspecified, ip \in DOMAIN TLSReceivers(TlsEarlier).byIP PROVE FALSE
  <2>1. PICK y \in FailuresIn(TlsEarlier) : Receiving(y) # NoAddress /\ ip = <<Receiving(y), HostOf(y)>>
    BY <1>4, AddressListed
  <2>2. HostOf(y) = x.det.host /\ Receiving(y) = Receiving(x)
    BY <1>2, <2>1
  <2>3. y.det.host # << >> /\ y.det.host = x.det.host
    BY <1>2, <1>4, <2>2 DEF HostOf
  <2>4. Named(y) /\ NodeOf(y) = NodeOf(x)
    BY <2>1, <2>2, <2>3 DEF Named, NodeOf
  <2> QED
    BY <1>1, <2>4, NewFailingIs
<1>5. ASSUME a.severity = "critical"
      PROVE  \E z \in DOMAIN TLSReceivers(AllTls).byIP : z # ip /\ z[2] = ip[2]
  <2>1. a.severity = NodeSeverity(<<a.domain, a.key>>)
    <3>1. \A s : Alert("tls_new_failing_receiver", a.domain, a.key, s).severity = s
      BY DEF Alert
    <3> QED
      BY <3>1, NewFailingIs
  <2>2. Cardinality(NodesOf(x.det.host)) > 1
    <3>1. NodeSeverity(<<a.domain, a.key>>)
            = IF Cardinality(NodesOf(a.key[1])) > 1 THEN "critical" ELSE "warning"
      BY DEF NodeSeverity
    <3> QED
      BY <1>2, <1>5, <2>1, <3>1
  <2>3. PICK n \in NodesOf(x.det.host) : n # Receiving(x)
    <3>1. ~Only(NodesOf(x.det.host), Receiving(x))
      BY <2>2, OnlyOne
    <3> QED
      BY <3>1 DEF Only
  <2>4. PICK y \in DetailsOf(Entries(tlsStored)) :
           Named(y) /\ y.det.host = x.det.host /\ n = Receiving(y)
    BY <2>3 DEF NodesOf
  <2>5. FailuresIn(AllTls) = DetailsOf(Entries(tlsStored))
    <3>1. \A e : ReadBy(e, AnyValue, 0, 0, FALSE) <=> e \in Entries(tlsStored)
      BY DEF ReadBy, Trusted
    <3>2. \A e : e \in PoliciesIn(AllTls) <=> ReadBy(e, AnyValue, 0, 0, FALSE)
      BY AllTlsIs, WindowReads, Zenon
    <3>3. PoliciesIn(AllTls) = Entries(tlsStored)
      BY <3>1, <3>2
    <3>4. FailuresIn(AllTls) = DetailsOf(PoliciesIn(AllTls))
      BY AllTlsIs, WindowReads, Zenon
    <3> QED
      BY <3>3, <3>4
  <2> DEFINE z == <<Receiving(y), HostOf(y)>>
  <2>6. z \in DOMAIN TLSReceivers(AllTls).byIP
    BY <2>4, <2>5, AddressListed DEF Named
  <2>7. z # ip /\ z[2] = ip[2]
    BY <1>2, <2>3, <2>4 DEF Named, HostOf
  <2> QED
    BY <2>6, <2>7
<1> QED
  BY <1>3, <1>4, <1>5

-----------------------------------------------------------------------------
(* A TLS alert is known by its domain and key                               *)

LEMMA TlsSeverities ==
    /\ \A a \in TlsStarttlsStripped : a.severity = "critical"
    /\ \A a \in TlsCertExpired : a.severity = "critical"
    /\ \A a \in TlsPolicyInconsistent : a.severity = "warning"
    /\ \A a \in TlsPolicyHostError : a.severity = "critical"
    /\ \A a \in TlsDaneInvalid : a.severity = "critical"
    /\ \A a \in TlsReporterSilent : a.severity = "warning"
<1>1. \A rule, d, x, s : Alert(rule, d, x, s).severity = s
  BY DEF Alert
<1>2. \A a \in TlsStarttlsStripped : \E d, x : a = Alert("tls_starttls_stripped", d, x, "critical")
  BY Zenon DEF TlsStarttlsStripped
<1>3. \A a \in TlsCertExpired : \E d, x : a = Alert("tls_cert_expired", d, x, "critical")
  BY Zenon DEF TlsCertExpired
<1>4. \A a \in TlsPolicyInconsistent : \E d, x : a = Alert("tls_policy_inconsistent", d, x, "warning")
  BY Zenon DEF TlsPolicyInconsistent
<1>5. \A a \in TlsPolicyHostError : \E d, x : a = Alert("tls_policy_host_error", d, x, "critical")
  BY Zenon DEF TlsPolicyHostError
<1>6. \A a \in TlsDaneInvalid : \E d, x : a = Alert("tls_dane_invalid", d, x, "critical")
  BY Zenon DEF TlsDaneInvalid
<1>7. \A a \in TlsReporterSilent : \E d, x : a = Alert("tls_reporter_silent", d, x, "warning")
  BY Zenon DEF TlsReporterSilent
<1> QED
  BY <1>1, <1>2, <1>3, <1>4, <1>5, <1>6, <1>7

\* One severity for a domain and a key.
Settled(R) == \A a, b \in R : a.domain = b.domain /\ a.key = b.key => a.severity = b.severity

LEMMA RateDropSettled == Settled(TlsRateDrop)
<1> DEFINE cur(d) == TLSRate(TlsWeek(d))
           severity(d) == IF 100 * cur(d).success < 90 * cur(d).messages THEN "critical" ELSE "warning"
<1>1. \A a \in TlsRateDrop : \E d : a = Alert("tls_rate_drop", d, "7d", severity(d))
  BY Zenon DEF TlsRateDrop
<1> HIDE DEF severity
<1>2. \A a \in TlsRateDrop : a.severity = severity(a.domain)
  BY <1>1 DEF Alert
<1> QED
  BY <1>2, Zenon DEF Settled

LEMMA NewFailingSettled == Settled(TlsNewFailingReceiver)
<1>1. ASSUME NEW a \in TlsNewFailingReceiver
      PROVE  a.severity = NodeSeverity(<<a.domain, a.key>>)
  <2>1. \A s : Alert("tls_new_failing_receiver", a.domain, a.key, s).severity = s
    BY DEF Alert
  <2> QED
    BY <2>1, NewFailingIs
<1> QED
  BY <1>1, Zenon DEF Settled

LEMMA TlsFiredSettled ==
    \A i \in DOMAIN TlsFired : Settled(TlsFired[i])
<1>1. DOMAIN TlsFired = 1 .. 8
  BY DEF TlsFired
<1>2. /\ Settled(TlsStarttlsStripped) /\ Settled(TlsCertExpired) /\ Settled(TlsPolicyInconsistent)
      /\ Settled(TlsPolicyHostError) /\ Settled(TlsDaneInvalid) /\ Settled(TlsReporterSilent)
  BY TlsSeverities, Zenon DEF Settled
<1>3. /\ Settled(TlsFired[1]) /\ Settled(TlsFired[2]) /\ Settled(TlsFired[3]) /\ Settled(TlsFired[4])
      /\ Settled(TlsFired[5]) /\ Settled(TlsFired[6]) /\ Settled(TlsFired[7]) /\ Settled(TlsFired[8])
  BY <1>2, RateDropSettled, NewFailingSettled DEF TlsFired
<1>4. \A i \in 1 .. 8 : \/ i = 1 \/ i = 2 \/ i = 3 \/ i = 4 \/ i = 5 \/ i = 6 \/ i = 7 \/ i = 8
  OBVIOUS
<1> QED
  BY <1>1, <1>3, <1>4, Zenon

-----------------------------------------------------------------------------

LEMMA TlsRulesMatch ==
    ASSUME RulesInv, TlsInv
    PROVE  TlsRulesMatchPages
<1>1. \A f \in TlsScopes : DivergenceDrifts(f)
  BY DivergenceShows
<1>2. \A a \in TlsNewFailingReceiver :
         LET ip == <<a.key[2], a.key[1]>>
         IN  /\ ip \in DOMAIN TLSReceivers(TlsRecent).byIP
             /\ a.key[1] # Unspecified => ip \notin DOMAIN TLSReceivers(TlsEarlier).byIP
             /\ a.severity = "critical" =>
                   \E x \in DOMAIN TLSReceivers(AllTls).byIP : x # ip /\ x[2] = ip[2]
  BY NewReceiversMatch, Zenon
<1>3. \A i \in DOMAIN TlsFired : \A a, b \in TlsFired[i] :
         a.domain = b.domain /\ a.key = b.key => a.severity = b.severity
  BY TlsFiredSettled, Zenon DEF Settled
<1> QED
  BY <1>1, <1>2, <1>3, TlsWeeksApart, StrippedMatch, ExpiredMatch, DaneMatch, HostErrorsMatch,
     TlsSilentMatch, Zenon DEF TlsRulesMatchPages

\* What the rules X12 to X19 find is what the pages of the TLS reports show.
THEOREM TlsRulesAgree == StatsSpec => []TlsRulesMatchPages
<1>1. RulesInv /\ TlsInv => TlsRulesMatchPages
  BY TlsRulesMatch
<1> QED
  BY <1>1, InventoryIsOfReports, TlsKept, PTL

-----------------------------------------------------------------------------
(* What the lookups of BIMI stored                                          *)

\* What the stored detail of a document tells, whichever lookup it is of.
LogoFit(s) ==
    /\ \A y \in Range(s.findings) :
          /\ y.severity = "error" =>
                \/ y.code \in FetchCodes \cup {"indicator_format"}
                \/ y.code \in ProfileCodes /\ y \in Range(s.profile) /\ s.hash # ""
          /\ y.code \in FetchCodes => y.severity = "error" /\ s.hash = ""
          /\ y.code # "evidence_expired"
    /\ \A y \in Range(s.profile) : y \in Range(s.findings)

EvidenceFit(s) ==
    /\ s.days \in Int
    /\ s.notAfter # 0 => s.fingerprint # ""
    /\ \A y \in Range(s.findings) :
          /\ y.severity = "error" => y.code \in EvidenceCodes \cup {"evidence_expired"}
          /\ y.code \in FatalCodes => y.severity = "error"
          /\ y.code = "evidence_expired" => s.days <= 0

RecordFit(row) ==
    /\ row.detail.state = "error" <=> row.error # ""
    /\ row.detail.state \notin {"absent", "error"} <=> row.content # ""

RowFit(row) ==
    /\ row = [domain |-> row.domain, kind |-> row.kind, content |-> row.content,
              error |-> row.error, detail |-> row.detail, first |-> row.first,
              last |-> row.last, checks |-> row.checks]
    /\ row.first \in Int /\ row.last \in Int /\ row.first <= row.last /\ row.last <= now
    /\ row.kind \in {"record", "indicator", "evidence"}
    /\ row.kind = "record" => RecordFit(row)
    /\ row.kind = "indicator" => LogoFit(row.detail)
    /\ row.kind = "evidence" => EvidenceFit(row.detail)

Records(rows, d) == {i \in DOMAIN rows : rows[i].kind = "record" /\ rows[i].domain = d}

\* The records of a domain follow each other in time, and no two that follow each
\* other say the same.
InTurn(rows) ==
    \A d : \A i, k \in Records(rows, d) : i < k =>
        /\ rows[i].last < rows[k].first
        /\ \/ rows[i].content # rows[k].content \/ rows[i].error # rows[k].error
           \/ \E j \in Records(rows, d) : i < j /\ j < k

RowsFit(rows) ==
    /\ \E S : rows \in Seq(S)
    /\ \A i \in DOMAIN rows : RowFit(rows[i])
    /\ InTurn(rows)

\* A domain is in the inventory once a lookup found a text.
SelectorsFit(rows, selectors) ==
    \A d : d \in DOMAIN selectors <=> \E i \in Records(rows, d) : rows[i].content # ""

LookupInv == BimiInv /\ RowsFit(bimiRows) /\ SelectorsFit(bimiRows, bimiSelectors)

LEMMA JoinedRange ==
    ASSUME NEW s, Numbered(s), NEW t, Numbered(t)
    PROVE  \A y : y \in Range(s \o t) <=> y \in Range(s) \/ y \in Range(t)
<1> DEFINE S == Range(s) \cup Range(t)
<1>1. Len(s) \in Nat /\ DOMAIN s = 1 .. Len(s) /\ Len(t) \in Nat /\ DOMAIN t = 1 .. Len(t)
  BY DEF Numbered
<1>2. s \in [1 .. Len(s) -> S] /\ t \in [1 .. Len(t) -> S]
  BY <1>1 DEF Numbered, Range
<1>3. s \in Seq(S) /\ t \in Seq(S)
  BY <1>1, <1>2, SeqDef
<1> HIDE DEF S
<1> DEFINE m == Len(s)
           n == Len(t)
           u == s \o t
<1>4. /\ u \in Seq(S) /\ Len(u) = m + n
      /\ \A i \in 1 .. m + n : u[i] = IF i <= m THEN s[i] ELSE t[i - m]
  BY <1>3, ConcatProperties
<1>5. DOMAIN u = 1 .. m + n
  BY <1>4, LenProperties
<1>6. m \in Nat /\ n \in Nat /\ DOMAIN s = 1 .. m /\ DOMAIN t = 1 .. n
  BY <1>1
<1> HIDE DEF u, m, n
<1>7. ASSUME NEW i \in DOMAIN u PROVE u[i] \in Range(s) \/ u[i] \in Range(t)
  <2>1. CASE i <= m
    <3>1. i \in DOMAIN s /\ u[i] = s[i]
      BY <1>4, <1>5, <1>6, <1>7, <2>1
    <3> QED
      BY <3>1 DEF Range
  <2>2. CASE ~(i <= m)
    <3>1. i - m \in DOMAIN t /\ u[i] = t[i - m]
      BY <1>4, <1>5, <1>6, <1>7, <2>2
    <3> QED
      BY <3>1 DEF Range
  <2> QED
    BY <2>1, <2>2
<1>8. ASSUME NEW i \in DOMAIN s PROVE s[i] \in Range(u)
  <2>1. i \in DOMAIN u /\ u[i] = s[i]
    BY <1>4, <1>5, <1>6, <1>8
  <2> QED
    BY <2>1 DEF Range
<1>9. ASSUME NEW i \in DOMAIN t PROVE t[i] \in Range(u)
  <2>1. i + m \in DOMAIN u /\ u[i + m] = t[i]
    BY <1>4, <1>5, <1>6, <1>9
  <2> QED
    BY <2>1 DEF Range
<1>10. \A y : y \in Range(u) <=> y \in Range(s) \/ y \in Range(t)
  BY <1>7, <1>8, <1>9 DEF Range
<1> QED
  BY <1>10 DEF u

\* The codes of one list are not those of another.
LEMMA CodesApart ==
    /\ \A c \in ProfileCodes : c \notin FetchCodes /\ c # "indicator_format"
    /\ \A c \in FetchCodes : c # "indicator_format"
    /\ \A c \in FatalCodes : c \in EvidenceCodes \/ c = "evidence_expired"
    /\ "evidence_expired" \notin EvidenceCodes /\ "evidence_expired" \in FatalCodes
    /\ "evidence_expiring" \notin FatalCodes /\ "evidence_expiring" # "evidence_expired"
BY DEF ProfileCodes, FetchCodes, FatalCodes, EvidenceCodes, MarkCodes

LEMMA LogoFits ==
    ASSUME NEW x \in BimiLookups
    PROVE  LogoFit(IndicatorResult(x.logo))
<1> DEFINE s == IndicatorResult(x.logo)
           own == x.logo.findings
           pro == x.logo.profile
<1>1. /\ ErrorsAre(own, FetchCodes \cup {"indicator_format"}) /\ ErrorsAre(pro, ProfileCodes)
      /\ (\E y \in Range(own) : y.code \in FetchCodes) => x.logo.hash = ""
      /\ x.logo.hash = "" => pro = << >>
  BY LookupsAssumption
<1>2. s.findings = own \o pro /\ s.profile = pro /\ s.hash = x.logo.hash
  BY DEF IndicatorResult
<1> HIDE DEF s, own, pro
<1>3. \A y : y \in Range(s.findings) <=> y \in Range(own) \/ y \in Range(pro)
  BY <1>1, <1>2, JoinedRange DEF ErrorsAre
<1>4. ASSUME NEW y \in Range(pro)
      PROVE  (y.severity = "error" <=> y.code \in ProfileCodes) /\ s.hash # ""
  <2>1. y.severity = "error" <=> y.code \in ProfileCodes
    BY <1>1 DEF ErrorsAre
  <2>2. pro # << >>
    BY <1>4 DEF Range
  <2> QED
    BY <1>1, <1>2, <2>1, <2>2
<1>5. ASSUME NEW y \in Range(own)
      PROVE  /\ y.severity = "error" <=> y.code \in FetchCodes \cup {"indicator_format"}
             /\ y.code \in FetchCodes => s.hash = ""
  BY <1>1, <1>2 DEF ErrorsAre
<1>6. ASSUME NEW y \in Range(s.findings), y.severity = "error"
      PROVE  \/ y.code \in FetchCodes \cup {"indicator_format"}
             \/ y.code \in ProfileCodes /\ y \in Range(s.profile) /\ s.hash # ""
  BY <1>2, <1>3, <1>4, <1>5, <1>6
<1>10. \A y \in Range(pro) : y.code \notin FetchCodes
  BY LookupsAssumption DEF pro
<1>7. ASSUME NEW y \in Range(s.findings), y.code \in FetchCodes
      PROVE  y.severity = "error" /\ s.hash = ""
  <2>1. CASE y \in Range(own)
    BY <1>5, <1>7, <2>1
  <2>2. CASE y \in Range(pro)
    BY <1>7, <1>10, <2>2
  <2> QED
    BY <1>3, <1>7, <2>1, <2>2
<1>8. \A y \in Range(s.findings) : y.code # "evidence_expired"
  <2>1. /\ \A y \in Range(own) : y.code # "evidence_expired"
        /\ \A y \in Range(pro) : y.code # "evidence_expired"
    BY LookupsAssumption DEF own, pro
  <2> QED
    BY <1>3, <2>1
<1> QED
  BY <1>2, <1>3, <1>6, <1>7, <1>8 DEF LogoFit, s

\* The time of a certificate, and what it is found to be.
LEMMA DaysAre ==
    ASSUME NEW doc, doc.notAfter \in Int, now \in Int
    PROVE  /\ DaysToExpiry(doc) \in Int
           /\ 24 * now > doc.notAfter => DaysToExpiry(doc) <= 0
<1> DEFINE left == doc.notAfter - 24 * now
           past == -left
<1>1. left \in Int /\ past \in Int
  OBVIOUS
<1>2. DaysToExpiry(doc) = IF left >= 0 THEN left \div 24 ELSE -(past \div 24)
  BY DEF DaysToExpiry
<1>3. ~(left >= 0) => past >= 0
  OBVIOUS
<1>4. 24 * now > doc.notAfter => ~(left >= 0)
  OBVIOUS
<1> HIDE DEF left, past
<1>5. left \div 24 \in Int /\ past \div 24 \in Int /\ (past >= 0 => past \div 24 >= 0)
  BY <1>1
<1> QED
  BY <1>1, <1>2, <1>3, <1>4, <1>5

LEMMA TimesAre ==
    ASSUME NEW doc, doc.notAfter \in Int, now \in Int
    PROVE  /\ Numbered(TimeFindings(doc))
           /\ \A y \in Range(TimeFindings(doc)) :
                 \/ y = Finding("evidence_expired", "error") /\ doc.notAfter # 0
                    /\ 24 * now > doc.notAfter
                 \/ y = Finding("evidence_expiring", "warning")
<1>1. \A y : Numbered(<<y>>) /\ Range(<<y>>) = {y}
  BY DEF Numbered, Range
<1>2. Numbered(<< >>) /\ Range(<< >>) = {}
  BY DEF Numbered, Range
<1> DEFINE e == Finding("evidence_expired", "error")
           w == Finding("evidence_expiring", "warning")
<1>3. CASE doc.notAfter # 0 /\ 24 * now > doc.notAfter
  <2>1. TimeFindings(doc) = <<e>>
    BY <1>3 DEF TimeFindings
  <2> HIDE DEF e
  <2> QED
    BY <1>1, <1>3, <2>1 DEF e
<1>4. CASE ~(doc.notAfter # 0 /\ 24 * now > doc.notAfter)
  <2>1. TimeFindings(doc) = << >> \/ TimeFindings(doc) = <<w>>
    <3>1. CASE doc.notAfter = 0
      <4>1. \/ TimeFindings(doc) = << >>
            \/ TimeFindings(doc) = IF ExpiryDays > 0 /\ DaysToExpiry(doc) <= ExpiryDays
                                   THEN <<w>> ELSE << >>
        BY <3>1 DEF TimeFindings
      <4> QED
        BY <4>1
    <3>2. CASE doc.notAfter # 0
      <4>1. ~(24 * now > doc.notAfter) /\ doc.notAfter >= 24 * now
        BY <1>4, <3>2
      <4>2. TimeFindings(doc) = IF ExpiryDays > 0 /\ DaysToExpiry(doc) <= ExpiryDays
                                THEN <<w>> ELSE << >>
        BY <3>2, <4>1 DEF TimeFindings
      <4> QED
        BY <4>2
    <3> QED
      BY <3>1, <3>2
  <2> HIDE DEF w
  <2> QED
    BY <1>1, <1>2, <2>1 DEF w
<1> QED
  BY <1>3, <1>4

LEMMA EvidenceFits ==
    ASSUME NEW x \in BimiLookups, now \in Int
    PROVE  EvidenceFit(EvidenceResult(x.evidence))
<1> DEFINE doc == x.evidence
           s == EvidenceResult(doc)
           times == TimeFindings(doc)
           own == doc.findings
<1>1. /\ doc.notAfter \in Int /\ (doc.notAfter # 0 => doc.fingerprint # "")
      /\ ErrorsAre(own, EvidenceCodes) /\ \A y \in Range(own) : y.code # "evidence_expired"
  BY LookupsAssumption
<1>2. /\ s.findings = times \o own /\ s.notAfter = doc.notAfter
      /\ s.fingerprint = doc.fingerprint
      /\ s.days = IF doc.notAfter = 0 THEN 0 ELSE DaysToExpiry(doc)
  BY DEF EvidenceResult
<1> HIDE DEF doc
<1>3. /\ Numbered(times)
      /\ \A y \in Range(times) :
            \/ y = Finding("evidence_expired", "error") /\ doc.notAfter # 0
               /\ 24 * now > doc.notAfter
            \/ y = Finding("evidence_expiring", "warning")
      /\ DaysToExpiry(doc) \in Int /\ (24 * now > doc.notAfter => DaysToExpiry(doc) <= 0)
  BY <1>1, TimesAre, DaysAre
<1> HIDE DEF s, times, own
<1>4. \A y : y \in Range(s.findings) <=> y \in Range(times) \/ y \in Range(own)
  BY <1>1, <1>2, <1>3, JoinedRange DEF ErrorsAre
<1>5. ASSUME NEW y \in Range(times)
      PROVE  \/ y.severity = "error" /\ y.code = "evidence_expired" /\ s.days <= 0
             \/ y.severity = "warning" /\ y.code = "evidence_expiring"
  BY <1>2, <1>3 DEF Finding
<1>6. ASSUME NEW y \in Range(own)
      PROVE  (y.severity = "error" <=> y.code \in EvidenceCodes) /\ y.code # "evidence_expired"
  BY <1>1 DEF ErrorsAre
<1>7. ASSUME NEW y \in Range(s.findings)
      PROVE  /\ y.severity = "error" => y.code \in EvidenceCodes \cup {"evidence_expired"}
             /\ y.code \in FatalCodes => y.severity = "error"
             /\ y.code = "evidence_expired" => s.days <= 0
  <2>1. CASE y \in Range(times)
    BY <1>5, <2>1, CodesApart
  <2>2. CASE y \in Range(own)
    BY <1>6, <2>2, CodesApart
  <2> QED
    BY <1>4, <1>7, <2>1, <2>2
<1>8. s.days \in Int
  BY <1>2, <1>3
<1>9. EvidenceFit(s)
  BY <1>1, <1>2, <1>7, <1>8 DEF EvidenceFit
<1> QED
  BY <1>9 DEF s, doc

-----------------------------------------------------------------------------
(* What an upsert does to the rows                                          *)

NewRow(d, kind, content, error, detail) ==
    [domain |-> d, kind |-> kind, content |-> content, error |-> error, detail |-> detail,
     first |-> now, last |-> now, checks |-> 1]

ConfirmedRow(row, detail) == [row EXCEPT !.last = now, !.detail = detail, !.checks = @ + 1]

LEMMA CurrentIs ==
    ASSUME NEW rows, NEW d, NEW kind, NEW c
    PROVE  c \in CurrentRow(rows, d, kind) <=>
             /\ c \in DOMAIN rows /\ rows[c].domain = d /\ rows[c].kind = kind
             /\ \A k \in DOMAIN rows : rows[k].domain = d /\ rows[k].kind = kind =>
                   \/ rows[k].last < rows[c].last
                   \/ rows[k].last = rows[c].last /\ k <= c
BY DEF CurrentRow

LEMMA CurrentUnique ==
    ASSUME NEW rows, DOMAIN rows \in SUBSET Int, \A i \in DOMAIN rows : rows[i].last \in Int,
           NEW d, NEW kind, NEW c \in CurrentRow(rows, d, kind), NEW e \in CurrentRow(rows, d, kind)
    PROVE  c = e
<1>1. /\ c \in DOMAIN rows /\ e \in DOMAIN rows
      /\ \/ rows[c].last < rows[e].last
         \/ rows[c].last = rows[e].last /\ c <= e
      /\ \/ rows[e].last < rows[c].last
         \/ rows[e].last = rows[c].last /\ e <= c
  BY CurrentIs
<1>2. c \in Int /\ e \in Int /\ rows[c].last \in Int /\ rows[e].last \in Int
  BY <1>1
<1> QED
  BY <1>1, <1>2

LEMMA RowsAreList ==
    ASSUME NEW rows, RowsFit(rows)
    PROVE  /\ Len(rows) \in Nat /\ DOMAIN rows = 1 .. Len(rows) /\ DOMAIN rows \in SUBSET Int
           /\ \A i \in DOMAIN rows : RowFit(rows[i])
           /\ \A i \in DOMAIN rows : rows[i].last \in Int
<1>1. PICK S : rows \in Seq(S)
  BY DEF RowsFit
<1>2. Len(rows) \in Nat /\ DOMAIN rows = 1 .. Len(rows)
  BY <1>1, LenProperties
<1>3. \A i \in DOMAIN rows : RowFit(rows[i])
  BY DEF RowsFit
<1>4. \A i \in DOMAIN rows : rows[i].last \in Int
  BY <1>3 DEF RowFit
<1>5. DOMAIN rows \in SUBSET Int
  BY <1>2
<1> QED
  BY <1>2, <1>3, <1>4, <1>5

\* The record stored last is the current one.
LEMMA LastRecord ==
    ASSUME NEW rows, RowsFit(rows), NEW d, Records(rows, d) # {}
    PROVE  \E m \in Records(rows, d) : /\ \A k \in Records(rows, d) : k <= m
                                       /\ m \in CurrentRow(rows, d, "record")
<1> DEFINE R == Records(rows, d)
<1>1. /\ Len(rows) \in Nat /\ DOMAIN rows = 1 .. Len(rows)
      /\ \A i \in DOMAIN rows : RowFit(rows[i])
  BY RowsAreList
<1>2. R \in SUBSET Int /\ IsFiniteSet(R)
  <2>1. R \in SUBSET (1 .. Len(rows))
    BY <1>1 DEF Records
  <2>2. IsFiniteSet(1 .. Len(rows))
    <3> DEFINE n == Len(rows)
    <3>1. n \in Int /\ 1 \in Int
      BY <1>1
    <3> HIDE DEF n
    <3>2. IsFiniteSet(1 .. n)
      BY <3>1, FS_Interval, Zenon
    <3> QED
      BY <3>2 DEF n
  <2>3. IsFiniteSet(R)
    BY <2>1, <2>2, FS_Subset
  <2> QED
    BY <1>1, <2>1, <2>3
<1> HIDE DEF R
<1>3. PICK m \in R : \A k \in R : k <= m
  <2>1. R # {}
    BY DEF R
  <2> QED
    BY <1>2, <2>1, Extremes
<1>4. ASSUME NEW k \in R
      PROVE  \/ rows[k].last < rows[m].last
             \/ rows[k].last = rows[m].last /\ k <= m
  <2>1. k \in Int /\ m \in Int /\ k <= m
    BY <1>2, <1>3
  <2>2. CASE k = m
    BY <2>1, <2>2
  <2>3. CASE k # m
    <3>1. k < m /\ m \in R
      BY <2>1, <2>3
    <3>2. rows[k].last < rows[m].first
      BY <1>4, <3>1 DEF RowsFit, InTurn, R
    <3>3. RowFit(rows[k]) /\ RowFit(rows[m])
      BY <1>1, <1>4, <3>1 DEF R, Records
    <3>4. rows[k].last \in Int /\ rows[m].first \in Int /\ rows[m].last \in Int
          /\ rows[m].first <= rows[m].last
      BY <3>3 DEF RowFit
    <3> QED
      BY <3>2, <3>4
  <2> QED
    BY <2>2, <2>3
<1>5. m \in CurrentRow(rows, d, "record")
  BY <1>3, <1>4, CurrentIs DEF R, Records
<1> QED
  BY <1>3, <1>5 DEF R

SameText(row, content, error) == row.content = content /\ row.error = error

IsConfirmed(up, rows, c, detail) ==
    up = [i \in DOMAIN rows |-> IF i = c THEN ConfirmedRow(rows[i], detail) ELSE rows[i]]

IsAppended(up, rows, row) == up = Append(rows, row)

\* What is unchanged confirms one row, and anything else is a row of its own.
LEMMA UpsertShape ==
    ASSUME NEW rows, RowsFit(rows), NEW d, NEW kind, NEW content, NEW error, NEW detail,
           NEW up, up = Upserted(rows, d, kind, content, error, detail)
    PROVE  \/ \E c \in CurrentRow(rows, d, kind) :
                 SameText(rows[c], content, error) /\ IsConfirmed(up, rows, c, detail)
           \/ /\ \A c \in CurrentRow(rows, d, kind) : ~SameText(rows[c], content, error)
              /\ IsAppended(up, rows, NewRow(d, kind, content, error, detail))
<1> DEFINE current == CurrentRow(rows, d, kind)
           confirmed == {i \in current : rows[i].content = content /\ rows[i].error = error}
<1>1. up = IF confirmed # {}
           THEN [i \in DOMAIN rows |-> IF i \in confirmed THEN ConfirmedRow(rows[i], detail)
                                       ELSE rows[i]]
           ELSE Append(rows, NewRow(d, kind, content, error, detail))
  BY DEF Upserted, ConfirmedRow, NewRow
<1>2. CASE confirmed # {}
  <2>1. PICK c \in current : SameText(rows[c], content, error)
    BY <1>2 DEF SameText
  <2>2. \A i : i \in confirmed <=> i = c
    BY <2>1, CurrentUnique, RowsAreList DEF SameText
  <2> HIDE DEF current, confirmed
  <2>3. up = [i \in DOMAIN rows |-> IF i = c THEN ConfirmedRow(rows[i], detail) ELSE rows[i]]
    BY <1>1, <1>2, <2>2
  <2> QED
    BY <2>1, <2>3 DEF current, IsConfirmed
<1>3. CASE confirmed = {}
  <2>1. \A c \in current : ~SameText(rows[c], content, error)
    BY <1>3 DEF SameText
  <2> HIDE DEF current, confirmed
  <2>2. up = Append(rows, NewRow(d, kind, content, error, detail))
    BY <1>1, <1>3
  <2> QED
    BY <2>1, <2>2 DEF current, IsAppended
<1> QED
  BY <1>2, <1>3

IsRow(r, d, kind, content, error, detail, first, last, checks) ==
    r = [domain |-> d, kind |-> kind, content |-> content, error |-> error, detail |-> detail,
         first |-> first, last |-> last, checks |-> checks]

LEMMA RowWith ==
    ASSUME NEW r, NEW d, NEW kind, NEW content, NEW error, NEW old, NEW first, NEW last, NEW checks,
           IsRow(r, d, kind, content, error, old, first, last, checks), NEW v
    PROVE  /\ IsRow([r EXCEPT !.last = v], d, kind, content, error, old, first, v, checks)
           /\ IsRow([r EXCEPT !.detail = v], d, kind, content, error, v, first, last, checks)
           /\ IsRow([r EXCEPT !.checks = v], d, kind, content, error, old, first, last, v)
BY DEF IsRow

LEMMA ExceptFields ==
    ASSUME NEW r, NEW d, NEW kind, NEW content, NEW error, NEW old, NEW first, NEW last, NEW checks,
           IsRow(r, d, kind, content, error, old, first, last, checks), NEW detail
    PROVE  IsRow(ConfirmedRow(r, detail), d, kind, content, error, detail, first, now, r.checks + 1)
<1>1. IsRow([r EXCEPT !.last = now], d, kind, content, error, old, first, now, checks)
  BY RowWith, Zenon
<1>2. IsRow([[r EXCEPT !.last = now] EXCEPT !.detail = detail],
            d, kind, content, error, detail, first, now, checks)
  BY <1>1, RowWith, Zenon
<1>3. PICK n : n = r.checks + 1
  OBVIOUS
<1>4. IsRow([[[r EXCEPT !.last = now] EXCEPT !.detail = detail] EXCEPT !.checks = n],
            d, kind, content, error, detail, first, now, n)
  BY <1>2, RowWith, Zenon
<1>5. ConfirmedRow(r, detail)
        = [[[r EXCEPT !.last = now] EXCEPT !.detail = detail] EXCEPT !.checks = n]
  <2>1. ConfirmedRow(r, detail)
          = [[[r EXCEPT !.last = now] EXCEPT !.detail = detail] EXCEPT !.checks = r.checks + 1]
    BY Zenon DEF ConfirmedRow
  <2> QED
    BY <1>3, <2>1, Zenon
<1> QED
  BY <1>3, <1>4, <1>5, Zenon

LEMMA ConfirmedFields ==
    ASSUME NEW row, RowFit(row), NEW detail
    PROVE  LET q == ConfirmedRow(row, detail)
           IN  /\ q = [domain |-> row.domain, kind |-> row.kind, content |-> row.content,
                       error |-> row.error, detail |-> detail, first |-> row.first,
                       last |-> now, checks |-> row.checks + 1]
               /\ q.domain = row.domain /\ q.kind = row.kind /\ q.content = row.content
               /\ q.error = row.error /\ q.first = row.first /\ q.detail = detail /\ q.last = now
<1> DEFINE q == ConfirmedRow(row, detail)
<1>1. row = [domain |-> row.domain, kind |-> row.kind, content |-> row.content,
             error |-> row.error, detail |-> row.detail, first |-> row.first,
             last |-> row.last, checks |-> row.checks]
  BY DEF RowFit
<1>2. q = [domain |-> row.domain, kind |-> row.kind, content |-> row.content,
           error |-> row.error, detail |-> detail, first |-> row.first,
           last |-> now, checks |-> row.checks + 1]
  <2>1. IsRow(row, row.domain, row.kind, row.content, row.error, row.detail, row.first,
              row.last, row.checks)
    BY <1>1, Zenon DEF IsRow
  <2> HIDE DEF q
  <2>2. IsRow(q, row.domain, row.kind, row.content, row.error, detail, row.first, now,
              row.checks + 1)
    BY <2>1, ExceptFields, Zenon DEF q
  <2> QED
    BY <2>2, Zenon DEF IsRow
<1> HIDE DEF q
<1>3. /\ q.domain = row.domain /\ q.kind = row.kind /\ q.content = row.content
      /\ q.error = row.error /\ q.first = row.first /\ q.detail = detail /\ q.last = now
  BY <1>2
<1> QED
  BY <1>2, <1>3 DEF q

\* A confirmed row fits when a new one of the same text would.
LEMMA ConfirmedFits ==
    ASSUME now \in Int, NEW row, RowFit(row), NEW detail, NEW d,
           RowFit(NewRow(d, row.kind, row.content, row.error, detail))
    PROVE  RowFit(ConfirmedRow(row, detail))
<1> DEFINE q == ConfirmedRow(row, detail)
           n == NewRow(d, row.kind, row.content, row.error, detail)
<1>1. /\ q = [domain |-> row.domain, kind |-> row.kind, content |-> row.content,
              error |-> row.error, detail |-> detail, first |-> row.first,
              last |-> now, checks |-> row.checks + 1]
      /\ q.domain = row.domain /\ q.kind = row.kind /\ q.content = row.content
      /\ q.error = row.error /\ q.first = row.first /\ q.detail = detail /\ q.last = now
  BY ConfirmedFields
<1>2. /\ n.kind = row.kind /\ n.content = row.content /\ n.error = row.error
      /\ n.detail = detail
  BY DEF NewRow
<1> HIDE DEF q, n
<1>3. RowFit(n)
  BY DEF n
<1>4. /\ q.kind = "record" => RecordFit(q)
      /\ q.kind = "indicator" => LogoFit(q.detail)
      /\ q.kind = "evidence" => EvidenceFit(q.detail)
      /\ q.kind \in {"record", "indicator", "evidence"}
  BY <1>1, <1>2, <1>3 DEF RowFit, RecordFit
<1>5. q.first \in Int /\ q.last \in Int /\ q.first <= q.last /\ q.last <= now
  BY <1>1 DEF RowFit
<1>6. q = [domain |-> q.domain, kind |-> q.kind, content |-> q.content,
           error |-> q.error, detail |-> q.detail, first |-> q.first,
           last |-> q.last, checks |-> q.checks]
  BY <1>1
<1>7. RowFit(q)
  BY <1>4, <1>5, <1>6 DEF RowFit
<1> QED
  BY <1>7 DEF q

\* A record looked up again is later than every record of its domain before it.
Later(rows, d) == \A c \in CurrentRow(rows, d, "record") : rows[c].last < now

KeepsTexts(up, rows) ==
    /\ RowsFit(up) /\ DOMAIN up = DOMAIN rows
    /\ \A i \in DOMAIN rows : /\ up[i].kind = rows[i].kind /\ up[i].domain = rows[i].domain
                              /\ up[i].content = rows[i].content

AddsRow(up, rows, row) ==
    /\ RowsFit(up) /\ DOMAIN up = DOMAIN rows \cup {Len(rows) + 1}
    /\ \A i \in DOMAIN rows : up[i] = rows[i]
    /\ up[Len(rows) + 1] = row

\* Confirming the current row changes neither the order nor the texts.
LEMMA ConfirmFits ==
    ASSUME now \in Int, NEW rows, RowsFit(rows), NEW d, NEW kind, NEW detail,
           NEW c \in CurrentRow(rows, d, kind), RowFit(ConfirmedRow(rows[c], detail)),
           NEW up, IsConfirmed(up, rows, c, detail)
    PROVE  KeepsTexts(up, rows)
<1>1. /\ Len(rows) \in Nat /\ DOMAIN rows = 1 .. Len(rows) /\ DOMAIN rows \in SUBSET Int
      /\ \A i \in DOMAIN rows : RowFit(rows[i])
      /\ \A i \in DOMAIN rows : rows[i].last \in Int
  BY RowsAreList
<1>2. /\ c \in DOMAIN rows /\ rows[c].domain = d /\ rows[c].kind = kind
      /\ \A k \in DOMAIN rows : rows[k].domain = d /\ rows[k].kind = kind =>
            \/ rows[k].last < rows[c].last
            \/ rows[k].last = rows[c].last /\ k <= c
  BY CurrentIs
<1>3. ASSUME NEW i \in DOMAIN rows
      PROVE  /\ up[i].kind = rows[i].kind /\ up[i].domain = rows[i].domain
             /\ up[i].content = rows[i].content /\ up[i].error = rows[i].error
             /\ up[i].first = rows[i].first /\ RowFit(up[i])
             /\ i # c => up[i].last = rows[i].last
  <2>1. CASE i = c
    <3> DEFINE q == ConfirmedRow(rows[i], detail)
    <3>1. up[i] = q /\ RowFit(q)
      BY <1>2, <2>1 DEF IsConfirmed
    <3>2. RowFit(rows[i])
      BY <1>1
    <3>3. /\ q.domain = rows[i].domain /\ q.kind = rows[i].kind /\ q.content = rows[i].content
          /\ q.error = rows[i].error /\ q.first = rows[i].first
      BY <3>2, ConfirmedFields
    <3> HIDE DEF q
    <3> QED
      BY <2>1, <3>1, <3>3
  <2>2. CASE i # c
    BY <1>1, <2>2 DEF IsConfirmed
  <2> QED
    BY <2>1, <2>2
<1>4. DOMAIN up = DOMAIN rows /\ \E S : up \in Seq(S)
  <2> DEFINE S == {up[i] : i \in DOMAIN rows}
  <2>1. DOMAIN up = DOMAIN rows /\ up \in [1 .. Len(rows) -> S]
    BY <1>1 DEF IsConfirmed
  <2> HIDE DEF S
  <2>2. up \in Seq(S)
    BY <1>1, <2>1, SeqDef
  <2> QED
    BY <2>1, <2>2
<1>5. \A e : Records(up, e) = Records(rows, e)
  BY <1>3, <1>4 DEF Records
<1>6. ASSUME NEW e, NEW i \in Records(rows, e), NEW k \in Records(rows, e), i < k
      PROVE  /\ up[i].last < up[k].first
             /\ \/ up[i].content # up[k].content \/ up[i].error # up[k].error
                \/ \E j \in Records(rows, e) : i < j /\ j < k
  <2>1. /\ rows[i].last < rows[k].first
        /\ \/ rows[i].content # rows[k].content \/ rows[i].error # rows[k].error
           \/ \E j \in Records(rows, e) : i < j /\ j < k
    BY <1>6 DEF RowsFit, InTurn
  <2>2. i \in DOMAIN rows /\ k \in DOMAIN rows
    BY DEF Records
  <2>3. i # c
    <3> SUFFICES ASSUME i = c PROVE FALSE
      OBVIOUS
    <3>1. kind = "record" /\ d = e
      BY <1>2 DEF Records
    <3>2. \/ rows[k].last < rows[i].last
          \/ rows[k].last = rows[i].last /\ k <= i
      BY <1>2, <3>1 DEF Records
    <3>3. RowFit(rows[i]) /\ RowFit(rows[k])
      BY <1>1, <2>2
    <3>4. /\ rows[i].last \in Int /\ rows[k].last \in Int /\ rows[k].first \in Int
          /\ rows[k].first <= rows[k].last
      BY <3>3 DEF RowFit
    <3>5. i \in Int /\ k \in Int
      BY <1>1, <2>2
    <3> QED
      BY <1>6, <2>1, <3>2, <3>4, <3>5
  <2> QED
    BY <1>3, <2>1, <2>2, <2>3
<1>7. InTurn(up)
  BY <1>5, <1>6 DEF InTurn
<1> QED
  BY <1>3, <1>4, <1>7 DEF RowsFit, KeepsTexts

\* A row of its own comes after those before it and says something else.
LEMMA AppendFits ==
    ASSUME now \in Int, NEW rows, RowsFit(rows), NEW d, NEW kind, NEW content, NEW error, NEW detail,
           RowFit(NewRow(d, kind, content, error, detail)),
           \A c \in CurrentRow(rows, d, kind) : ~SameText(rows[c], content, error),
           kind = "record" => Later(rows, d),
           NEW up, IsAppended(up, rows, NewRow(d, kind, content, error, detail))
    PROVE  AddsRow(up, rows, NewRow(d, kind, content, error, detail))
<1> DEFINE n == Len(rows)
           q == NewRow(d, kind, content, error, detail)
<1>1. /\ n \in Nat /\ DOMAIN rows = 1 .. n
      /\ \A i \in DOMAIN rows : RowFit(rows[i])
      /\ \A i \in DOMAIN rows : rows[i].last \in Int
  BY RowsAreList
<1>2. PICK S : rows \in Seq(S)
  BY DEF RowsFit
<1>3. /\ up \in Seq(S \cup {q}) /\ DOMAIN up = 1 .. n + 1
      /\ \A i \in 1 .. n : up[i] = rows[i]
      /\ up[n + 1] = q
  BY <1>2, AppendAdds DEF IsAppended
<1>4. /\ q.domain = d /\ q.kind = kind /\ q.content = content /\ q.error = error
      /\ q.first = now /\ RowFit(q)
  BY DEF NewRow
<1> HIDE DEF n, q
<1>5. ASSUME NEW i \in DOMAIN up PROVE i \in DOMAIN rows \/ i = n + 1
  BY <1>1, <1>3
<1>6. \A i \in DOMAIN rows : i \in DOMAIN up /\ up[i] = rows[i] /\ i < n + 1 /\ i # n + 1
  BY <1>1, <1>3
<1>7. n + 1 \in DOMAIN up
  BY <1>1, <1>3
<1>8. \A i \in DOMAIN up : RowFit(up[i])
  BY <1>1, <1>3, <1>4, <1>5, <1>6
<1>9. ASSUME NEW e, NEW i \in Records(up, e), NEW k \in Records(up, e), i < k
      PROVE  /\ up[i].last < up[k].first
             /\ \/ up[i].content # up[k].content \/ up[i].error # up[k].error
                \/ \E j \in Records(up, e) : i < j /\ j < k
  <2>1. i \in DOMAIN up /\ k \in DOMAIN up
    BY DEF Records
  <2>2. i \in Int /\ k \in Int /\ i # n + 1
    BY <1>1, <1>3, <1>9, <2>1
  <2>3. i \in Records(rows, e) /\ up[i] = rows[i]
    BY <1>5, <1>6, <2>1, <2>2 DEF Records
  <2>4. CASE k \in DOMAIN rows
    <3>1. k \in Records(rows, e) /\ up[k] = rows[k]
      BY <1>6, <2>4 DEF Records
    <3>2. /\ rows[i].last < rows[k].first
          /\ \/ rows[i].content # rows[k].content \/ rows[i].error # rows[k].error
             \/ \E j \in Records(rows, e) : i < j /\ j < k
      BY <1>9, <2>3, <3>1 DEF RowsFit, InTurn
    <3>3. \A j \in Records(rows, e) : j \in Records(up, e)
      BY <1>6 DEF Records
    <3> QED
      BY <2>3, <3>1, <3>2, <3>3
  <2>5. CASE k = n + 1
    <3>1. kind = "record" /\ d = e /\ up[k] = q
      BY <1>3, <1>4, <2>5 DEF Records
    <3>2. PICK m \in Records(rows, e) : /\ \A j \in Records(rows, e) : j <= m
                                        /\ m \in CurrentRow(rows, e, "record")
      BY <2>3, LastRecord
    <3>3. rows[m].last < now
      BY <3>1, <3>2 DEF Later
    <3>4. rows[m].content # content \/ rows[m].error # error
      BY <3>1, <3>2 DEF SameText
    <3>5. m \in DOMAIN rows /\ up[m] = rows[m] /\ m \in Records(up, e) /\ m < k
      BY <1>6, <2>5, <3>2 DEF Records
    <3>6. m \in Int /\ rows[m].last \in Int /\ rows[i].last \in Int /\ i <= m
      BY <1>1, <2>3, <3>2, <3>5 DEF Records
    <3>7. \/ rows[i].last < rows[m].last
          \/ rows[i].last = rows[m].last /\ i <= m
      BY <2>3, <3>2, CurrentIs DEF Records
    <3>8. up[i].last < up[k].first
      <4>1. rows[i].last < now
        BY <3>3, <3>6, <3>7
      <4> QED
        BY <1>4, <2>3, <3>1, <4>1
    <3>9. CASE i = m
      BY <1>4, <2>3, <3>1, <3>4, <3>8, <3>9
    <3>10. CASE i # m
      <4>1. i < m
        BY <2>2, <3>6, <3>10
      <4> QED
        BY <3>5, <3>8, <4>1
    <3> QED
      BY <3>9, <3>10
  <2> QED
    BY <1>5, <2>1, <2>4, <2>5
<1>10. InTurn(up)
  BY <1>9 DEF InTurn
<1>11. RowsFit(up)
  BY <1>3, <1>8, <1>10 DEF RowsFit
<1>12. DOMAIN up = DOMAIN rows \cup {n + 1}
  BY <1>5, <1>6, <1>7
<1> QED
  BY <1>3, <1>6, <1>11, <1>12 DEF n, q, AddsRow

Texts(rows) == {rows[i].domain : i \in {k \in DOMAIN rows : rows[k].kind = "record"
                                                           /\ rows[k].content # ""}}

LEMMA ConfirmSays ==
    ASSUME now \in Int, NEW rows, RowsFit(rows), NEW d, NEW kind, NEW content, NEW error, NEW detail,
           RowFit(NewRow(d, kind, content, error, detail)), NEW up,
           NEW c \in CurrentRow(rows, d, kind), SameText(rows[c], content, error),
           IsConfirmed(up, rows, c, detail)
    PROVE  /\ RowsFit(up) /\ Texts(up) = Texts(rows)
           /\ kind = "record" /\ content # "" => d \in Texts(rows)
<1>1. c \in DOMAIN rows /\ rows[c].domain = d /\ rows[c].kind = kind
  BY CurrentIs
<1>2. RowFit(rows[c])
  BY <1>1, RowsAreList
<1>3. RowFit(ConfirmedRow(rows[c], detail))
  BY <1>1, <1>2, ConfirmedFits DEF SameText
<1>4. KeepsTexts(up, rows)
  BY <1>3, ConfirmFits
<1>5. Texts(up) = Texts(rows)
  BY <1>4 DEF Texts, KeepsTexts
<1>6. kind = "record" /\ content # "" => d \in Texts(rows)
  BY <1>1 DEF Texts, SameText
<1> QED
  BY <1>4, <1>5, <1>6 DEF KeepsTexts

LEMMA AppendSays ==
    ASSUME NEW rows, NEW row, NEW up, AddsRow(up, rows, row)
    PROVE  \A e : e \in Texts(up) <=>
                 e \in Texts(rows) \/ (row.kind = "record" /\ row.content # "" /\ e = row.domain)
<1> DEFINE n == Len(rows)
<1>1. /\ RowsFit(up) /\ DOMAIN up = DOMAIN rows \cup {n + 1}
      /\ \A i \in DOMAIN rows : up[i] = rows[i]
      /\ up[n + 1] = row
  BY DEF AddsRow
<1> HIDE DEF n
<1>2. ASSUME NEW e, e \in Texts(up)
      PROVE  e \in Texts(rows) \/ (row.kind = "record" /\ row.content # "" /\ e = row.domain)
  <2>1. PICK i \in DOMAIN up : /\ up[i].kind = "record" /\ up[i].content # ""
                               /\ up[i].domain = e
    BY <1>2 DEF Texts
  <2>2. CASE i \in DOMAIN rows
    BY <1>1, <2>1, <2>2 DEF Texts
  <2>3. CASE i = n + 1
    BY <1>1, <2>1, <2>3
  <2> QED
    BY <1>1, <2>2, <2>3
<1>3. ASSUME NEW e, e \in Texts(rows) PROVE e \in Texts(up)
  BY <1>1, <1>3 DEF Texts
<1>4. ASSUME row.kind = "record" /\ row.content # "" PROVE row.domain \in Texts(up)
  BY <1>1, <1>4 DEF Texts
<1> QED
  BY <1>2, <1>3, <1>4

Tells(up, rows, d, kind, content) ==
    \A e : e \in Texts(up) <=>
              e \in Texts(rows) \/ (kind = "record" /\ content # "" /\ e = d)

LEMMA ConfirmCase ==
    ASSUME now \in Int, NEW rows, RowsFit(rows), NEW d, NEW kind, NEW content, NEW error, NEW detail,
           RowFit(NewRow(d, kind, content, error, detail)), NEW up,
           \E c \in CurrentRow(rows, d, kind) :
              SameText(rows[c], content, error) /\ IsConfirmed(up, rows, c, detail)
    PROVE  RowsFit(up) /\ Tells(up, rows, d, kind, content)
<1>1. PICK c \in CurrentRow(rows, d, kind) :
              SameText(rows[c], content, error) /\ IsConfirmed(up, rows, c, detail)
  OBVIOUS
<1>2. /\ RowsFit(up) /\ Texts(up) = Texts(rows)
      /\ kind = "record" /\ content # "" => d \in Texts(rows)
  BY <1>1, ConfirmSays
<1> QED
  BY <1>2 DEF Tells

LEMMA AppendCase ==
    ASSUME now \in Int, NEW rows, RowsFit(rows), NEW d, NEW kind, NEW content, NEW error, NEW detail,
           RowFit(NewRow(d, kind, content, error, detail)),
           kind = "record" => Later(rows, d), NEW up,
           \A c \in CurrentRow(rows, d, kind) : ~SameText(rows[c], content, error),
           IsAppended(up, rows, NewRow(d, kind, content, error, detail))
    PROVE  RowsFit(up) /\ Tells(up, rows, d, kind, content)
<1> DEFINE q == NewRow(d, kind, content, error, detail)
<1>1. AddsRow(up, rows, q)
  BY AppendFits
<1>2. q.domain = d /\ q.kind = kind /\ q.content = content
  BY DEF NewRow
<1> HIDE DEF q
<1>3. RowsFit(up)
  BY <1>1, Zenon DEF AddsRow
<1>4. \A e : e \in Texts(up) <=>
            e \in Texts(rows) \/ (q.kind = "record" /\ q.content # "" /\ e = q.domain)
  BY <1>1, AppendSays, Zenon
<1> QED
  BY <1>2, <1>3, <1>4 DEF Tells

IsUpserted(up, rows, d, kind, content, error, detail) ==
    up = Upserted(rows, d, kind, content, error, detail)

LEMMA UpsertFits ==
    ASSUME now \in Int, NEW rows, RowsFit(rows), NEW d, NEW kind, NEW content, NEW error, NEW detail,
           RowFit(NewRow(d, kind, content, error, detail)),
           kind = "record" => Later(rows, d),
           NEW up, IsUpserted(up, rows, d, kind, content, error, detail)
    PROVE  RowsFit(up) /\ Tells(up, rows, d, kind, content)
<1>1. \/ \E c \in CurrentRow(rows, d, kind) :
            SameText(rows[c], content, error) /\ IsConfirmed(up, rows, c, detail)
      \/ /\ \A c \in CurrentRow(rows, d, kind) : ~SameText(rows[c], content, error)
         /\ IsAppended(up, rows, NewRow(d, kind, content, error, detail))
  BY UpsertShape DEF IsUpserted
<1>2. CASE \E c \in CurrentRow(rows, d, kind) :
              SameText(rows[c], content, error) /\ IsConfirmed(up, rows, c, detail)
  BY <1>2, ConfirmCase
<1>3. CASE /\ \A c \in CurrentRow(rows, d, kind) : ~SameText(rows[c], content, error)
           /\ IsAppended(up, rows, NewRow(d, kind, content, error, detail))
  BY <1>3, AppendCase
<1> QED
  BY <1>1, <1>2, <1>3

DetailFits(kind, content, error, detail) ==
    /\ kind \in {"record", "indicator", "evidence"}
    /\ kind = "record" => /\ detail.state = "error" <=> error # ""
                          /\ detail.state \notin {"absent", "error"} <=> content # ""
    /\ kind = "indicator" => LogoFit(detail)
    /\ kind = "evidence" => EvidenceFit(detail)

LEMMA NewFits ==
    ASSUME now \in Int, NEW d, NEW kind, NEW content, NEW error, NEW detail,
           DetailFits(kind, content, error, detail)
    PROVE  RowFit(NewRow(d, kind, content, error, detail))
<1> DEFINE q == NewRow(d, kind, content, error, detail)
<1>1. /\ q = [domain |-> q.domain, kind |-> q.kind, content |-> q.content,
              error |-> q.error, detail |-> q.detail, first |-> q.first,
              last |-> q.last, checks |-> q.checks]
      /\ q.kind = kind /\ q.content = content /\ q.error = error /\ q.detail = detail
      /\ q.first = now /\ q.last = now
  BY DEF NewRow
<1> HIDE DEF q
<1>2. /\ q.kind = "record" => RecordFit(q)
      /\ q.kind = "indicator" => LogoFit(q.detail)
      /\ q.kind = "evidence" => EvidenceFit(q.detail)
      /\ q.kind \in {"record", "indicator", "evidence"}
  BY <1>1 DEF RecordFit, DetailFits
<1>4. q.first \in Int /\ q.last \in Int /\ q.first <= q.last /\ q.last <= now
  <2>1. q.first = now /\ q.last = now
    BY <1>1
  <2> QED
    BY <2>1
<1>5. RowFit(q)
  BY <1>1, <1>2, <1>4, Zenon DEF RowFit
<1> QED
  BY <1>5 DEF q

LEMMA TextsTell ==
    ASSUME NEW rows, NEW d
    PROVE  d \in Texts(rows) <=> \E i \in Records(rows, d) : rows[i].content # ""
BY DEF Texts, Records

\* The rows after a lookup: the record first, then what is fetched for it.
LEMMA LookupFits ==
    ASSUME now \in Int, RowsFit(bimiRows), NEW d, NEW x \in BimiLookups, SnapshotBimi(d, x)
    PROVE  RowsFit(bimiRows') /\ Tells(bimiRows', bimiRows, d, "record", x.content)
<1> DEFINE record == [state |-> x.state, l |-> x.l, a |-> x.a]
           indicator == IndicatorResult(x.logo)
           evidence == EvidenceResult(x.evidence)
           looked == Upserted(bimiRows, d, "record", x.content, x.error, record)
           fetched == Upserted(looked, d, "indicator", indicator.hash,
                               FirstErrorOf(indicator.findings), indicator)
           proved == Upserted(fetched, d, "evidence", evidence.fingerprint,
                              FirstErrorOf(evidence.findings), evidence)
<1>1. d \in StaleBimiDomains /\ bimiRows' \in {looked, fetched, proved}
  BY DEF SnapshotBimi
<1>2. Later(bimiRows, d)
  BY <1>1 DEF StaleBimiDomains, Later
<1>3. RowFit(NewRow(d, "record", x.content, x.error, record))
  <2>1. /\ x.state = "error" <=> x.error # ""
        /\ x.state \notin {"absent", "error"} <=> x.content # ""
    BY LookupsAssumption
  <2>2. record.state = x.state
    OBVIOUS
  <2> HIDE DEF record
  <2>3. DetailFits("record", x.content, x.error, record)
    BY <2>1, <2>2 DEF DetailFits
  <2> QED
    BY <2>3, NewFits, Zenon
<1>4. RowFit(NewRow(d, "indicator", indicator.hash, FirstErrorOf(indicator.findings), indicator))
  <2>1. LogoFit(indicator)
    BY LogoFits
  <2> HIDE DEF indicator
  <2>3. DetailFits("indicator", indicator.hash, FirstErrorOf(indicator.findings), indicator)
    BY <2>1 DEF DetailFits
  <2> QED
    BY <2>3, NewFits, Zenon
<1>5. RowFit(NewRow(d, "evidence", evidence.fingerprint, FirstErrorOf(evidence.findings), evidence))
  <2>1. EvidenceFit(evidence)
    BY EvidenceFits
  <2> HIDE DEF evidence
  <2>3. DetailFits("evidence", evidence.fingerprint, FirstErrorOf(evidence.findings), evidence)
    BY <2>1 DEF DetailFits
  <2> QED
    BY <2>3, NewFits, Zenon
<1> HIDE DEF record, indicator, evidence
<1>6. IsUpserted(looked, bimiRows, d, "record", x.content, x.error, record)
  BY DEF IsUpserted
<1> HIDE DEF looked
<1>7. IsUpserted(fetched, looked, d, "indicator", indicator.hash, FirstErrorOf(indicator.findings),
                 indicator)
  BY DEF IsUpserted
<1> HIDE DEF fetched
<1>8. IsUpserted(proved, fetched, d, "evidence", evidence.fingerprint,
                 FirstErrorOf(evidence.findings), evidence)
  BY DEF IsUpserted
<1> HIDE DEF proved
<1>9. RowsFit(looked) /\ Tells(looked, bimiRows, d, "record", x.content)
  BY <1>2, <1>3, <1>6, UpsertFits
<1>10. RowsFit(fetched) /\ Tells(fetched, looked, d, "indicator", indicator.hash)
  BY <1>4, <1>7, <1>9, UpsertFits
<1>11. RowsFit(proved) /\ Tells(proved, fetched, d, "evidence", evidence.fingerprint)
  BY <1>5, <1>8, <1>10, UpsertFits
<1>12. /\ \A e : e \in Texts(fetched) <=> e \in Texts(looked)
       /\ \A e : e \in Texts(proved) <=> e \in Texts(fetched)
  BY <1>10, <1>11 DEF Tells
<1>13. Tells(fetched, bimiRows, d, "record", x.content)
  BY <1>9, <1>12 DEF Tells
<1>14. Tells(proved, bimiRows, d, "record", x.content)
  BY <1>12, <1>13 DEF Tells
<1> QED
  BY <1>1, <1>9, <1>10, <1>11, <1>13, <1>14

LEMMA SelectorsFollow ==
    ASSUME SelectorsFit(bimiRows, bimiSelectors), NEW d, NEW x \in BimiLookups, SnapshotBimi(d, x),
           Tells(bimiRows', bimiRows, d, "record", x.content)
    PROVE  SelectorsFit(bimiRows', bimiSelectors')
<1>1. /\ \A e : e \in Texts(bimiRows) <=> e \in DOMAIN bimiSelectors
      /\ \A e : e \in Texts(bimiRows') <=> e \in Texts(bimiRows) \/ (x.content # "" /\ e = d)
  BY TextsTell DEF SelectorsFit, Tells
<1>2. x.answered <=> x.content # ""
  BY LookupsAssumption
<1>3. /\ ~x.answered => bimiSelectors' = bimiSelectors
      /\ x.answered => DOMAIN bimiSelectors' = DOMAIN bimiSelectors \cup {d}
  BY DEF SnapshotBimi
<1>4. \A e : e \in Texts(bimiRows') <=> e \in DOMAIN bimiSelectors'
  BY <1>1, <1>2, <1>3
<1> QED
  BY <1>4, TextsTell DEF SelectorsFit

\* What is stored fits as well later.
LEMMA FitsLater ==
    ASSUME now \in Int, now' \in {now, now + 1}, NEW rows, RowsFit(rows), bimiRows' = rows
    PROVE  RowsFit(bimiRows)'
<1>1. \A i \in DOMAIN rows : RowFit(rows[i])'
  <2> SUFFICES ASSUME NEW i \in DOMAIN rows PROVE RowFit(rows[i])'
    OBVIOUS
  <2> DEFINE row == rows[i]
  <2>1. RowFit(row)
    BY DEF RowsFit
  <2> HIDE DEF row
  <2>2. row.last <= now' /\ now' \in Int
    BY <2>1 DEF RowFit
  <2>3. RowFit(row)'
    BY <2>1, <2>2 DEF RowFit
  <2> QED
    BY <2>3 DEF row
<1>2. (\E S : rows \in Seq(S)) /\ InTurn(rows)
  BY DEF RowsFit
<1>3. InTurn(bimiRows)'
  BY <1>2 DEF InTurn, Records
<1> QED
  BY <1>1, <1>2, <1>3 DEF RowsFit

LEMMA FitsStay ==
    ASSUME now \in Int, now' \in {now, now + 1}, RowsFit(bimiRows), bimiRows' = bimiRows
    PROVE  RowsFit(bimiRows)'
BY FitsLater

LEMMA LookupInvStep ==
    ASSUME LookupInv, [StatsNext]_statsVars
    PROVE  LookupInv'
<1>1. BimiInv' /\ BimiInv /\ now \in Int
  BY BimiInvStep DEF LookupInv, BimiInv, StatsInv
<1>2. ASSUME UNCHANGED <<bimiRows, bimiSelectors>>, now' \in {now, now + 1}
      PROVE  RowsFit(bimiRows)' /\ SelectorsFit(bimiRows, bimiSelectors)'
  <2>1. RowsFit(bimiRows)'
    <3>1. bimiRows' = bimiRows /\ RowsFit(bimiRows) /\ now \in Int
      BY <1>1, <1>2 DEF LookupInv
    <3> QED
      BY <1>2, <3>1, FitsStay
  <2>2. SelectorsFit(bimiRows, bimiSelectors)'
    <3>1. bimiRows' = bimiRows /\ bimiSelectors' = bimiSelectors
      BY <1>2
    <3>2. SelectorsFit(bimiRows, bimiSelectors)
      BY DEF LookupInv
    <3> QED
      BY <3>1, <3>2
  <2> QED
    BY <2>1, <2>2
<1>3. CASE UNCHANGED statsVars
  BY <1>1, <1>2, <1>3 DEF LookupInv, statsVars, rowVars, bimiVars
<1>4. CASE RowsNext /\ UNCHANGED bimiVars
  BY <1>1, <1>2, <1>4, ManagedStep DEF LookupInv, BimiInv, bimiVars
<1>5. CASE DayPasses /\ UNCHANGED <<bimiRows, bimiSelectors>>
  BY <1>1, <1>2, <1>5 DEF LookupInv, DayPasses
<1>6. CASE ~BimiAtStart /\ DayPasses /\ UNCHANGED <<tlsVars, bimiVars>>
  BY <1>5, <1>6 DEF bimiVars
<1>7. CASE TlsNext /\ UNCHANGED bimiVars
  <2>1. CASE DayPasses
    BY <1>5, <1>7, <2>1 DEF bimiVars
  <2>2. CASE ~DayPasses
    <3>1. UNCHANGED rowVars
      BY <1>7, <2>2 DEF TlsNext, ImportTlsReport, Snapshot
    <3> QED
      BY <1>1, <1>2, <1>7, <3>1 DEF LookupInv, bimiVars, rowVars
  <2> QED
    BY <2>1, <2>2
<1>8. CASE LooksUp /\ UNCHANGED <<rowVars, tlsVars>>
  <2>1. PICK d \in PolicyDomains, x \in BimiLookups : SnapshotBimi(d, x)
    BY <1>8 DEF LooksUp
  <2>2. now' = now
    BY <1>8 DEF rowVars
  <2> DEFINE rows == bimiRows'
  <2>3. RowsFit(rows) /\ Tells(rows, bimiRows, d, "record", x.content)
    BY <1>1, <2>1, LookupFits DEF LookupInv
  <2>4. SelectorsFit(rows, bimiSelectors')
    BY <2>1, <2>3, SelectorsFollow DEF LookupInv
  <2> HIDE DEF rows
  <2>5. bimiRows' = rows
    BY DEF rows
  <2>6. RowsFit(bimiRows)'
    <3>1. now' \in {now, now + 1}
      BY <2>2
    <3> QED
      BY <1>1, <2>3, <2>5, <3>1, FitsLater
  <2>7. SelectorsFit(bimiRows, bimiSelectors)'
    BY <2>4, <2>5
  <2> QED
    BY <1>1, <2>6, <2>7 DEF LookupInv
<1>9. CASE ReadsSeed /\ UNCHANGED <<rowVars, tlsVars>>
  <2>1. UNCHANGED <<bimiRows, bimiSelectors>> /\ now' = now
    BY <1>9 DEF ReadsSeed, RecordSeed, rowVars
  <2> QED
    BY <1>1, <1>2, <2>1 DEF LookupInv
<1> QED
  BY <1>3, <1>4, <1>6, <1>7, <1>8, <1>9 DEF StatsNext

\* The rows that the lookups store follow each other in time, and no two records of a
\* domain that follow each other say the same (bimi_snapshots.go:58-91).
THEOREM LookupsKeptInTurn == StatsSpec => []LookupInv
<1>1. StatsInit => LookupInv
  <2> SUFFICES ASSUME StatsInit PROVE LookupInv
    OBVIOUS
  <2>1. bimiRows = << >> /\ bimiSelectors = << >>
    BY DEF StatsInit, BimiInit
  <2>2. BimiInv
    <3>1. verdicts = << >> /\ stored = {} /\ managed = {} /\ now = FirstNow
      BY DEF StatsInit, RowsInit, BimiInit
    <3>2. StatsInv
      BY <3>1, RowsAssumption DEF StatsInv
    <3>3. IsFiniteSet(managed)
      BY <3>1, FS_EmptySet
    <3> QED
      BY <3>1, <3>2, <3>3, NoVerdictIsSound DEF BimiInv
  <2>3. << >> \in Seq({}) /\ DOMAIN << >> = {}
    BY EmptySeq
  <2>4. \A d : Records(bimiRows, d) = {}
    BY <2>1, <2>3 DEF Records
  <2>5. RowsFit(bimiRows)
    BY <2>1, <2>3, <2>4 DEF RowsFit, InTurn
  <2>6. SelectorsFit(bimiRows, bimiSelectors)
    BY <2>1, <2>3, <2>4 DEF SelectorsFit
  <2> QED
    BY <2>2, <2>5, <2>6 DEF LookupInv
<1>2. LookupInv /\ [StatsNext]_statsVars => LookupInv'
  BY LookupInvStep
<1> QED
  BY <1>1, <1>2, PTL DEF StatsSpec

-----------------------------------------------------------------------------
(* The rules X20 to X22: what the lookups found                             *)

RowsBelow(i) == {k \in DOMAIN bimiRows : /\ bimiRows[k].kind = "record" /\ k < i
                                       /\ bimiRows[k].domain = bimiRows[i].domain}
ChangeAt(i) == [domain |-> bimiRows[i].domain, at |-> bimiRows[i].first,
                from |-> bimiRows[Max(RowsBelow(i))], to |-> bimiRows[i]]

LEMMA ChangesAre ==
    ASSUME NEW since
    PROVE  RecordChanges(since)
             = {ChangeAt(i) : i \in {k \in DOMAIN bimiRows :
                  bimiRows[k].kind = "record" /\ RowsBelow(k) # {} /\ bimiRows[k].first >= since}}
<1> DEFINE records == {i \in DOMAIN bimiRows : bimiRows[i].kind = "record"}
           before(i) == {k \in records : k < i /\ bimiRows[k].domain = bimiRows[i].domain}
<1>1. RecordChanges(since)
        = {[domain |-> bimiRows[i].domain, at |-> bimiRows[i].first,
            from |-> bimiRows[Max(before(i))], to |-> bimiRows[i]] :
              i \in {k \in records : before(k) # {} /\ bimiRows[k].first >= since}}
  BY DEF RecordChanges
<1>2. \A i : before(i) = RowsBelow(i)
  BY DEF RowsBelow
<1> HIDE DEF before
<1>3. RecordChanges(since)
        = {[domain |-> bimiRows[i].domain, at |-> bimiRows[i].first,
            from |-> bimiRows[Max(RowsBelow(i))], to |-> bimiRows[i]] :
              i \in {k \in records : RowsBelow(k) # {} /\ bimiRows[k].first >= since}}
  BY <1>1, <1>2
<1> QED
  BY <1>3 DEF ChangeAt

LEMMA MaxIs ==
    ASSUME NEW S \in SUBSET Int, IsFiniteSet(S), S # {}
    PROVE  Max(S) \in S /\ \A y \in S : y <= Max(S)
<1>1. PICK x \in S : \A y \in S : y <= x
  BY Extremes
<1>2. \A y \in S : x >= y
  BY <1>1
<1>3. Max(S) \in S /\ \A y \in S : Max(S) >= y
  BY <1>2 DEF Max
<1> QED
  BY <1>3

LEMMA ChangeFacts ==
    ASSUME RowsFit(bimiRows), NEW i \in DOMAIN bimiRows, bimiRows[i].kind = "record", RowsBelow(i) # {}
    PROVE  /\ ChangeAt(i).domain = bimiRows[i].domain /\ ChangeAt(i).at = bimiRows[i].first
           /\ ChangeAt(i).to = bimiRows[i]
           /\ \/ ChangeAt(i).from.content # bimiRows[i].content
              \/ ChangeAt(i).from.error # bimiRows[i].error
<1> DEFINE d == bimiRows[i].domain
           m == Max(RowsBelow(i))
<1>1. /\ Len(bimiRows) \in Nat /\ DOMAIN bimiRows = 1 .. Len(bimiRows)
      /\ DOMAIN bimiRows \in SUBSET Int
  BY RowsAreList
<1>2. RowsBelow(i) \in SUBSET Int /\ IsFiniteSet(RowsBelow(i))
  <2>1. RowsBelow(i) \in SUBSET (DOMAIN bimiRows)
    BY DEF RowsBelow
  <2>2. IsFiniteSet(DOMAIN bimiRows)
    <3> DEFINE n == Len(bimiRows)
    <3>1. n \in Int /\ 1 \in Int
      BY <1>1
    <3> HIDE DEF n
    <3>2. IsFiniteSet(1 .. n)
      BY <3>1, FS_Interval, Zenon
    <3> QED
      BY <1>1, <3>2 DEF n
  <2>3. IsFiniteSet(RowsBelow(i))
    BY <2>1, <2>2, FS_Subset
  <2> QED
    BY <1>1, <2>1, <2>3
<1>3. m \in RowsBelow(i) /\ \A y \in RowsBelow(i) : y <= m
  BY <1>2, MaxIs
<1>4. /\ ChangeAt(i).domain = d /\ ChangeAt(i).at = bimiRows[i].first
      /\ ChangeAt(i).to = bimiRows[i] /\ ChangeAt(i).from = bimiRows[m]
  BY DEF ChangeAt
<1> HIDE DEF m
<1>5. /\ i \in Records(bimiRows, d) /\ m \in Records(bimiRows, d) /\ m < i
      /\ \A j \in Records(bimiRows, d) : j < i => j \in RowsBelow(i)
  BY <1>3 DEF Records, RowsBelow
<1>6. \A j \in Records(bimiRows, d) : ~(m < j /\ j < i)
  <2> SUFFICES ASSUME NEW j \in Records(bimiRows, d), m < j, j < i PROVE FALSE
    OBVIOUS
  <2>1. j \in Int /\ m \in Int
    BY <1>1, <1>5 DEF Records
  <2>2. j <= m
    BY <1>3, <1>5
  <2> QED
    BY <2>1, <2>2
<1>7. bimiRows[m].content # bimiRows[i].content \/ bimiRows[m].error # bimiRows[i].error
  BY <1>5, <1>6 DEF RowsFit, InTurn
<1> QED
  BY <1>4, <1>7

LEMMA NewestChange ==
    ASSUME RowsFit(bimiRows), NEW i \in DOMAIN bimiRows, bimiRows[i].kind = "record",
           RowsBelow(i) # {}, bimiRows[i].first >= 0,
           \A k \in DOMAIN bimiRows :
              /\ bimiRows[k].kind = "record" /\ bimiRows[k].domain = bimiRows[i].domain
              /\ RowsBelow(k) # {} /\ bimiRows[k].first >= 0
              => bimiRows[k].first <= bimiRows[i].first
    PROVE  i \in CurrentRow(bimiRows, bimiRows[i].domain, "record")
<1> DEFINE d == bimiRows[i].domain
<1>1. i \in Records(bimiRows, d)
  BY DEF Records
<1>2. PICK m \in Records(bimiRows, d) : /\ \A k \in Records(bimiRows, d) : k <= m
                                        /\ m \in CurrentRow(bimiRows, d, "record")
  BY <1>1, LastRecord
<1>3. CASE i = m
  BY <1>2, <1>3
<1>4. CASE i # m
  <2>1. /\ DOMAIN bimiRows \in SUBSET Int
        /\ \A k \in DOMAIN bimiRows : RowFit(bimiRows[k])
    BY RowsAreList
  <2>2. m \in DOMAIN bimiRows /\ i \in Int /\ m \in Int /\ i < m
    BY <1>1, <1>2, <1>4, <2>1 DEF Records
  <2>3. bimiRows[i].last < bimiRows[m].first
    BY <1>1, <2>2 DEF RowsFit, InTurn
  <2>4. RowFit(bimiRows[i]) /\ RowFit(bimiRows[m])
    BY <2>1, <2>2
  <2>5. /\ bimiRows[i].first \in Int /\ bimiRows[i].last \in Int /\ bimiRows[m].first \in Int
        /\ bimiRows[i].first <= bimiRows[i].last
    BY <2>4 DEF RowFit
  <2>6. bimiRows[i].first < bimiRows[m].first /\ bimiRows[m].first >= 0
    BY <2>3, <2>5
  <2>7. bimiRows[m].kind = "record" /\ bimiRows[m].domain = d /\ i \in RowsBelow(m)
    BY <1>1, <2>2 DEF Records, RowsBelow
  <2>8. bimiRows[m].first <= bimiRows[i].first
    BY <2>2, <2>6, <2>7
  <2> QED
    BY <2>5, <2>6, <2>8
<1> QED
  BY <1>3, <1>4

LEMMA ChangesAgree ==
    ASSUME RowsFit(bimiRows), NEW d
    PROVE  LET changes == {c \in RecordChanges(0) : c.domain = d}
               current == {bimiRows[i] : i \in CurrentRow(bimiRows, d, "record")}
           IN  \A c \in changes :
                   /\ <<c.from.content, c.from.error>> # <<c.to.content, c.to.error>>
                   /\ (\A x \in changes : x.at <= c.at) => c.to \in current
<1> DEFINE changes == {c \in RecordChanges(0) : c.domain = d}
           current == {bimiRows[i] : i \in CurrentRow(bimiRows, d, "record")}
           I == {k \in DOMAIN bimiRows :
                   bimiRows[k].kind = "record" /\ RowsBelow(k) # {} /\ bimiRows[k].first >= 0}
<1>1. \A c : c \in changes <=> c.domain = d /\ \E i \in I : c = ChangeAt(i)
  BY ChangesAre
<1>2. ASSUME NEW i \in I
      PROVE  /\ ChangeAt(i).domain = bimiRows[i].domain /\ ChangeAt(i).at = bimiRows[i].first
             /\ ChangeAt(i).to = bimiRows[i]
             /\ \/ ChangeAt(i).from.content # bimiRows[i].content
                \/ ChangeAt(i).from.error # bimiRows[i].error
  <2>1. i \in DOMAIN bimiRows /\ bimiRows[i].kind = "record" /\ RowsBelow(i) # {}
    BY <1>2
  <2> HIDE DEF I
  <2> QED
    BY <2>1, ChangeFacts
<1> HIDE DEF changes
<1>3. ASSUME NEW c \in changes
      PROVE  /\ <<c.from.content, c.from.error>> # <<c.to.content, c.to.error>>
             /\ (\A x \in changes : x.at <= c.at) => c.to \in current
  <2>1. PICK i \in I : c = ChangeAt(i) /\ c.domain = d
    BY <1>1, <1>3
  <2>2. /\ bimiRows[i].domain = d /\ c.at = bimiRows[i].first /\ c.to = bimiRows[i]
        /\ c.from.content # c.to.content \/ c.from.error # c.to.error
    BY <1>2, <2>1
  <2>3. ASSUME \A x \in changes : x.at <= c.at PROVE c.to \in current
    <3>1. ASSUME NEW k \in I, bimiRows[k].domain = d PROVE bimiRows[k].first <= bimiRows[i].first
      <4>1. ChangeAt(k) \in changes
        BY <1>1, <1>2, <3>1
      <4>2. ChangeAt(k).at <= c.at
        BY <2>3, <4>1
      <4> QED
        BY <1>2, <2>2, <4>2
    <3>2. i \in DOMAIN bimiRows /\ bimiRows[i].kind = "record" /\ RowsBelow(i) # {}
          /\ bimiRows[i].first >= 0
      OBVIOUS
    <3>3. \A k \in DOMAIN bimiRows :
             /\ bimiRows[k].kind = "record" /\ bimiRows[k].domain = bimiRows[i].domain
             /\ RowsBelow(k) # {} /\ bimiRows[k].first >= 0
             => bimiRows[k].first <= bimiRows[i].first
      BY <2>2, <3>1
    <3>4. i \in CurrentRow(bimiRows, bimiRows[i].domain, "record")
      BY <3>2, <3>3, NewestChange
    <3> QED
      BY <2>2, <3>4
  <2> QED
    BY <2>2, <2>3
<1> QED
  BY <1>3 DEF changes

LEMMA BlockedAgree ==
    ASSUME NEW f
    PROVE  {d \in BimiDomains \cap DOMAIN BimiReadiness(f) :
               /\ \E s \in DomainState(d) : s.state = "published"
               /\ FALSE \in BimiReadiness(f)[d].eligible}
             = {d \in DOMAIN BimiReadiness(f) : "blocked" \in ReadinessClasses(d, f)}
<1> SUFFICES ASSUME NEW d \in DOMAIN BimiReadiness(f)
    PROVE "blocked" \in ReadinessClasses(d, f) <=>
             /\ d \in BimiDomains /\ \E s \in DomainState(d) : s.state = "published"
             /\ FALSE \in BimiReadiness(f)[d].eligible
  OBVIOUS
<1>1. CASE DomainState(d) = {}
  BY <1>1 DEF ReadinessClasses
<1>2. CASE DomainState(d) # {}
  <2>1. d \in BimiDomains
    BY <1>2 DEF DomainState, CurrentDetail, CurrentRow, BimiDomains
  <2>2. /\ PoliciesOf(d, f) \in SUBSET BOOLEAN
        /\ FALSE \in PoliciesOf(d, f) <=> FALSE \in BimiReadiness(f)[d].eligible
    BY Readies
  <2>3. "blocked" \in ReadinessClasses(d, f) <=>
           \E s \in DomainState(d) : s.state = "published" /\ FALSE \in PoliciesOf(d, f)
    <3>1. "blocked" \in ReadinessClasses(d, f) <=>
             \E s \in DomainState(d) : /\ s.state = "published"
                                       /\ \E e \in PoliciesOf(d, f) : ~e
      BY <1>2, <2>2, ClassIn
    <3> QED
      BY <2>2, <3>1
  <2> QED
    BY <2>1, <2>2, <2>3
<1> QED
  BY <1>1, <1>2

LEMMA LatelyReads ==
    /\ Lately.domain = AnyValue
    /\ \A f : f.domain = AnyValue => DOMAIN PageRows(f) = DOMAIN BimiScope(f)
    /\ \A f : DOMAIN BimiScope(f) = {j.rep.domain : j \in Where(f)} \cup managed
    /\ \A f : DOMAIN BimiReadiness(f) = {j.rep.domain : j \in Where(f)}
<1>1. Lately.domain = AnyValue
  BY DEF Lately, Unbounded
<1>2. ASSUME NEW f, f.domain = AnyValue PROVE DOMAIN PageRows(f) = DOMAIN BimiScope(f)
  BY <1>2 DEF PageRows
<1>3. /\ \A f : DOMAIN BimiScope(f) = {j.rep.domain : j \in Where(f)} \cup managed
      /\ \A f : DOMAIN BimiReadiness(f) = {j.rep.domain : j \in Where(f)}
  BY DEF BimiScope, BimiReadiness
<1> QED
  BY <1>1, <1>2, <1>3

LEMMA BlockedMatchesPage ==
    {a.domain : a \in BimiBlockedByPolicy}
      = {d \in DOMAIN PageRows(Lately) : "blocked" \in ReadinessClasses(d, Lately)}
<1> DEFINE S == {d \in BimiDomains \cap DOMAIN BimiReadiness(Lately) :
                    /\ \E s \in DomainState(d) : s.state = "published"
                    /\ FALSE \in BimiReadiness(Lately)[d].eligible}
           P == {d \in DOMAIN PageRows(Lately) : "blocked" \in ReadinessClasses(d, Lately)}
<1>1. {a.domain : a \in BimiBlockedByPolicy} = S
  <2>1. BimiBlockedByPolicy = {Alert("bimi_blocked_by_policy", d, "policy", "warning") : d \in S}
    BY DEF BimiBlockedByPolicy
  <2>2. \A d : Alert("bimi_blocked_by_policy", d, "policy", "warning").domain = d
    BY DEF Alert
  <2> HIDE DEF S
  <2> QED
    BY <2>1, <2>2
<1>2. S = {d \in DOMAIN BimiReadiness(Lately) : "blocked" \in ReadinessClasses(d, Lately)}
  BY BlockedAgree
<1>3. DOMAIN BimiReadiness(Lately) \subseteq DOMAIN PageRows(Lately)
  <2>1. DOMAIN PageRows(Lately) = DOMAIN BimiScope(Lately)
    BY LatelyReads
  <2>2. /\ DOMAIN BimiScope(Lately) = {j.rep.domain : j \in Where(Lately)} \cup managed
        /\ DOMAIN BimiReadiness(Lately) = {j.rep.domain : j \in Where(Lately)}
    BY LatelyReads
  <2> QED
    BY <2>1, <2>2
<1>4. ASSUME NEW d, "blocked" \in ReadinessClasses(d, Lately) PROVE d \in DOMAIN BimiReadiness(Lately)
  <2>1. DomainState(d) # {}
    BY <1>4 DEF ReadinessClasses
  <2>2. \E e \in PoliciesOf(d, Lately) : ~e
    BY <1>4, <2>1, ClassIn
  <2> QED
    BY <2>2, Readies
<1> QED
  BY <1>1, <1>2, <1>3, <1>4

LEMMA RecordRulesAgree ==
    ASSUME LookupInv
    PROVE  RecordRulesMatchPages
<1>1. RowsFit(bimiRows) /\ SelectorsFit(bimiRows, bimiSelectors)
  BY DEF LookupInv
<1>2. /\ \A i \in DOMAIN bimiRows : RowFit(bimiRows[i])
  BY <1>1, RowsAreList
<1>3. \A i \in DOMAIN bimiRows : bimiRows[i].kind = "record" => RecordFit(bimiRows[i])
  BY <1>2 DEF RowFit
<1>4. \A d \in BimiDomains :
         LET changes == {c \in RecordChanges(0) : c.domain = d}
             current == {bimiRows[i] : i \in CurrentRow(bimiRows, d, "record")}
         IN  \A c \in changes :
                 /\ <<c.from.content, c.from.error>> # <<c.to.content, c.to.error>>
                 /\ (\A x \in changes : x.at <= c.at) => c.to \in current
  BY <1>1, ChangesAgree
<1>5. \A row \in {bimiRows[i] : i \in {k \in DOMAIN bimiRows : bimiRows[k].kind = "record"}} :
         row.detail.state = "error" <=> row.error # ""
  BY <1>3 DEF RecordFit
<1>6. ASSUME NEW d
      PROVE  d \in DOMAIN bimiSelectors <=>
                {bimiRows[i].first : i \in {k \in DOMAIN bimiRows :
                   /\ bimiRows[k].domain = d /\ bimiRows[k].kind = "record"
                   /\ bimiRows[k].detail.state \notin {"absent", "error"}}} # {}
  <2>1. d \in DOMAIN bimiSelectors <=> \E i \in Records(bimiRows, d) : bimiRows[i].content # ""
    BY <1>1 DEF SelectorsFit
  <2>2. \A i \in Records(bimiRows, d) :
           bimiRows[i].content # "" <=> bimiRows[i].detail.state \notin {"absent", "error"}
    BY <1>3 DEF Records, RecordFit
  <2>3. d \in DOMAIN bimiSelectors <=>
           \E i \in DOMAIN bimiRows :
              /\ bimiRows[i].domain = d /\ bimiRows[i].kind = "record"
              /\ bimiRows[i].detail.state \notin {"absent", "error"}
    BY <2>1, <2>2 DEF Records
  <2> QED
    BY <2>3
<1> QED
  BY <1>4, <1>5, <1>6, BlockedMatchesPage DEF RecordRulesMatchPages

-----------------------------------------------------------------------------
(* An alert is told apart by its domain and key                             *)

OneSeverity(R) ==
    \A a, b \in R : a.domain = b.domain /\ a.key = b.key => a.severity = b.severity

LEMMA OfOneSeverity ==
    ASSUME NEW R, NEW severity, \A a \in R : a.severity = severity
    PROVE  OneSeverity(R)
BY DEF OneSeverity

LEMMA BimiSeveritiesAgree ==
    \A i \in DOMAIN BimiFired : \A a, b \in BimiFired[i] :
       a.domain = b.domain /\ a.key = b.key => a.severity = b.severity
<1>1. \A rule, d, key, severity : /\ Alert(rule, d, key, severity).severity = severity
                                  /\ Alert(rule, d, key, severity).key = key
  BY DEF Alert
<1>2. \A rule, d, severity : BimiAlert(rule, d, severity).severity = severity
  BY <1>1 DEF BimiAlert
<1>3. OneSeverity(BimiRecordChanged)
  <2>1. \A a \in BimiRecordChanged : a.severity = "info"
    BY <1>2 DEF BimiRecordChanged
  <2> QED
    BY <2>1, OfOneSeverity
<1>4. OneSeverity(BimiBlockedByPolicy)
  <2> DEFINE S == {x \in BimiDomains \cap DOMAIN BimiReadiness(Lately) :
                     /\ \E s \in DomainState(x) : s.state = "published"
                     /\ FALSE \in BimiReadiness(Lately)[x].eligible}
  <2>2. BimiBlockedByPolicy = {Alert("bimi_blocked_by_policy", d, "policy", "warning") : d \in S}
    BY DEF BimiBlockedByPolicy
  <2> HIDE DEF S
  <2>1. \A a \in BimiBlockedByPolicy : a.severity = "warning"
    BY <1>1, <2>2
  <2> QED
    BY <2>1, OfOneSeverity
<1>5. OneSeverity(BimiUnexpectedSelector)
  <2>1. \A a \in BimiUnexpectedSelector : a.severity = "info"
    BY <1>2 DEF BimiUnexpectedSelector
  <2> QED
    BY <2>1, OfOneSeverity
<1>6. OneSeverity(BimiIndicatorUnreachable)
  <2>1. \A a \in BimiIndicatorUnreachable : a.severity = "warning"
    BY <1>2 DEF BimiIndicatorUnreachable
  <2> QED
    BY <2>1, OfOneSeverity
<1>7. OneSeverity(BimiIndicatorInvalid)
  <2> DEFINE S == {x \in CheckedDomains : \E s \in CurrentDetail(x, "indicator") :
                     s.hash # "" /\ \E y \in Range(s.profile) : y.severity = "error"}
  <2>2. BimiIndicatorInvalid = {BimiAlert("bimi_indicator_invalid", d, "warning") : d \in S}
    BY DEF BimiIndicatorInvalid
  <2> HIDE DEF S
  <2>1. \A a \in BimiIndicatorInvalid : a.severity = "warning"
    BY <1>2, <2>2
  <2> QED
    BY <2>1, OfOneSeverity
<1>8. OneSeverity(BimiEvidenceExpiring)
  <2>1. \A a \in BimiEvidenceExpiring : a.severity = "warning"
    BY <1>2 DEF BimiEvidenceExpiring
  <2> QED
    BY <2>1, OfOneSeverity
<1>9. OneSeverity(BimiEvidenceInvalid)
  <2>1. \A a \in BimiEvidenceInvalid : a.severity = "critical"
    BY <1>2 DEF BimiEvidenceInvalid
  <2> QED
    BY <2>1, OfOneSeverity
<1>10. OneSeverity(BimiIndicatorMismatch)
  <2>1. \A a \in BimiIndicatorMismatch : a.severity = "critical"
    BY <1>2 DEF BimiIndicatorMismatch
  <2> QED
    BY <2>1, OfOneSeverity
<1>11. OneSeverity(BimiErrorsReported)
  <2>1. \A a \in BimiErrorsReported : a.severity = IF a.key[2] = "perm" THEN "critical" ELSE "info"
    <3> SUFFICES ASSUME NEW a \in BimiErrorsReported
        PROVE a.severity = IF a.key[2] = "perm" THEN "critical" ELSE "info"
      OBVIOUS
    <3>1. PICK k \in DOMAIN NewBimiErrorTuples(Recent) :
             a = Alert("bimi_errors_reported", k.domain, <<k.element, k.class, k.type>>,
                       IF k.class = "perm" THEN "critical" ELSE "info")
      BY DEF BimiErrorsReported
    <3>2. a.severity = (IF k.class = "perm" THEN "critical" ELSE "info")
          /\ a.key = <<k.element, k.class, k.type>>
      BY <1>1, <3>1
    <3> QED
      BY <3>2
  <2> QED
    BY <2>1 DEF OneSeverity
<1>12. OneSeverity(BimiEvaluatorDivergence)
  <2>1. \A a \in BimiEvaluatorDivergence : a.severity = "warning"
    BY <1>1 DEF BimiEvaluatorDivergence
  <2> QED
    BY <2>1, OfOneSeverity
<1>13. OneSeverity(BimiVerdictRegression)
  <2>1. \A a \in BimiVerdictRegression : a.severity = "warning"
    BY <1>1 DEF BimiVerdictRegression
  <2> QED
    BY <2>1, OfOneSeverity
<1>14. \A i \in DOMAIN BimiFired : OneSeverity(BimiFired[i])
  BY <1>3, <1>4, <1>5, <1>6, <1>7, <1>8, <1>9, <1>10, <1>11, <1>12, <1>13 DEF BimiFired
<1> QED
  BY <1>14 DEF OneSeverity

-----------------------------------------------------------------------------
(* The rules X23 to X27: what is found of the documents                     *)

LEMMA FindingIn ==
    ASSUME NEW d, NEW x
    PROVE  x \in FindingsOf(d) <=>
             \/ x = Finding("mark_mismatch", "error") /\ Disagrees(d)
             \/ \E s \in CurrentDetail(d, "indicator") : x \in Range(s.findings)
             \/ \E s \in CurrentDetail(d, "evidence") : x \in Range(s.findings)
<1> DEFINE D == {y \in {d} : Disagrees(y)}
           I == CurrentDetail(d, "indicator")
           E == CurrentDetail(d, "evidence")
           F == {Range(s.findings) : s \in I \cup E}
<1>1. FindingsOf(d) = {Finding("mark_mismatch", "error") : y \in D} \cup UNION F
  BY DEF FindingsOf
<1>2. \A y : y \in D <=> y = d /\ Disagrees(d)
  OBVIOUS
<1> HIDE DEF D, I, E
<1>3. x \in UNION F <=> \E s \in I \cup E : x \in Range(s.findings)
  <2>1. ASSUME NEW s \in I \cup E, x \in Range(s.findings) PROVE x \in UNION F
    <3>1. Range(s.findings) \in F
      BY <2>1
    <3> HIDE DEF F
    <3> QED
      BY <2>1, <3>1
  <2>2. ASSUME x \in UNION F PROVE \E s \in I \cup E : x \in Range(s.findings)
    BY <2>2
  <2> QED
    BY <2>1, <2>2
<1> HIDE DEF F
<1>4. x \in {Finding("mark_mismatch", "error") : y \in D}
        <=> x = Finding("mark_mismatch", "error") /\ Disagrees(d)
  BY <1>2
<1> QED
  BY <1>1, <1>3, <1>4 DEF I, E

LEMMA DetailIs ==
    ASSUME RowsFit(bimiRows), NEW d
    PROVE  /\ \A s \in CurrentDetail(d, "indicator") : LogoFit(s)
           /\ \A s \in CurrentDetail(d, "evidence") : EvidenceFit(s)
           /\ \A kind : \A s, t \in CurrentDetail(d, kind) : s = t
<1>1. /\ DOMAIN bimiRows \in SUBSET Int /\ \A i \in DOMAIN bimiRows : bimiRows[i].last \in Int
      /\ \A i \in DOMAIN bimiRows : RowFit(bimiRows[i])
  BY RowsAreList
<1>2. \A kind : \A s \in CurrentDetail(d, kind) :
         \E i \in CurrentRow(bimiRows, d, kind) : s = bimiRows[i].detail
  BY DEF CurrentDetail
<1>3. \A kind : \A i \in CurrentRow(bimiRows, d, kind) :
         i \in DOMAIN bimiRows /\ bimiRows[i].kind = kind
  BY CurrentIs
<1>4. \A s \in CurrentDetail(d, "indicator") : LogoFit(s)
  BY <1>1, <1>2, <1>3 DEF RowFit
<1>5. \A s \in CurrentDetail(d, "evidence") : EvidenceFit(s)
  BY <1>1, <1>2, <1>3 DEF RowFit
<1>6. \A kind : \A s, t \in CurrentDetail(d, kind) : s = t
  BY <1>1, <1>2, CurrentUnique
<1> QED
  BY <1>4, <1>5, <1>6

AlertsOf(R, rule, S, severity) == R = {BimiAlert(rule, d, severity) : d \in S}

LEMMA DomainsOfAlerts ==
    ASSUME NEW R, NEW rule, NEW S, NEW severity, AlertsOf(R, rule, S, severity)
    PROVE  {a.domain : a \in R} = S
<1>1. \A d : BimiAlert(rule, d, severity).domain = d
  BY DEF BimiAlert, Alert
<1> QED
  BY <1>1 DEF AlertsOf

LEMMA DocumentRuleDomains ==
    /\ {a.domain : a \in BimiIndicatorUnreachable} = Found("indicator", FetchCodes)
    /\ {a.domain : a \in BimiIndicatorInvalid}
         = {x \in CheckedDomains : \E s \in CurrentDetail(x, "indicator") :
               s.hash # "" /\ \E y \in Range(s.profile) : y.severity = "error"}
    /\ {a.domain : a \in BimiEvidenceInvalid} = Found("evidence", FatalCodes)
    /\ {a.domain : a \in BimiIndicatorMismatch} = {x \in CheckedDomains : Disagrees(x)}
    /\ {a.domain : a \in BimiEvidenceExpiring}
         = {x \in CheckedDomains : \E s \in CurrentDetail(x, "evidence") :
               /\ s.notAfter # 0
               /\ s.days >= 0 /\ s.days <= Setting(ExpiryDays, 30)}
<1>3. {a.domain : a \in BimiIndicatorUnreachable}
        = Found("indicator", FetchCodes)
  <2> DEFINE S == Found("indicator", FetchCodes)
  <2>1. AlertsOf(BimiIndicatorUnreachable, "bimi_indicator_unreachable", S, "warning")
    BY DEF AlertsOf, BimiIndicatorUnreachable
  <2> HIDE DEF S
  <2>2. {a.domain : a \in BimiIndicatorUnreachable} = S
    BY <2>1, DomainsOfAlerts, Zenon
  <2> QED
    BY <2>2, Zenon DEF S
<1>4. {a.domain : a \in BimiIndicatorInvalid}
        = {x \in CheckedDomains : \E s \in CurrentDetail(x, "indicator") :
                s.hash # "" /\ \E y \in Range(s.profile) : y.severity = "error"}
  <2> DEFINE S == {x \in CheckedDomains : \E s \in CurrentDetail(x, "indicator") :
                s.hash # "" /\ \E y \in Range(s.profile) : y.severity = "error"}
  <2>1. AlertsOf(BimiIndicatorInvalid, "bimi_indicator_invalid", S, "warning")
    BY DEF AlertsOf, BimiIndicatorInvalid
  <2> HIDE DEF S
  <2>2. {a.domain : a \in BimiIndicatorInvalid} = S
    BY <2>1, DomainsOfAlerts, Zenon
  <2> QED
    BY <2>2, Zenon DEF S
<1>5. {a.domain : a \in BimiEvidenceInvalid}
        = Found("evidence", FatalCodes)
  <2> DEFINE S == Found("evidence", FatalCodes)
  <2>1. AlertsOf(BimiEvidenceInvalid, "bimi_evidence_invalid", S, "critical")
    BY DEF AlertsOf, BimiEvidenceInvalid
  <2> HIDE DEF S
  <2>2. {a.domain : a \in BimiEvidenceInvalid} = S
    BY <2>1, DomainsOfAlerts, Zenon
  <2> QED
    BY <2>2, Zenon DEF S
<1>6. {a.domain : a \in BimiIndicatorMismatch}
        = {x \in CheckedDomains : Disagrees(x)}
  <2> DEFINE S == {x \in CheckedDomains : Disagrees(x)}
  <2>1. AlertsOf(BimiIndicatorMismatch, "bimi_indicator_mismatch", S, "critical")
    BY DEF AlertsOf, BimiIndicatorMismatch
  <2> HIDE DEF S
  <2>2. {a.domain : a \in BimiIndicatorMismatch} = S
    BY <2>1, DomainsOfAlerts, Zenon
  <2> QED
    BY <2>2, Zenon DEF S
<1>7. {a.domain : a \in BimiEvidenceExpiring}
        = {x \in CheckedDomains : \E s \in CurrentDetail(x, "evidence") :
                /\ s.notAfter # 0
                /\ s.days >= 0 /\ s.days <= Setting(ExpiryDays, 30)}
  <2> DEFINE S == {x \in CheckedDomains : \E s \in CurrentDetail(x, "evidence") :
                /\ s.notAfter # 0
                /\ s.days >= 0 /\ s.days <= Setting(ExpiryDays, 30)}
  <2>1. AlertsOf(BimiEvidenceExpiring, "bimi_evidence_expiring", S, "warning")
    BY DEF AlertsOf, BimiEvidenceExpiring
  <2> HIDE DEF S
  <2>2. {a.domain : a \in BimiEvidenceExpiring} = S
    BY <2>1, DomainsOfAlerts, Zenon
  <2> QED
    BY <2>2, Zenon DEF S
<1> QED
  BY <1>3, <1>4, <1>5, <1>6, <1>7, Zenon

LEMMA UnreachableIsBroken ==
    ASSUME RowsFit(bimiRows), NEW d \in Found("indicator", FetchCodes)
    PROVE  d \in CheckedDomains /\ ~BimiValid(d) /\ ~Disagrees(d)
<1>1. d \in CheckedDomains /\ \E s \in CurrentDetail(d, "indicator") :
         \E y \in Range(s.findings) : y.code \in FetchCodes
  BY DEF Found
<1>2. PICK s \in CurrentDetail(d, "indicator") : \E y \in Range(s.findings) : y.code \in FetchCodes
  BY <1>1
<1>3. PICK y \in Range(s.findings) : y.code \in FetchCodes
  BY <1>2
<1>4. LogoFit(s) /\ \A t \in CurrentDetail(d, "indicator") : s = t
  BY <1>2, DetailIs
<1>5. y.severity = "error" /\ s.hash = ""
  BY <1>3, <1>4 DEF LogoFit
<1>6. y \in FindingsOf(d)
  BY <1>2, <1>3, FindingIn
<1>7. ~Disagrees(d)
  BY <1>4, <1>5 DEF Disagrees, Compared
<1> QED
  BY <1>1, <1>5, <1>6, <1>7 DEF BimiValid

LEMMA FiredIsBroken ==
    ASSUME RowsFit(bimiRows), NEW d \in CheckedDomains,
           \/ \E s \in CurrentDetail(d, "indicator") :
                 s.hash # "" /\ \E y \in Range(s.profile) : y.severity = "error"
           \/ \E s \in CurrentDetail(d, "evidence") : \E y \in Range(s.findings) : y.code \in FatalCodes
           \/ Disagrees(d)
    PROVE  ~BimiValid(d)
<1>1. CASE \E s \in CurrentDetail(d, "indicator") :
              s.hash # "" /\ \E y \in Range(s.profile) : y.severity = "error"
  <2>1. PICK s \in CurrentDetail(d, "indicator") : \E y \in Range(s.profile) : y.severity = "error"
    BY <1>1
  <2>2. PICK y \in Range(s.profile) : y.severity = "error"
    BY <2>1
  <2>3. y \in Range(s.findings)
    BY <2>1, <2>2, DetailIs DEF LogoFit
  <2>4. y \in FindingsOf(d)
    BY <2>1, <2>3, FindingIn
  <2> QED
    BY <2>2, <2>4 DEF BimiValid
<1>2. CASE \E s \in CurrentDetail(d, "evidence") : \E y \in Range(s.findings) : y.code \in FatalCodes
  <2>1. PICK s \in CurrentDetail(d, "evidence") : \E y \in Range(s.findings) : y.code \in FatalCodes
    BY <1>2
  <2>2. PICK y \in Range(s.findings) : y.code \in FatalCodes
    BY <2>1
  <2>3. EvidenceFit(s)
    BY <2>1, DetailIs
  <2>4. y.severity = "error"
    BY <2>2, <2>3 DEF EvidenceFit
  <2>5. y \in FindingsOf(d)
    BY <2>1, <2>2, FindingIn
  <2> QED
    BY <2>4, <2>5 DEF BimiValid
<1>3. CASE Disagrees(d)
  <2>1. Finding("mark_mismatch", "error") \in FindingsOf(d)
    BY <1>3, FindingIn
  <2>2. Finding("mark_mismatch", "error").severity = "error"
    BY DEF Finding
  <2> QED
    BY <2>1, <2>2 DEF BimiValid
<1> QED
  BY <1>1, <1>2, <1>3

\* The codes no rule is silent on are told apart by the rule they belong to.
LEMMA RuleIs ==
    ASSUME NEW code
    PROVE  /\ code \in FetchCodes => RuleFor(code) = BimiIndicatorUnreachable
           /\ code \in FatalCodes => RuleFor(code) = BimiEvidenceInvalid
           /\ code = "mark_mismatch" => RuleFor(code) = BimiIndicatorMismatch
           /\ code \in ProfileCodes => RuleFor(code) = BimiIndicatorInvalid
           /\ code \in EvidenceCodes \cup {"evidence_expired"} =>
                 code \in SilentCodes \/ code \in FatalCodes
<1>1. /\ code \in FatalCodes => code \notin FetchCodes
      /\ code = "mark_mismatch" => code \notin FetchCodes /\ code \notin FatalCodes
      /\ code \in ProfileCodes => code \notin FetchCodes /\ code \notin FatalCodes
                                  /\ code # "mark_mismatch"
  BY DEF FatalCodes, FetchCodes, ProfileCodes
<1>2. code \in EvidenceCodes \cup {"evidence_expired"} => code \in SilentCodes \/ code \in FatalCodes
  BY DEF EvidenceCodes, SilentCodes, FatalCodes
<1>3. /\ code \in FetchCodes => RuleFor(code) = BimiIndicatorUnreachable
      /\ code \in FatalCodes => RuleFor(code) = BimiEvidenceInvalid
      /\ code = "mark_mismatch" => RuleFor(code) = BimiIndicatorMismatch
      /\ code \in ProfileCodes => RuleFor(code) = BimiIndicatorInvalid
  BY <1>1 DEF RuleFor
<1> QED
  BY <1>2, <1>3

LEMMA ErrorFires ==
    ASSUME RowsFit(bimiRows), NEW d \in CheckedDomains, NEW y \in FindingsOf(d),
           y.severity = "error", y.code \notin SilentCodes
    PROVE  d \in {a.domain : a \in RuleFor(y.code)}
<1>1. CASE y = Finding("mark_mismatch", "error") /\ Disagrees(d)
  <2>1. y.code = "mark_mismatch"
    BY <1>1 DEF Finding
  <2>2. RuleFor(y.code) = BimiIndicatorMismatch
    BY <2>1, RuleIs
  <2> QED
    BY <1>1, <2>2, DocumentRuleDomains
<1>2. CASE \E s \in CurrentDetail(d, "indicator") : y \in Range(s.findings)
  <2>1. PICK s \in CurrentDetail(d, "indicator") : y \in Range(s.findings)
    BY <1>2
  <2>2. LogoFit(s)
    BY <2>1, DetailIs
  <2>3. \/ y.code \in FetchCodes \/ y.code = "indicator_format"
        \/ y.code \in ProfileCodes /\ y \in Range(s.profile) /\ s.hash # ""
    BY <2>1, <2>2 DEF LogoFit
  <2>4. y.code # "indicator_format"
    BY DEF SilentCodes
  <2>5. CASE y.code \in FetchCodes
    <3>1. RuleFor(y.code) = BimiIndicatorUnreachable
      BY <2>5, RuleIs
    <3>2. d \in Found("indicator", FetchCodes)
      BY <2>1, <2>5 DEF Found
    <3> QED
      BY <3>1, <3>2, DocumentRuleDomains
  <2>6. CASE y.code \in ProfileCodes /\ y \in Range(s.profile) /\ s.hash # ""
    <3>1. RuleFor(y.code) = BimiIndicatorInvalid
      BY <2>6, RuleIs
    <3>2. d \in {x \in CheckedDomains : \E t \in CurrentDetail(x, "indicator") :
                    t.hash # "" /\ \E z \in Range(t.profile) : z.severity = "error"}
      BY <2>1, <2>6
    <3> QED
      BY <3>1, <3>2, DocumentRuleDomains, Zenon
  <2> QED
    BY <2>3, <2>4, <2>5, <2>6
<1>3. CASE \E s \in CurrentDetail(d, "evidence") : y \in Range(s.findings)
  <2>1. PICK s \in CurrentDetail(d, "evidence") : y \in Range(s.findings)
    BY <1>3
  <2>2. EvidenceFit(s)
    BY <2>1, DetailIs
  <2>3. y.code \in EvidenceCodes \cup {"evidence_expired"}
    BY <2>1, <2>2 DEF EvidenceFit
  <2>4. y.code \in FatalCodes
    BY <2>3, RuleIs
  <2>5. RuleFor(y.code) = BimiEvidenceInvalid
    BY <2>4, RuleIs
  <2>6. d \in Found("evidence", FatalCodes)
    BY <2>1, <2>4 DEF Found
  <2> QED
    BY <2>5, <2>6, DocumentRuleDomains
<1> QED
  BY <1>1, <1>2, <1>3, FindingIn

LEMMA ExpiringAgrees ==
    ASSUME RowsFit(bimiRows), NEW d, NEW s \in CurrentDetail(d, "evidence"),
           NEW t \in CurrentDetail(d, "evidence"), t.notAfter # 0, t.days >= 0
    PROVE  /\ s.fingerprint # ""
           /\ "evidence_expired" \in {x.code : x \in FindingsOf(d)} => s.days = 0
<1>1. s = t /\ EvidenceFit(s)
  BY DetailIs
<1>2. s.fingerprint # "" /\ s.days \in Int /\ s.days >= 0
  BY <1>1 DEF EvidenceFit
<1>3. ASSUME NEW x \in FindingsOf(d), x.code = "evidence_expired" PROVE s.days <= 0
  <2>1. x # Finding("mark_mismatch", "error")
    BY <1>3 DEF Finding
  <2>2. \A u \in CurrentDetail(d, "indicator") : x \notin Range(u.findings)
    BY <1>3, DetailIs DEF LogoFit
  <2>3. PICK u \in CurrentDetail(d, "evidence") : x \in Range(u.findings)
    BY <2>1, <2>2, FindingIn
  <2>4. u = s
    BY <2>3, DetailIs
  <2> QED
    BY <1>1, <1>3, <2>3, <2>4 DEF EvidenceFit
<1>4. ASSUME "evidence_expired" \in {x.code : x \in FindingsOf(d)} PROVE s.days = 0
  <2>1. PICK x \in FindingsOf(d) : x.code = "evidence_expired"
    BY <1>4
  <2>2. s.days <= 0
    BY <1>3, <2>1
  <2>3. s.days \in Int /\ s.days >= 0
    BY <1>2
  <2> DEFINE n == s.days
  <2>4. n \in Int /\ n >= 0 /\ n <= 0
    BY <2>2, <2>3
  <2> HIDE DEF n
  <2>5. n = 0
    BY <2>4
  <2> QED
    BY <2>5 DEF n
<1> QED
  BY <1>2, <1>4

LEMMA DocumentRulesAgree ==
    ASSUME LookupInv
    PROVE  DocumentRulesMatchPages
<1> DEFINE rules == {BimiIndicatorUnreachable, BimiIndicatorInvalid, BimiEvidenceInvalid,
                     BimiIndicatorMismatch}
           families == {{a.domain : a \in rule} : rule \in rules}
           broken == {d \in CheckedDomains : ~BimiValid(d)}
<1>1. RowsFit(bimiRows)
  BY DEF LookupInv
<1>2. ASSUME NEW d \in UNION families PROVE d \in broken
  <2>1. \/ d \in {a.domain : a \in BimiIndicatorUnreachable}
        \/ d \in {a.domain : a \in BimiIndicatorInvalid}
        \/ d \in {a.domain : a \in BimiEvidenceInvalid}
        \/ d \in {a.domain : a \in BimiIndicatorMismatch}
    BY <1>2
  <2>2. CASE d \in Found("indicator", FetchCodes)
    BY <1>1, <2>2, UnreachableIsBroken
  <2>3. CASE d \in {x \in CheckedDomains : \E s \in CurrentDetail(x, "indicator") :
                       s.hash # "" /\ \E y \in Range(s.profile) : y.severity = "error"}
    BY <1>1, <2>3, FiredIsBroken
  <2>4. CASE d \in Found("evidence", FatalCodes)
    <3>1. d \in CheckedDomains /\ \E s \in CurrentDetail(d, "evidence") :
             \E y \in Range(s.findings) : y.code \in FatalCodes
      BY <2>4 DEF Found
    <3> QED
      BY <1>1, <3>1, FiredIsBroken
  <2>5. CASE d \in {x \in CheckedDomains : Disagrees(x)}
    BY <1>1, <2>5, FiredIsBroken
  <2> QED
    BY <2>1, <2>2, <2>3, <2>4, <2>5, DocumentRuleDomains
<1>3. ASSUME NEW d \in broken,
             NEW code \in {x.code : x \in {y \in FindingsOf(d) : y.severity = "error"}} \ SilentCodes
      PROVE  d \in {a.domain : a \in RuleFor(code)}
  <2>1. PICK y \in FindingsOf(d) : y.severity = "error" /\ code = y.code
    BY <1>3
  <2>2. d \in CheckedDomains /\ y.code \notin SilentCodes
    BY <1>3, <2>1
  <2> QED
    BY <1>1, <2>1, <2>2, ErrorFires
<1>4. {a.domain : a \in BimiIndicatorUnreachable} \cap {a.domain : a \in BimiIndicatorMismatch} = {}
  BY <1>1, UnreachableIsBroken, DocumentRuleDomains
<1>5. ASSUME NEW d \in {a.domain : a \in BimiEvidenceExpiring}, NEW s \in CurrentDetail(d, "evidence")
      PROVE  /\ s.fingerprint # ""
             /\ "evidence_expired" \in {x.code : x \in FindingsOf(d)} => s.days = 0
  <2>1. d \in {x \in CheckedDomains : \E t \in CurrentDetail(x, "evidence") :
                  t.notAfter # 0 /\ t.days >= 0 /\ t.days <= Setting(ExpiryDays, 30)}
    BY <1>5, DocumentRuleDomains, Zenon
  <2>2. PICK t \in CurrentDetail(d, "evidence") : t.notAfter # 0 /\ t.days >= 0
    BY <2>1
  <2> QED
    BY <1>1, <2>2, ExpiringAgrees
<1> HIDE DEF rules
<1>6. UNION families \subseteq broken
  BY <1>2
<1> QED
  BY <1>3, <1>4, <1>5, <1>6 DEF DocumentRulesMatchPages, rules

-----------------------------------------------------------------------------
(* X28: the error tuples that are new lately                                *)

Begun(s, x, y) == (x > 0 => s.rep.begin >= x) /\ (y > 0 => s.rep.begin <= y)

\* The errors of the reports of some days.
LEMMA ErrorsOfDays ==
    ASSUME StatsInv, NEW x \in Int, NEW y \in Int
    PROVE  BimiErrorsIn(DomainWindow(AnyValue, x, y))
             = {e \in BimiErrorsIn(Unbounded) : Begun(e.asn, x, y)}
<1> DEFINE f == DomainWindow(AnyValue, x, y)
           A == AssertionsIn(Unbounded)
           B == {s \in A : Begun(s, x, y)}
<1>1. /\ f.from = x /\ f.to = y /\ f.domain = AnyValue
      /\ Unbounded.from = 0 /\ Unbounded.to = 0 /\ Unbounded.domain = AnyValue
  BY DomainFields DEF Unbounded
<1>2. A \in SUBSET AllAssertions
  BY BimiReads
<1> HIDE DEF f
<1>3. BimiReportsIn(Unbounded) = stored
  BY <1>1 DEF BimiReportsIn, InWindow
<1>4. BimiReportsIn(f) = {r \in stored : (x > 0 => r.begin >= x) /\ (y > 0 => r.begin <= y)}
  BY <1>1 DEF BimiReportsIn, InWindow
<1>5. ASSUME NEW r \in stored, NEW s \in AssertionsOf(r) PROVE s.rep.begin = r.begin
  <2>1. r \in Pool
    BY DEF StatsInv
  <2>2. s.rep = ReportRow(r)
    BY <2>1, AssertionIn
  <2> QED
    BY <2>2 DEF ReportRow
<1>6. AssertionsIn(f) = B
  <2>1. ASSUME NEW s \in AssertionsIn(f) PROVE s \in B
    <3>1. PICK r \in BimiReportsIn(f) : s \in AssertionsOf(r)
      BY BimiReads
    <3>2. r \in stored /\ (x > 0 => r.begin >= x) /\ (y > 0 => r.begin <= y)
      BY <1>4
    <3>3. s \in A
      BY <1>3, <3>1, <3>2, BimiReads
    <3>4. s.rep.begin = r.begin
      BY <1>5, <3>1, <3>2
    <3> QED
      BY <3>2, <3>3, <3>4 DEF Begun
  <2>2. ASSUME NEW s \in B PROVE s \in AssertionsIn(f)
    <3>1. PICK r \in BimiReportsIn(Unbounded) : s \in AssertionsOf(r)
      BY BimiReads
    <3>2. r \in stored /\ s.rep.begin = r.begin
      BY <1>3, <1>5, <3>1
    <3>3. r \in BimiReportsIn(f)
      BY <1>4, <3>2 DEF Begun
    <3> QED
      BY <3>1, <3>3, BimiReads
  <2> QED
    BY <2>1, <2>2
<1>7. ErrorsOf(B) = {e \in ErrorsOf(A) : e.asn \in B}
  BY <1>2, ErrorsOfSome
<1>8. \A e \in ErrorsOf(A) : e.asn \in A
  BY <1>2, ErrorIn
<1> QED
  BY <1>6, <1>7, <1>8 DEF BimiErrorsIn, f

\* What the rule and the page name of an error.
TupleTold(e) == <<e.asn.aligned, <<e.element, e.class, e.type>>>>
NewKey(e) == [domain |-> e.asn.aligned, element |-> e.element, class |-> e.class, type |-> e.type]
TellKey(k) == <<k.domain, <<k.element, k.class, k.type>>>>

LEMMA KeysTell ==
    /\ \A e : TellKey(NewKey(e)) = TupleTold(e) /\ TellKey(ErrorKey(e)) = TupleTold(e)
    /\ \A e, u : NewKey(e) = NewKey(u) <=> TupleTold(e) = TupleTold(u)
BY DEF TellKey, NewKey, TupleTold, ErrorKey

\* The tuples of the error table of a filter.
LEMMA TuplesAre ==
    ASSUME NEW f
    PROVE  {TellKey(k) : k \in DOMAIN BimiErrors(f)} = {TupleTold(e) : e \in BimiErrorsIn(f)}
<1>1. DOMAIN BimiErrors(f) = {ErrorKey(e) : e \in BimiErrorsIn(f)}
  BY ErrorStatsAre DEF BimiErrors
<1> QED
  BY <1>1, KeysTell

\* First seen since then: every report that names the tuple began since then.
LEMMA NewTuplesAre ==
    ASSUME StatsInv, NEW since \in Int
    PROVE  DOMAIN NewBimiErrorTuples(since)
             = {NewKey(e) : e \in {x \in BimiErrorsIn(Unbounded) :
                   \A u \in BimiErrorsIn(Unbounded) : TupleTold(u) = TupleTold(x) => u.asn.rep.begin >= since}}
<1> DEFINE E == BimiErrorsIn(Unbounded)
           of(k) == {e \in E : NewKey(e) = k}
           begins(k) == {e.asn.rep.begin : e \in of(k)}
<1>1. DOMAIN NewBimiErrorTuples(since)
        = {k \in {NewKey(e) : e \in E} : Least(begins(k)) >= since}
  BY DEF NewBimiErrorTuples, NewKey
<1>2. E \in SUBSET AllErrors
  BY BimiReads
<1> HIDE DEF E
<1>3. ASSUME NEW e \in E PROVE e.asn.rep.begin \in Int
  <2>1. e.asn \in AllAssertions
    BY <1>2, ErrorsFinite
  <2>2. PICK r \in Pool : e.asn \in AssertionsOf(r)
    BY <2>1, AssertionsFinite
  <2>3. e.asn.rep = ReportRow(r)
    BY <2>2, AssertionIn
  <2>4. r.begin \in Int
    BY RowsAssumption
  <2> QED
    BY <2>3, <2>4 DEF ReportRow
<1>4. ASSUME NEW k \in {NewKey(e) : e \in E}
      PROVE  Least(begins(k)) >= since <=> \A u \in of(k) : u.asn.rep.begin >= since
  <2> DEFINE h == [u \in of(k) |-> u.asn.rep.begin]
  <2>1. IsFiniteSet(of(k))
    BY <1>2, ErrorsFinite, FS_Subset
  <2>2. begins(k) = Image(h, of(k))
    BY DEF Image
  <2>3. IsFiniteSet(begins(k))
    <3> HIDE DEF h
    <3> QED
      BY <2>1, <2>2, ImageFinite
  <2>4. begins(k) \in SUBSET Int /\ begins(k) # {}
    BY <1>3
  <2>5. Least(begins(k)) \in begins(k) /\ \A y \in begins(k) : Least(begins(k)) <= y
    <3> HIDE DEF begins
    <3> QED
      BY <2>3, <2>4, LeastGreatest
  <2> DEFINE m == Least(begins(k))
  <2>6. m \in Int /\ m \in begins(k) /\ \A y \in begins(k) : m <= y
    BY <2>4, <2>5
  <2> HIDE DEF m
  <2>7. m >= since <=> \A y \in begins(k) : y >= since
    <3> HIDE DEF begins
    <3>1. ASSUME m >= since, NEW y \in begins(k) PROVE y >= since
      <4>1. y \in Int /\ m <= y
        BY <2>4, <2>6
      <4> QED
        BY <2>6, <3>1, <4>1
    <3> QED
      BY <2>6, <3>1
  <2> QED
    BY <2>7 DEF m
<1>5. \A e \in E : of(NewKey(e)) = {u \in E : TupleTold(u) = TupleTold(e)}
  BY KeysTell
<1> DEFINE N == {x \in E : \A u \in E : TupleTold(u) = TupleTold(x) => u.asn.rep.begin >= since}
<1>6. ASSUME NEW e \in E
      PROVE  Least(begins(NewKey(e))) >= since <=> e \in N
  <2> DEFINE k == NewKey(e)
  <2>1. k \in {NewKey(u) : u \in E} /\ of(k) = {u \in E : TupleTold(u) = TupleTold(e)}
    BY <1>5
  <2> HIDE DEF k, of
  <2>2. Least(begins(k)) >= since <=> \A u \in of(k) : u.asn.rep.begin >= since
    <3> HIDE DEF begins
    <3> QED
      BY <1>4, <2>1
  <2>3. (\A u \in of(k) : u.asn.rep.begin >= since) <=> e \in N
    BY <2>1
  <2> HIDE DEF begins, N
  <2> QED
    BY <2>2, <2>3 DEF k
<1> HIDE DEF begins, N
<1>7. DOMAIN NewBimiErrorTuples(since) = {NewKey(e) : e \in N}
  <2>1. N \subseteq E
    BY DEF N
  <2> QED
    BY <1>1, <1>6, <2>1
<1> QED
  BY <1>7 DEF N, E

LEMMA NewErrorsAgree ==
    ASSUME RulesInv
    PROVE  Pairs(BimiErrorsReported)
             = {TellKey(k) : k \in DOMAIN BimiErrors(Lately)}
                 \ {TellKey(k) : k \in DOMAIN BimiErrors([Unbounded EXCEPT !.to = Recent - 1])}
<1> DEFINE E == BimiErrorsIn(Unbounded)
           N == {x \in E : \A u \in E : TupleTold(u) = TupleTold(x) => u.asn.rep.begin >= Recent}
<1>1. Recent \in Int /\ Recent > 1 /\ StatsInv
  BY RuleDays DEF RulesInv
<1>2. Lately = DomainWindow(AnyValue, Recent, 0)
  BY <1>1, SinceWindow, Zenon DEF Lately
<1>3. [Unbounded EXCEPT !.to = Recent - 1] = DomainWindow(AnyValue, 0, Recent - 1)
  BY DEF Unbounded, DomainWindow
<1>4. BimiErrorsIn(Lately) = {e \in E : e.asn.rep.begin >= Recent}
  <2>1. BimiErrorsIn(DomainWindow(AnyValue, Recent, 0)) = {e \in E : Begun(e.asn, Recent, 0)}
    BY <1>1, ErrorsOfDays
  <2>2. \A e : Begun(e.asn, Recent, 0) <=> e.asn.rep.begin >= Recent
    BY <1>1 DEF Begun
  <2> QED
    BY <1>2, <2>1, <2>2
<1>5. BimiErrorsIn([Unbounded EXCEPT !.to = Recent - 1]) = {e \in E : e.asn.rep.begin <= Recent - 1}
  <2>1. BimiErrorsIn(DomainWindow(AnyValue, 0, Recent - 1)) = {e \in E : Begun(e.asn, 0, Recent - 1)}
    BY <1>1, ErrorsOfDays
  <2>2. \A e : Begun(e.asn, 0, Recent - 1) <=> e.asn.rep.begin <= Recent - 1
    BY <1>1 DEF Begun
  <2> QED
    BY <1>3, <2>1, <2>2
<1>6. Pairs(BimiErrorsReported) = {TupleTold(e) : e \in N}
  <2> DEFINE D == DOMAIN NewBimiErrorTuples(Recent)
             severity(k) == IF k.class = "perm" THEN "critical" ELSE "info"
  <2>1. BimiErrorsReported
          = {Alert("bimi_errors_reported", k.domain, <<k.element, k.class, k.type>>, severity(k)) : k \in D}
    BY DEF BimiErrorsReported
  <2> HIDE DEF D, severity
  <2>2. Pairs(BimiErrorsReported) = {TellKey(k) : k \in D}
    <3>1. \A k : LET a == Alert("bimi_errors_reported", k.domain, <<k.element, k.class, k.type>>, severity(k))
                 IN  <<a.domain, a.key>> = TellKey(k)
      BY DEF Alert, TellKey
    <3> QED
      BY <2>1, <3>1 DEF Pairs
  <2>3. D = {NewKey(e) : e \in N}
    BY <1>1, NewTuplesAre DEF D
  <2> HIDE DEF N
  <2> QED
    BY <2>2, <2>3, KeysTell
<1>7. \A e \in E : e.asn.rep.begin \in Int
  <2>1. E \in SUBSET AllErrors
    BY <1>1, BimiReads
  <2> HIDE DEF E
  <2> SUFFICES ASSUME NEW e \in E PROVE e.asn.rep.begin \in Int
    OBVIOUS
  <2>2. PICK r \in Pool : e.asn \in AssertionsOf(r)
    BY <2>1, ErrorsFinite, AssertionsFinite
  <2>3. e.asn.rep = ReportRow(r) /\ r.begin \in Int
    BY <2>2, AssertionIn, RowsAssumption
  <2> QED
    BY <2>3 DEF ReportRow
<1> DEFINE late == {e \in E : e.asn.rep.begin >= Recent}
           early == {e \in E : e.asn.rep.begin <= Recent - 1}
<1>8. {TellKey(k) : k \in DOMAIN BimiErrors(Lately)} = {TupleTold(e) : e \in late}
  BY <1>4, TuplesAre
<1>9. {TellKey(k) : k \in DOMAIN BimiErrors([Unbounded EXCEPT !.to = Recent - 1])}
        = {TupleTold(e) : e \in early}
  BY <1>5, TuplesAre
<1> HIDE DEF E
<1>10. {TupleTold(e) : e \in N} = {TupleTold(e) : e \in late} \ {TupleTold(e) : e \in early}
  <2>1. E = late \cup early /\ late \cap early = {} /\ late \subseteq E /\ early \subseteq E
    BY <1>1, <1>7
  <2>2. N = {x \in E : \A u \in E : TupleTold(u) = TupleTold(x) => u \in late}
    BY DEF E
  <2> HIDE DEF late, early, N
  <2> QED
    BY <2>1, <2>2
<1> QED
  BY <1>6, <1>8, <1>9, <1>10

-----------------------------------------------------------------------------
(* X29: evaluators that disagree on one configuration                       *)

\* The kinds of errors an evaluator told of a configuration.
SaidBy(f, c, o) == {<<e.element, e.class, e.type>> : e \in ErrorsBy(f, c, o)}

Compares(d, f, c) ==
    LET orgs == OrgsOf(f, c)
    IN  /\ d.errors = [o \in orgs |-> SaidBy(f, c, o)]
        /\ d.clean = {o \in orgs : SaidBy(f, c, o) = {}}
        /\ d.failing = {o \in orgs : SaidBy(f, c, o) # {}}
        /\ d.disagree = (Cardinality({SaidBy(f, c, o) : o \in orgs}) > 1)

LEMMA DivergenceSays ==
    ASSUME NEW f
    PROVE  \A c \in ConfigsIn(f) : Compares(BimiDivergence(f)[c], f, c)
BY DEF BimiDivergence, ConfigsIn, OrgsOf, ErrorsBy, SaidBy, Compares

LEMMA SeveralDiffer ==
    ASSUME NEW S, IsFiniteSet(S)
    PROVE  Cardinality(S) > 1 <=> \E a, b \in S : a # b
<1>1. Cardinality(S) \in Nat
  BY FS_CardinalityType
<1>2. ASSUME Cardinality(S) > 1 PROVE \E a, b \in S : a # b
  <2>1. Cardinality(S) # 0 /\ Cardinality(S) # 1
    BY <1>1, <1>2
  <2>2. PICK a \in S : TRUE
    BY <2>1, FS_EmptySet
  <2>3. S # {a}
    BY <2>1, FS_Singleton
  <2> QED
    BY <2>2, <2>3
<1>3. ASSUME NEW a \in S, NEW b \in S, a # b PROVE Cardinality(S) > 1
  <2>1. S # {} /\ \A x : S # {x}
    BY <1>3
  <2>2. Cardinality(S) # 0 /\ Cardinality(S) # 1
    BY <2>1, FS_EmptySet, FS_Singleton
  <2> QED
    BY <1>1, <2>2
<1> QED
  BY <1>2, <1>3

LEMMA OrgsFinite ==
    ASSUME StatsInv, NEW f, NEW c
    PROVE  IsFiniteSet(OrgsOf(f, c))
<1> DEFINE B == {x \in AssertionsIn(f) : Config(x) = c}
           h == [s \in B |-> s.rep.org]
<1>1. IsFiniteSet(B)
  BY BimiReads, FS_Subset
<1>2. OrgsOf(f, c) = Image(h, B)
  BY DEF OrgsOf, Image
<1> HIDE DEF h, B
<1> QED
  BY <1>1, <1>2, ImageFinite

Splits(d) == \E o, u \in DOMAIN d.errors : d.errors[o] # d.errors[u]

LEMMA DisagreeIsSplit ==
    ASSUME StatsInv, NEW f, NEW c \in ConfigsIn(f)
    PROVE  /\ BimiDivergence(f)[c].disagree <=> Splits(BimiDivergence(f)[c])
           /\ BimiDivergence(f)[c].clean # {} /\ BimiDivergence(f)[c].failing # {}
                => Splits(BimiDivergence(f)[c])
<1> DEFINE O == OrgsOf(f, c)
           said == [o \in O |-> SaidBy(f, c, o)]
           d == BimiDivergence(f)[c]
<1>1. /\ d.errors = said
      /\ d.clean = {o \in O : SaidBy(f, c, o) = {}}
      /\ d.failing = {o \in O : SaidBy(f, c, o) # {}}
      /\ d.disagree = (Cardinality({SaidBy(f, c, o) : o \in O}) > 1)
  <2>1. Compares(d, f, c)
    BY DivergenceSays
  <2> HIDE DEF d
  <2> QED
    BY <2>1 DEF Compares
<1>2. {SaidBy(f, c, o) : o \in O} = Image(said, O)
  BY DEF Image
<1>3. DOMAIN said = O /\ \A o \in O : said[o] = SaidBy(f, c, o)
  OBVIOUS
<1>4. IsFiniteSet(O)
  BY OrgsFinite
<1> HIDE DEF O, said, d
<1>5. IsFiniteSet(Image(said, O))
  BY <1>4, ImageFinite
<1>6. Cardinality(Image(said, O)) > 1 <=> \E o, u \in O : said[o] # said[u]
  <2>1. Cardinality(Image(said, O)) > 1 <=> \E a, b \in Image(said, O) : a # b
    BY <1>5, SeveralDiffer
  <2>2. (\E a, b \in Image(said, O) : a # b) <=> \E o, u \in O : said[o] # said[u]
    BY DEF Image
  <2> QED
    BY <2>1, <2>2
<1>7. Splits(d) <=> \E o, u \in O : said[o] # said[u]
  BY <1>1, <1>3 DEF Splits
<1>8. d.disagree <=> Splits(d)
  BY <1>1, <1>2, <1>6, <1>7
<1>9. d.clean # {} /\ d.failing # {} => Splits(d)
  BY <1>1, <1>3, <1>7
<1> QED
  BY <1>8, <1>9 DEF d

LEMMA DivergenceAgrees ==
    ASSUME RulesInv
    PROVE  LET divergence == BimiDivergence(Lately)
               split == {c \in DOMAIN divergence : \E o, u \in DOMAIN divergence[c].errors :
                            divergence[c].errors[o] # divergence[c].errors[u]}
           IN  /\ Pairs(BimiEvaluatorDivergence) = {<<c.domain, c.selector>> : c \in split}
               /\ {c \in DOMAIN divergence : divergence[c].clean # {} /\ divergence[c].failing # {}}
                    \subseteq split
<1> DEFINE divergence == BimiDivergence(Lately)
           C == DOMAIN divergence
           split == {c \in C : Splits(divergence[c])}
           disagreeing == {c \in C : divergence[c].disagree}
<1>1. StatsInv /\ C = ConfigsIn(Lately)
  BY DivergenceIs DEF RulesInv
<1>2. ASSUME NEW c \in C
      PROVE  /\ divergence[c].disagree <=> Splits(divergence[c])
             /\ divergence[c].clean # {} /\ divergence[c].failing # {} => Splits(divergence[c])
  BY <1>1, DisagreeIsSplit
<1>3. Pairs(BimiEvaluatorDivergence) = {<<c.domain, c.selector>> : c \in disagreeing}
  <2>1. BimiEvaluatorDivergence
          = {Alert("bimi_evaluator_divergence", c.domain, c.selector, "warning") : c \in disagreeing}
    BY DEF BimiEvaluatorDivergence
  <2> HIDE DEF disagreeing
  <2>2. \A c : LET a == Alert("bimi_evaluator_divergence", c.domain, c.selector, "warning")
               IN  <<a.domain, a.key>> = <<c.domain, c.selector>>
    BY DEF Alert
  <2> QED
    BY <2>1, <2>2 DEF Pairs
<1>4. disagreeing = split
  BY <1>2
<1>5. {c \in C : divergence[c].clean # {} /\ divergence[c].failing # {}} \subseteq split
  BY <1>2
<1> QED
  BY <1>3, <1>4, <1>5 DEF Splits

-----------------------------------------------------------------------------
(* X30: verdicts that turned                                                *)

PassesOf(k) == {verdicts[i].at : i \in {n \in VerdictsOf(k) : verdicts[n].result = "pass"}}
TimesOf(k) == {verdicts[i].at : i \in VerdictsOf(k)}
FailedOf(k) == {i \in VerdictsOf(k) : verdicts[i].result # "pass"}
LastVerdicts(k) == {i \in VerdictsOf(k) : \A n \in VerdictsOf(k) :
                 \/ verdicts[n].at < verdicts[i].at
                 \/ verdicts[n].at = verdicts[i].at /\ n <= i}

TurnedRow(k, i) ==
    [key |-> k, at |-> verdicts[i].at, result |-> verdicts[i].result,
     lastPass |-> Greatest(PassesOf(k)),
     failures |-> Cardinality({n \in FailedOf(k) : verdicts[n].at > Greatest(PassesOf(k))})]

\* A failed verdict i of the key k that the rule tells.
Turning(k, i, since) ==
    /\ k \in VerdictKeys /\ PassesOf(k) # {} /\ i \in FailedOf(k)
    /\ verdicts[i].at = Greatest(TimesOf(k)) /\ Greatest(TimesOf(k)) >= since

LEMMA RegressionsAre ==
    ASSUME NEW since, NEW r
    PROVE  r \in VerdictRegressions(since)
             <=> \E k \in VerdictKeys : \E i \in FailedOf(k) : Turning(k, i, since) /\ r = TurnedRow(k, i)
<1> DEFINE newest(k) == {n \in FailedOf(k) : /\ verdicts[n].at = Greatest(TimesOf(k))
                                            /\ Greatest(TimesOf(k)) >= since}
           keys == {x \in VerdictKeys : PassesOf(x) # {}}
<1>1. VerdictRegressions(since) = UNION {{TurnedRow(k, i) : i \in newest(k)} : k \in keys}
  BY DEF VerdictRegressions, TurnedRow, PassesOf, TimesOf, FailedOf
<1>2. \A k \in VerdictKeys : \A i \in FailedOf(k) :
         Turning(k, i, since) <=> k \in keys /\ i \in newest(k)
  BY DEF Turning
<1>3. keys \subseteq VerdictKeys /\ \A k : newest(k) \subseteq FailedOf(k)
  OBVIOUS
<1> HIDE DEF newest, keys
<1>4. r \in VerdictRegressions(since) <=> \E k \in keys : \E i \in newest(k) : r = TurnedRow(k, i)
  BY <1>1
<1> QED
  BY <1>2, <1>3, <1>4

SummaryIs(page, k) ==
    /\ page[k].passed = Cardinality({i \in VerdictsOf(k) : verdicts[i].result = "pass"})
    /\ page[k].last = Greatest(TimesOf(k))
    /\ page[k].lastResult = verdicts[Max(LastVerdicts(k))].result

LEMMA SummaryReads ==
    /\ DOMAIN VerdictSummary(0) = VerdictKeys
    /\ \A k \in VerdictKeys : SummaryIs(VerdictSummary(0), k)
<1>1. \A k : {i \in VerdictsOf(k) : 0 = 0 \/ verdicts[i].at >= 0} = VerdictsOf(k)
  OBVIOUS
<1>2. \A k \in VerdictKeys : VerdictsOf(k) # {}
  BY DEF VerdictKeys, VerdictsOf, Range
<1>3. DOMAIN VerdictSummary(0)
        = {x \in VerdictKeys : {i \in VerdictsOf(x) : 0 = 0 \/ verdicts[i].at >= 0} # {}}
  BY DEF VerdictSummary
<1>4. DOMAIN VerdictSummary(0) = VerdictKeys
  BY <1>1, <1>2, <1>3
<1>5. ASSUME NEW k \in DOMAIN VerdictSummary(0)
      PROVE  LET own == {i \in VerdictsOf(k) : 0 = 0 \/ verdicts[i].at >= 0}
             IN  /\ VerdictSummary(0)[k].passed = Cardinality({i \in own : verdicts[i].result = "pass"})
                 /\ VerdictSummary(0)[k].last = Greatest({verdicts[i].at : i \in own})
                 /\ VerdictSummary(0)[k].lastResult = verdicts[Max(LastVerdicts(k))].result
  BY DEF VerdictSummary, LastVerdicts
<1>6. ASSUME NEW k \in VerdictKeys PROVE SummaryIs(VerdictSummary(0), k)
  BY <1>1, <1>4, <1>5 DEF SummaryIs, TimesOf
<1> QED
  BY <1>4, <1>6

LEMMA VerdictTimes ==
    ASSUME SoundRows(verdicts), NEW k
    PROVE  /\ IsFiniteSet(VerdictsOf(k)) /\ VerdictsOf(k) \in SUBSET Int
           /\ \A i \in VerdictsOf(k) : verdicts[i].at \in Int
           /\ TimesOf(k) \in SUBSET Int /\ IsFiniteSet(TimesOf(k))
           /\ PassesOf(k) \in SUBSET TimesOf(k)
<1>1. Len(verdicts) \in Nat /\ DOMAIN verdicts = 1 .. Len(verdicts)
  BY LenProperties DEF SoundRows
<1>2. IsFiniteSet(DOMAIN verdicts) /\ DOMAIN verdicts \in SUBSET Int
  <2> DEFINE n == Len(verdicts)
  <2>1. n \in Int /\ 1 \in Int
    BY <1>1
  <2> HIDE DEF n
  <2>2. IsFiniteSet(1 .. n)
    BY <2>1, FS_Interval, Zenon
  <2>3. DOMAIN verdicts = 1 .. n
    BY <1>1 DEF n
  <2> QED
    BY <2>1, <2>2, <2>3
<1>3. VerdictsOf(k) \in SUBSET DOMAIN verdicts
  BY DEF VerdictsOf
<1>4. \A i \in VerdictsOf(k) : verdicts[i].at \in Int
  BY <1>3 DEF SoundRows, SoundVerdict
<1>5. IsFiniteSet(VerdictsOf(k)) /\ VerdictsOf(k) \in SUBSET Int
  BY <1>2, <1>3, FS_Subset
<1>6. IsFiniteSet(TimesOf(k))
  <2> DEFINE h == [i \in VerdictsOf(k) |-> verdicts[i].at]
  <2>1. TimesOf(k) = Image(h, VerdictsOf(k))
    BY DEF TimesOf, Image
  <2> HIDE DEF h
  <2> QED
    BY <1>5, <2>1, ImageFinite
<1>7. PassesOf(k) \in SUBSET TimesOf(k)
  BY DEF PassesOf, TimesOf
<1> QED
  BY <1>4, <1>5, <1>6, <1>7 DEF TimesOf

\* Of the verdicts of a key, one is the last of the newest.
LEMMA LastIs ==
    ASSUME SoundRows(verdicts), NEW k, VerdictsOf(k) # {}
    PROVE  /\ Max(LastVerdicts(k)) \in VerdictsOf(k)
           /\ verdicts[Max(LastVerdicts(k))].at = Greatest(TimesOf(k))
           /\ \A i \in VerdictsOf(k) : verdicts[i].at <= Greatest(TimesOf(k))
<1> DEFINE V == VerdictsOf(k)
           t == Greatest(TimesOf(k))
           N == {i \in V : verdicts[i].at = t}
<1>1. /\ IsFiniteSet(V) /\ V \in SUBSET Int /\ \A i \in V : verdicts[i].at \in Int
      /\ TimesOf(k) \in SUBSET Int /\ IsFiniteSet(TimesOf(k))
  BY VerdictTimes
<1>2. TimesOf(k) # {} /\ \A i \in V : verdicts[i].at \in TimesOf(k)
  BY DEF TimesOf
<1>3. t \in TimesOf(k) /\ \A y \in TimesOf(k) : y <= t
  BY <1>1, <1>2, LeastGreatest
<1>4. N # {} /\ t \in Int /\ \A i \in V : verdicts[i].at <= t
  BY <1>1, <1>2, <1>3 DEF TimesOf
<1>5. IsFiniteSet(N) /\ N \in SUBSET Int
  BY <1>1, FS_Subset
<1>6. Max(N) \in N /\ \A y \in N : y <= Max(N)
  BY <1>4, <1>5, MaxIs
<1> DEFINE last == LastVerdicts(k)
<1>7. \A i \in last : i \in V /\ \A n \in V : \/ verdicts[n].at < verdicts[i].at
                                              \/ verdicts[n].at = verdicts[i].at /\ n <= i
  BY DEF LastVerdicts
<1>8. Max(N) \in last
  <2> DEFINE m == Max(N)
  <2>1. m \in V /\ verdicts[m].at = t
    BY <1>6
  <2>2. ASSUME NEW n \in V PROVE \/ verdicts[n].at < verdicts[m].at
                                 \/ verdicts[n].at = verdicts[m].at /\ n <= m
    <3>1. CASE n \in N
      BY <1>6, <2>1, <3>1
    <3>2. CASE n \notin N
      <4>1. verdicts[n].at # t /\ verdicts[n].at <= t /\ verdicts[n].at \in Int
        BY <1>1, <1>4, <3>2
      <4> DEFINE a == verdicts[n].at
      <4>2. a # t /\ a <= t /\ a \in Int /\ t \in Int
        BY <1>4, <4>1
      <4> HIDE DEF a, t
      <4>3. a < t
        BY <4>2
      <4> QED
        BY <2>1, <4>3 DEF a
    <3> QED
      BY <3>1, <3>2
  <2> HIDE DEF m, V, t, N
  <2> QED
    BY <2>1, <2>2 DEF LastVerdicts, V, m
<1>9. last \in SUBSET N
  <2> SUFFICES ASSUME NEW i \in last PROVE i \in N
    OBVIOUS
  <2>1. PICK n \in N : TRUE
    BY <1>4
  <2>2. i \in V /\ n \in V /\ verdicts[n].at = t
    BY <1>7
  <2>3. t <= verdicts[i].at /\ verdicts[i].at <= t /\ verdicts[i].at \in Int
    <3> DEFINE a == verdicts[i].at
    <3>1. a \in Int /\ a <= t
      BY <1>1, <1>4, <2>2
    <3>2. t < a \/ t = a
      BY <1>7, <2>2
    <3> HIDE DEF a, t
    <3>3. t <= a
      BY <1>4, <3>1, <3>2
    <3> QED
      BY <3>1, <3>3 DEF a
  <2> DEFINE a == verdicts[i].at
  <2>4. a \in Int /\ t <= a /\ a <= t
    BY <2>3
  <2> HIDE DEF a, t
  <2>5. a = t
    BY <1>4, <2>4
  <2> QED
    BY <2>2, <2>5 DEF a
<1>10. last # {} /\ last \in SUBSET Int /\ IsFiniteSet(last)
  BY <1>5, <1>8, <1>9, FS_Subset
<1> HIDE DEF last
<1>11. Max(last) \in last
  BY <1>10, MaxIs
<1>12. Max(last) \in N
  BY <1>9, <1>11
<1> QED
  BY <1>4, <1>12 DEF last

LEMMA KeyHasVerdicts ==
    ASSUME NEW k \in VerdictKeys
    PROVE  VerdictsOf(k) # {}
BY DEF VerdictKeys, VerdictsOf, Range

\* The page counts a pass of a key exactly when it has one.
LEMMA PassesCounted ==
    ASSUME SoundRows(verdicts), NEW k \in VerdictKeys
    PROVE  VerdictSummary(0)[k].passed > 0 <=> PassesOf(k) # {}
<1> DEFINE P == {i \in VerdictsOf(k) : verdicts[i].result = "pass"}
<1>1. IsFiniteSet(P)
  BY VerdictTimes, FS_Subset
<1>2. VerdictSummary(0)[k].passed = Cardinality(P)
  BY SummaryReads DEF SummaryIs
<1>3. P # {} <=> PassesOf(k) # {}
  BY DEF PassesOf
<1> HIDE DEF P
<1>4. Cardinality(P) \in Nat /\ (Cardinality(P) = 0 <=> P = {})
  BY <1>1, FS_CardinalityType, FS_EmptySet
<1> QED
  BY <1>2, <1>3, <1>4

LEMMA PassedAtLast ==
    ASSUME SoundRows(verdicts), NEW k \in VerdictKeys, PassesOf(k) # {}
    PROVE  /\ Greatest(PassesOf(k)) \in PassesOf(k) /\ Greatest(PassesOf(k)) \in Int
           /\ Greatest(TimesOf(k)) \in Int
           /\ Greatest(PassesOf(k)) <= Greatest(TimesOf(k))
           /\ \A y \in PassesOf(k) : y <= Greatest(PassesOf(k))
<1>1. /\ TimesOf(k) \in SUBSET Int /\ IsFiniteSet(TimesOf(k))
      /\ PassesOf(k) \in SUBSET TimesOf(k)
  BY VerdictTimes
<1>2. PassesOf(k) \in SUBSET Int /\ IsFiniteSet(PassesOf(k)) /\ TimesOf(k) # {}
  BY <1>1, FS_Subset
<1>3. /\ Greatest(PassesOf(k)) \in PassesOf(k)
      /\ \A y \in PassesOf(k) : y <= Greatest(PassesOf(k))
  BY <1>2, LeastGreatest
<1>4. /\ Greatest(TimesOf(k)) \in TimesOf(k)
      /\ \A y \in TimesOf(k) : y <= Greatest(TimesOf(k))
  BY <1>1, <1>2, LeastGreatest
<1> QED
  BY <1>1, <1>2, <1>3, <1>4

\* The key that the page shows as turned lately.
TurnedOn(page, k, since) ==
    page[k].lastResult # "pass" /\ page[k].passed > 0 /\ page[k].last >= since

LEMMA TurnedIsTold ==
    ASSUME SoundRows(verdicts), NEW k \in VerdictKeys, NEW since,
           TurnedOn(VerdictSummary(0), k, since)
    PROVE  \E r \in VerdictRegressions(since) : r.key = k
<1> DEFINE m == Max(LastVerdicts(k))
<1>1. m \in VerdictsOf(k) /\ verdicts[m].at = Greatest(TimesOf(k))
  BY KeyHasVerdicts, LastIs
<1>2. verdicts[m].result # "pass" /\ Greatest(TimesOf(k)) >= since
  BY SummaryReads DEF SummaryIs, TurnedOn
<1>3. PassesOf(k) # {}
  BY PassesCounted DEF TurnedOn
<1> HIDE DEF m
<1>4. m \in FailedOf(k)
  BY <1>1, <1>2 DEF FailedOf
<1>5. Turning(k, m, since)
  BY <1>1, <1>2, <1>3, <1>4 DEF Turning
<1> DEFINE r == TurnedRow(k, m)
<1>6. r.key = k
  BY DEF TurnedRow
<1> HIDE DEF r
<1>7. r \in VerdictRegressions(since)
  BY <1>4, <1>5, RegressionsAre DEF r
<1> QED
  BY <1>6, <1>7

LEMMA ToldIsTurned ==
    ASSUME SoundRows(verdicts), NEW since, NEW r \in VerdictRegressions(since)
    PROVE  /\ r.key \in VerdictKeys
           /\ TurnedOn(VerdictSummary(0), r.key, since) \/ r.lastPass = r.at
           /\ r.failures = 0 <=> r.lastPass = r.at
<1>1. PICK k \in VerdictKeys : \E i \in FailedOf(k) : Turning(k, i, since) /\ r = TurnedRow(k, i)
  BY RegressionsAre
<1>2. PICK i \in FailedOf(k) : Turning(k, i, since) /\ r = TurnedRow(k, i)
  BY <1>1
<1> DEFINE p == Greatest(PassesOf(k))
           t == Greatest(TimesOf(k))
           after == {n \in FailedOf(k) : verdicts[n].at > p}
           m == Max(LastVerdicts(k))
<1>3. PassesOf(k) # {} /\ verdicts[i].at = t /\ t >= since /\ i \in VerdictsOf(k)
  BY <1>2 DEF Turning, FailedOf
<1>4. r.key = k /\ r.at = t /\ r.lastPass = p /\ r.failures = Cardinality(after)
  BY <1>2, <1>3 DEF TurnedRow
<1>5. p \in Int /\ t \in Int /\ p <= t /\ \A y \in PassesOf(k) : y <= p
  BY <1>3, PassedAtLast
<1>6. /\ m \in VerdictsOf(k) /\ verdicts[m].at = t
      /\ \A n \in VerdictsOf(k) : verdicts[n].at <= t
  BY <1>3, LastIs
<1>7. IsFiniteSet(after) /\ \A n \in FailedOf(k) : n \in VerdictsOf(k) /\ verdicts[n].at \in Int
  BY VerdictTimes, FS_Subset DEF FailedOf
<1>8. after = {} <=> p = t
  <2>1. ASSUME p = t PROVE after = {}
    <3> SUFFICES ASSUME NEW n \in FailedOf(k), verdicts[n].at > p PROVE FALSE
      OBVIOUS
    <3> DEFINE a == verdicts[n].at
    <3>1. a \in Int /\ a <= t /\ a > p
      BY <1>6, <1>7
    <3> HIDE DEF a, p, t
    <3> QED
      BY <1>5, <2>1, <3>1
  <2>2. ASSUME p # t PROVE i \in after
    <3>1. t > p
      <4> HIDE DEF p, t
      <4> QED
        BY <1>5, <2>2
    <3> QED
      BY <1>3, <3>1
  <2> QED
    BY <2>1, <2>2
<1>9. Cardinality(after) = 0 <=> after = {}
  <2> HIDE DEF after
  <2> QED
    BY <1>7, FS_EmptySet
<1>10. TurnedOn(VerdictSummary(0), k, since) \/ p = t
  <2>1. verdicts[m].result = "pass" => p = t
    <3> SUFFICES ASSUME verdicts[m].result = "pass" PROVE p = t
      OBVIOUS
    <3>1. t \in PassesOf(k)
      BY <1>6 DEF PassesOf
    <3>2. t <= p
      BY <1>5, <3>1
    <3> HIDE DEF t, p
    <3> QED
      BY <1>5, <3>2
  <2>2. verdicts[m].result # "pass" => TurnedOn(VerdictSummary(0), k, since)
    <3> SUFFICES ASSUME verdicts[m].result # "pass" PROVE TurnedOn(VerdictSummary(0), k, since)
      OBVIOUS
    <3>1. VerdictSummary(0)[k].passed > 0
      BY <1>3, PassesCounted
    <3>2. VerdictSummary(0)[k].lastResult # "pass" /\ VerdictSummary(0)[k].last = t
      BY SummaryReads DEF SummaryIs
    <3> QED
      BY <1>3, <3>1, <3>2 DEF TurnedOn
  <2> QED
    BY <2>1, <2>2
<1> HIDE DEF p, t, after, m
<1> QED
  BY <1>4, <1>8, <1>9, <1>10

LEMMA RegressionsAgree ==
    ASSUME SoundRows(verdicts)
    PROVE  LET page == VerdictSummary(0)
               turned == {k \in DOMAIN page : /\ page[k].lastResult # "pass" /\ page[k].passed > 0
                                              /\ page[k].last >= Recent}
               tied == {r.key : r \in {x \in VerdictRegressions(Recent) : x.lastPass = x.at}}
           IN  /\ turned \subseteq {r.key : r \in VerdictRegressions(Recent)}
               /\ {r.key : r \in VerdictRegressions(Recent)} \subseteq turned \cup tied
               /\ \A r \in VerdictRegressions(Recent) : r.failures = 0 <=> r.lastPass = r.at
<1> DEFINE page == VerdictSummary(0)
           turned == {k \in DOMAIN page : TurnedOn(page, k, Recent)}
           told == VerdictRegressions(Recent)
<1>1. DOMAIN page = VerdictKeys
  BY SummaryReads
<1>2. \A k \in turned : \E r \in told : r.key = k
  BY <1>1, TurnedIsTold
<1>3. \A r \in told : /\ r.key \in turned \/ r.lastPass = r.at
                      /\ r.failures = 0 <=> r.lastPass = r.at
  BY <1>1, ToldIsTurned
<1>4. turned = {k \in DOMAIN page : /\ page[k].lastResult # "pass" /\ page[k].passed > 0
                                    /\ page[k].last >= Recent}
  BY DEF TurnedOn
<1> HIDE DEF turned, told
<1>5. /\ turned \subseteq {r.key : r \in told}
      /\ {r.key : r \in told} \subseteq turned \cup {r.key : r \in {x \in told : x.lastPass = x.at}}
      /\ \A r \in told : r.failures = 0 <=> r.lastPass = r.at
  BY <1>2, <1>3
<1> HIDE DEF page
<1> QED
  BY <1>4, <1>5 DEF told, page

LEMMA ReportRulesAgree ==
    ASSUME RulesInv, BimiInv
    PROVE  ReportRulesMatchPages
<1> DEFINE tuples(f) == {TellKey(k) : k \in DOMAIN BimiErrors(f)}
           divergence == BimiDivergence(Lately)
           split == {c \in DOMAIN divergence : \E o, u \in DOMAIN divergence[c].errors :
                        divergence[c].errors[o] # divergence[c].errors[u]}
           page == VerdictSummary(0)
           turned == {k \in DOMAIN page : /\ page[k].lastResult # "pass" /\ page[k].passed > 0
                                          /\ page[k].last >= Recent}
           tied == {r.key : r \in {x \in VerdictRegressions(Recent) : x.lastPass = x.at}}
<1>1. Pairs(BimiErrorsReported) = tuples(Lately) \ tuples([Unbounded EXCEPT !.to = Recent - 1])
  BY NewErrorsAgree
<1>2. /\ Pairs(BimiEvaluatorDivergence) = {<<c.domain, c.selector>> : c \in split}
      /\ {c \in DOMAIN divergence : divergence[c].clean # {} /\ divergence[c].failing # {}}
           \subseteq split
  BY DivergenceAgrees
<1>3. SoundRows(verdicts)
  BY DEF BimiInv
<1>4. /\ turned \subseteq {r.key : r \in VerdictRegressions(Recent)}
      /\ {r.key : r \in VerdictRegressions(Recent)} \subseteq turned \cup tied
      /\ \A r \in VerdictRegressions(Recent) : r.failures = 0 <=> r.lastPass = r.at
  BY <1>3, RegressionsAgree
<1> QED
  BY <1>1, <1>2, <1>4 DEF ReportRulesMatchPages, TellKey

\* X20 to X30 fire for what the pages of BIMI show.
LEMMA BimiRulesAgree ==
    ASSUME RulesInv, LookupInv
    PROVE  BimiRulesMatchPages
<1>1. BimiInv
  BY DEF LookupInv
<1>2. RecordRulesMatchPages /\ DocumentRulesMatchPages
  BY RecordRulesAgree, DocumentRulesAgree
<1>3. ReportRulesMatchPages
  BY <1>1, ReportRulesAgree
<1> QED
  BY <1>2, <1>3, BimiSeveritiesAgree DEF BimiRulesMatchPages

\* RulesMatchPages for every pool of reports, any answers of DNS and of the web, any seed
\* mail and any settings that RulesAssumption describes: what fires is what the pages show
\* for the window of the rule (rules.go, rules_tls.go, rules_bimi.go).
THEOREM RulesAgree == StatsSpec => []RulesMatchPages
<1>1. RulesInv /\ LookupInv => BimiRulesMatchPages
  BY BimiRulesAgree
<1>2. DmarcRulesMatchPages /\ TlsRulesMatchPages /\ BimiRulesMatchPages => RulesMatchPages
  BY DEF RulesMatchPages
<1> QED
  BY <1>1, <1>2, DmarcRulesAgree, TlsRulesAgree, InventoryIsOfReports, LookupsKeptInTurn, PTL
=============================================================================
