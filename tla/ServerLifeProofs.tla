--------------------------- MODULE ServerLifeProofs ---------------------------
(***************************************************************************)
(* ServerLife for any reports, releases, addresses and requests at once: what *)
(* start-ups that are cut short leave in the tables, and whom the throttle    *)
(* turns away.                                                               *)
(***************************************************************************)
EXTENDS ServerLife, FiniteSetTheorems, FunctionTheorems, WellFoundedInduction, TLAPS

-----------------------------------------------------------------------------
(* Finite sets of numbers have a least and a greatest element               *)

LEMMA LeastExists ==
    ASSUME NEW S \in SUBSET Nat, S # {}
    PROVE  \E x \in S : \A y \in S : x <= y
<1>1. PICK x \in S : \A y \in S : <<y, x>> \notin OpToRel(<, Nat)
  BY NatLessThanWellFounded, WFMin
<1>2. \A y \in S : ~(y < x)
  BY <1>1 DEF OpToRel
<1> QED
  BY <1>2

\* A set without a greatest element, of the least size, less one of its elements
\* has one.
LEMMA GreatestExists ==
    ASSUME NEW S \in SUBSET Nat, S # {}, IsFiniteSet(S)
    PROVE  \E x \in S : \A y \in S : y <= x
<1> DEFINE Greatest(U) == \E x \in U : \A y \in U : y <= x
           Sizes == {n \in Nat : \E U \in SUBSET Nat : /\ U # {} /\ IsFiniteSet(U)
                                                       /\ Cardinality(U) = n /\ ~Greatest(U)}
<1>1. SUFFICES ASSUME Sizes # {} PROVE FALSE
  BY FS_CardinalityType
<1>2. PICK n \in Sizes : \A m \in Sizes : n <= m
  BY <1>1, LeastExists
<1>3. PICK U \in SUBSET Nat : /\ U # {} /\ IsFiniteSet(U) /\ Cardinality(U) = n
                              /\ ~Greatest(U)
  BY <1>2
<1>4. PICK u \in U : TRUE
  BY <1>3
<1>5. /\ IsFiniteSet(U \ {u}) /\ Cardinality(U \ {u}) = n - 1 /\ U \ {u} \in SUBSET Nat
      /\ Cardinality(U \ {u}) \in Nat
  BY <1>3, <1>4, FS_RemoveElement, FS_CardinalityType
<1>6. U \ {u} # {}
  BY <1>3, <1>4
<1>7. PICK x \in U \ {u} : \A y \in U \ {u} : y <= x
  BY <1>2, <1>5, <1>6
<1> QED
  BY <1>3, <1>4, <1>7

LEMMA MinMaxOfFinite ==
    ASSUME NEW S \in SUBSET Nat, S # {}, IsFiniteSet(S)
    PROVE  /\ Min(S) \in S /\ \A y \in S : Min(S) <= y
           /\ Max(S) \in S /\ \A y \in S : y <= Max(S)
BY LeastExists, GreatestExists DEF Min, Max

-----------------------------------------------------------------------------
(* The inductive invariant of the start-up                                  *)

Docs == stored \cap Readable

\* What a step in progress still has to go through.
Pending(f) == IF phase = f /\ part = "work" THEN todo ELSE {}

\* The step was done in this or an earlier start, but for what is pending.
Entered(f) == f \in meta \/ (phase = f /\ part # "read")

\* A phase is reached over the flags of the ones before it, and a step in progress
\* has no flag.
FlagsInOrder ==
    /\ phase \in {"xml", "tlsrpt", "recheck", "bimi", "serving"} => "seed" \in meta
    /\ phase \in {"tlsrpt", "recheck", "bimi", "serving"} => "xml" \in meta
    /\ phase \in {"recheck", "bimi", "serving"} => "tlsrpt" \in meta
    /\ phase \in {"bimi", "serving"} => "recheck" \in meta
    /\ phase = "serving" => "bimi" \in meta
    /\ part # "read" => phase \in Marks /\ phase \notin meta

\* Every document is in the extension columns, or pending; the selector inventory
\* is the range of the reports whose columns are filled.
RangeOver(row, begins) ==
    IF begins = {} THEN row \in {Absent, [first |-> 0, last |-> 0]}
    ELSE /\ row \in SelectorRow
         /\ row.first \in begins /\ \A b \in begins : row.first <= b
         /\ row.last \in begins /\ \A b \in begins : b <= row.last

Begins(k) == {BeginOf[r] : r \in {x \in extras : k \in KeysOf[x]}}

XmlInv ==
    /\ extras \subseteq Docs \cap Reports /\ Pending("xml") \subseteq stored
    /\ Entered("xml") => (Docs \cap Reports) \ Pending("xml") \subseteq extras
    /\ \A k \in Keys : RangeOver(selectors[k], Begins(k))

\* A document's child rows are all there or none is; none of those pending is.
TlsInv ==
    /\ \A t \in Docs \cap TlsReports :
          /\ policies[t] \in {0, PoliciesOf[t]}
          /\ Entered("tlsrpt") /\ t \notin Pending("tlsrpt") => policies[t] = PoliciesOf[t]
    /\ \A t \in Pending("tlsrpt") : t \in TlsReports /\ policies[t] = 0

BimiInv ==
    /\ \A r \in Docs \cap Reports :
          /\ asserted[r] # 0 => asserted[r] = AssertionsOf[r] /\ r \in hygiene
          /\ Entered("bimi") /\ r \notin Pending("bimi") =>
                asserted[r] = AssertionsOf[r] /\ r \in hygiene
    /\ \A r \in Pending("bimi") : r \in Reports /\ asserted[r] = 0

RecheckInv ==
    "recheck" \in meta \/ (phase = "recheck" /\ part = "mark") =>
        \A d \in Domains : checks[d] # "blank"

\* Only a serving process lets a domain be removed, and then the list is seeded.
SeedInv ==
    /\ removed # {} => "seed" \in meta
    /\ removed \cap managed = {}

StartInv ==
    /\ StartTypeOK /\ FlagsInOrder
    /\ XmlInv /\ TlsInv /\ BimiInv /\ RecheckInv /\ SeedInv

LEMMA MarksAre == Marks = {"seed", "xml", "tlsrpt", "recheck", "bimi"}
<1>1. 1 .. 5 = {1, 2, 3, 4, 5}
  OBVIOUS
<1> QED
  BY <1>1 DEF Marks, Flags

LEMMA PhasesFollow ==
    /\ PhaseAfter("seed") = "xml" /\ PhaseAfter("xml") = "tlsrpt"
    /\ PhaseAfter("tlsrpt") = "recheck" /\ PhaseAfter("recheck") = "bimi"
    /\ PhaseAfter("bimi") = "serving"
<1>1. \A n \in 1 .. 5 : n = 1 \/ n = 2 \/ n = 3 \/ n = 4 \/ n = 5
  OBVIOUS
<1>2. (CHOOSE i \in 1 .. 5 : Flags[i] = "seed") = 1
  BY <1>1 DEF Flags
<1>3. (CHOOSE i \in 1 .. 5 : Flags[i] = "xml") = 2
  BY <1>1 DEF Flags
<1>4. (CHOOSE i \in 1 .. 5 : Flags[i] = "tlsrpt") = 3
  BY <1>1 DEF Flags
<1>5. (CHOOSE i \in 1 .. 5 : Flags[i] = "recheck") = 4
  BY <1>1 DEF Flags
<1>6. (CHOOSE i \in 1 .. 5 : Flags[i] = "bimi") = 5
  BY <1>1 DEF Flags
<1> QED
  BY <1>2, <1>3, <1>4, <1>5, <1>6 DEF PhaseAfter, Flags

\* The starts of a set of reports are finitely many numbers above zero.
LEMMA BeginsFinite ==
    ASSUME NEW rs \in SUBSET Reports
    PROVE  LET begins == {BeginOf[r] : r \in rs}
           IN begins \in SUBSET (Nat \ {0}) /\ IsFiniteSet(begins)
<1> DEFINE begins == {BeginOf[r] : r \in rs}
           f == [r \in rs |-> BeginOf[r]]
<1>1. IsFiniteSet(rs)
  BY StartupAssumption, FS_Subset
<1>2. f \in Surjection(rs, begins)
  BY DEF Surjection
<1>3. IsFiniteSet(begins)
  BY <1>1, <1>2, FS_Surjection
<1> QED
  BY <1>3, StartupAssumption

\* The inventory over no filled columns is empty, and over any it is their range.
LEMMA InventoryRanges ==
    ASSUME NEW rs \in SUBSET Reports, NEW k \in Keys
    PROVE  RangeOver(InventoryOf(rs)[k], {BeginOf[r] : r \in {x \in rs : k \in KeysOf[x]}})
<1> DEFINE begins == {BeginOf[r] : r \in {x \in rs : k \in KeysOf[x]}}
<1>1. begins \in SUBSET (Nat \ {0}) /\ IsFiniteSet(begins)
  BY BeginsFinite
<1>2. InventoryOf(rs)[k] = IF begins = {} THEN Absent
                           ELSE [first |-> Min(begins), last |-> Max(begins)]
  BY Zenon DEF InventoryOf
<1> HIDE DEF begins
<1>3. begins = {} => RangeOver(InventoryOf(rs)[k], begins)
  BY <1>2 DEF RangeOver
<1>4. ASSUME begins # {} PROVE RangeOver(InventoryOf(rs)[k], begins)
  <2>1. /\ Min(begins) \in begins /\ \A y \in begins : Min(begins) <= y
        /\ Max(begins) \in begins /\ \A y \in begins : y <= Max(begins)
    <3>1. begins \in SUBSET Nat
      BY <1>1
    <3> QED
      BY <1>1, <1>4, <3>1, MinMaxOfFinite
  <2>2. Min(begins) \in Nat /\ Max(begins) \in Nat
    BY <1>1, <2>1
  <2>3. PICK row : row = [first |-> Min(begins), last |-> Max(begins)]
    OBVIOUS
  <2>4. row \in SelectorRow /\ row.first = Min(begins) /\ row.last = Max(begins)
    BY <2>2, <2>3 DEF SelectorRow
  <2>5. RangeOver(row, begins)
    BY <1>4, <2>1, <2>4 DEF RangeOver
  <2> QED
    BY <1>2, <1>4, <2>3, <2>5
<1>5. RangeOver(InventoryOf(rs)[k], begins)
  BY <1>3, <1>4
<1> QED
  BY <1>5, Zenon DEF begins

\* A report widens the ranges it belongs to.
LEMMA UpsertRanges ==
    ASSUME NEW rs \in SUBSET Reports, NEW r \in Reports, NEW k \in Keys,
           NEW sel \in [Keys -> SelectorRow \cup {Absent}],
           RangeOver(sel[k], {BeginOf[x] : x \in {y \in rs : k \in KeysOf[y]}})
    PROVE  /\ UpsertSelectors(sel, r)[k] \in SelectorRow \cup {Absent}
           /\ RangeOver(UpsertSelectors(sel, r)[k],
                        {BeginOf[x] : x \in {y \in rs \cup {r} : k \in KeysOf[y]}})
<1> DEFINE old == {BeginOf[x] : x \in {y \in rs : k \in KeysOf[y]}}
           new == {BeginOf[x] : x \in {y \in rs \cup {r} : k \in KeysOf[y]}}
           row == UpsertSelectors(sel, r)[k]
<1>1. BeginOf[r] \in Nat \ {0} /\ old \in SUBSET (Nat \ {0})
  BY StartupAssumption
<1>2. row = IF k \notin KeysOf[r] THEN sel[k]
            ELSE IF sel[k] = Absent THEN [first |-> BeginOf[r], last |-> BeginOf[r]]
            ELSE [sel[k] EXCEPT
                     !.first = IF @ = 0 \/ BeginOf[r] < @ THEN BeginOf[r] ELSE @,
                     !.last = IF BeginOf[r] > @ THEN BeginOf[r] ELSE @]
  BY DEF UpsertSelectors
<1>3. CASE k \notin KeysOf[r]
  <2>1. new = old
    BY <1>3
  <2> QED
    BY <1>2, <1>3, <2>1
<1>4. CASE k \in KeysOf[r]
  <2>1. new = old \cup {BeginOf[r]}
    BY <1>4
  <2> HIDE DEF old, new, row
  <2>2. CASE sel[k] = Absent
    <3>1. old = {}
      BY <2>2, StartupAssumption DEF RangeOver, SelectorRow, old
    <3>2. row = [first |-> BeginOf[r], last |-> BeginOf[r]] /\ new = {BeginOf[r]}
      BY <1>2, <1>4, <2>1, <2>2, <3>1
    <3>3. row \in SelectorRow /\ RangeOver(row, new)
      BY <1>1, <3>2 DEF RangeOver, SelectorRow
    <3> QED
      BY <3>3 DEF new, row
  <2>3. CASE sel[k] # Absent
    <3>1. sel[k] \in SelectorRow /\ sel[k].first \in Nat /\ sel[k].last \in Nat
      BY <2>3 DEF SelectorRow
    <3>2. /\ row \in SelectorRow
          /\ row.first = IF sel[k].first = 0 \/ BeginOf[r] < sel[k].first THEN BeginOf[r]
                         ELSE sel[k].first
          /\ row.last = IF BeginOf[r] > sel[k].last THEN BeginOf[r] ELSE sel[k].last
      BY <1>1, <1>2, <1>4, <2>3, <3>1 DEF SelectorRow
    <3>3. old = {} => sel[k].first = 0 /\ sel[k].last = 0
      BY <2>3 DEF RangeOver, old
    <3>4. old # {} => /\ sel[k].first \in old /\ \A b \in old : sel[k].first <= b
                      /\ sel[k].last \in old /\ \A b \in old : b <= sel[k].last
      BY DEF RangeOver, old
    <3>5. RangeOver(row, new)
      BY <1>1, <2>1, <3>1, <3>2, <3>3, <3>4 DEF RangeOver
    <3> QED
      BY <3>2, <3>5 DEF new, row
  <2> QED
    BY <2>2, <2>3
<1> QED
  BY <1>3, <1>4

\* A database that an earlier release left, with the first n flags set.
LEMMA StartInitInv == StartInit => StartInv
<1> SUFFICES ASSUME StartInit PROVE StartInv
  OBVIOUS
<1> DEFINE Done(n, f) == \E i \in 1 .. n : Flags[i] = f
<1>1. PICK n \in 0 .. 5, old \in SUBSET Stored :
         /\ phase = "down" /\ part = "read" /\ todo = {}
         /\ columns = IF n = 0 THEN {} ELSE {Altered[i] : i \in 1 .. 5}
         /\ meta = {Flags[i] : i \in 1 .. n}
         /\ stored = old
         /\ extras = IF Done(n, "xml") THEN (old \cap Readable) \cap Reports ELSE {}
         /\ hygiene = IF Done(n, "bimi") THEN (old \cap Readable) \cap Reports ELSE {}
         /\ asserted = [r \in Reports |->
                           IF Done(n, "bimi") /\ r \in old \cap Readable THEN AssertionsOf[r] ELSE 0]
         /\ policies = [t \in TlsReports |->
                           IF Done(n, "tlsrpt") /\ t \in old \cap Readable THEN PoliciesOf[t] ELSE 0]
         /\ selectors = InventoryOf(IF Done(n, "xml") THEN (old \cap Readable) \cap Reports ELSE {})
         /\ managed = IF Done(n, "seed") THEN {DomainOf[r] : r \in old \cap Reports} ELSE {}
         /\ checks \in [Domains -> IF Done(n, "recheck") THEN {"none", "due", "read"}
                                                         ELSE {"none", "blank"}]
         /\ removed = {}
  BY DEF StartInit
<1>2. \A f : Done(n, f) <=> f \in meta
  BY <1>1
<1>3. meta \in SUBSET Marks
  BY <1>1 DEF Marks
<1> HIDE DEF Done
<1>4. \A k \in Keys : selectors[k] \in SelectorRow \cup {Absent} /\ RangeOver(selectors[k], Begins(k))
  <2> SUFFICES ASSUME NEW k \in Keys
               PROVE  selectors[k] \in SelectorRow \cup {Absent} /\ RangeOver(selectors[k], Begins(k))
    OBVIOUS
  <2>1. extras \in SUBSET Reports /\ selectors = InventoryOf(extras)
    BY <1>1
  <2>2. RangeOver(selectors[k], Begins(k))
    BY <2>1, InventoryRanges DEF Begins
  <2>3. selectors[k] \in SelectorRow \cup {Absent}
    BY <2>2 DEF RangeOver, SelectorRow
  <2> QED
    BY <2>2, <2>3
<1>5. StartTypeOK
  <2>1. selectors \in [Keys -> SelectorRow \cup {Absent}]
    <3>1. selectors = [k \in Keys |-> selectors[k]]
      BY <1>1 DEF InventoryOf
    <3> QED
      BY <1>4, <3>1
  <2>2. asserted \in [Reports -> Nat] /\ policies \in [TlsReports -> Nat]
    BY <1>1, StartupAssumption
  <2>3. managed \in SUBSET Domains /\ removed \in SUBSET Domains
    BY <1>1 DEF Domains
  <2>4. checks \in [Domains -> {"none", "blank", "due", "read"}]
    BY <1>1
  <2>5. extras \in SUBSET Reports /\ hygiene \in SUBSET Reports /\ stored \in SUBSET Stored
    BY <1>1
  <2>6. phase \in Phases /\ part \in {"read", "work", "mark"} /\ todo \in SUBSET Stored
        /\ columns \in SUBSET {Altered[i] : i \in 1 .. 5}
    BY <1>1 DEF Phases
  <2> QED
    BY <1>3, <2>1, <2>2, <2>3, <2>4, <2>5, <2>6 DEF StartTypeOK
<1>6. FlagsInOrder
  BY <1>1 DEF FlagsInOrder
<1>7. XmlInv
  BY <1>1, <1>2, <1>4 DEF XmlInv, Entered, Pending, Docs
<1>8. TlsInv
  BY <1>1, <1>2 DEF TlsInv, Entered, Pending, Docs
<1>9. BimiInv
  BY <1>1, <1>2 DEF BimiInv, Entered, Pending, Docs
<1>10. RecheckInv
  BY <1>1, <1>2 DEF RecheckInv
<1>11. SeedInv
  BY <1>1 DEF SeedInv
<1> QED
  BY <1>5, <1>6, <1>7, <1>8, <1>9, <1>10, <1>11 DEF StartInv

\* Moving between steps: what the tables hold does not change.
LEMMA TablesKept ==
    ASSUME StartInv, UNCHANGED <<stored, extras, hygiene, asserted, policies, selectors, managed,
                                 checks, removed>>,
           phase' \in Phases, part' \in {"read", "work", "mark"}, todo' \in SUBSET Stored,
           columns' \in SUBSET {Altered[i] : i \in 1 .. 5}, meta' \in SUBSET Marks,
           meta \subseteq meta', FlagsInOrder',
           Pending("xml")' \subseteq stored,
           Entered("xml")' => (Docs \cap Reports) \ Pending("xml")' \subseteq extras,
           \A t \in Docs \cap TlsReports :
              Entered("tlsrpt")' /\ t \notin Pending("tlsrpt")' => policies[t] = PoliciesOf[t],
           \A t \in Pending("tlsrpt")' : t \in TlsReports /\ policies[t] = 0,
           \A r \in Docs \cap Reports :
              Entered("bimi")' /\ r \notin Pending("bimi")' =>
                  asserted[r] = AssertionsOf[r] /\ r \in hygiene,
           \A r \in Pending("bimi")' : r \in Reports /\ asserted[r] = 0,
           RecheckInv'
    PROVE  StartInv'
<1>1. StartTypeOK'
  BY DEF StartInv, StartTypeOK
<1>2. Docs' = Docs /\ \A k : Begins(k)' = Begins(k)
  BY DEF Docs, Begins
<1>3. XmlInv'
  BY <1>2 DEF StartInv, XmlInv
<1>4. TlsInv'
  BY <1>2 DEF StartInv, TlsInv
<1>5. BimiInv'
  BY <1>2 DEF StartInv, BimiInv
<1>6. SeedInv'
  BY DEF StartInv, SeedInv
<1> QED
  BY <1>1, <1>3, <1>4, <1>5, <1>6 DEF StartInv

LEMMA OpenInv == ASSUME StartInv, OpenDatabase PROVE StartInv'
<1>1. phase' = "columns" /\ phase = "down" /\ UNCHANGED <<part, todo, tables>>
  BY DEF OpenDatabase
<1>2. part = "read"
  BY <1>1, MarksAre DEF StartInv, FlagsInOrder
<1>3. /\ \A f : Pending(f)' = {} /\ Pending(f) = {}
      /\ \A f : Entered(f)' <=> Entered(f)
      /\ FlagsInOrder' /\ RecheckInv'
  BY <1>1, <1>2 DEF Pending, Entered, FlagsInOrder, RecheckInv, StartInv, tables
<1> QED
  BY <1>1, <1>3, TablesKept DEF StartInv, StartTypeOK, Phases, tables, XmlInv, TlsInv, BimiInv

LEMMA ColumnsInv == ASSUME StartInv, EnsureColumns PROVE StartInv'
<1>1. /\ phase = "columns" /\ phase' \in {"columns", "seed"}
      /\ UNCHANGED <<part, todo, meta, stored, extras, hygiene, asserted, policies, selectors,
                     managed, checks, removed>>
  BY DEF EnsureColumns
<1>2. part = "read"
  BY <1>1, MarksAre DEF StartInv, FlagsInOrder
<1>3. /\ \A f : Pending(f)' = {} /\ Pending(f) = {}
      /\ \A f : Entered(f)' <=> Entered(f)
      /\ FlagsInOrder' /\ RecheckInv'
  BY <1>1, <1>2 DEF Pending, Entered, FlagsInOrder, RecheckInv, StartInv
<1>4. columns' \in SUBSET {Altered[i] : i \in 1 .. 5}
  <2> DEFINE missing == {i \in 1 .. 5 : Altered[i] \notin columns}
  <2>1. CASE missing = {}
    BY <2>1 DEF EnsureColumns, StartInv, StartTypeOK
  <2>2. CASE missing # {}
    <3>1. missing \in SUBSET Nat
      OBVIOUS
    <3>2. Min(missing) \in missing
      BY <2>2, <3>1, LeastExists DEF Min
    <3>3. columns' = columns \cup {Altered[Min(missing)]}
      BY <2>2 DEF EnsureColumns
    <3> QED
      BY <3>2, <3>3 DEF StartInv, StartTypeOK
  <2> QED
    BY <2>1, <2>2
<1>5. phase' \in Phases
  BY <1>1, MarksAre DEF Phases
<1> QED
  BY <1>1, <1>3, <1>4, <1>5, TablesKept DEF StartInv, StartTypeOK, XmlInv, TlsInv, BimiInv

LEMMA StepDoneInv == ASSUME StartInv, NEW f \in Marks, StepDone(f) PROVE StartInv'
<1>1. /\ phase = f /\ part = "read" /\ f \in meta /\ phase' = PhaseAfter(f)
      /\ UNCHANGED <<part, todo, tables>>
  BY DEF StepDone
<1>2. /\ phase' \in Phases /\ FlagsInOrder'
  BY <1>1, MarksAre, PhasesFollow DEF Phases, FlagsInOrder, StartInv, tables
<1>3. /\ \A g : Pending(g)' = {} /\ Pending(g) = {}
      /\ \A g : Entered(g)' <=> Entered(g)
      /\ RecheckInv'
  BY <1>1 DEF Pending, Entered, RecheckInv, StartInv, tables
<1> QED
  BY <1>1, <1>2, <1>3, TablesKept DEF StartInv, StartTypeOK, tables, XmlInv, TlsInv, BimiInv

LEMMA BeginStepInv == ASSUME StartInv, NEW f \in Marks, BeginStep(f) PROVE StartInv'
<1>1. /\ phase = f /\ part = "read" /\ f \notin meta /\ part' = "work"
      /\ UNCHANGED <<phase, columns, meta, stored, extras, hygiene, asserted, policies, selectors,
                     managed, checks, removed>>
  BY DEF BeginStep, tables
<1>2. /\ f = "xml" => todo' = stored \cap Reports
      /\ f = "tlsrpt" => todo' = {t \in stored \cap TlsReports : policies[t] = 0}
      /\ f = "bimi" => todo' = {r \in stored \cap Reports : asserted[r] = 0}
      /\ todo' \in SUBSET Stored
  BY MarksAre DEF BeginStep, StartInv, StartTypeOK
<1>3. FlagsInOrder' /\ RecheckInv'
  BY <1>1 DEF FlagsInOrder, RecheckInv, StartInv
<1>4. \A g : g # f => /\ Pending(g)' = {} /\ Pending(g) = {}
                      /\ Entered(g)' <=> Entered(g)
  BY <1>1 DEF Pending, Entered
<1>5. Pending(f)' = todo'
  BY <1>1 DEF Pending
<1>6. /\ Pending("xml")' \subseteq stored
      /\ Entered("xml")' => (Docs \cap Reports) \ Pending("xml")' \subseteq extras
  BY <1>2, <1>4, <1>5 DEF StartInv, XmlInv, Docs
<1>7. \A t \in Docs \cap TlsReports :
         Entered("tlsrpt")' /\ t \notin Pending("tlsrpt")' => policies[t] = PoliciesOf[t]
  BY <1>2, <1>4, <1>5 DEF StartInv, TlsInv, Docs
<1>8. \A r \in Docs \cap Reports :
         Entered("bimi")' /\ r \notin Pending("bimi")' =>
             asserted[r] = AssertionsOf[r] /\ r \in hygiene
  BY <1>2, <1>4, <1>5 DEF StartInv, BimiInv, Docs
<1>9. /\ \A t \in Pending("tlsrpt")' : t \in TlsReports /\ policies[t] = 0
      /\ \A r \in Pending("bimi")' : r \in Reports /\ asserted[r] = 0
  BY <1>2, <1>4, <1>5
<1> QED
  BY <1>1, <1>2, <1>3, <1>6, <1>7, <1>8, <1>9, TablesKept DEF StartInv, StartTypeOK

LEMMA BackfillEndsInv == ASSUME StartInv, NEW f \in Marks, BackfillEnds(f) PROVE StartInv'
<1>1. /\ phase = f /\ part = "work" /\ part' = "mark" /\ todo = {}
      /\ f \in {"xml", "tlsrpt", "bimi"} /\ UNCHANGED <<phase, todo, tables>>
  BY DEF BackfillEnds
<1>2. /\ \A g : Pending(g)' = {} /\ Pending(g) = {}
      /\ \A g : Entered(g)' <=> Entered(g)
      /\ FlagsInOrder' /\ RecheckInv'
  BY <1>1 DEF Pending, Entered, FlagsInOrder, RecheckInv, StartInv, tables
<1> QED
  BY <1>1, <1>2, TablesKept DEF StartInv, StartTypeOK, tables, XmlInv, TlsInv, BimiInv

LEMMA SetMetaInv == ASSUME StartInv, NEW f \in Marks, SetMeta(f) PROVE StartInv'
<1>1. /\ phase = f /\ part = "mark" /\ meta' = meta \cup {f}
      /\ phase' = PhaseAfter(f) /\ part' = "read"
      /\ UNCHANGED <<todo, columns, stored, extras, hygiene, asserted, policies, selectors,
                     managed, checks, removed>>
  BY DEF SetMeta
<1>2. phase' \in Phases /\ FlagsInOrder'
  BY <1>1, MarksAre, PhasesFollow DEF Phases, FlagsInOrder, StartInv
<1>3. /\ \A g : Pending(g)' = {} /\ Pending(g) = {}
      /\ \A g : Entered(g)' <=> Entered(g)
      /\ RecheckInv'
  BY <1>1 DEF Pending, Entered, RecheckInv, StartInv
<1> QED
  BY <1>1, <1>2, <1>3, TablesKept DEF StartInv, StartTypeOK, XmlInv, TlsInv, BimiInv

LEMMA StopInv == ASSUME StartInv, Stop PROVE StartInv'
<1>1. phase' = "down" /\ part' = "read" /\ todo' = {} /\ UNCHANGED tables
  BY DEF Stop
<1>2. \A f : f \in meta => Pending(f) = {}
  BY DEF StartInv, FlagsInOrder, Pending
<1>3. /\ \A f : Pending(f)' = {}
      /\ \A f : Entered(f)' => Entered(f) /\ Pending(f) = {}
      /\ FlagsInOrder' /\ RecheckInv'
  BY <1>1, <1>2 DEF Pending, Entered, FlagsInOrder, RecheckInv, StartInv, tables
<1> QED
  BY <1>1, <1>3, TablesKept DEF StartInv, StartTypeOK, Phases, tables, XmlInv, TlsInv, BimiInv

\* The list is seeded only while its flag is not set, and then nobody has removed
\* a domain.
LEMMA SeedStepInv == ASSUME StartInv, SeedManagedDomains PROVE StartInv'
<1>1. /\ phase = "seed" /\ part = "work" /\ part' = "mark"
      /\ managed' = managed \cup {DomainOf[r] : r \in stored \cap Reports}
      /\ UNCHANGED <<phase, todo, columns, meta, stored, extras, hygiene, asserted, policies,
                     selectors, checks, removed>>
  BY DEF SeedManagedDomains
<1>2. removed = {}
  BY <1>1 DEF StartInv, FlagsInOrder, SeedInv
<1>3. StartTypeOK'
  BY <1>1 DEF StartInv, StartTypeOK, Domains
<1>4. /\ \A g \in {"xml", "tlsrpt", "bimi"} : Pending(g)' = {} /\ Pending(g) = {}
      /\ \A g \in {"xml", "tlsrpt", "bimi"} : Entered(g)' <=> Entered(g)
      /\ FlagsInOrder' /\ RecheckInv'
  BY <1>1 DEF Pending, Entered, FlagsInOrder, RecheckInv, StartInv
<1>5. XmlInv' /\ TlsInv' /\ BimiInv'
  BY <1>1, <1>4 DEF StartInv, XmlInv, TlsInv, BimiInv, Docs, Begins
<1>6. SeedInv'
  BY <1>1, <1>2 DEF SeedInv
<1> QED
  BY <1>3, <1>4, <1>5, <1>6 DEF StartInv

\* The ranges after one more report's columns are filled.
LEMMA RangesWiden ==
    ASSUME StartInv, NEW r \in Reports, extras' = extras \cup {r},
           selectors' = UpsertSelectors(selectors, r)
    PROVE  /\ selectors' \in [Keys -> SelectorRow \cup {Absent}]
           /\ \A k \in Keys : RangeOver(selectors'[k], Begins(k)')
<1>1. extras \in SUBSET Reports /\ selectors \in [Keys -> SelectorRow \cup {Absent}]
  BY DEF StartInv, StartTypeOK
<1>2. ASSUME NEW k \in Keys
      PROVE  /\ UpsertSelectors(selectors, r)[k] \in SelectorRow \cup {Absent}
             /\ RangeOver(UpsertSelectors(selectors, r)[k],
                          {BeginOf[x] : x \in {y \in extras \cup {r} : k \in KeysOf[y]}})
  <2>1. RangeOver(selectors[k], {BeginOf[x] : x \in {y \in extras : k \in KeysOf[y]}})
    BY DEF StartInv, XmlInv, Begins
  <2> QED
    BY <1>1, <2>1, UpsertRanges
<1>3. \A k \in Keys : Begins(k)' = {BeginOf[x] : x \in {y \in extras \cup {r} : k \in KeysOf[y]}}
  BY DEF Begins
<1>4. selectors' \in [Keys -> SelectorRow \cup {Absent}]
  <2>1. UpsertSelectors(selectors, r) = [k \in Keys |-> UpsertSelectors(selectors, r)[k]]
    BY DEF UpsertSelectors
  <2> QED
    BY <1>2, <2>1
<1> QED
  BY <1>2, <1>3, <1>4

LEMMA XmlStepInv == ASSUME StartInv, NEW r \in Reports, BackfillFromXML(r) PROVE StartInv'
<1>1. /\ phase = "xml" /\ part = "work" /\ r \in todo /\ todo' = todo \ {r}
      /\ UNCHANGED <<phase, part, columns, meta, stored, hygiene, asserted, policies, managed,
                     checks, removed>>
  BY DEF BackfillFromXML
<1>2. \/ r \in Readable /\ extras' = extras \cup {r} /\ selectors' = UpsertSelectors(selectors, r)
      \/ r \notin Readable /\ UNCHANGED <<extras, selectors>>
  BY DEF BackfillFromXML
<1>3. r \in stored
  BY <1>1 DEF StartInv, XmlInv, Pending
<1>4. /\ selectors' \in [Keys -> SelectorRow \cup {Absent}]
      /\ \A k \in Keys : RangeOver(selectors'[k], Begins(k)')
  <2>1. CASE r \in Readable
    BY <1>2, <2>1, RangesWiden
  <2>2. CASE r \notin Readable
    <3>1. UNCHANGED <<extras, selectors>> /\ \A k : Begins(k)' = Begins(k)
      BY <1>2, <2>2 DEF Begins
    <3> QED
      BY <3>1 DEF StartInv, StartTypeOK, XmlInv
  <2> QED
    BY <2>1, <2>2
<1>5. StartTypeOK'
  <2>1. todo' \in SUBSET Stored /\ extras' \in SUBSET Reports
    BY <1>1, <1>2 DEF StartInv, StartTypeOK
  <2> QED
    BY <1>1, <1>4, <2>1 DEF StartInv, StartTypeOK
<1>6. /\ \A g \in {"tlsrpt", "bimi"} : Pending(g)' = {} /\ Pending(g) = {}
      /\ \A g : Entered(g)' <=> Entered(g)
      /\ Pending("xml")' = todo \ {r} /\ Pending("xml") = todo
      /\ FlagsInOrder' /\ RecheckInv' /\ Docs' = Docs
  BY <1>1 DEF Pending, Entered, FlagsInOrder, RecheckInv, StartInv, Docs
<1>7. XmlInv'
  <2>1. extras' \subseteq Docs \cap Reports
    BY <1>2, <1>3 DEF StartInv, XmlInv, Docs
  <2>2. Entered("xml") => (Docs \cap Reports) \ (todo \ {r}) \subseteq extras'
    BY <1>2, <1>6 DEF StartInv, XmlInv, Docs
  <2> QED
    BY <1>1, <1>4, <1>6, <2>1, <2>2 DEF StartInv, XmlInv
<1>8. TlsInv' /\ BimiInv'
  BY <1>1, <1>6 DEF StartInv, TlsInv, BimiInv
<1>9. SeedInv'
  BY <1>1 DEF StartInv, SeedInv
<1> QED
  BY <1>5, <1>6, <1>7, <1>8, <1>9 DEF StartInv

LEMMA TlsStepInv == ASSUME StartInv, NEW t \in TlsReports, BackfillTLSRPT(t) PROVE StartInv'
<1>1. /\ phase = "tlsrpt" /\ part = "work" /\ t \in todo /\ todo' = todo \ {t}
      /\ policies' = IF t \in Readable THEN [policies EXCEPT ![t] = @ + PoliciesOf[t]] ELSE policies
      /\ UNCHANGED <<phase, part, columns, meta, stored, extras, hygiene, asserted, selectors,
                     managed, checks, removed>>
  BY DEF BackfillTLSRPT
<1>2. policies \in [TlsReports -> Nat] /\ policies[t] = 0 /\ PoliciesOf[t] \in Nat
  BY <1>1, StartupAssumption DEF StartInv, StartTypeOK, TlsInv, Pending
<1>3. /\ policies' \in [TlsReports -> Nat]
      /\ \A u \in TlsReports : policies'[u] = IF u = t /\ t \in Readable THEN PoliciesOf[t]
                                              ELSE policies[u]
  BY <1>1, <1>2
<1>4. StartTypeOK'
  <2>1. todo' \in SUBSET Stored
    BY <1>1 DEF StartInv, StartTypeOK
  <2> QED
    BY <1>1, <1>3, <2>1 DEF StartInv, StartTypeOK
<1>5. /\ \A g \in {"xml", "bimi"} : Pending(g)' = {} /\ Pending(g) = {}
      /\ \A g : Entered(g)' <=> Entered(g)
      /\ Pending("tlsrpt")' = todo \ {t} /\ Pending("tlsrpt") = todo
      /\ FlagsInOrder' /\ RecheckInv' /\ Docs' = Docs /\ \A k : Begins(k)' = Begins(k)
  BY <1>1 DEF Pending, Entered, FlagsInOrder, RecheckInv, StartInv, Docs, Begins
<1>6. TlsInv'
  <2>1. \A u \in Docs \cap TlsReports :
           /\ policies'[u] \in {0, PoliciesOf[u]}
           /\ Entered("tlsrpt") /\ u \notin todo \ {t} => policies'[u] = PoliciesOf[u]
    BY <1>3, <1>5 DEF StartInv, TlsInv, Docs
  <2>2. \A u \in todo \ {t} : u \in TlsReports /\ policies'[u] = 0
    BY <1>3, <1>5 DEF StartInv, TlsInv
  <2> QED
    BY <1>5, <2>1, <2>2 DEF TlsInv
<1>7. XmlInv' /\ BimiInv'
  BY <1>1, <1>5 DEF StartInv, XmlInv, BimiInv
<1>8. SeedInv'
  BY <1>1 DEF StartInv, SeedInv
<1> QED
  BY <1>4, <1>5, <1>6, <1>7, <1>8 DEF StartInv

LEMMA RecheckStepInv == ASSUME StartInv, RecheckDomains PROVE StartInv'
<1>1. /\ phase = "recheck" /\ part = "work" /\ part' = "mark"
      /\ checks' = [d \in Domains |-> IF checks[d] = "blank" THEN "due" ELSE checks[d]]
      /\ UNCHANGED <<phase, todo, columns, meta, stored, extras, hygiene, asserted, policies,
                     selectors, managed, removed>>
  BY DEF RecheckDomains
<1>2. /\ checks' \in [Domains -> {"none", "blank", "due", "read"}]
      /\ \A d \in Domains : checks'[d] # "blank"
  BY <1>1 DEF StartInv, StartTypeOK
<1>3. StartTypeOK' /\ RecheckInv'
  BY <1>1, <1>2 DEF StartInv, StartTypeOK, RecheckInv
<1>4. /\ \A g \in {"xml", "tlsrpt", "bimi"} : Pending(g)' = {} /\ Pending(g) = {}
      /\ \A g \in {"xml", "tlsrpt", "bimi"} : Entered(g)' <=> Entered(g)
      /\ FlagsInOrder'
  BY <1>1 DEF Pending, Entered, FlagsInOrder, StartInv
<1>5. XmlInv' /\ TlsInv' /\ BimiInv' /\ SeedInv'
  BY <1>1, <1>4 DEF StartInv, XmlInv, TlsInv, BimiInv, SeedInv, Docs, Begins
<1> QED
  BY <1>3, <1>4, <1>5 DEF StartInv

LEMMA BimiStepInv == ASSUME StartInv, NEW r \in Reports, BackfillBIMI(r) PROVE StartInv'
<1>1. /\ phase = "bimi" /\ part = "work" /\ r \in todo /\ todo' = todo \ {r}
      /\ UNCHANGED <<phase, part, columns, meta, stored, extras, policies, selectors, managed,
                     checks, removed>>
      /\ \/ /\ r \in Readable /\ hygiene' = hygiene \cup {r}
            /\ asserted' = [asserted EXCEPT ![r] = @ + AssertionsOf[r]]
         \/ r \notin Readable /\ UNCHANGED <<hygiene, asserted>>
  BY DEF BackfillBIMI
<1>2. asserted \in [Reports -> Nat] /\ asserted[r] = 0 /\ AssertionsOf[r] \in Nat
  BY <1>1, StartupAssumption DEF StartInv, StartTypeOK, BimiInv, Pending
<1>3. /\ asserted' \in [Reports -> Nat] /\ hygiene' \in SUBSET Reports /\ hygiene \subseteq hygiene'
      /\ \A u \in Reports : asserted'[u] = IF u = r /\ r \in Readable THEN AssertionsOf[r]
                                           ELSE asserted[u]
      /\ r \in Readable => r \in hygiene'
  BY <1>1, <1>2 DEF StartInv, StartTypeOK
<1>4. StartTypeOK'
  <2>1. todo' \in SUBSET Stored
    BY <1>1 DEF StartInv, StartTypeOK
  <2> QED
    BY <1>1, <1>3, <2>1 DEF StartInv, StartTypeOK
<1>5. /\ \A g \in {"xml", "tlsrpt"} : Pending(g)' = {} /\ Pending(g) = {}
      /\ \A g : Entered(g)' <=> Entered(g)
      /\ Pending("bimi")' = todo \ {r} /\ Pending("bimi") = todo
      /\ FlagsInOrder' /\ RecheckInv' /\ Docs' = Docs /\ \A k : Begins(k)' = Begins(k)
  BY <1>1 DEF Pending, Entered, FlagsInOrder, RecheckInv, StartInv, Docs, Begins
<1>6. BimiInv'
  <2>1. \A u \in Docs \cap Reports :
           /\ asserted'[u] # 0 => asserted'[u] = AssertionsOf[u] /\ u \in hygiene'
           /\ Entered("bimi") /\ u \notin todo \ {r} =>
                 asserted'[u] = AssertionsOf[u] /\ u \in hygiene'
    <3> SUFFICES ASSUME NEW u \in Docs \cap Reports
                 PROVE  /\ asserted'[u] # 0 => asserted'[u] = AssertionsOf[u] /\ u \in hygiene'
                        /\ Entered("bimi") /\ u \notin todo \ {r} =>
                              asserted'[u] = AssertionsOf[u] /\ u \in hygiene'
      OBVIOUS
    <3>1. CASE u = r
      BY <1>3, <3>1 DEF Docs
    <3>2. CASE u # r
      <4>1. /\ asserted[u] # 0 => asserted[u] = AssertionsOf[u] /\ u \in hygiene
            /\ Entered("bimi") /\ u \notin todo => asserted[u] = AssertionsOf[u] /\ u \in hygiene
        BY <1>5 DEF StartInv, BimiInv
      <4> QED
        BY <1>3, <3>2, <4>1
    <3> QED
      BY <3>1, <3>2
  <2>2. \A u \in todo \ {r} : u \in Reports /\ asserted'[u] = 0
    BY <1>3, <1>5 DEF StartInv, BimiInv
  <2> QED
    BY <1>5, <2>1, <2>2 DEF BimiInv
<1>7. XmlInv' /\ TlsInv'
  BY <1>1, <1>5 DEF StartInv, XmlInv, TlsInv
<1>8. SeedInv'
  BY <1>1 DEF StartInv, SeedInv
<1> QED
  BY <1>4, <1>5, <1>6, <1>7, <1>8 DEF StartInv

\* The serving process adds a report with everything it says.
LEMMA ImportReportInv == ASSUME StartInv, NEW r \in Reports, ImportReport(r) PROVE StartInv'
<1>1. /\ phase = "serving" /\ r \in Readable /\ r \notin stored
      /\ stored' = stored \cup {r} /\ extras' = extras \cup {r} /\ hygiene' = hygiene \cup {r}
      /\ asserted' = [asserted EXCEPT ![r] = AssertionsOf[r]]
      /\ selectors' = UpsertSelectors(selectors, r)
      /\ UNCHANGED <<phase, part, todo, columns, meta, policies, managed, checks, removed>>
  BY DEF ImportReport
<1>2. /\ \A g : Pending(g)' = {} /\ Pending(g) = {}
      /\ \A g : Entered(g)' <=> Entered(g)
      /\ FlagsInOrder' /\ RecheckInv' /\ SeedInv'
  BY <1>1, MarksAre DEF Pending, Entered, FlagsInOrder, RecheckInv, SeedInv, StartInv
<1>3. /\ asserted' \in [Reports -> Nat] /\ asserted'[r] = AssertionsOf[r]
      /\ \A u \in Reports : u # r => asserted'[u] = asserted[u]
  BY <1>1, StartupAssumption DEF StartInv, StartTypeOK
<1>4. /\ selectors' \in [Keys -> SelectorRow \cup {Absent}]
      /\ \A k \in Keys : RangeOver(selectors'[k], Begins(k)')
  BY <1>1, RangesWiden
<1>5. StartTypeOK'
  BY <1>1, <1>3, <1>4 DEF StartInv, StartTypeOK, Stored
<1>6. Docs' = Docs \cup {r} /\ r \notin TlsReports
  BY <1>1, StartupAssumption DEF Docs
<1>7. XmlInv'
  BY <1>1, <1>2, <1>4, <1>6 DEF StartInv, XmlInv
<1>8. TlsInv'
  BY <1>1, <1>2, <1>6 DEF StartInv, TlsInv
<1>9. BimiInv'
  BY <1>1, <1>2, <1>3, <1>6 DEF StartInv, BimiInv
<1> QED
  BY <1>2, <1>5, <1>7, <1>8, <1>9 DEF StartInv

LEMMA ImportTlsReportInv ==
    ASSUME StartInv, NEW t \in TlsReports, ImportTlsReport(t) PROVE StartInv'
<1>1. /\ phase = "serving" /\ t \in Readable /\ stored' = stored \cup {t}
      /\ policies' = [policies EXCEPT ![t] = PoliciesOf[t]]
      /\ UNCHANGED <<phase, part, todo, columns, meta, extras, hygiene, asserted, selectors,
                     managed, checks, removed>>
  BY DEF ImportTlsReport
<1>2. /\ \A g : Pending(g)' = {} /\ Pending(g) = {}
      /\ \A g : Entered(g)' <=> Entered(g)
      /\ FlagsInOrder' /\ RecheckInv' /\ SeedInv' /\ \A k : Begins(k)' = Begins(k)
  BY <1>1, MarksAre DEF Pending, Entered, FlagsInOrder, RecheckInv, SeedInv, StartInv, Begins
<1>3. /\ policies' \in [TlsReports -> Nat] /\ policies'[t] = PoliciesOf[t]
      /\ \A u \in TlsReports : u # t => policies'[u] = policies[u]
  BY <1>1, StartupAssumption DEF StartInv, StartTypeOK
<1>4. StartTypeOK'
  BY <1>1, <1>3 DEF StartInv, StartTypeOK, Stored
<1>5. Docs' = Docs \cup {t} /\ t \notin Reports
  BY <1>1, StartupAssumption DEF Docs
<1>6. XmlInv'
  BY <1>1, <1>2, <1>5 DEF StartInv, XmlInv
<1>7. TlsInv'
  BY <1>1, <1>2, <1>3, <1>5 DEF StartInv, TlsInv
<1>8. BimiInv'
  BY <1>1, <1>2, <1>5 DEF StartInv, BimiInv
<1> QED
  BY <1>2, <1>4, <1>6, <1>7, <1>8 DEF StartInv

\* The operator's pages and the refresher.
LEMMA OperatorInv ==
    ASSUME StartInv, phase = "serving",
           UNCHANGED <<phase, part, todo, columns, meta, stored, extras, hygiene, asserted, policies>>,
           selectors' \in [Keys -> SelectorRow \cup {Absent}],
           \A k \in Keys : selectors'[k] = selectors[k]
                           \/ (selectors[k] = Absent /\ selectors'[k] = [first |-> 0, last |-> 0]),
           managed' \in SUBSET Domains, removed' \in SUBSET Domains, removed' \cap managed' = {},
           checks' \in [Domains -> {"none", "blank", "due", "read"}],
           \A d \in Domains : checks'[d] \in {checks[d], "read"}
    PROVE  StartInv'
<1>1. StartTypeOK'
  BY DEF StartInv, StartTypeOK
<1>2. /\ \A g : Pending(g)' = Pending(g) /\ Entered(g)' = Entered(g)
      /\ Docs' = Docs /\ \A k : Begins(k)' = Begins(k)
      /\ FlagsInOrder' /\ RecheckInv' /\ SeedInv'
  BY DEF Pending, Entered, FlagsInOrder, RecheckInv, SeedInv, StartInv, Docs, Begins
<1>3. ASSUME NEW k \in Keys PROVE RangeOver(selectors'[k], Begins(k)')
  <2>1. RangeOver(selectors[k], Begins(k))
    BY DEF StartInv, XmlInv
  <2>2. selectors[k] = Absent => Begins(k) = {}
    BY <2>1, StartupAssumption DEF RangeOver, SelectorRow
  <2> QED
    BY <1>2, <2>1, <2>2 DEF RangeOver
<1>4. XmlInv'
  BY <1>2, <1>3 DEF StartInv, XmlInv
<1>5. TlsInv' /\ BimiInv'
  BY <1>2 DEF StartInv, TlsInv, BimiInv
<1> QED
  BY <1>1, <1>2, <1>4, <1>5 DEF StartInv

LEMMA ServeInv == ASSUME StartInv, ServeStep PROVE StartInv'
<1>1. ASSUME NEW r \in Reports, ImportReport(r) PROVE StartInv'
  BY <1>1, ImportReportInv
<1>2. ASSUME NEW t \in TlsReports, ImportTlsReport(t) PROVE StartInv'
  BY <1>2, ImportTlsReportInv
<1>3. ASSUME NEW k \in Keys, SetSelectorExpected(k) PROVE StartInv'
  <2>1. [first |-> 0, last |-> 0] \in SelectorRow
    BY DEF SelectorRow
  <2>2. /\ selectors' \in [Keys -> SelectorRow \cup {Absent}]
        /\ \A x \in Keys : selectors'[x] = selectors[x]
                           \/ (selectors[x] = Absent /\ selectors'[x] = [first |-> 0, last |-> 0])
    BY <1>3, <2>1 DEF SetSelectorExpected, StartInv, StartTypeOK
  <2> QED
    BY <1>3, <2>2, OperatorInv DEF SetSelectorExpected, StartInv, StartTypeOK, SeedInv
<1>4. ASSUME NEW d \in Domains, AddManagedDomain(d) PROVE StartInv'
  BY <1>4, OperatorInv DEF AddManagedDomain, StartInv, StartTypeOK, SeedInv
<1>5. ASSUME NEW d \in Domains, RemoveManagedDomain(d) PROVE StartInv'
  BY <1>5, OperatorInv DEF RemoveManagedDomain, StartInv, StartTypeOK, SeedInv
<1>6. ASSUME NEW d \in Domains, UpsertDomainCheck(d) PROVE StartInv'
  BY <1>6, OperatorInv DEF UpsertDomainCheck, StartInv, StartTypeOK, SeedInv
<1> QED
  BY <1>1, <1>2, <1>3, <1>4, <1>5, <1>6 DEF ServeStep

-----------------------------------------------------------------------------
(* The throttle                                                             *)

\* The requests whose password is being checked for a client.
InAuth(c) == {q \in Requests : req[q].pc = "auth" /\ req[q].ip = c}

Throttled ==
    \A c \in Clients :
        hits[c] # NoHits =>
            hits[c].count + Cardinality(InAuth(c)) <= AuthFailMax - 1 + Cardinality(Requests)

ThrottleInv == ThrottleTypeOK /\ Throttled

HitRow == [count : Nat, first : Times]

LEMMA AuthSizes ==
    /\ Cardinality(Requests) \in Nat
    /\ \A c : /\ IsFiniteSet(InAuth(c)) /\ Cardinality(InAuth(c)) \in Nat
              /\ Cardinality(InAuth(c)) <= Cardinality(Requests)
<1>1. \A c : InAuth(c) \in SUBSET Requests
  BY DEF InAuth
<1> QED
  BY <1>1, ThrottleAssumption, FS_Subset, FS_CardinalityType

LEMMA TimesNat == Times \subseteq Nat /\ 0 \in Times /\ NoHits \notin HitRow
BY ThrottleAssumption DEF Times, HitRow

LEMMA TimesInt == \A t \in Times : t \in Int
BY ThrottleAssumption DEF Times

LEMMA ThrottleInitInv ==
    ASSUME now = 0, hits = [c \in Clients |-> NoHits], req = [q \in Requests |-> NoRequest],
           failed = [c \in Clients |-> <<>>]
    PROVE  ThrottleInv
BY TimesNat DEF ThrottleInv, ThrottleTypeOK, Throttled, NoRequest

\* A request enters: the count it saw was below the maximum.
LEMMA AdmitInv ==
    ASSUME ThrottleInv, NEW q \in Requests, NEW c \in Clients, Admit(q, c)
    PROVE  ThrottleInv'
<1>1. PICK h : h = IF Expired(hits[c], now) THEN NoHits ELSE hits[c]
  OBVIOUS
<1>2. PICK pc : pc = IF h # NoHits /\ h.count >= AuthFailMax THEN "blocked" ELSE "auth"
  OBVIOUS
<1>3. /\ req[q].pc = "none" /\ hits' = [hits EXCEPT ![c] = h]
      /\ req' = [req EXCEPT ![q] = [pc |-> pc, ip |-> c, at |-> now]]
      /\ UNCHANGED <<now, failed>>
  BY <1>1, <1>2 DEF Admit
<1>4. hits \in [Clients -> HitRow \cup {NoHits}] /\ h \in HitRow \cup {NoHits}
      /\ h \in {hits[c], NoHits}
  BY <1>1 DEF ThrottleInv, ThrottleTypeOK, HitRow
<1>5. ThrottleTypeOK'
  <2>1. [pc |-> pc, ip |-> c, at |-> now]
           \in [pc : {"none", "auth", "blocked"}, ip : Clients \cup {NoHits}, at : Times]
    BY <1>2 DEF ThrottleInv, ThrottleTypeOK
  <2> QED
    BY <1>3, <1>4, <2>1 DEF ThrottleInv, ThrottleTypeOK, HitRow
<1>6. req'[q] = [pc |-> pc, ip |-> c, at |-> now] /\ \A x \in Requests : x # q => req'[x] = req[x]
  BY <1>3 DEF ThrottleInv, ThrottleTypeOK
<1>7. ASSUME NEW d \in Clients, hits'[d] # NoHits
      PROVE  hits'[d].count + Cardinality(InAuth(d)') <= AuthFailMax - 1 + Cardinality(Requests)
  <2>1. CASE d = c /\ pc = "auth"
    <3>1. hits'[d] = h /\ h \in HitRow /\ h.count \in Nat /\ h.count < AuthFailMax
      BY <1>2, <1>3, <1>4, <1>7, <2>1, ThrottleAssumption DEF HitRow
    <3>2. InAuth(d)' \in SUBSET Requests
      BY DEF InAuth
    <3>3. Cardinality(InAuth(d)') \in Nat /\ Cardinality(InAuth(d)') <= Cardinality(Requests)
      BY <3>2, ThrottleAssumption, FS_Subset, FS_CardinalityType
    <3> QED
      BY <3>1, <3>3, AuthSizes, ThrottleAssumption
  <2>2. CASE ~(d = c /\ pc = "auth")
    <3>1. InAuth(d)' = InAuth(d)
      BY <1>3, <1>6, <2>2 DEF InAuth
    <3>2. hits'[d] = hits[d]
      BY <1>3, <1>4, <1>7
    <3> QED
      BY <1>7, <3>1, <3>2 DEF ThrottleInv, Throttled
  <2> QED
    BY <2>1, <2>2
<1> QED
  BY <1>5, <1>7 DEF ThrottleInv, Throttled

\* One request less in the check, one failure more in the count.
LEMMA LoginFailsInv == ASSUME ThrottleInv, NEW q \in Requests, LoginFails(q) PROVE ThrottleInv'
<1>1. PICK c : c = req[q].ip
  OBVIOUS
<1>2. PICK h : h = Counted(hits[c], req[q].at)
  OBVIOUS
<1>3. /\ req[q].pc = "auth" /\ hits' = [hits EXCEPT ![c] = h]
      /\ failed' = [failed EXCEPT ![c] = Append(failed[c], now)]
      /\ req' = [req EXCEPT ![q] = NoRequest] /\ UNCHANGED now
  BY <1>1, <1>2 DEF LoginFails
<1>4. /\ req[q].ip \in Clients \cup {NoHits} /\ req[q].at \in Times
      /\ hits \in [Clients -> HitRow \cup {NoHits}]
      /\ failed \in [Clients -> Seq(Times)] /\ now \in Times
      /\ req \in [Requests -> [pc : {"none", "auth", "blocked"}, ip : Clients \cup {NoHits},
                               at : Times]]
  BY DEF ThrottleInv, ThrottleTypeOK, HitRow
<1>5. c \in Clients => /\ h \in HitRow /\ h.count \in Nat
                       /\ h.count = 1 \/ (hits[c] \in HitRow /\ h.count = hits[c].count + 1)
  <2> SUFFICES ASSUME c \in Clients
               PROVE  /\ h \in HitRow /\ h.count \in Nat
                      /\ h.count = 1 \/ (hits[c] \in HitRow /\ h.count = hits[c].count + 1)
    OBVIOUS
  <2>1. CASE hits[c] = NoHits \/ Expired(hits[c], req[q].at)
    BY <1>1, <1>2, <1>4, <2>1 DEF Counted, HitRow
  <2>2. CASE ~(hits[c] = NoHits \/ Expired(hits[c], req[q].at))
    <3>1. hits[c] \in HitRow /\ h = [hits[c] EXCEPT !.count = hits[c].count + 1]
      BY <1>2, <1>4, <2>2 DEF Counted
    <3> QED
      BY <3>1 DEF HitRow
  <2> QED
    BY <2>1, <2>2
<1>6. ThrottleTypeOK'
  <2>1. NoRequest \in [pc : {"none", "auth", "blocked"}, ip : Clients \cup {NoHits}, at : Times]
    BY TimesNat DEF NoRequest
  <2>2. req' \in [Requests -> [pc : {"none", "auth", "blocked"}, ip : Clients \cup {NoHits},
                               at : Times]]
    BY <1>3, <1>4, <2>1
  <2>3. hits' \in [Clients -> HitRow \cup {NoHits}]
    BY <1>3, <1>4, <1>5
  <2>4. failed' \in [Clients -> Seq(Times)]
    <3>1. c \in Clients => Append(failed[c], now) \in Seq(Times)
      BY <1>4
    <3> QED
      BY <1>3, <1>4, <3>1
  <2> QED
    BY <1>3, <1>4, <2>2, <2>3, <2>4 DEF ThrottleTypeOK, HitRow
<1>7. req'[q] = NoRequest /\ \A x \in Requests : x # q => req'[x] = req[x]
  BY <1>3, <1>4
<1>8. \A d : InAuth(d)' = InAuth(d) \ {q}
  BY <1>7 DEF InAuth, NoRequest
<1>9. ASSUME NEW d \in Clients, hits'[d] # NoHits
      PROVE  hits'[d].count + Cardinality(InAuth(d)') <= AuthFailMax - 1 + Cardinality(Requests)
  <2>1. /\ Cardinality(InAuth(d)') = IF q \in InAuth(d) THEN Cardinality(InAuth(d)) - 1
                                     ELSE Cardinality(InAuth(d))
        /\ Cardinality(InAuth(d)) \in Nat /\ Cardinality(InAuth(d)) <= Cardinality(Requests)
        /\ Cardinality(Requests) \in Nat
    BY <1>8, AuthSizes, FS_RemoveElement
  <2>2. CASE d = c
    <3>1. q \in InAuth(d) /\ hits'[d] = h /\ NoHits \notin HitRow
      BY <1>1, <1>3, <1>4, <2>2, TimesNat DEF InAuth
    <3>2. hits[c] \in HitRow =>
             /\ hits[c].count \in Nat
             /\ hits[c].count + Cardinality(InAuth(d)) <= AuthFailMax - 1 + Cardinality(Requests)
      BY <2>2, <3>1 DEF ThrottleInv, Throttled, HitRow
    <3> QED
      BY <1>5, <2>1, <2>2, <3>1, <3>2, ThrottleAssumption
  <2>3. CASE d # c
    <3>1. hits'[d] = hits[d]
      BY <1>3, <1>4, <2>3
    <3>2. hits[d] \in HitRow /\ hits[d].count \in Nat
      BY <1>4, <1>9, <3>1 DEF HitRow
    <3>3. hits[d].count + Cardinality(InAuth(d)) <= AuthFailMax - 1 + Cardinality(Requests)
      BY <1>9, <3>1 DEF ThrottleInv, Throttled
    <3> QED
      BY <2>1, <3>1, <3>2, <3>3, ThrottleAssumption
  <2> QED
    BY <2>2, <2>3
<1> QED
  BY <1>6, <1>9 DEF ThrottleInv, Throttled

LEMMA RespondInv == ASSUME ThrottleInv, NEW q \in Requests, Respond(q) PROVE ThrottleInv'
<1>1. req' = [req EXCEPT ![q] = NoRequest] /\ UNCHANGED <<now, hits, failed>>
  BY DEF Respond
<1>2. ThrottleTypeOK'
  BY <1>1, TimesNat DEF ThrottleInv, ThrottleTypeOK, NoRequest
<1>3. \A d : InAuth(d)' \in SUBSET InAuth(d)
  BY <1>1 DEF InAuth, NoRequest, ThrottleInv, ThrottleTypeOK
<1>4. \A d : /\ Cardinality(InAuth(d)') \in Nat
             /\ Cardinality(InAuth(d)') <= Cardinality(InAuth(d))
  BY <1>3, AuthSizes, FS_Subset, FS_CardinalityType
<1>5. ASSUME NEW d \in Clients, hits'[d] # NoHits
      PROVE  hits'[d].count + Cardinality(InAuth(d)') <= AuthFailMax - 1 + Cardinality(Requests)
  <2>1. hits'[d] = hits[d] /\ hits[d] \in HitRow /\ hits[d].count \in Nat
    BY <1>1, <1>5 DEF ThrottleInv, ThrottleTypeOK, HitRow
  <2>2. hits[d].count + Cardinality(InAuth(d)) <= AuthFailMax - 1 + Cardinality(Requests)
    BY <1>5, <2>1 DEF ThrottleInv, Throttled
  <2> QED
    BY <1>4, <2>1, <2>2, AuthSizes, ThrottleAssumption
<1> QED
  BY <1>2, <1>5 DEF ThrottleInv, Throttled

\* A sweep and the passing of time let nobody in.
LEMMA SweepInv == ASSUME ThrottleInv, Sweep PROVE ThrottleInv'
<1>1. /\ hits' = [c \in Clients |-> IF Expired(hits[c], now) THEN NoHits ELSE hits[c]]
      /\ UNCHANGED <<now, req, failed>>
  BY DEF Sweep
<1>2. \A d : InAuth(d)' = InAuth(d)
  BY <1>1 DEF InAuth
<1>3. \A d \in Clients : hits'[d] \in {NoHits, hits[d]}
  BY <1>1
<1>4. ThrottleTypeOK'
  BY <1>1, <1>3 DEF ThrottleInv, ThrottleTypeOK
<1> QED
  BY <1>2, <1>3, <1>4 DEF ThrottleInv, Throttled

LEMMA ThrottleTickInv == ASSUME ThrottleInv, Tick PROVE ThrottleInv'
<1>1. now' = now + 1 /\ now < MaxTime /\ UNCHANGED <<hits, req, failed>>
  BY DEF Tick
<1>2. now' \in Times
  BY <1>1, ThrottleAssumption DEF ThrottleInv, ThrottleTypeOK, Times
<1>3. \A d : InAuth(d)' = InAuth(d)
  BY <1>1 DEF InAuth
<1> QED
  BY <1>1, <1>2, <1>3 DEF ThrottleInv, ThrottleTypeOK, Throttled

LEMMA ThrottleStepInv == ASSUME ThrottleInv, ThrottleStep PROVE ThrottleInv'
BY AdmitInv, LoginFailsInv, RespondInv, SweepInv, ThrottleTickInv DEF ThrottleStep

LEMMA ThrottleKept == ASSUME ThrottleInv, UNCHANGED throttleVars PROVE ThrottleInv'
<1>1. \A d : InAuth(d)' = InAuth(d)
  BY DEF InAuth, throttleVars
<1> QED
  BY <1>1 DEF ThrottleInv, ThrottleTypeOK, Throttled, throttleVars

-----------------------------------------------------------------------------
(* Who is turned away                                                       *)

\* Failures of a client recorded from a time on.
FailedSince(c, t) == Cardinality({i \in DOMAIN failed[c] : failed[c][i] >= t})

\* The entry of an address counts no more failures than were recorded since it
\* was opened, none of them after now, and a request that is turned away was met by
\* such an entry.
Deserved ==
    /\ \A c \in Clients : \A i \in DOMAIN failed[c] : failed[c][i] <= now
    /\ \A c \in Clients :
           hits[c] # NoHits => /\ hits[c].first <= now
                               /\ FailedSince(c, hits[c].first) >= hits[c].count
    /\ \A q \in Requests : req[q].pc # "none" => req[q].ip \in Clients /\ req[q].at <= now
    /\ BlockedDeservedly

\* The places of a sequence of times that are not before t.
From(s, t) == {i \in DOMAIN s : s[i] >= t}

\* The places of those from t to u; a time at which these failures deserve a block.
Within(s, t, u) == {i \in DOMAIN s : s[i] \in t .. u}
Earned(s, at) ==
    \E i \in DOMAIN s : /\ s[i] \in at - Window .. at
                        /\ Cardinality(Within(s, s[i] - Window, s[i])) >= AuthFailMax

LEMMA BlockedIsEarned ==
    BlockedDeservedly <=> \A q \in Requests : req[q].pc = "blocked" =>
                              Earned(failed[req[q].ip], req[q].at)
BY DEF BlockedDeservedly, Earned, Within, FailedIn

\* The failures within the window before a time lie within the window before the last.
LEMMA EarnedByLast ==
    ASSUME NEW s \in Seq(Times), NEW at \in Int, \A i \in DOMAIN s : s[i] <= at,
           Cardinality(From(s, at - Window)) >= AuthFailMax
    PROVE  Earned(s, at)
<1>1. /\ \A i \in DOMAIN s : s[i] \in Int
      /\ IsFiniteSet(DOMAIN s) /\ Window \in Nat /\ AuthFailMax \in Nat /\ AuthFailMax > 0
  <2>1. \A i \in DOMAIN s : s[i] \in Times
    OBVIOUS
  <2>2. \A i \in DOMAIN s : s[i] \in Int
    BY <2>1, TimesInt
  <2>3. DOMAIN s = 1 .. Len(s) /\ Len(s) \in Int
    OBVIOUS
  <2>4. IsFiniteSet(DOMAIN s)
    BY <2>3, FS_Interval
  <2>5. Window \in Nat /\ AuthFailMax \in Nat /\ AuthFailMax > 0
    BY ThrottleAssumption
  <2> QED
    BY <2>2, <2>4, <2>5
<1>2. PICK k \in From(s, at - Window) : TRUE
  <2>1. From(s, at - Window) # {}
    BY <1>1, FS_EmptySet
  <2> QED
    BY <2>1
<1>3. k \in DOMAIN s /\ s[k] >= at - Window
  BY <1>2 DEF From
<1>4. PICK i \in DOMAIN s : \A j \in DOMAIN s : s[j] <= s[i]
  <2> DEFINE V == {s[j] : j \in DOMAIN s}
  <2>1. V \in SUBSET Times /\ V # {}
    BY <1>3
  <2>2. IsFiniteSet(Times) /\ Times \subseteq Nat
    BY FS_Interval, TimesNat, ThrottleAssumption DEF Times
  <2>3. V \in SUBSET Nat /\ IsFiniteSet(V)
    BY <2>1, <2>2, FS_Subset
  <2> HIDE DEF V
  <2>4. PICK x \in V : \A y \in V : y <= x
    BY <2>1, <2>3, GreatestExists
  <2> QED
    BY <2>4 DEF V
<1>5. s[i] \in Int /\ s[k] \in Int /\ s[k] <= s[i] /\ s[i] <= at
  BY <1>1, <1>3, <1>4
<1>6. From(s, at - Window) \subseteq Within(s, s[i] - Window, s[i])
  <2> SUFFICES ASSUME NEW j \in DOMAIN s, s[j] >= at - Window
               PROVE  s[j] \in s[i] - Window .. s[i]
    BY DEF From, Within
  <2>1. s[j] \in Int /\ s[j] <= s[i]
    BY <1>1, <1>4
  <2> QED
    BY <1>1, <1>5, <2>1
<1>7. IsFiniteSet(Within(s, s[i] - Window, s[i]))
  BY <1>1, FS_Subset DEF Within
<1>8. Cardinality(Within(s, s[i] - Window, s[i])) >= AuthFailMax
  <2>1. /\ Cardinality(From(s, at - Window)) <= Cardinality(Within(s, s[i] - Window, s[i]))
        /\ IsFiniteSet(From(s, at - Window))
    BY <1>6, <1>7, FS_Subset
  <2>2. /\ Cardinality(From(s, at - Window)) \in Nat
        /\ Cardinality(Within(s, s[i] - Window, s[i])) \in Nat
    BY <1>7, <2>1, FS_CardinalityType
  <2> QED
    BY <1>1, <2>1, <2>2
<1>9. s[i] \in at - Window .. at
  BY <1>1, <1>3, <1>5
<1> QED
  BY <1>8, <1>9 DEF Earned

\* What was earned stays so when one more failure is recorded.
LEMMA EarnedStays ==
    ASSUME NEW s \in Seq(Times), NEW x \in Times, NEW at, Earned(s, at)
    PROVE  Earned(Append(s, x), at)
<1> DEFINE r == Append(s, x)
<1>1. /\ DOMAIN r = DOMAIN s \cup {Len(s) + 1}
      /\ \A j \in DOMAIN s : r[j] = s[j]
      /\ DOMAIN r = 1 .. Len(s) + 1 /\ Len(s) + 1 \in Int
  OBVIOUS
<1> HIDE DEF r
<1>2. PICK i \in DOMAIN s : /\ s[i] \in at - Window .. at
                            /\ Cardinality(Within(s, s[i] - Window, s[i])) >= AuthFailMax
  BY DEF Earned
<1>3. i \in DOMAIN r /\ r[i] = s[i]
  BY <1>1, <1>2
<1>4. Within(s, s[i] - Window, s[i]) \subseteq Within(r, r[i] - Window, r[i])
  BY <1>1, <1>3 DEF Within
<1>5. IsFiniteSet(Within(r, r[i] - Window, r[i]))
  <2>1. IsFiniteSet(DOMAIN r)
    BY <1>1, FS_Interval
  <2> QED
    BY <2>1, FS_Subset DEF Within
<1>6. /\ Cardinality(Within(s, s[i] - Window, s[i])) <= Cardinality(Within(r, r[i] - Window, r[i]))
      /\ IsFiniteSet(Within(s, s[i] - Window, s[i]))
  BY <1>4, <1>5, FS_Subset
<1>7. /\ Cardinality(Within(s, s[i] - Window, s[i])) \in Nat
      /\ Cardinality(Within(r, r[i] - Window, r[i])) \in Nat
  BY <1>5, <1>6, FS_CardinalityType
<1>8. Cardinality(Within(r, r[i] - Window, r[i])) >= AuthFailMax
  BY <1>2, <1>6, <1>7, ThrottleAssumption
<1> QED
  BY <1>2, <1>3, <1>8 DEF Earned, r

\* Fewer failures lie after a later time.
LEMMA FromShrinks ==
    ASSUME NEW s \in Seq(Times), NEW t \in Int, NEW u \in Int, u <= t
    PROVE  /\ IsFiniteSet(From(s, t))
           /\ Cardinality(From(s, t)) \in Nat /\ Cardinality(From(s, u)) \in Nat
           /\ Cardinality(From(s, t)) <= Cardinality(From(s, u))
<1>1. IsFiniteSet(1 .. Len(s))
  BY FS_Interval
<1>2. From(s, u) \in SUBSET (1 .. Len(s))
  BY DEF From
<1>3. From(s, t) \in SUBSET From(s, u)
  <2>1. \A i \in DOMAIN s : s[i] \in Times
    OBVIOUS
  <2>2. Times \subseteq Int
    BY TimesNat
  <2>3. ASSUME NEW i \in DOMAIN s, s[i] >= t PROVE s[i] >= u
    <3>1. s[i] \in Int
      BY <2>1, <2>2
    <3> QED
      BY <2>3, <3>1
  <2> QED
    BY <2>3 DEF From
<1>4. IsFiniteSet(From(s, u))
  BY <1>1, <1>2, FS_Subset
<1> QED
  BY <1>3, <1>4, FS_Subset, FS_CardinalityType

\* One more failure adds one place to those since any time up to it.
LEMMA FromGrows ==
    ASSUME NEW s \in Seq(Times), NEW x \in Times, NEW t \in Int
    PROVE  /\ Cardinality(From(s, t)) \in Nat
           /\ Cardinality(From(Append(s, x), t)) =
                  Cardinality(From(s, t)) + (IF x >= t THEN 1 ELSE 0)
<1>1. IsFiniteSet(From(s, t)) /\ Cardinality(From(s, t)) \in Nat
  BY FromShrinks
<1>2. /\ DOMAIN Append(s, x) = DOMAIN s \cup {Len(s) + 1} /\ Len(s) + 1 \notin DOMAIN s
      /\ Append(s, x)[Len(s) + 1] = x /\ \A i \in DOMAIN s : Append(s, x)[i] = s[i]
  OBVIOUS
<1>3. CASE x >= t
  <2>1. From(Append(s, x), t) = From(s, t) \cup {Len(s) + 1} /\ Len(s) + 1 \notin From(s, t)
    BY <1>2, <1>3 DEF From
  <2> QED
    BY <1>1, <1>3, <2>1, FS_AddElement
<1>4. CASE ~(x >= t)
  <2>1. From(Append(s, x), t) = From(s, t)
    BY <1>2, <1>4 DEF From
  <2> QED
    BY <1>1, <1>4, <2>1
<1> QED
  BY <1>3, <1>4

\* What the types give at a client and at a request.
LEMMA ThrottleTypes ==
    ASSUME ThrottleInv
    PROVE  /\ now \in Int /\ now \in Times /\ Window \in Nat /\ AuthFailMax \in Nat
           /\ hits \in [Clients -> HitRow \cup {NoHits}] /\ failed \in [Clients -> Seq(Times)]
           /\ \A c \in Clients : hits[c] # NoHits => /\ hits[c] \in HitRow /\ hits[c].first \in Int
                                                     /\ hits[c].count \in Nat
           /\ \A q \in Requests : req[q].at \in Int /\ req[q].at \in Times
           /\ \A q \in Requests : req[q].ip \in Clients \cup {NoHits}
           /\ req \in [Requests -> [pc : {"none", "auth", "blocked"}, ip : Clients \cup {NoHits},
                                    at : Times]]
           /\ \A c, t : FailedSince(c, t) = Cardinality(From(failed[c], t))
<1>1. /\ now \in Times
      /\ hits \in [Clients -> HitRow \cup {NoHits}] /\ failed \in [Clients -> Seq(Times)]
      /\ req \in [Requests -> [pc : {"none", "auth", "blocked"}, ip : Clients \cup {NoHits},
                               at : Times]]
  BY DEF ThrottleInv, ThrottleTypeOK, HitRow
<1>2. Times \subseteq Int
  BY TimesNat
<1>3. \A c, t : FailedSince(c, t) = Cardinality(From(failed[c], t))
  BY DEF FailedSince, From
<1> QED
  BY <1>1, <1>2, <1>3, ThrottleAssumption DEF HitRow

LEMMA DeservedInit ==
    ASSUME hits = [c \in Clients |-> NoHits], req = [q \in Requests |-> NoRequest],
           failed = [c \in Clients |-> <<>>]
    PROVE  Deserved
BY DEF Deserved, NoRequest, BlockedDeservedly

\* A step that records no failure and opens no entry for an address keeps what its
\* entry counts.
LEMMA HitsKept ==
    ASSUME ThrottleInv, Deserved, failed' = failed, now <= now', now' \in Int,
           \A c \in Clients : hits'[c] \in {hits[c], NoHits}
    PROVE  \A c \in Clients :
               hits'[c] # NoHits => /\ hits'[c].first <= now'
                                    /\ FailedSince(c, hits[c].first)' >= hits'[c].count
<1>1. \A c \in Clients : hits'[c] # NoHits => hits'[c] = hits[c]
  OBVIOUS
<1>2. \A c \in Clients : hits[c] # NoHits =>
         /\ hits[c].first <= now /\ FailedSince(c, hits[c].first) >= hits[c].count
         /\ hits[c].first \in Int
  BY ThrottleTypes DEF Deserved
<1>3. \A c \in Clients : hits'[c] # NoHits =>
         FailedSince(c, hits[c].first)' = FailedSince(c, hits[c].first)
  BY <1>1 DEF FailedSince
<1> QED
  BY <1>1, <1>2, <1>3, ThrottleTypes

\* A request is turned away by an entry that is not older than the window and
\* counts the maximum: so many failures were recorded within the window before it, so
\* within the one before the last of them.
LEMMA AdmitDeserved ==
    ASSUME ThrottleInv, Deserved, NEW q \in Requests, NEW c \in Clients, Admit(q, c)
    PROVE  Deserved'
<1>1. PICK h : h = IF Expired(hits[c], now) THEN NoHits ELSE hits[c]
  OBVIOUS
<1>2. PICK pc : pc = IF h # NoHits /\ h.count >= AuthFailMax THEN "blocked" ELSE "auth"
  OBVIOUS
<1>3. /\ hits' = [hits EXCEPT ![c] = h]
      /\ req' = [req EXCEPT ![q] = [pc |-> pc, ip |-> c, at |-> now]]
      /\ now' = now /\ failed' = failed
  BY <1>1, <1>2 DEF Admit
<1>4. \A d \in Clients : hits'[d] \in {hits[d], NoHits}
  BY <1>1, <1>3, ThrottleTypes
<1>5. req'[q] = [pc |-> pc, ip |-> c, at |-> now] /\ \A x \in Requests : x # q => req'[x] = req[x]
  BY <1>3, ThrottleTypes
<1>6. \A x \in Requests : req'[x].pc # "none" => req'[x].ip \in Clients /\ req'[x].at <= now'
  BY <1>3, <1>5, ThrottleTypes DEF Deserved
<1>7. pc = "blocked" => FailedSince(c, now - Window) >= AuthFailMax
  <2> SUFFICES ASSUME pc = "blocked" PROVE FailedSince(c, now - Window) >= AuthFailMax
    OBVIOUS
  <2>1. h # NoHits /\ h.count >= AuthFailMax /\ h = hits[c] /\ ~Expired(hits[c], now)
    BY <1>1, <1>2
  <2>2. /\ hits[c].first \in Int /\ hits[c].count \in Nat
        /\ now - hits[c].first <= Window /\ FailedSince(c, hits[c].first) >= hits[c].count
    BY <2>1, ThrottleTypes DEF Expired, Deserved
  <2>3. now - Window <= hits[c].first /\ now - Window \in Int
    BY <2>2, ThrottleTypes
  <2>4. /\ FailedSince(c, hits[c].first) <= FailedSince(c, now - Window)
        /\ FailedSince(c, hits[c].first) \in Nat /\ FailedSince(c, now - Window) \in Nat
    BY <2>2, <2>3, ThrottleTypes, FromShrinks
  <2> QED
    BY <2>1, <2>2, <2>4, ThrottleTypes
<1>8. BlockedDeservedly'
  <2>1. \A x \in Requests : req[x].pc = "blocked" => Earned(failed[req[x].ip], req[x].at)
    BY BlockedIsEarned DEF Deserved
  <2>2. ASSUME NEW x \in Requests, req'[x].pc = "blocked"
        PROVE  Earned(failed[req'[x].ip], req'[x].at)
    <3>1. CASE x = q
      <4>1. pc = "blocked" /\ req'[x].ip = c /\ req'[x].at = now
        BY <1>5, <2>2, <3>1
      <4>2. Cardinality(From(failed[c], now - Window)) >= AuthFailMax
        BY <1>7, <4>1, ThrottleTypes
      <4>3. failed[c] \in Seq(Times) /\ now \in Int /\ \A i \in DOMAIN failed[c] : failed[c][i] <= now
        BY ThrottleTypes DEF Deserved
      <4> QED
        BY <4>1, <4>2, <4>3, EarnedByLast
    <3>2. CASE x # q
      BY <1>5, <2>1, <2>2, <3>2
    <3> QED
      BY <3>1, <3>2
  <2>3. \A x \in Requests : req'[x].pc = "blocked" => Earned(failed'[req'[x].ip], req'[x].at)
    BY <1>3, <2>2
  <2> QED
    BY <2>3 DEF BlockedDeservedly, FailedIn, Earned, Within
<1> QED
  BY <1>3, <1>4, <1>6, <1>8, HitsKept, ThrottleTypes DEF Deserved

\* The failure that is counted is recorded now, which is not before the entry.
LEMMA LoginFailsDeserved ==
    ASSUME ThrottleInv, Deserved, NEW q \in Requests, LoginFails(q)
    PROVE  Deserved'
<1>1. PICK c : c = req[q].ip
  OBVIOUS
<1>2. PICK h : h = Counted(hits[c], req[q].at)
  OBVIOUS
<1>3. /\ req[q].pc = "auth" /\ hits' = [hits EXCEPT ![c] = h]
      /\ failed' = [failed EXCEPT ![c] = Append(failed[c], now)]
      /\ req' = [req EXCEPT ![q] = NoRequest] /\ now' = now
  BY <1>1, <1>2 DEF LoginFails
<1>4. c \in Clients /\ req[q].at <= now /\ req[q].at \in Int
  BY <1>1, <1>3, ThrottleTypes DEF Deserved
<1>5. /\ failed'[c] = Append(failed[c], now) /\ hits'[c] = h
      /\ \A d \in Clients : d # c => failed'[d] = failed[d] /\ hits'[d] = hits[d]
      /\ req'[q] = NoRequest /\ \A x \in Requests : x # q => req'[x] = req[x]
  BY <1>3, <1>4, ThrottleTypes
<1>6. /\ \A d \in Clients : failed[d] \in Seq(Times)
      /\ \A d, t : FailedSince(d, t) = Cardinality(From(failed[d], t))
  BY ThrottleTypes
<1>7. ASSUME NEW d \in Clients, NEW t \in Int
      PROVE  /\ FailedSince(d, t) \in Nat /\ Cardinality(From(failed'[d], t)) \in Nat
             /\ Cardinality(From(failed'[d], t)) >= FailedSince(d, t)
             /\ d = c /\ t <= now =>
                    Cardinality(From(failed'[d], t)) = FailedSince(d, t) + 1
  <2>1. CASE d = c
    <3>1. /\ Cardinality(From(failed[c], t)) \in Nat
          /\ Cardinality(From(Append(failed[c], now), t)) =
                 Cardinality(From(failed[c], t)) + (IF now >= t THEN 1 ELSE 0)
      BY <1>4, <1>6, FromGrows, ThrottleTypes
    <3>2. /\ FailedSince(d, t) = Cardinality(From(failed[c], t))
          /\ Cardinality(From(failed'[d], t)) = Cardinality(From(Append(failed[c], now), t))
      BY <1>5, <1>6, <2>1
    <3>3. (t <= now) <=> (now >= t)
      BY ThrottleTypes
    <3> QED
      BY <3>1, <3>2, <3>3
  <2>2. CASE d # c
    <3>1. Cardinality(From(failed[d], t)) \in Nat
      BY <1>6, FromShrinks
    <3> QED
      BY <1>5, <1>6, <2>2, <3>1
  <2> QED
    BY <2>1, <2>2
<1>8. ASSUME NEW d \in Clients, hits'[d] # NoHits
      PROVE  hits'[d].first <= now' /\ FailedSince(d, hits[d].first)' >= hits'[d].count
  <2>1. FailedSince(d, hits[d].first)' = Cardinality(From(failed'[d], hits'[d].first))
    BY DEF FailedSince, From
  <2>2. CASE d = c /\ (hits[c] = NoHits \/ Expired(hits[c], req[q].at))
    <3>1. hits'[d].count = 1 /\ hits'[d].first = req[q].at
      BY <1>2, <1>5, <2>2 DEF Counted
    <3>2. /\ Cardinality(From(failed'[d], req[q].at)) = FailedSince(d, req[q].at) + 1
          /\ FailedSince(d, req[q].at) \in Nat
      BY <1>4, <1>7, <2>2
    <3> QED
      BY <1>3, <1>4, <2>1, <3>1, <3>2
  <2>3. CASE d = c /\ ~(hits[c] = NoHits \/ Expired(hits[c], req[q].at))
    <3>1. hits[c] \in HitRow /\ h = [hits[c] EXCEPT !.count = hits[c].count + 1]
      BY <1>2, <1>4, <2>3, ThrottleTypes DEF Counted
    <3>2. hits'[d].count = hits[c].count + 1 /\ hits'[d].first = hits[c].first
      BY <1>5, <2>3, <3>1 DEF HitRow
    <3>3. /\ hits[c].first <= now /\ FailedSince(c, hits[c].first) >= hits[c].count
          /\ hits[c].first \in Int /\ hits[c].count \in Nat
      BY <1>4, <2>3, ThrottleTypes DEF Deserved
    <3>4. /\ Cardinality(From(failed'[c], hits[c].first)) = FailedSince(c, hits[c].first) + 1
          /\ FailedSince(c, hits[c].first) \in Nat
      BY <1>4, <1>7, <3>3
    <3> QED
      BY <1>3, <2>1, <2>3, <3>2, <3>3, <3>4
  <2>4. CASE d # c
    <3>1. /\ hits'[d] = hits[d] /\ hits[d].first <= now /\ hits[d].first \in Int
          /\ FailedSince(d, hits[d].first) >= hits[d].count /\ hits[d].count \in Nat
      BY <1>5, <1>8, <2>4, ThrottleTypes DEF Deserved
    <3>2. /\ Cardinality(From(failed'[d], hits[d].first)) >= FailedSince(d, hits[d].first)
          /\ Cardinality(From(failed'[d], hits[d].first)) \in Nat
          /\ FailedSince(d, hits[d].first) \in Nat
      BY <1>7, <3>1
    <3> QED
      BY <1>3, <2>1, <3>1, <3>2
  <2> QED
    BY <2>2, <2>3, <2>4
<1>9. \A x \in Requests : req'[x].pc # "none" => req'[x].ip \in Clients /\ req'[x].at <= now'
  BY <1>3, <1>5 DEF Deserved, NoRequest
<1>10. BlockedDeservedly'
  <2>1. ASSUME NEW x \in Requests, req'[x].pc = "blocked"
        PROVE  Earned(failed'[req'[x].ip], req'[x].at)
    <3>1. x # q /\ req'[x] = req[x] /\ req[x].ip \in Clients
      BY <1>5, <2>1, ThrottleTypes DEF Deserved, NoRequest
    <3>2. Earned(failed[req[x].ip], req[x].at)
      BY <2>1, <3>1, BlockedIsEarned DEF Deserved
    <3>3. CASE req[x].ip = c
      <4>1. failed[c] \in Seq(Times) /\ now \in Times
        BY <1>4, ThrottleTypes
      <4> QED
        BY <1>5, <3>1, <3>2, <3>3, <4>1, EarnedStays
    <3>4. CASE req[x].ip # c
      BY <1>5, <3>1, <3>2, <3>4
    <3> QED
      BY <3>3, <3>4
  <2> QED
    BY <2>1 DEF BlockedDeservedly, FailedIn, Earned, Within
<1>11. ASSUME NEW d \in Clients, NEW i \in DOMAIN failed'[d] PROVE failed'[d][i] <= now'
  <2>1. failed[d] \in Seq(Times) /\ now \in Int /\ \A j \in DOMAIN failed[d] : failed[d][j] <= now
    BY ThrottleTypes DEF Deserved
  <2>2. CASE d = c
    BY <1>3, <1>5, <1>11, <2>1, <2>2
  <2>3. CASE d # c
    BY <1>3, <1>5, <1>11, <2>1, <2>3
  <2> QED
    BY <2>2, <2>3
<1> QED
  BY <1>8, <1>9, <1>10, <1>11 DEF Deserved

\* Requests that end, a sweep and the passing of time.
LEMMA QuietDeserved ==
    ASSUME ThrottleInv, Deserved, failed' = failed, now <= now', now' \in Int,
           \A c \in Clients : hits'[c] \in {hits[c], NoHits},
           \A x \in Requests : req'[x] \in {req[x], NoRequest}
    PROVE  Deserved'
<1>1. \A d, t : FailedSince(d, t)' = FailedSince(d, t)
  BY DEF FailedSince
<1>2. \A x \in Requests : req'[x].pc # "none" => req'[x] = req[x]
  BY DEF NoRequest
<1>3. \A x \in Requests : req'[x].pc # "none" => req'[x].ip \in Clients /\ req'[x].at <= now'
  BY <1>2, ThrottleTypes DEF Deserved
<1>4. BlockedDeservedly'
  BY <1>2 DEF Deserved, BlockedDeservedly, FailedIn
<1>5. \A c \in Clients : \A i \in DOMAIN failed'[c] : failed'[c][i] <= now'
  <2> SUFFICES ASSUME NEW c \in Clients, NEW i \in DOMAIN failed[c] PROVE failed[c][i] <= now'
    OBVIOUS
  <2>1. failed[c][i] <= now /\ failed[c] \in Seq(Times) /\ now \in Int
    BY ThrottleTypes DEF Deserved
  <2>2. failed[c][i] \in Times
    BY <2>1
  <2>3. failed[c][i] \in Int
    BY <2>2, TimesInt
  <2> QED
    BY <2>1, <2>3
<1> QED
  BY <1>3, <1>4, <1>5, HitsKept DEF Deserved

LEMMA ThrottleStepDeserved == ASSUME ThrottleInv, Deserved, ThrottleStep PROVE Deserved'
<1>1. ASSUME NEW q \in Requests, Respond(q) PROVE Deserved'
  BY <1>1, QuietDeserved, ThrottleTypes DEF Respond
<1>2. CASE Sweep
  BY <1>2, QuietDeserved, ThrottleTypes DEF Sweep
<1>3. CASE Tick
  BY <1>3, QuietDeserved, ThrottleTypes DEF Tick
<1> QED
  BY <1>1, <1>2, <1>3, AdmitDeserved, LoginFailsDeserved DEF ThrottleStep

LEMMA DeservedKept == ASSUME ThrottleInv, Deserved, UNCHANGED throttleVars PROVE Deserved'
BY QuietDeserved, ThrottleTypes DEF throttleVars

-----------------------------------------------------------------------------
(* The theorems                                                             *)

LEMMA StartKept == ASSUME StartInv, UNCHANGED startVars PROVE StartInv'
BY DEF StartInv, StartTypeOK, FlagsInOrder, XmlInv, TlsInv, BimiInv, RecheckInv, SeedInv, Docs,
       Pending, Entered, Begins, startVars, tables

LEMMA MigrateInv == ASSUME StartInv, MigrateStep PROVE StartInv'
<1>1. ASSUME NEW f \in Marks, StepDone(f) \/ BeginStep(f) \/ BackfillEnds(f) \/ SetMeta(f)
      PROVE  StartInv'
  BY <1>1, StepDoneInv, BeginStepInv, BackfillEndsInv, SetMetaInv
<1>2. ASSUME NEW r \in Reports, BackfillFromXML(r) \/ BackfillBIMI(r) PROVE StartInv'
  BY <1>2, XmlStepInv, BimiStepInv
<1>3. ASSUME NEW t \in TlsReports, BackfillTLSRPT(t) PROVE StartInv'
  BY <1>3, TlsStepInv
<1> QED
  BY <1>1, <1>2, <1>3, OpenInv, ColumnsInv, SeedStepInv, RecheckStepInv DEF MigrateStep

LEMMA LifeAlways == LifeSpec => [](StartInv /\ ThrottleInv /\ Deserved)
<1>1. LifeInit => StartInv /\ ThrottleInv /\ Deserved
  BY StartInitInv, ThrottleInitInv, DeservedInit DEF LifeInit, ThrottleInit
<1>2. StartInv /\ ThrottleInv /\ Deserved /\ [LifeNext]_lifeVars =>
          (StartInv /\ ThrottleInv /\ Deserved)'
  <2> SUFFICES ASSUME StartInv, ThrottleInv, Deserved, [LifeNext]_lifeVars
               PROVE  StartInv' /\ ThrottleInv' /\ Deserved'
    OBVIOUS
  <2>1. CASE Migrating
    BY <2>1, MigrateInv, ThrottleKept, DeservedKept DEF Migrating
  <2>2. CASE Serving
    BY <2>2, ServeInv, ThrottleKept, DeservedKept DEF Serving
  <2>3. CASE Throttling
    BY <2>3, ThrottleStepInv, ThrottleStepDeserved, StartKept DEF Throttling
  <2>4. CASE Restart
    <3>1. ThrottleInv' /\ Deserved'
      <4>1. /\ now' = 0 /\ hits' = [c \in Clients |-> NoHits]
            /\ req' = [q \in Requests |-> NoRequest]
            /\ failed' = [c \in Clients |-> <<>>]
        BY <2>4 DEF Restart, ForgetHits
      <4> QED
        BY <4>1, TimesNat DEF ThrottleInv, ThrottleTypeOK, Throttled, NoRequest, Deserved,
                              BlockedDeservedly
    <3> QED
      BY <2>4, <3>1, StopInv DEF Restart
  <2>5. CASE UNCHANGED lifeVars
    BY <2>5, StartKept, ThrottleKept, DeservedKept DEF lifeVars
  <2> QED
    BY <2>1, <2>2, <2>3, <2>4, <2>5 DEF LifeNext
<1> QED
  BY <1>1, <1>2, PTL DEF LifeSpec

\* The variables of both parts keep their types.
THEOREM LifeTyping == LifeSpec => []LifeTypeOK
<1>1. StartInv /\ ThrottleInv => LifeTypeOK
  BY DEF StartInv, ThrottleInv, LifeTypeOK
<1> QED
  BY <1>1, LifeAlways, PTL

\* A process that serves has what its reports' documents say in the tables, once,
\* whatever release left the database and however often its starts were cut short
\* between a step and its flag (migrate).
THEOREM ServesBackfilledAlways == LifeSpec => []ServesBackfilled
<1>1. StartInv => ServesBackfilled
  <2> SUFFICES ASSUME StartInv, phase = "serving"
               PROVE  /\ stored \cap Readable \cap Reports \subseteq extras \cap hygiene
                      /\ \A r \in stored \cap Readable \cap Reports : asserted[r] = AssertionsOf[r]
                      /\ \A t \in stored \cap Readable \cap TlsReports : policies[t] = PoliciesOf[t]
                      /\ \A d \in Domains : checks[d] # "blank"
    BY DEF ServesBackfilled
  <2>1. \A f : Pending(f) = {}
    BY MarksAre DEF StartInv, FlagsInOrder, Pending
  <2>2. {"xml", "tlsrpt", "recheck", "bimi"} \subseteq meta
    BY DEF StartInv, FlagsInOrder
  <2> QED
    BY <2>1, <2>2 DEF StartInv, XmlInv, TlsInv, BimiInv, RecheckInv, Entered, Docs
<1> QED
  BY <1>1, LifeAlways, PTL

\* A domain the operator removed stays removed through every restart
\* (SeedManagedDomains).
THEOREM RemovedStaysRemovedAlways == LifeSpec => []RemovedStaysRemoved
<1>1. StartInv => RemovedStaysRemoved
  BY DEF StartInv, SeedInv, RemovedStaysRemoved
<1> QED
  BY <1>1, LifeAlways, PTL

\* The selector inventory is the range of the reports, whatever order they came in
\* and however often a backfill went over them (upsertSelectors).
THEOREM InventoryIsRangeAlways == LifeSpec => []InventoryIsRange
<1>1. StartInv => InventoryIsRange
  <2> SUFFICES ASSUME StartInv, phase = "serving", NEW k \in Keys,
                      NEW begins, begins = {BeginOf[r] :
                          r \in {x \in stored \cap Readable \cap Reports : k \in KeysOf[x]}},
                      begins # {}
               PROVE  /\ selectors[k] # Absent
                      /\ selectors[k].first = Min(begins) /\ selectors[k].last = Max(begins)
    BY DEF InventoryIsRange
  <2>1. Pending("xml") = {} /\ "xml" \in meta
    BY MarksAre DEF StartInv, FlagsInOrder, Pending
  <2>2. extras = stored \cap Readable \cap Reports
    BY <2>1 DEF StartInv, XmlInv, Entered, Docs
  <2>3. RangeOver(selectors[k], begins)
    BY <2>2 DEF StartInv, XmlInv, Begins
  <2>4. begins \in SUBSET (Nat \ {0}) /\ IsFiniteSet(begins)
    BY BeginsFinite
  <2>5. /\ Min(begins) \in begins /\ \A y \in begins : Min(begins) <= y
        /\ Max(begins) \in begins /\ \A y \in begins : y <= Max(begins)
    BY <2>4, MinMaxOfFinite
  <2>6. /\ selectors[k] \in SelectorRow
        /\ selectors[k].first \in begins /\ \A b \in begins : selectors[k].first <= b
        /\ selectors[k].last \in begins /\ \A b \in begins : b <= selectors[k].last
    BY <2>3 DEF RangeOver
  <2>7. \A b \in begins : b \in Nat
    BY <2>4
  <2>8. PICK least \in Nat, most \in Nat : least = Min(begins) /\ most = Max(begins)
    BY <2>5, <2>7
  <2>9. selectors[k].first = least /\ selectors[k].last = most
    <3>1. selectors[k].first \in Nat /\ selectors[k].last \in Nat
      BY <2>6, <2>7
    <3>2. least <= selectors[k].first /\ selectors[k].first <= least
      BY <2>5, <2>6, <2>8
    <3>3. selectors[k].last <= most /\ most <= selectors[k].last
      BY <2>5, <2>6, <2>8
    <3> QED
      BY <3>1, <3>2, <3>3
  <2> QED
    BY <2>6, <2>8, <2>9, StartupAssumption DEF SelectorRow
<1> QED
  BY <1>1, LifeAlways, PTL

\* Requests that overlap overshoot the limit by no more than their number
\* (AuthThrottle.handle).
THEOREM OvershootBoundedAlways == LifeSpec => []OvershootBounded
<1>1. ThrottleInv => OvershootBounded
  BY DEF ThrottleInv, Throttled, InAuth, OvershootBounded
<1> QED
  BY <1>1, LifeAlways, PTL

\* For every window, maximum, number of clients and of requests at once: an address
\* is turned away only for AuthFailMax failures of its own inside one window, within a
\* window after the last of them, whatever sweeps, restarts and requests in flight
\* there were (AuthThrottle.handle).
THEOREM BlockedDeservedlyAlways == LifeSpec => []BlockedDeservedly
<1>1. Deserved => BlockedDeservedly
  BY DEF Deserved
<1> QED
  BY <1>1, LifeAlways, PTL
=============================================================================
