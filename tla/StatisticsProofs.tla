---------------------------- MODULE StatisticsProofs ----------------------------
(***************************************************************************)
(* Statistics for any pool of reports that RowsAssumption describes and for *)
(* any filters: the views of aggregate reports account for every message    *)
(* once, the policy pages tell one policy, and the rules X1 to X11 fire for *)
(* what the pages show.  The queries have no state of their own, so the     *)
(* inductive invariants are small: StatsInv, and for the rules RulesInv,    *)
(* that the inventory is of stored reports.  The argument is in the lemmas  *)
(* about sums over rows and groups and about windows.                       *)
(***************************************************************************)
EXTENDS Statistics, FiniteSetTheorems, FunctionTheorems, NaturalsInduction,
        WellFoundedInduction, TLAPS

-----------------------------------------------------------------------------
(* Sums over a set: SumOf is the same in whichever order it takes the members *)

Pick(s) == CHOOSE x \in s : TRUE

\* it tells the sum of w over each subset of S.
Sums(w, S, it) ==
    it = [s \in SUBSET S |-> IF s = {} THEN 0 ELSE w[Pick(s)] + it[s \ {Pick(s)}]]

LEMMA SumOfUnfold ==
    ASSUME NEW w
    PROVE  SumOf(w) = (CHOOSE it : Sums(w, DOMAIN w, it))[DOMAIN w]
BY DEF SumOf, MapThenSumSet, MapThenFoldSet, Sums, Pick


LEMMA LeastExists ==
    ASSUME NEW S \in SUBSET Nat, S # {}
    PROVE  \E x \in S : \A y \in S : x <= y
<1>1. PICK x \in S : \A y \in S : <<y, x>> \notin OpToRel(<, Nat)
  BY NatLessThanWellFounded, WFMin
<1>2. \A y \in S : ~(y < x)
  BY <1>1 DEF OpToRel
<1> QED
  BY <1>2

\* Of a family of finite sets, one has the least size.
LEMMA SmallestExists ==
    ASSUME NEW F, F # {}, \A S \in F : IsFiniteSet(S)
    PROVE  \E S \in F : \A T \in F : Cardinality(S) <= Cardinality(T)
<1> DEFINE Sizes == {Cardinality(S) : S \in F}
<1>1. Sizes \in SUBSET Nat /\ Sizes # {}
  BY FS_CardinalityType
<1>2. PICK n \in Sizes : \A m \in Sizes : n <= m
  BY <1>1, LeastExists
<1> QED
  BY <1>2

LEMMA PickIn ==
    ASSUME NEW S, S # {}
    PROVE  Pick(S) \in S
BY DEF Pick

\* Taking an element away makes a finite set smaller.
LEMMA Smaller ==
    ASSUME NEW S, IsFiniteSet(S), NEW x \in S
    PROVE  /\ IsFiniteSet(S \ {x})
           /\ Cardinality(S \ {x}) \in Nat /\ Cardinality(S) \in Nat
           /\ ~(Cardinality(S) <= Cardinality(S \ {x}))
BY FS_RemoveElement, FS_CardinalityType

LEMMA SumsStep ==
    ASSUME NEW w, NEW S, NEW it, Sums(w, S, it), NEW U \in SUBSET S
    PROVE  it[U] = IF U = {} THEN 0 ELSE w[Pick(U)] + it[U \ {Pick(U)}]
BY DEF Sums

\* Two such tables agree where their weights do.
LEMMA SumsUnique ==
    ASSUME NEW w, NEW S, NEW it, Sums(w, S, it),
           NEW v, NEW T, NEW jt, Sums(v, T, jt),
           NEW U \in SUBSET S, U \in SUBSET T, IsFiniteSet(U),
           \A x \in U : w[x] = v[x]
    PROVE  it[U] = jt[U]
<1> DEFINE Bad == {X \in SUBSET U : it[X] # jt[X]}
<1> SUFFICES ASSUME Bad # {} PROVE FALSE
  OBVIOUS
<1>1. \A X \in Bad : IsFiniteSet(X)
  BY FS_Subset
<1>2. PICK X \in Bad : \A Y \in Bad : Cardinality(X) <= Cardinality(Y)
  BY <1>1, SmallestExists
<1>3. X # {} /\ X \in SUBSET S /\ X \in SUBSET T
  BY <1>2, SumsStep
<1>4. /\ Pick(X) \in X /\ X \ {Pick(X)} \in SUBSET U /\ X \ {Pick(X)} \notin Bad
  BY <1>1, <1>2, <1>3, PickIn, Smaller
<1>5. /\ it[X] = w[Pick(X)] + it[X \ {Pick(X)}]
      /\ jt[X] = v[Pick(X)] + jt[X \ {Pick(X)}]
  BY <1>3, SumsStep
<1>6. it[X \ {Pick(X)}] = jt[X \ {Pick(X)}] /\ w[Pick(X)] = v[Pick(X)]
  BY <1>4
<1>7. it[X] = jt[X]
  BY <1>5, <1>6
<1> QED
  BY <1>2, <1>7

LEMMA SumsExist ==
    ASSUME NEW w, NEW S, IsFiniteSet(S)
    PROVE  \E it : Sums(w, S, it)
<1> DEFINE Bad == {T \in SUBSET S : ~ \E it : Sums(w, T, it)}
<1> SUFFICES ASSUME Bad # {} PROVE FALSE
  BY DEF Sums
<1>1. \A T \in SUBSET S : IsFiniteSet(T)
  BY FS_Subset
<1>2. PICK T \in Bad : \A Y \in Bad : Cardinality(T) <= Cardinality(Y)
  BY <1>1, SmallestExists
<1> DEFINE Table(U) == CHOOSE it : Sums(w, U, it)
           it == [s \in SUBSET T |->
                    IF s = {} THEN 0
                    ELSE w[Pick(s)] + Table(s \ {Pick(s)})[s \ {Pick(s)}]]
<1>3. ASSUME NEW s \in SUBSET T, s # {}
      PROVE  /\ Pick(s) \in s /\ s \ {Pick(s)} \in SUBSET T
             /\ Sums(w, s \ {Pick(s)}, Table(s \ {Pick(s)}))
  <2>1. /\ Pick(s) \in s /\ IsFiniteSet(s) /\ IsFiniteSet(T)
    BY <1>1, <1>2, <1>3, PickIn
  <2>2. Cardinality(s) <= Cardinality(T) /\ Cardinality(s) \in Nat /\ Cardinality(T) \in Nat
    BY <2>1, FS_Subset, FS_CardinalityType
  <2>3. s \ {Pick(s)} \notin Bad
    BY <1>2, <2>1, <2>2, Smaller
  <2>4. \E i : Sums(w, s \ {Pick(s)}, i)
    BY <1>2, <2>3
  <2> HIDE DEF Bad
  <2> QED
    BY <2>1, <2>4
<1>4. ASSUME NEW s \in SUBSET T, s # {}
      PROVE  it[s \ {Pick(s)}] = Table(s \ {Pick(s)})[s \ {Pick(s)}]
  <2> DEFINE t == s \ {Pick(s)}
  <2>1. t \in SUBSET T /\ Sums(w, t, Table(t))
    BY <1>3, <1>4
  <2>2. CASE t = {}
    BY <2>1, <2>2, SumsStep
  <2>3. CASE t # {}
    <3>1. /\ Pick(t) \in t /\ t \ {Pick(t)} \in SUBSET T
          /\ Sums(w, t \ {Pick(t)}, Table(t \ {Pick(t)}))
      BY <1>3, <2>1, <2>3
    <3>2. IsFiniteSet(t \ {Pick(t)})
      BY <1>1, <1>2, <3>1
    <3> HIDE DEF t, Table
    <3>3. Table(t)[t \ {Pick(t)}] = Table(t \ {Pick(t)})[t \ {Pick(t)}]
      BY <2>1, <3>1, <3>2, SumsUnique
    <3>4. Table(t)[t] = w[Pick(t)] + Table(t)[t \ {Pick(t)}]
      BY <2>1, <2>3, SumsStep
    <3>5. it[t] = w[Pick(t)] + Table(t \ {Pick(t)})[t \ {Pick(t)}]
      BY <2>1, <2>3
    <3> QED
      BY <3>3, <3>4, <3>5 DEF t
  <2> QED
    BY <2>2, <2>3
<1>5. Sums(w, T, it)
  <2>1. \A s \in SUBSET T : it[s] = IF s = {} THEN 0 ELSE w[Pick(s)] + it[s \ {Pick(s)}]
    <3>1. ASSUME NEW s \in SUBSET T, s # {}
          PROVE  it[s] = w[Pick(s)] + it[s \ {Pick(s)}]
      <4>1. it[s \ {Pick(s)}] = Table(s \ {Pick(s)})[s \ {Pick(s)}]
        BY <1>4, <3>1
      <4> HIDE DEF Table
      <4>2. it[s] = w[Pick(s)] + Table(s \ {Pick(s)})[s \ {Pick(s)}]
        BY <3>1
      <4> QED
        BY <4>1, <4>2
    <3> HIDE DEF Table
    <3>2. it[{}] = 0
      OBVIOUS
    <3> HIDE DEF it
    <3> QED
      BY <3>1, <3>2
  <2> HIDE DEF Table
  <2>2. it = [s \in SUBSET T |-> it[s]]
    OBVIOUS
  <2> DEFINE g == it
  <2>3. g = [s \in SUBSET T |-> g[s]] /\ \A s \in SUBSET T : g[s] = IF s = {} THEN 0 ELSE w[Pick(s)] + g[s \ {Pick(s)}]
    BY <2>1, <2>2
  <2> HIDE DEF g
  <2>4. Sums(w, T, g)
    BY <2>3 DEF Sums
  <2> QED
    BY <2>4 DEF g
<1> HIDE DEF it
<1> QED
  BY <1>2, <1>5

-----------------------------------------------------------------------------

LEMMA SumEmpty ==
    ASSUME NEW w, DOMAIN w = {}
    PROVE  SumOf(w) = 0
BY SumsExist, SumsStep, SumOfUnfold, FS_EmptySet

\* The weight of S under w.
Over(w, S) == SumOf([x \in S |-> w[x]])

LEMMA OverTable ==
    ASSUME NEW w, NEW S, IsFiniteSet(S), NEW it, Sums(w, S, it), NEW U \in SUBSET S
    PROVE  Over(w, U) = it[U]
<1> DEFINE v == [x \in U |-> w[x]]
           jt == CHOOSE i : Sums(v, U, i)
<1>1. IsFiniteSet(U) /\ DOMAIN v = U /\ \A x \in U : v[x] = w[x]
  BY FS_Subset
<1> HIDE DEF v
<1>2. Sums(v, U, jt)
  BY <1>1, SumsExist
<1>3. SumOf(v) = jt[U]
  BY <1>1, SumOfUnfold
<1> HIDE DEF jt
<1>4. it[U] = jt[U]
  BY <1>1, <1>2, SumsUnique
<1> QED
  BY <1>3, <1>4 DEF Over, v

LEMMA OverAgrees ==
    ASSUME NEW w, NEW v, NEW S, \A x \in S : w[x] = v[x]
    PROVE  Over(w, S) = Over(v, S)
<1>1. [x \in S |-> w[x]] = [x \in S |-> v[x]]
  OBVIOUS
<1> QED
  BY <1>1 DEF Over

LEMMA OverEmpty ==
    ASSUME NEW w
    PROVE  Over(w, {}) = 0
BY SumEmpty DEF Over

LEMMA OverPick ==
    ASSUME NEW w, NEW S, IsFiniteSet(S), S # {}
    PROVE  Over(w, S) = w[Pick(S)] + Over(w, S \ {Pick(S)})
<1>1. PICK it : Sums(w, S, it)
  BY SumsExist
<1> QED
  BY <1>1, OverTable, SumsStep

\* Any set of numbers that is closed under addition: Nat and Int.
LEMMA OverType ==
    ASSUME NEW w, NEW S, IsFiniteSet(S), \A x \in S : w[x] \in Int
    PROVE  Over(w, S) \in Int
<1> DEFINE Bad == {T \in SUBSET S : Over(w, T) \notin Int}
<1> SUFFICES ASSUME Bad # {} PROVE FALSE
  OBVIOUS
<1>1. \A T \in SUBSET S : IsFiniteSet(T)
  BY FS_Subset
<1>2. PICK T \in Bad : \A Y \in Bad : Cardinality(T) <= Cardinality(Y)
  BY <1>1, SmallestExists
<1>3. T # {}
  BY <1>2, OverEmpty
<1>4. Pick(T) \in T /\ T \ {Pick(T)} \notin Bad
  BY <1>1, <1>2, <1>3, PickIn, Smaller
<1>5. Over(w, T) = w[Pick(T)] + Over(w, T \ {Pick(T)})
  BY <1>1, <1>2, <1>3, OverPick
<1> QED
  BY <1>2, <1>4, <1>5

LEMMA OverRemove ==
    ASSUME NEW w, NEW S, IsFiniteSet(S), \A x \in S : w[x] \in Int, NEW y \in S
    PROVE  Over(w, S) = w[y] + Over(w, S \ {y})
<1> DEFINE Fails(T, z) == z \in T /\ Over(w, T) # w[z] + Over(w, T \ {z})
           Bad == {T \in SUBSET S : \E z \in T : Fails(T, z)}
<1> SUFFICES ASSUME Bad # {} PROVE FALSE
  OBVIOUS
<1>1. \A T \in SUBSET S : IsFiniteSet(T)
  BY FS_Subset
<1>2. PICK T \in Bad : \A Y \in Bad : Cardinality(T) <= Cardinality(Y)
  BY <1>1, SmallestExists
<1>3. PICK z \in T : Fails(T, z)
  BY <1>2
<1> DEFINE x == Pick(T)
<1>4. x \in T /\ IsFiniteSet(T) /\ T \in SUBSET S
  BY <1>1, <1>2, <1>3, PickIn
<1>5. Over(w, T) = w[x] + Over(w, T \ {x})
  BY <1>3, <1>4, OverPick
<1> HIDE DEF x
<1>6. x # z /\ T \ {x} \notin Bad /\ T \ {z} \notin Bad
  BY <1>2, <1>3, <1>4, <1>5, Smaller
<1> DEFINE R == (T \ {x}) \ {z}
<1>7. (T \ {z}) \ {x} = R /\ R \in SUBSET S /\ T \ {z} \in SUBSET S /\ T \ {x} \in SUBSET S
  BY <1>4
<1>8. ~Fails(T \ {x}, z) /\ ~Fails(T \ {z}, x) /\ z \in T \ {x} /\ x \in T \ {z}
  BY <1>3, <1>4, <1>6, <1>7
<1>9. Over(w, T \ {x}) = w[z] + Over(w, R) /\ Over(w, T \ {z}) = w[x] + Over(w, R)
  BY <1>7, <1>8
<1>10. Over(w, R) \in Int /\ w[x] \in Int /\ w[z] \in Int
  <2>1. IsFiniteSet(R) /\ \A u \in R : w[u] \in Int
    BY <1>1, <1>7
  <2> HIDE DEF R
  <2> QED
    BY <1>3, <1>4, <2>1, OverType
<1> HIDE DEF R, Bad
<1> QED
  BY <1>3, <1>5, <1>9, <1>10

LEMMA OverAdd ==
    ASSUME NEW w, NEW S, IsFiniteSet(S), NEW y, y \notin S,
           w[y] \in Int, \A x \in S : w[x] \in Int
    PROVE  Over(w, S \cup {y}) = Over(w, S) + w[y]
<1>1. (S \cup {y}) \ {y} = S /\ IsFiniteSet(S \cup {y})
  BY FS_AddElement
<1>2. Over(w, S \cup {y}) = w[y] + Over(w, S)
  BY <1>1, OverRemove
<1> QED
  BY <1>2, OverType

\* A set in two parts.
LEMMA OverSplit ==
    ASSUME NEW w, NEW S, IsFiniteSet(S), \A x \in S : w[x] \in Int,
           NEW A, NEW B, S = A \cup B, A \cap B = {}
    PROVE  Over(w, S) = Over(w, A) + Over(w, B)
<1> DEFINE Bad == {T \in SUBSET B : Over(w, A \cup T) # Over(w, A) + Over(w, T)}
<1> SUFFICES ASSUME Bad # {} PROVE FALSE
  OBVIOUS
<1>1. /\ \A T \in SUBSET B : IsFiniteSet(T) /\ T \in SUBSET S
      /\ IsFiniteSet(A) /\ A \in SUBSET S
  BY FS_Subset
<1>2. PICK T \in Bad : \A Y \in Bad : Cardinality(T) <= Cardinality(Y)
  BY <1>1, SmallestExists
<1>3. T # {}
  <2>1. A \cup {} = A /\ Over(w, A) \in Int
    BY <1>1, OverType
  <2> QED
    BY <1>2, <2>1, OverEmpty
<1>4. PICK y \in T : TRUE
  BY <1>3
<1> DEFINE R == T \ {y}
<1>5. R \notin Bad /\ R \in SUBSET B
  BY <1>1, <1>2, <1>4, Smaller
<1>6. /\ (A \cup T) \ {y} = A \cup R /\ y \in A \cup T
      /\ A \cup T \in SUBSET S /\ R \in SUBSET S /\ A \cup R \in SUBSET S
  BY <1>1, <1>2, <1>4
<1>7. Over(w, A \cup T) = w[y] + Over(w, A \cup R)
  BY <1>6, FS_Subset, OverRemove
<1>8. Over(w, T) = w[y] + Over(w, R)
  BY <1>1, <1>2, <1>4, OverRemove
<1>9. Over(w, A \cup R) = Over(w, A) + Over(w, R)
  BY <1>5
<1>10. w[y] \in Int /\ Over(w, A) \in Int /\ Over(w, R) \in Int
  BY <1>1, <1>2, <1>4, <1>5, OverType
<1> QED
  BY <1>2, <1>7, <1>8, <1>9, <1>10

LEMMA OverNat ==
    ASSUME NEW w, NEW S, IsFiniteSet(S), \A x \in S : w[x] \in Nat
    PROVE  Over(w, S) \in Nat
<1> DEFINE Bad == {T \in SUBSET S : Over(w, T) \notin Nat}
<1> SUFFICES ASSUME Bad # {} PROVE FALSE
  OBVIOUS
<1>1. \A T \in SUBSET S : IsFiniteSet(T)
  BY FS_Subset
<1>2. PICK T \in Bad : \A Y \in Bad : Cardinality(T) <= Cardinality(Y)
  BY <1>1, SmallestExists
<1>3. T # {}
  BY <1>2, OverEmpty
<1>4. Pick(T) \in T /\ T \ {Pick(T)} \notin Bad
  BY <1>1, <1>2, <1>3, PickIn, Smaller
<1>5. Over(w, T) = w[Pick(T)] + Over(w, T \ {Pick(T)})
  BY <1>1, <1>2, <1>3, OverPick
<1> QED
  BY <1>2, <1>4, <1>5

LEMMA OverSubset ==
    ASSUME NEW w, NEW S, IsFiniteSet(S), \A x \in S : w[x] \in Nat, NEW A \in SUBSET S
    PROVE  Over(w, A) <= Over(w, S)
<1>1. /\ S = A \cup (S \ A) /\ A \cap (S \ A) = {} /\ IsFiniteSet(A) /\ IsFiniteSet(S \ A)
      /\ \A x \in S : w[x] \in Int
  BY FS_Subset
<1>2. Over(w, S) = Over(w, A) + Over(w, S \ A)
  BY <1>1, OverSplit
<1>3. Over(w, A) \in Nat /\ Over(w, S \ A) \in Nat
  BY <1>1, OverNat
<1> QED
  BY <1>2, <1>3

\* Of two sets that may share elements.
LEMMA OverUnion ==
    ASSUME NEW w, NEW A, NEW B, IsFiniteSet(A), IsFiniteSet(B),
           \A x \in A \cup B : w[x] \in Nat
    PROVE  Over(w, A \cup B) <= Over(w, A) + Over(w, B)
<1>1. /\ A \cup B = A \cup (B \ A) /\ A \cap (B \ A) = {} /\ IsFiniteSet(B \ A)
      /\ IsFiniteSet(A \cup B) /\ \A x \in A \cup B : w[x] \in Int
  <2>1. IsFiniteSet(B \ A) /\ IsFiniteSet(A \cup B)
    BY FS_Subset, FS_Union
  <2> QED
    BY <2>1
<1>2. Over(w, A \cup B) = Over(w, A) + Over(w, B \ A)
  BY <1>1, OverSplit
<1>3. Over(w, B \ A) <= Over(w, B) /\ B \ A \in SUBSET B
  BY OverSubset
<1>4. Over(w, A) \in Nat /\ Over(w, B) \in Nat /\ Over(w, B \ A) \in Nat
  BY <1>1, OverNat
<1> QED
  BY <1>2, <1>3, <1>4

LEMMA OverMono ==
    ASSUME NEW w, NEW v, NEW S, IsFiniteSet(S),
           \A x \in S : w[x] \in Int /\ v[x] \in Int /\ w[x] <= v[x]
    PROVE  Over(w, S) <= Over(v, S)
<1> DEFINE Bad == {T \in SUBSET S : ~(Over(w, T) <= Over(v, T))}
<1> SUFFICES ASSUME Bad # {} PROVE FALSE
  OBVIOUS
<1>1. \A T \in SUBSET S : IsFiniteSet(T)
  BY FS_Subset
<1>2. PICK T \in Bad : \A Y \in Bad : Cardinality(T) <= Cardinality(Y)
  BY <1>1, SmallestExists
<1>3. T # {}
  BY <1>2, OverEmpty
<1> DEFINE x == Pick(T)
           R == T \ {Pick(T)}
<1>4. x \in T /\ R \notin Bad /\ R \in SUBSET S
  BY <1>1, <1>2, <1>3, PickIn, Smaller
<1>5. Over(w, T) = w[x] + Over(w, R) /\ Over(v, T) = v[x] + Over(v, R)
  BY <1>1, <1>2, <1>3, OverPick
<1>6. Over(w, R) \in Int /\ Over(v, R) \in Int /\ Over(w, R) <= Over(v, R)
  BY <1>1, <1>4, OverType
<1>7. w[x] \in Int /\ v[x] \in Int /\ w[x] <= v[x]
  BY <1>2, <1>4
<1> QED
  BY <1>2, <1>5, <1>6, <1>7

LEMMA OverSum ==
    ASSUME NEW u, NEW w, NEW v, NEW S, IsFiniteSet(S),
           \A x \in S : w[x] \in Int /\ v[x] \in Int /\ u[x] = w[x] + v[x]
    PROVE  Over(u, S) = Over(w, S) + Over(v, S)
<1> DEFINE Bad == {T \in SUBSET S : Over(u, T) # Over(w, T) + Over(v, T)}
<1> SUFFICES ASSUME Bad # {} PROVE FALSE
  OBVIOUS
<1>1. \A T \in SUBSET S : IsFiniteSet(T)
  BY FS_Subset
<1>2. PICK T \in Bad : \A Y \in Bad : Cardinality(T) <= Cardinality(Y)
  BY <1>1, SmallestExists
<1>3. T # {}
  BY <1>2, OverEmpty
<1> DEFINE x == Pick(T)
           R == T \ {Pick(T)}
<1>4. x \in T /\ R \notin Bad /\ R \in SUBSET S
  BY <1>1, <1>2, <1>3, PickIn, Smaller
<1>5. /\ Over(w, T) = w[x] + Over(w, R) /\ Over(v, T) = v[x] + Over(v, R)
      /\ Over(u, T) = u[x] + Over(u, R)
  BY <1>1, <1>2, <1>3, OverPick
<1>6. Over(w, R) \in Int /\ Over(v, R) \in Int /\ Over(u, R) = Over(w, R) + Over(v, R)
  BY <1>1, <1>4, OverType
<1>7. w[x] \in Int /\ v[x] \in Int /\ u[x] = w[x] + v[x]
  BY <1>2, <1>4
<1> QED
  BY <1>2, <1>5, <1>6, <1>7

LEMMA OverScale ==
    ASSUME NEW v, NEW w, NEW S, IsFiniteSet(S), NEW c \in Int,
           \A x \in S : w[x] \in Int /\ v[x] = c * w[x]
    PROVE  Over(v, S) = c * Over(w, S)
<1> DEFINE Bad == {T \in SUBSET S : Over(v, T) # c * Over(w, T)}
<1> SUFFICES ASSUME Bad # {} PROVE FALSE
  OBVIOUS
<1>1. \A T \in SUBSET S : IsFiniteSet(T)
  BY FS_Subset
<1>2. PICK T \in Bad : \A Y \in Bad : Cardinality(T) <= Cardinality(Y)
  BY <1>1, SmallestExists
<1>3. T # {}
  <2>1. Over(v, {}) = 0 /\ Over(w, {}) = 0 /\ c * 0 = 0
    BY OverEmpty
  <2> QED
    BY <1>2, <2>1
<1> DEFINE x == Pick(T)
           R == T \ {Pick(T)}
<1>4. x \in T /\ R \notin Bad /\ R \in SUBSET S
  BY <1>1, <1>2, <1>3, PickIn, Smaller
<1>5. Over(w, T) = w[x] + Over(w, R) /\ Over(v, T) = v[x] + Over(v, R)
  BY <1>1, <1>2, <1>3, OverPick
<1>6. Over(w, R) \in Int /\ Over(v, R) = c * Over(w, R)
  BY <1>1, <1>4, OverType
<1>7. w[x] \in Int /\ v[x] = c * w[x]
  BY <1>2, <1>4
<1> HIDE DEF x, R
<1>8. \A a, b \in Int : c * (a + b) = c * a + c * b
  OBVIOUS
<1> QED
  BY <1>2, <1>5, <1>6, <1>7, <1>8

\* One for each element.
LEMMA OverOnes ==
    ASSUME NEW w, NEW S, IsFiniteSet(S), \A x \in S : w[x] = 1
    PROVE  Over(w, S) = Cardinality(S)
<1> DEFINE Bad == {T \in SUBSET S : Over(w, T) # Cardinality(T)}
<1> SUFFICES ASSUME Bad # {} PROVE FALSE
  OBVIOUS
<1>1. \A T \in SUBSET S : IsFiniteSet(T)
  BY FS_Subset
<1>2. PICK T \in Bad : \A Y \in Bad : Cardinality(T) <= Cardinality(Y)
  BY <1>1, SmallestExists
<1>3. T # {}
  BY <1>2, OverEmpty, FS_EmptySet
<1> DEFINE x == Pick(T)
           R == T \ {Pick(T)}
<1>4. x \in T /\ R \notin Bad /\ R \in SUBSET S
  BY <1>1, <1>2, <1>3, PickIn, Smaller
<1>5. Over(w, T) = w[x] + Over(w, R)
  BY <1>1, <1>2, <1>3, OverPick
<1>6. Over(w, R) = Cardinality(R) /\ Cardinality(R) = Cardinality(T) - 1 /\ Cardinality(T) \in Nat
  BY <1>1, <1>2, <1>4, FS_RemoveElement, FS_CardinalityType
<1> QED
  BY <1>2, <1>4, <1>5, <1>6

LEMMA OverZero ==
    ASSUME NEW w, NEW S, IsFiniteSet(S), \A x \in S : w[x] = 0
    PROVE  Over(w, S) = 0
<1> DEFINE v == [x \in S |-> 0]
<1>1. Over(w, S) = 0 * Over(v, S) /\ Over(v, S) \in Int
  BY OverScale, OverType
<1> HIDE DEF v
<1> QED
  BY <1>1

\* GROUP BY: g tells the weight of each group.
Grouping(w, S, key, K, g) ==
    /\ IsFiniteSet(S) /\ \A x \in S : w[x] \in Int
    /\ IsFiniteSet(K) /\ \A x \in S : key[x] \in K
    /\ \A k \in K : g[k] = Over(w, {x \in S : key[x] = k})

LEMMA OverGroups ==
    ASSUME NEW w, NEW S, NEW key, NEW K, NEW g, Grouping(w, S, key, K, g)
    PROVE  Over(g, K) = Over(w, S)
<1> USE DEF Grouping
<1> DEFINE In(L) == {x \in S : key[x] \in L}
           Bad == {L \in SUBSET K : Over(g, L) # Over(w, In(L))}
<1>1. \A L \in SUBSET K : IsFiniteSet(L)
  BY FS_Subset
<1>2. \A L \in SUBSET K : IsFiniteSet(In(L))
  BY FS_Subset
<1>3. ASSUME Bad # {} PROVE FALSE
  <2>1. PICK L \in Bad : \A M \in Bad : Cardinality(L) <= Cardinality(M)
    BY <1>1, <1>3, SmallestExists
  <2>2. L # {}
    <3>1. In({}) = {}
      OBVIOUS
    <3> QED
      BY <2>1, <3>1, OverEmpty
  <2> DEFINE k == Pick(L)
             M == L \ {Pick(L)}
  <2>3. k \in L /\ M \notin Bad /\ M \in SUBSET K /\ k \in K
    BY <1>1, <2>1, <2>2, PickIn, Smaller
  <2>4. Over(g, L) = g[k] + Over(g, M)
    BY <1>1, <2>1, <2>2, OverPick
  <2> HIDE DEF k
  <2>5. /\ In(L) = {x \in S : key[x] = k} \cup In(M)
        /\ {x \in S : key[x] = k} \cap In(M) = {}
    BY <2>3 DEF k
  <2>6. IsFiniteSet(In(L)) /\ \A x \in In(L) : w[x] \in Int
    BY <1>2, <2>1
  <2>7. Over(w, In(L)) = Over(w, {x \in S : key[x] = k}) + Over(w, In(M))
    <3> HIDE DEF In, M
    <3> QED
      BY <2>5, <2>6, OverSplit
  <2>8. Over(g, M) = Over(w, In(M)) /\ g[k] = Over(w, {x \in S : key[x] = k})
    BY <2>3
  <2> QED
    BY <2>1, <2>4, <2>7, <2>8
<1>4. Over(g, K) = Over(w, In(K)) /\ In(K) = S
  BY <1>3
<1> QED
  BY <1>4

-----------------------------------------------------------------------------
(* The rows of aggregate reports, and sums over them                        *)

Image(h, S) == {h[x] : x \in S}

LEMMA ImageFinite ==
    ASSUME NEW S, IsFiniteSet(S), NEW h
    PROVE  /\ IsFiniteSet(Image(h, S))
           /\ Cardinality(Image(h, S)) <= Cardinality(S)
<1> USE DEF Image
<1> DEFINE g == [x \in S |-> h[x]]
           T == {h[x] : x \in S}
<1>1. g \in Surjection(S, T)
  BY DEF Surjection
<1> HIDE DEF g, T
<1> QED
  BY <1>1, FS_Surjection DEF T

\* A finite set of integers has a least and a greatest element.
LEMMA Extremes ==
    ASSUME NEW S \in SUBSET Int, IsFiniteSet(S), S # {}
    PROVE  /\ \E x \in S : \A y \in S : x <= y
           /\ \E x \in S : \A y \in S : y <= x
<1> DEFINE Good(T) == /\ \E x \in T : \A y \in T : x <= y
                      /\ \E x \in T : \A y \in T : y <= x
           Bad == {T \in SUBSET S : T # {} /\ ~Good(T)}
<1> SUFFICES ASSUME Bad # {} PROVE FALSE
  OBVIOUS
<1>1. \A T \in SUBSET S : IsFiniteSet(T)
  BY FS_Subset
<1>2. PICK T \in Bad : \A Y \in Bad : Cardinality(T) <= Cardinality(Y)
  BY <1>1, SmallestExists
<1>3. PICK x \in T : TRUE
  BY <1>2
<1>4. T \ {x} \notin Bad /\ T \ {x} \in SUBSET S
  BY <1>1, <1>2, <1>3, Smaller
<1>5. CASE T \ {x} = {}
  <2>1. T = {x}
    BY <1>3, <1>5
  <2> QED
    BY <1>2, <2>1
<1>6. CASE T \ {x} # {}
  <2>1. PICK a \in T \ {x} : \A y \in T \ {x} : a <= y
    BY <1>4, <1>6
  <2>2. PICK b \in T \ {x} : \A y \in T \ {x} : y <= b
    BY <1>4, <1>6
  <2>3. T \in SUBSET Int
    BY <1>2
  <2>4. \E m \in T : \A y \in T : m <= y
    BY <1>3, <2>1, <2>3
  <2>5. \E m \in T : \A y \in T : y <= m
    BY <1>3, <2>2, <2>3
  <2> QED
    BY <1>2, <2>4, <2>5
<1> QED
  BY <1>5, <1>6

LEMMA LeastGreatest ==
    ASSUME NEW S \in SUBSET Int, IsFiniteSet(S), S # {}
    PROVE  /\ Least(S) \in S /\ \A y \in S : Least(S) <= y
           /\ Greatest(S) \in S /\ \A y \in S : y <= Greatest(S)
BY Extremes DEF Least, Greatest


AllRows == JoinOf(Pool)
CountOf == [j \in AllRows |-> j.row.count]
AllFans == Signatures(AllRows) \cup SpfResults(AllRows) \cup Overrides(AllRows)
FanOf == [p \in AllFans |-> p[1].row.count]

LEMMA JoinFinite ==
    ASSUME NEW R \in SUBSET Pool
    PROVE  IsFiniteSet(JoinOf(R))
<1> DEFINE rowsOf == [r \in R |-> {[rep |-> r, row |-> x] : x \in r.rows}]
<1>1. ASSUME NEW r \in R PROVE IsFiniteSet(rowsOf[r])
  <2> DEFINE pair == [x \in r.rows |-> [rep |-> r, row |-> x]]
  <2>1. rowsOf[r] = {pair[x] : x \in r.rows} /\ IsFiniteSet(r.rows)
    BY RowsAssumption
  <2> HIDE DEF pair, rowsOf
  <2> QED
    BY <2>1, ImageFinite DEF Image
<1>2. IsFiniteSet(R)
  BY RowsAssumption, FS_Subset
<1>3. JoinOf(R) = UNION {rowsOf[r] : r \in R}
  BY DEF JoinOf
<1> HIDE DEF rowsOf
<1>4. IsFiniteSet({rowsOf[r] : r \in R})
  BY <1>2, ImageFinite DEF Image
<1> QED
  BY <1>1, <1>3, <1>4, FS_UNION

LEMMA RowIn ==
    ASSUME NEW R \in SUBSET Pool, NEW j \in JoinOf(R)
    PROVE  /\ j.rep \in R /\ j.row \in j.rep.rows
           /\ j.row.count \in Nat /\ j.row.dkim \in BOOLEAN /\ j.row.spf \in BOOLEAN
           /\ j.rep.begin \in Int /\ j.rep.domain # AnyValue /\ j.row.ip # AnyValue
           /\ j \in AllRows
BY RowsAssumption DEF JoinOf, AllRows

LEMMA RowsFinite ==
    ASSUME NEW J \in SUBSET AllRows
    PROVE  IsFiniteSet(J) /\ \A j \in J : CountOf[j] \in Nat /\ CountOf[j] = j.row.count
<1>1. IsFiniteSet(AllRows)
  BY JoinFinite DEF AllRows
<1>2. \A j \in J : CountOf[j] = j.row.count /\ j.row.count \in Nat
  BY RowIn DEF CountOf, AllRows
<1> QED
  BY <1>1, <1>2, FS_Subset

LEMMA MessagesOver ==
    ASSUME NEW J \in SUBSET AllRows
    PROVE  Messages(J) = Over(CountOf, J)
<1>1. [j \in J |-> j.row.count] = [j \in J |-> CountOf[j]]
  BY RowsFinite
<1> QED
  BY <1>1 DEF Messages, Over

LEMMA MessagesNat ==
    ASSUME NEW J \in SUBSET AllRows
    PROVE  Messages(J) \in Nat
BY MessagesOver, RowsFinite, OverNat

LEMMA MessagesNone == Messages({}) = 0
BY MessagesOver, OverEmpty

\* Rows in two parts.
RowParts(J, A, B) == J \in SUBSET AllRows /\ J = A \cup B /\ A \cap B = {}

LEMMA MessagesSplit ==
    ASSUME NEW J, NEW A, NEW B, RowParts(J, A, B)
    PROVE  /\ Messages(J) = Messages(A) + Messages(B)
           /\ Messages(J) \in Nat /\ Messages(A) \in Nat /\ Messages(B) \in Nat
<1> USE DEF RowParts
<1>1. A \in SUBSET AllRows /\ B \in SUBSET AllRows /\ \A j \in J : CountOf[j] \in Int
  BY RowsFinite
<1>2. Over(CountOf, J) = Over(CountOf, A) + Over(CountOf, B)
  BY <1>1, RowsFinite, OverSplit
<1> QED
  BY <1>1, <1>2, MessagesOver, MessagesNat

LEMMA MessagesSubset ==
    ASSUME NEW J \in SUBSET AllRows, NEW A \in SUBSET J
    PROVE  /\ Messages(A) <= Messages(J)
           /\ Messages(A) \in Nat /\ Messages(J) \in Nat
<1>1. A \in SUBSET AllRows
  OBVIOUS
<1>2. Over(CountOf, A) <= Over(CountOf, J)
  BY RowsFinite, OverSubset
<1> QED
  BY <1>1, <1>2, MessagesOver, MessagesNat

LEMMA MessagesUnion ==
    ASSUME NEW A \in SUBSET AllRows, NEW B \in SUBSET AllRows
    PROVE  /\ Messages(A \cup B) <= Messages(A) + Messages(B)
           /\ Messages(A \cup B) \in Nat /\ Messages(A) \in Nat /\ Messages(B) \in Nat
<1>1. A \cup B \in SUBSET AllRows
  OBVIOUS
<1>2. \A j \in A \cup B : CountOf[j] \in Nat
  BY RowsFinite
<1>3. Over(CountOf, A \cup B) <= Over(CountOf, A) + Over(CountOf, B)
  BY <1>2, RowsFinite, OverUnion
<1> QED
  BY <1>1, <1>3, MessagesOver, MessagesNat

\* Rows by a key: the groups of g are among K, and each tells its messages.
RowGroups(J, key, K, g) ==
    /\ J \in SUBSET AllRows
    /\ IsFiniteSet(K) /\ \A j \in J : key[j] \in K
    /\ \A k \in K : g[k] = Messages({j \in J : key[j] = k})

LEMMA MessagesGroups ==
    ASSUME NEW J, NEW key, NEW K, NEW g, RowGroups(J, key, K, g)
    PROVE  Over(g, K) = Messages(J)
<1> USE DEF RowGroups
<1>1. \A k \in K : {j \in J : key[j] = k} \in SUBSET AllRows
  OBVIOUS
<1>2. \A k \in K : g[k] = Over(CountOf, {j \in J : key[j] = k})
  BY <1>1, MessagesOver
<1>3. IsFiniteSet(J) /\ \A j \in J : CountOf[j] \in Int
  BY RowsFinite
<1>4. Grouping(CountOf, J, key, K, g)
  BY <1>2, <1>3 DEF Grouping
<1> QED
  BY <1>4, MessagesOver, OverGroups

LEMMA GroupSumIsMessages ==
    ASSUME NEW J \in SUBSET AllRows, NEW key, NEW g, IsFiniteSet(DOMAIN g),
           \A j \in J : key[j] \in DOMAIN g,
           \A k \in DOMAIN g : g[k].messages = Messages({j \in J : key[j] = k})
    PROVE  GroupSum(g) = Messages(J)
<1> DEFINE m == [k \in DOMAIN g |-> g[k].messages]
<1>1. RowGroups(J, key, DOMAIN g, m)
  BY DEF RowGroups
<1>2. GroupSum(g) = Over(m, DOMAIN g)
  BY DEF GroupSum, Over
<1> HIDE DEF m
<1> QED
  BY <1>1, <1>2, MessagesGroups

LEMMA KeysFinite ==
    ASSUME NEW J \in SUBSET AllRows, NEW key, DOMAIN key = J
    PROVE  /\ IsFiniteSet(Range(key)) /\ \A j \in J : key[j] \in Range(key)
           /\ Range(key) = {key[j] : j \in J}
<1>1. Range(key) = {key[j] : j \in J}
  BY DEF Range
<1>2. IsFiniteSet(J)
  BY RowsFinite
<1>3. IsFiniteSet(Image(key, J))
  BY <1>2, ImageFinite
<1>4. IsFiniteSet({key[j] : j \in J})
  BY <1>3 DEF Image
<1> QED
  BY <1>1, <1>4

LEMMA GroupedByAddsUp ==
    ASSUME NEW J \in SUBSET AllRows, NEW key, DOMAIN key = J
    PROVE  GroupSum(GroupedBy(key)) = Messages(J)
<1> DEFINE g == GroupedBy(key)
<1>1. DOMAIN g = Range(key) /\ \A k \in DOMAIN g : g[k].messages = Messages({j \in J : key[j] = k})
  BY DEF GroupedBy, Totals
<1> HIDE DEF g
<1>2. GroupSum(g) = Messages(J)
  BY <1>1, KeysFinite, GroupSumIsMessages
<1> QED
  BY <1>2 DEF g

-----------------------------------------------------------------------------
(* SameTotal: the breakdowns by one key                                     *)

\* What the totals rest on: only reports of the pool are stored, and days are counted
\* from 1.  A stored report may begin after now.
StatsInv ==
    /\ stored \in SUBSET Pool
    /\ now \in Int /\ now > 0

IsFilter(f) ==
    /\ f = [envelopeFrom |-> f.envelopeFrom, domain |-> f.domain, ip |-> f.ip,
            from |-> f.from, to |-> f.to]
    /\ f.from \in Int /\ f.to \in Int

LEMMA ScopeIsFilter ==
    ASSUME now \in Int, NEW f \in Scopes
    PROVE  IsFilter(f)
BY FiltersAssumption DEF IsFilter, Scopes, Scope

LEMMA FilterWith ==
    ASSUME NEW f, IsFilter(f), NEW x, NEW d \in Int
    PROVE  /\ IsFilter([f EXCEPT !.ip = x]) /\ [f EXCEPT !.ip = x].ip = x
           /\ IsFilter([f EXCEPT !.domain = x]) /\ [f EXCEPT !.domain = x].domain = x
           /\ IsFilter([f EXCEPT !.from = d])
BY DEF IsFilter

LEMMA UnboundedFilters ==
    ASSUME NEW d \in Int, NEW x
    PROVE  /\ IsFilter(Unbounded) /\ IsFilter([Unbounded EXCEPT !.from = d])
           /\ IsFilter([Unbounded EXCEPT !.domain = x])
           /\ [Unbounded EXCEPT !.domain = x, !.from = d]
                = [[Unbounded EXCEPT !.from = d] EXCEPT !.domain = x]
           /\ [Unbounded EXCEPT !.ip = x, !.from = d]
                = [[Unbounded EXCEPT !.from = d] EXCEPT !.ip = x]
           /\ [Unbounded EXCEPT !.from = d].from = d
           /\ \A g \in {Unbounded, [Unbounded EXCEPT !.from = d]} :
                 /\ g.domain = AnyValue /\ g.ip = AnyValue /\ g.envelopeFrom = AnyValue
                 /\ g.to = 0
<1>1. IsFilter(Unbounded) /\ IsFilter([Unbounded EXCEPT !.from = d])
  BY DEF IsFilter, Unbounded
<1>2. IsFilter([Unbounded EXCEPT !.domain = x])
  BY <1>1, FilterWith
<1>3. [Unbounded EXCEPT !.from = d]
        = [envelopeFrom |-> AnyValue, domain |-> AnyValue, ip |-> AnyValue, from |-> d, to |-> 0]
  BY DEF Unbounded
<1>4. ASSUME NEW u, u = Unbounded, NEW v, v = [Unbounded EXCEPT !.from = d]
      PROVE  /\ [u EXCEPT !.domain = x, !.from = d] = [v EXCEPT !.domain = x]
             /\ [u EXCEPT !.ip = x, !.from = d] = [v EXCEPT !.ip = x]
  BY <1>3, <1>4 DEF Unbounded
<1> QED
  BY <1>1, <1>2, <1>3, <1>4 DEF Unbounded

LEMMA WhereRows ==
    ASSUME StatsInv, NEW f
    PROVE  /\ Where(f) \in SUBSET AllRows /\ WhereNoTime(f) \in SUBSET AllRows
           /\ Where(f) \in SUBSET WhereNoTime(f)
           /\ WhereNoTime(f) \in SUBSET JoinOf(stored)
<1>1. JoinOf(stored) \in SUBSET AllRows
  BY DEF StatsInv, JoinOf, AllRows
<1> QED
  BY <1>1 DEF Where, WhereNoTime

\* The rows of one address, by the filter for that address.
LEMMA WhereIP ==
    ASSUME StatsInv, NEW f, IsFilter(f), NEW ip, f.ip \in {AnyValue, ip}, ip # AnyValue
    PROVE  /\ Where([f EXCEPT !.ip = ip]) = {j \in Where(f) : j.row.ip = ip}
           /\ WhereNoTime([f EXCEPT !.ip = ip]) = {j \in WhereNoTime(f) : j.row.ip = ip}
BY DEF Where, WhereNoTime, Scoped, InWindow, IsFilter

LEMMA WhereDomain ==
    ASSUME StatsInv, NEW f, IsFilter(f), NEW d, f.domain \in {AnyValue, d}, d # AnyValue
    PROVE  /\ Where([f EXCEPT !.domain = d]) = {j \in Where(f) : j.rep.domain = d}
           /\ WhereNoTime([f EXCEPT !.domain = d]) = {j \in WhereNoTime(f) : j.rep.domain = d}
BY DEF Where, WhereNoTime, Scoped, InWindow, IsFilter


\* A breakdown whose groups tell their messages, by a key of the rows.
LEMMA BreakdownAddsUp ==
    ASSUME NEW J \in SUBSET AllRows, NEW key, DOMAIN key = J, NEW g,
           DOMAIN g = Range(key),
           \A k \in DOMAIN g : g[k].messages = Messages({j \in J : key[j] = k})
    PROVE  GroupSum(g) = Messages(J)
BY KeysFinite, GroupSumIsMessages

LEMMA SourceInventoryAddsUp ==
    ASSUME StatsInv, NEW f
    PROVE  /\ GroupSum(SourceInventory(f)) = Messages(Where(f))
           /\ DOMAIN SourceInventory(f) = {j.row.ip : j \in Where(f)}
<1> DEFINE J == Where(f)
           key == [j \in J |-> j.row.ip]
           g == SourceInventory(f)
<1>1. DOMAIN g = Range(key) /\ DOMAIN key = J
  BY DEF SourceInventory, Range
<1>2. \A k \in DOMAIN g : g[k].messages = Messages({j \in J : key[j] = k})
  <2>1. SUFFICES ASSUME NEW k \in DOMAIN g PROVE g[k].messages = Messages({j \in J : key[j] = k})
    OBVIOUS
  <2>2. g[k].messages = Messages({j \in J : j.row.ip = k})
    BY DEF SourceInventory, SourceRow
  <2>3. {j \in J : j.row.ip = k} = {j \in J : key[j] = k}
    OBVIOUS
  <2> QED
    BY <2>2, <2>3
<1>3. J \in SUBSET AllRows
  BY WhereRows
<1> HIDE DEF J, key, g
<1>4. GroupSum(g) = Messages(J)
  BY <1>1, <1>2, <1>3, BreakdownAddsUp
<1> QED
  BY <1>4 DEF SourceInventory, g, J

LEMMA ReporterInventoryAddsUp ==
    ASSUME StatsInv, NEW f
    PROVE  GroupSum(ReporterInventory(f)) = Messages(Where(f))
<1> DEFINE J == Where(f)
           key == [j \in J |-> j.rep.org]
           g == ReporterInventory(f)
<1>1. DOMAIN g = Range(key) /\ DOMAIN key = J
  BY DEF ReporterInventory, Range
<1>2. \A k \in DOMAIN g : g[k].messages = Messages({j \in J : key[j] = k})
  <2>1. SUFFICES ASSUME NEW k \in DOMAIN g PROVE g[k].messages = Messages({j \in J : key[j] = k})
    OBVIOUS
  <2>2. g[k].messages = Messages({j \in J : j.rep.org = k})
    BY DEF ReporterInventory
  <2>3. {j \in J : j.rep.org = k} = {j \in J : key[j] = k}
    OBVIOUS
  <2> QED
    BY <2>2, <2>3
<1>3. J \in SUBSET AllRows
  BY WhereRows
<1> HIDE DEF J, key, g
<1>4. GroupSum(g) = Messages(J)
  BY <1>1, <1>2, <1>3, BreakdownAddsUp
<1> QED
  BY <1>4 DEF g, J

LEMMA HistogramAddsUp ==
    ASSUME StatsInv, NEW f
    PROVE  GroupSum(SigningAlignment(f).histogram) = Messages(Where(f))
<1> DEFINE J == Where(f)
           key == [j \in J |-> Len(j.row.sigs)]
           g == SigningAlignment(f).histogram
<1>1. DOMAIN g = Range(key) /\ DOMAIN key = J
  BY DEF SigningAlignment, Range
<1>2. \A k \in DOMAIN g : g[k].messages = Messages({j \in J : key[j] = k})
  <2>1. SUFFICES ASSUME NEW k \in DOMAIN g PROVE g[k].messages = Messages({j \in J : key[j] = k})
    OBVIOUS
  <2>2. g[k].messages = Messages({j \in J : Len(j.row.sigs) = k})
    BY DEF SigningAlignment
  <2>3. {j \in J : Len(j.row.sigs) = k} = {j \in J : key[j] = k}
    OBVIOUS
  <2> QED
    BY <2>2, <2>3
<1>3. J \in SUBSET AllRows
  BY WhereRows
<1> HIDE DEF J, key, g
<1>4. GroupSum(g) = Messages(J)
  BY <1>1, <1>2, <1>3, BreakdownAddsUp
<1> QED
  BY <1>4 DEF g, J

LEMMA EnvelopeAddsUp ==
    ASSUME StatsInv, NEW f
    PROVE  GroupedTotal(EnvelopeFromAlignment(f)) = Messages(Where(f))
<1> DEFINE J == Where(f)
           key == [j \in J |-> j.row.efrom]
           e == EnvelopeFromAlignment(f)
           g == [k \in DOMAIN e |-> e[k].totals]
<1>1. DOMAIN g = Range(key) /\ DOMAIN key = J
  BY DEF EnvelopeFromAlignment, Range
<1>2. \A k \in DOMAIN g : g[k].messages = Messages({j \in J : key[j] = k})
  <2>1. SUFFICES ASSUME NEW k \in DOMAIN g PROVE g[k].messages = Messages({j \in J : key[j] = k})
    OBVIOUS
  <2>2. g[k].messages = Messages({j \in J : j.row.efrom = k})
    BY DEF EnvelopeFromAlignment, Totals
  <2>3. {j \in J : j.row.efrom = k} = {j \in J : key[j] = k}
    OBVIOUS
  <2> QED
    BY <2>2, <2>3
<1>3. J \in SUBSET AllRows
  BY WhereRows
<1>4. GroupedTotal(e) = GroupSum(g)
  BY DEF GroupedTotal, GroupSum
<1> HIDE DEF J, key, g, e
<1>5. GroupSum(g) = Messages(J)
  BY <1>1, <1>2, <1>3, BreakdownAddsUp
<1> QED
  BY <1>4, <1>5 DEF e, J

-----------------------------------------------------------------------------
(* SameTotal: the trend and the domains that are not managed                *)

\* The breakdowns that are grouped by a key, and nothing else.
LEMMA GroupedViewsAddUp ==
    ASSUME StatsInv, NEW f
    PROVE  /\ GroupSum(SourceVolumes(f)) = Messages(Where(f))
           /\ GroupSum(DomainStats(f)) = Messages(Where(f))
           /\ GroupSum(TrendData(f, TRUE)) = Messages(Where(f))
           /\ GroupSum(TrendData(f, FALSE)) = Messages(Where(f))
           /\ GroupSum(GeoDistribution(f)) = Messages(Where(f))
<1> DEFINE J == Where(f)
<1>1. J \in SUBSET AllRows
  BY WhereRows
<1> HIDE DEF J
<1>2. /\ GroupSum(GroupedBy([j \in J |-> j.row.ip])) = Messages(J)
      /\ GroupSum(GroupedBy([j \in J |-> j.rep.domain])) = Messages(J)
      /\ GroupSum(GroupedBy([j \in J |-> Bucket(j.rep.begin, TRUE)])) = Messages(J)
      /\ GroupSum(GroupedBy([j \in J |-> Bucket(j.rep.begin, FALSE)])) = Messages(J)
      /\ GroupSum(GroupedBy([j \in J |-> CountryOf(j.row.ip)])) = Messages(J)
  BY <1>1, GroupedByAddsUp
<1> QED
  BY <1>2 DEF SourceVolumes, DomainStats, TrendData, GeoDistribution, J

LEMMA RowDays ==
    ASSUME StatsInv, NEW f, NEW j \in Where(f)
    PROVE  /\ j.rep \in stored /\ j.rep.begin \in Nat \ {0}
           /\ j.rep.domain # AnyValue /\ j.row.ip # AnyValue
           /\ InWindow(j.rep, f)
<1>1. j \in JoinOf(stored) /\ InWindow(j.rep, f)
  BY DEF Where, WhereNoTime
<1>2. j.rep \in stored /\ j.row \in j.rep.rows
  BY <1>1 DEF JoinOf
<1> QED
  BY <1>1, <1>2, RowsAssumption DEF StatsInv

\* The rows of a filter that begin by the end of its window.
BegunRows(f) == {j \in Where(f) : j.rep.begin <= WindowEnd(f)}

\* Filling the gaps keeps the labels of all rows up to the end of the window, of a
\* daily trend always and of a weekly one that starts with its first point; a daily
\* trend has no label after the end.
LEMMA FilledKeepsLabels ==
    ASSUME StatsInv, NEW f, IsFilter(f), NEW daily \in BOOLEAN, daily \/ f.from = 0,
           DOMAIN TrendData(f, daily) # {}
    PROVE  LET L == FilledLabels(DOMAIN TrendData(f, daily), f.from, f.to, daily)
           IN  /\ \A j \in BegunRows(f) : Bucket(j.rep.begin, daily) \in L
               /\ daily => \A j \in Where(f) \ BegunRows(f) : Bucket(j.rep.begin, daily) \notin L
               /\ IsFiniteSet(L)
<1> DEFINE J == Where(f)
           days == {j.rep.begin : j \in J}
           points == DOMAIN TrendData(f, daily)
           first == CHOOSE p \in points : \A o \in points : p <= o
           start == IF f.from = 0 THEN BucketStart(first, daily) ELSE f.from
           end == IF f.to > 0 THEN f.to ELSE now
           step == IF daily THEN 1 ELSE 7
           T == {u \in start .. end : (u - start) % step = 0}
           key == [j \in J |-> Bucket(j.rep.begin, daily)]
<1>1. points = Range(key) /\ DOMAIN key = J
  BY DEF TrendData, GroupedBy
<1>2. points = {Bucket(b, daily) : b \in days}
  BY <1>1 DEF Range
<1>3. IsFiniteSet(points)
  BY <1>1, WhereRows, KeysFinite
<1>4. \A b \in days : b \in Int /\ b >= 1 /\ (f.from # 0 => f.from <= b)
  BY RowDays DEF InWindow, IsFilter
<1>5. \A b \in days : Bucket(b, daily) \in Int
  BY <1>4 DEF Bucket
<1>6. first \in points /\ \A o \in points : first <= o
  <2>1. points \in SUBSET Int
    BY <1>2, <1>5
  <2>2. points # {}
    OBVIOUS
  <2> HIDE DEF points
  <2> QED
    BY <1>3, <2>1, <2>2, Extremes
<1>7. start \in Int /\ end \in Int
  <2>1. first \in Int
    BY <1>2, <1>5, <1>6
  <2>2. f.from \in Int /\ f.to \in Int /\ now \in Int
    BY DEF IsFilter, StatsInv
  <2> HIDE DEF first
  <2>3. BucketStart(first, daily) \in Int
    BY <2>1 DEF BucketStart
  <2> QED
    BY <2>2, <2>3
<1>8. FilledLabels(points, f.from, f.to, daily) = {Bucket(t, daily) : t \in T}
  BY DEF FilledLabels
<1>9. IsFiniteSet(T)
  <2>1. IsFiniteSet(start .. end)
    BY <1>7, FS_Interval
  <2> HIDE DEF start, end, step
  <2> QED
    BY <2>1, FS_Subset
<1>10. IsFiniteSet({Bucket(t, daily) : t \in T})
  <2> DEFINE h == [t \in T |-> Bucket(t, daily)]
  <2> HIDE DEF T
  <2>1. {Bucket(t, daily) : t \in T} = Image(h, T)
    BY DEF Image
  <2> QED
    BY <1>9, <2>1, ImageFinite
<1>11. ASSUME NEW b \in days, b <= end
       PROVE  \E t \in T : Bucket(b, daily) = Bucket(t, daily)
  <2>1. Bucket(b, daily) \in points /\ first <= Bucket(b, daily) /\ first \in Int
    BY <1>2, <1>5, <1>6
  <2> HIDE DEF points, first
  <2>2. b \in Int /\ 1 <= b /\ b <= end /\ (f.from # 0 => f.from <= b)
    BY <1>4, <1>11
  <2> HIDE DEF days
  <2>3. CASE daily
    <3>1. b \in start .. end
      BY <1>7, <2>1, <2>2, <2>3 DEF Bucket, BucketStart
    <3>2. (b - start) % 1 = 0
      BY <1>7, <2>2
    <3> QED
      BY <2>3, <3>1, <3>2
  <2>4. CASE ~daily
    <3> DEFINE t == 7 * (b \div 7)
    <3>1. start = 7 * first
      BY <2>4 DEF BucketStart
    <3>2. first <= b \div 7 /\ b \div 7 \in Int
      BY <2>1, <2>2, <2>4 DEF Bucket
    <3>3. t \in start .. end
      BY <1>7, <2>1, <2>2, <3>1, <3>2
    <3>4. (t - start) % 7 = 0
      BY <2>1, <3>1, <3>2
    <3>5. t \div 7 = b \div 7
      BY <3>2
    <3> QED
      BY <2>4, <3>3, <3>4, <3>5 DEF Bucket
  <2> QED
    BY <2>3, <2>4
<1>12. \A j \in BegunRows(f) : j.rep.begin \in days /\ j.rep.begin <= end
  BY DEF BegunRows, WindowEnd
<1>13. \A j \in Where(f) \ BegunRows(f) : j.rep.begin \in Int /\ ~(j.rep.begin <= end)
  BY <1>4 DEF BegunRows, WindowEnd
<1>14. \A t \in T : t \in Int /\ t <= end
  BY <1>7
<1> HIDE DEF T, days, end
<1>15. daily => \A j \in Where(f) \ BegunRows(f), t \in T :
          Bucket(j.rep.begin, daily) # Bucket(t, daily)
  BY <1>13, <1>14 DEF Bucket
<1>16. \A j \in BegunRows(f) : Bucket(j.rep.begin, daily) \in {Bucket(t, daily) : t \in T}
  BY <1>11, <1>12
<1> QED
  BY <1>8, <1>10, <1>15, <1>16

\* The filled trend tells the rows whose labels it has: up to the end of the window
\* all of them, and after it none in a daily trend.
LEMMA FilledTrendAddsUp ==
    ASSUME StatsInv, NEW f, IsFilter(f), NEW daily \in BOOLEAN, daily \/ f.from = 0
    PROVE  /\ daily => GroupSum(FilledTrend(f, daily)) = Messages(BegunRows(f))
           /\ Messages(BegunRows(f)) <= GroupSum(FilledTrend(f, daily))
           /\ GroupSum(FilledTrend(f, daily)) <= Messages(Where(f))
<1> DEFINE J == Where(f)
           B == BegunRows(f)
           p == TrendData(f, daily)
           g == FilledTrend(f, daily)
           key == [j \in J |-> Bucket(j.rep.begin, daily)]
<1>1. J \in SUBSET AllRows /\ B \in SUBSET J
  BY WhereRows DEF BegunRows
<1>2. /\ DOMAIN p = Range(key) /\ DOMAIN key = J
      /\ \A k \in DOMAIN p : p[k].messages = Messages({j \in J : key[j] = k})
  BY DEF TrendData, GroupedBy, Totals
<1>3. CASE DOMAIN p = {}
  <2>1. g = p
    BY <1>3 DEF FilledTrend
  <2>2. GroupSum(p) = Messages(J)
    BY <1>1, GroupedByAddsUp DEF TrendData
  <2>3. J = {} /\ B = {}
    <3>1. Range(key) = {} /\ DOMAIN key = J
      BY <1>2, <1>3
    <3> HIDE DEF J, B, p, key
    <3>2. J = {}
      BY <1>1, <3>1, KeysFinite
    <3> QED
      BY <1>1, <3>2
  <2>4. GroupSum(g) = 0 /\ Messages(J) = 0 /\ Messages(B) = 0
    <3> HIDE DEF J, B, p, g
    <3> QED
      BY <2>1, <2>2, <2>3, MessagesNone
  <2> QED
    BY <2>4
<1>4. CASE DOMAIN p # {}
  <2> DEFINE L == FilledLabels(DOMAIN p, f.from, f.to, daily)
             I == {j \in J : key[j] \in L}
  <2>1. /\ \A j \in B : Bucket(j.rep.begin, daily) \in L
        /\ daily => \A j \in J \ B : Bucket(j.rep.begin, daily) \notin L
        /\ IsFiniteSet(L)
    BY <1>4, FilledKeepsLabels
  <2>2. B \in SUBSET I /\ (daily => I = B)
    <3>1. \A j \in J : key[j] = Bucket(j.rep.begin, daily)
      OBVIOUS
    <3> HIDE DEF J, B, key, L
    <3> QED
      BY <1>1, <2>1, <3>1
  <2>3. DOMAIN g = L
    BY <1>4 DEF FilledTrend
  <2>4. \A l \in L : g[l].messages = IF l \in DOMAIN p THEN p[l].messages ELSE 0
    BY <1>4 DEF FilledTrend
  <2> HIDE DEF J, B, p, g, key, L
  <2>5. \A j \in J : key[j] \in DOMAIN p
    BY <1>1, <1>2, KeysFinite
  <2>6. \A l \in L : g[l].messages = Messages({j \in J : key[j] = l})
    <3>1. ASSUME NEW l \in L, l \notin DOMAIN p PROVE Messages({j \in J : key[j] = l}) = 0
      <4>1. {j \in J : key[j] = l} = {}
        BY <2>5, <3>1
      <4> QED
        BY <4>1, MessagesNone
    <3> QED
      BY <1>2, <2>4, <3>1
  <2>7. \A l \in L : g[l].messages = Messages({j \in I : key[j] = l})
    <3>1. \A l \in L : {j \in I : key[j] = l} = {j \in J : key[j] = l}
      OBVIOUS
    <3> QED
      BY <2>6, <3>1
  <2>8. I \in SUBSET AllRows /\ I \in SUBSET J /\ \A j \in I : key[j] \in L
    BY <1>1
  <2> HIDE DEF I
  <2>9. GroupSum(g) = Messages(I)
    BY <2>1, <2>3, <2>7, <2>8, GroupSumIsMessages
  <2>10. Messages(B) <= Messages(I) /\ Messages(I) <= Messages(J)
    BY <1>1, <2>2, <2>8, MessagesSubset
  <2> QED
    BY <2>2, <2>9, <2>10 DEF g, J, B
<1> QED
  BY <1>3, <1>4

\* The rows up to the end of the window are those of the dashboard that ends there.
LEMMA BegunIsWindow ==
    ASSUME StatsInv, NEW f, IsFilter(f)
    PROVE  DashboardStats([f EXCEPT !.to = WindowEnd(f)]).totals.messages = Messages(BegunRows(f))
<1> DEFINE end == WindowEnd(f)
<1>1. end \in Int /\ end > 0 /\ (f.to > 0 => end = f.to)
  BY DEF StatsInv, IsFilter, WindowEnd
<1> HIDE DEF end
<1>2. ASSUME NEW w, w = [f EXCEPT !.to = end]
      PROVE  Where(w) = BegunRows(f)
  <2>1. /\ w.to = end /\ w.from = f.from /\ w.domain = f.domain
        /\ w.ip = f.ip /\ w.envelopeFrom = f.envelopeFrom
    BY <1>2 DEF IsFilter
  <2>2. WhereNoTime(w) = WhereNoTime(f)
    BY <2>1 DEF WhereNoTime, Scoped
  <2>3. \A j \in WhereNoTime(f) : j.rep.begin \in Int
    BY RowsAssumption DEF WhereNoTime, JoinOf, StatsInv
  <2>4. \A j \in WhereNoTime(f) :
           InWindow(j.rep, w) <=> InWindow(j.rep, f) /\ j.rep.begin <= end
    BY <1>1, <2>1, <2>3 DEF InWindow, IsFilter
  <2> QED
    BY <2>2, <2>4 DEF Where, BegunRows, end
<1>3. Where([f EXCEPT !.to = end]) = BegunRows(f)
  BY <1>2
<1> QED
  BY <1>3 DEF DashboardStats, Totals, end

LEMMA ManagedSplit ==
    ASSUME StatsInv, NEW f
    PROVE  GroupSum(UnmanagedDomains(f))
             + GroupSum([d \in DOMAIN DomainStats(f) \cap managed |-> DomainStats(f)[d]])
             = Messages(Where(f))
<1> DEFINE J == Where(f)
           A == {j \in J : j.rep.domain \notin managed}
           B == {j \in J : j.rep.domain \in managed}
           g == DomainStats(f)
           h == [d \in DOMAIN g \cap managed |-> g[d]]
           key == [j \in B |-> j.rep.domain]
<1>1. J \in SUBSET AllRows
  BY WhereRows
<1>2. GroupSum(UnmanagedDomains(f)) = Messages(A)
  BY <1>1, GroupedByAddsUp DEF UnmanagedDomains
<1>3. DOMAIN g = {j.rep.domain : j \in J}
  BY DEF DomainStats, GroupedBy, Range
<1>4. DOMAIN h = Range(key) /\ DOMAIN key = B
  BY <1>3 DEF Range
<1>5. ASSUME NEW d \in DOMAIN h PROVE h[d].messages = Messages({j \in B : key[j] = d})
  <2>1. h[d].messages = Messages({j \in J : j.rep.domain = d})
    <3>1. h[d] = g[d] /\ d \in managed
      OBVIOUS
    <3>2. g[d].messages = Messages({j \in J : [k \in J |-> k.rep.domain][j] = d})
      BY <1>3 DEF DomainStats, GroupedBy, Totals
    <3>3. {j \in J : [k \in J |-> k.rep.domain][j] = d} = {j \in J : j.rep.domain = d}
      OBVIOUS
    <3> QED
      BY <3>1, <3>2, <3>3
  <2>2. {j \in B : key[j] = d} = {j \in J : j.rep.domain = d}
    OBVIOUS
  <2> QED
    BY <2>1, <2>2
<1>6. RowParts(J, A, B) /\ B \in SUBSET AllRows
  BY <1>1 DEF RowParts
<1> HIDE DEF A, B, h, key
<1>7. GroupSum(h) = Messages(B)
  BY <1>4, <1>5, <1>6, BreakdownAddsUp
<1>8. Messages(J) = Messages(A) + Messages(B)
  BY <1>1, <1>6, MessagesSplit
<1> QED
  BY <1>2, <1>7, <1>8 DEF h

LEMMA TotalsAgree ==
    ASSUME StatsInv, NEW f, IsFilter(f)
    PROVE  SameTotal(f, DashboardStats(f).totals.messages)
<1> DEFINE n == DashboardStats(f).totals.messages
           views == <<SourceVolumes(f), DomainStats(f), TrendData(f, TRUE), TrendData(f, FALSE),
                      GeoDistribution(f), SourceInventory(f), ReporterInventory(f),
                      SigningAlignment(f).histogram>>
           begun == DashboardStats([f EXCEPT !.to = WindowEnd(f)]).totals.messages
           weekly == GroupSum(FilledTrend(f, FALSE))
<1>1. n = Messages(Where(f))
  BY DEF DashboardStats, Totals
<1> HIDE DEF n, begun, weekly
<1>2. \A i \in DOMAIN views : GroupSum(views[i]) = n
  <2>1. /\ GroupSum(SourceVolumes(f)) = n /\ GroupSum(DomainStats(f)) = n
        /\ GroupSum(TrendData(f, TRUE)) = n /\ GroupSum(TrendData(f, FALSE)) = n
        /\ GroupSum(GeoDistribution(f)) = n /\ GroupSum(SourceInventory(f)) = n
        /\ GroupSum(ReporterInventory(f)) = n
        /\ GroupSum(SigningAlignment(f).histogram) = n
    BY <1>1, GroupedViewsAddUp, SourceInventoryAddsUp, ReporterInventoryAddsUp,
       HistogramAddsUp
  <2>2. DOMAIN views = 1 .. 8
    OBVIOUS
  <2>3. /\ views[1] = SourceVolumes(f) /\ views[2] = DomainStats(f)
        /\ views[3] = TrendData(f, TRUE) /\ views[4] = TrendData(f, FALSE)
        /\ views[5] = GeoDistribution(f) /\ views[6] = SourceInventory(f)
        /\ views[7] = ReporterInventory(f) /\ views[8] = SigningAlignment(f).histogram
    OBVIOUS
  <2> HIDE DEF views
  <2>4. \A i \in 1 .. 8 : i \in {1, 2, 3, 4, 5, 6, 7, 8}
    OBVIOUS
  <2> QED
    BY <2>1, <2>2, <2>3, <2>4
<1>3. GroupedTotal(EnvelopeFromAlignment(f)) = n
  BY <1>1, EnvelopeAddsUp
<1>4. /\ GroupSum(FilledTrend(f, TRUE)) = begun
      /\ f.from = 0 => begun <= weekly /\ weekly <= n
  BY <1>1, FilledTrendAddsUp, BegunIsWindow DEF begun, weekly
<1>5. GroupSum(UnmanagedDomains(f))
        + GroupSum([d \in DOMAIN DomainStats(f) \cap managed |-> DomainStats(f)[d]]) = n
  BY <1>1, ManagedSplit
<1>6. SameTotal(f, n)
  BY <1>2, <1>3, <1>4, <1>5 DEF SameTotal, begun, weekly
<1> QED
  BY <1>6 DEF n

-----------------------------------------------------------------------------
(* OutcomesAddUp                                                            *)

\* Passing and failing rows, and the four cells of the matrix, split all rows.
LEMMA MatrixSplits ==
    ASSUME NEW J \in SUBSET AllRows
    PROVE  /\ Messages(Passing(J)) + Messages(Failing(J)) = Messages(J)
           /\ MatrixTotal(Matrix(J)) = Messages(J)
           /\ Matrix(J).neither = Messages(Failing(J))
           /\ Matrix(J).bothPass + Matrix(J).dkimOnly = Messages({j \in J : j.row.dkim})
           /\ Matrix(J).bothPass + Matrix(J).spfOnly = Messages({j \in J : j.row.spf})
<1> DEFINE P == Passing(J)
           F == Failing(J)
           D == {j \in J : j.row.dkim}
           S == {j \in J : j.row.spf}
           both == {j \in J : j.row.dkim /\ j.row.spf}
           onlyD == {j \in J : j.row.dkim /\ ~j.row.spf}
           onlyS == {j \in J : ~j.row.dkim /\ j.row.spf}
           neither == {j \in J : ~j.row.dkim /\ ~j.row.spf}
<1>1. /\ RowParts(J, P, F) /\ F = neither /\ RowParts(P, D, onlyS)
      /\ RowParts(D, both, onlyD) /\ RowParts(S, both, onlyS)
      /\ P \in SUBSET AllRows /\ D \in SUBSET AllRows /\ S \in SUBSET AllRows
  BY DEF Passing, Failing, RowParts
<1>2. Matrix(J) = [bothPass |-> Messages(both), dkimOnly |-> Messages(onlyD),
                   spfOnly |-> Messages(onlyS), neither |-> Messages(neither)]
  BY DEF Matrix
<1> HIDE DEF P, F, D, S, both, onlyD, onlyS, neither
<1>3. /\ Messages(J) = Messages(P) + Messages(F)
      /\ Messages(P) = Messages(D) + Messages(onlyS)
      /\ Messages(D) = Messages(both) + Messages(onlyD)
      /\ Messages(S) = Messages(both) + Messages(onlyS)
      /\ Messages(P) \in Nat /\ Messages(F) \in Nat /\ Messages(both) \in Nat
      /\ Messages(onlyD) \in Nat /\ Messages(onlyS) \in Nat
  BY <1>1, MessagesSplit
<1>4. /\ Messages(P) + Messages(F) = Messages(J)
      /\ MatrixTotal(Matrix(J)) = Messages(J)
      /\ Matrix(J).neither = Messages(F)
      /\ Matrix(J).bothPass + Matrix(J).dkimOnly = Messages(D)
      /\ Matrix(J).bothPass + Matrix(J).spfOnly = Messages(S)
  BY <1>1, <1>2, <1>3 DEF MatrixTotal
<1> QED
  BY <1>4 DEF P, F, D, S

\* Every row was disposed of in one of three ways.
LEMMA DispositionsSplit ==
    ASSUME NEW J \in SUBSET AllRows
    PROVE  DispNone(J) + Disposed(J, "quarantine") + Disposed(J, "reject") = Messages(J)
<1> DEFINE N == {j \in J : j.row.disp \notin {"quarantine", "reject"}}
           E == {j \in J : j.row.disp \in {"quarantine", "reject"}}
           Q == {j \in J : j.row.disp = "quarantine"}
           R == {j \in J : j.row.disp = "reject"}
<1>1. RowParts(J, N, E) /\ RowParts(E, Q, R) /\ E \in SUBSET AllRows
  BY DEF RowParts
<1>2. DispNone(J) = Messages(N) /\ Disposed(J, "quarantine") = Messages(Q)
      /\ Disposed(J, "reject") = Messages(R)
  BY DEF DispNone, Disposed
<1> HIDE DEF N, E, Q, R
<1>3. /\ Messages(J) = Messages(N) + Messages(E)
      /\ Messages(E) = Messages(Q) + Messages(R)
      /\ Messages(N) \in Nat /\ Messages(Q) \in Nat /\ Messages(R) \in Nat
  BY <1>1, MessagesSplit
<1> QED
  BY <1>2, <1>3

LEMMA SpanOrdered ==
    ASSUME StatsInv, NEW f, NEW K \in SUBSET WhereNoTime(f), K # {}
    PROVE  LET span == {j.rep.begin : j \in K} IN Least(span) <= Greatest(span)
<1> DEFINE span == {j.rep.begin : j \in K}
           begins == [j \in K |-> j.rep.begin]
<1>1. K \in SUBSET AllRows
  BY WhereRows
<1>2. span \in SUBSET Int /\ span # {}
  BY <1>1, RowIn DEF AllRows
<1>3. span = Image(begins, K)
  BY DEF Image
<1> HIDE DEF span, begins
<1>4. IsFiniteSet(span)
  BY <1>1, <1>3, RowsFinite, ImageFinite
<1>5. Least(span) <= Greatest(span)
  BY <1>2, <1>4, LeastGreatest
<1> QED
  BY <1>5 DEF span

\* The line of an address tells the messages of its rows.
LEMMA SourceLine ==
    ASSUME StatsInv, NEW f, NEW ip \in DOMAIN SourceInventory(f)
    PROVE  LET row == SourceInventory(f)[ip]
               J == {j \in Where(f) : j.row.ip = ip}
           IN  /\ row = SourceRow(f, ip, J) /\ row.messages = Messages(J)
               /\ row.matrix = Matrix(J) /\ J # {} /\ J \in SUBSET AllRows
               /\ MatrixTotal(row.matrix) = row.messages
               /\ row.none + row.quarantine + row.reject = row.messages
               /\ row.rawDkim <= row.messages /\ row.rawSpf <= row.messages
               /\ row.first <= row.last
<1> DEFINE J == {j \in Where(f) : j.row.ip = ip}
           K == {k \in WhereNoTime(f) : k.row.ip = ip}
           span == {j.rep.begin : j \in K}
           row == SourceInventory(f)[ip]
           D == {j \in J : RawPass(j.row.sigs)}
           S == {j \in J : RawPass(j.row.spfs)}
<1>1. row = SourceRow(f, ip, J) /\ J # {}
  BY DEF SourceInventory
<1>2. J \in SUBSET AllRows /\ J \subseteq K
  BY WhereRows
<1>3. Least(span) <= Greatest(span)
  <2>1. K \in SUBSET WhereNoTime(f) /\ K # {}
    BY <1>1, <1>2
  <2> QED
    BY <2>1, SpanOrdered
<1>4. /\ row.messages = Messages(J) /\ row.matrix = Matrix(J)
      /\ row.none = DispNone(J) /\ row.quarantine = Disposed(J, "quarantine")
      /\ row.reject = Disposed(J, "reject")
      /\ row.rawDkim = Messages(D) /\ row.rawSpf = Messages(S)
      /\ row.first = Least(span) /\ row.last = Greatest(span)
  BY <1>1 DEF SourceRow
<1>5. D \in SUBSET J /\ S \in SUBSET J
  OBVIOUS
<1> HIDE DEF J, K, span, row, D, S
<1>6. Messages(D) <= Messages(J) /\ Messages(S) <= Messages(J)
  BY <1>2, <1>5, MessagesSubset
<1>7. MatrixTotal(row.matrix) = row.messages
  BY <1>2, <1>4, MatrixSplits
<1>8. row.none + row.quarantine + row.reject = row.messages
  BY <1>2, <1>4, DispositionsSplit
<1> QED
  BY <1>1, <1>2, <1>3, <1>4, <1>6, <1>7, <1>8 DEF J, row

LEMMA OutcomesAgree ==
    ASSUME StatsInv, NEW f
    PROVE  OutcomesAddUp(f)
<1> DEFINE J == Where(f)
           d == DashboardStats(f)
           m == AuthMatrix(f)
           inv == SourceInventory(f)
<1>1. J \in SUBSET AllRows
  BY WhereRows
<1>2. /\ d.totals = Totals(J) /\ d.dkimPass = Messages({j \in J : j.row.dkim})
      /\ d.spfPass = Messages({j \in J : j.row.spf})
      /\ d.none = DispNone(J) /\ d.quarantined = Disposed(J, "quarantine")
      /\ d.rejected = Disposed(J, "reject")
  BY DEF DashboardStats
<1>3. /\ d.totals.messages = Messages(J) /\ d.totals.passed = Messages(Passing(J))
      /\ d.totals.failed = Messages(Failing(J))
  BY <1>2 DEF Totals
<1>4. m = Matrix(J)
  BY DEF AuthMatrix
<1>5. DispositionStats(f) = [none |-> d.none, quarantine |-> d.quarantined,
                             reject |-> d.rejected]
  BY <1>2 DEF DispositionStats
<1> HIDE DEF J, d, m
<1>6. d.totals.passed + d.totals.failed = d.totals.messages
  BY <1>1, <1>3, MatrixSplits
<1>7. d.none + d.quarantined + d.rejected = d.totals.messages
  BY <1>1, <1>2, <1>3, DispositionsSplit
<1>8. /\ m.neither = d.totals.failed
      /\ m.bothPass + m.dkimOnly = d.dkimPass /\ m.bothPass + m.spfOnly = d.spfPass
  BY <1>1, <1>2, <1>3, <1>4, MatrixSplits
<1>9. \A ip \in DOMAIN inv :
         /\ MatrixTotal(inv[ip].matrix) = inv[ip].messages
         /\ inv[ip].none + inv[ip].quarantine + inv[ip].reject = inv[ip].messages
         /\ inv[ip].rawDkim <= inv[ip].messages /\ inv[ip].rawSpf <= inv[ip].messages
         /\ inv[ip].first <= inv[ip].last
  BY SourceLine
<1> QED
  BY <1>5, <1>6, <1>7, <1>8, <1>9 DEF OutcomesAddUp, d, m

-----------------------------------------------------------------------------
(* DetailsAgree: the page of an address                                     *)

\* A group of a breakdown is the totals of the rows of its key.
LEMMA VolumeLines ==
    ASSUME NEW f
    PROVE  /\ DOMAIN SourceVolumes(f) = {j.row.ip : j \in Where(f)}
           /\ \A k \in DOMAIN SourceVolumes(f) :
                 SourceVolumes(f)[k] = Totals({j \in Where(f) : j.row.ip = k})
           /\ DOMAIN DomainStats(f) = {j.rep.domain : j \in Where(f)}
           /\ \A k \in DOMAIN DomainStats(f) :
                 DomainStats(f)[k] = Totals({j \in Where(f) : j.rep.domain = k})
<1> DEFINE J == Where(f)
           ips == [j \in J |-> j.row.ip]
           domains == [j \in J |-> j.rep.domain]
<1>1. /\ DOMAIN GroupedBy(ips) = {j.row.ip : j \in J}
      /\ DOMAIN GroupedBy(domains) = {j.rep.domain : j \in J}
  BY DEF GroupedBy, Range
<1>2. ASSUME NEW k \in DOMAIN GroupedBy(ips)
      PROVE  GroupedBy(ips)[k] = Totals({j \in J : j.row.ip = k})
  <2>1. GroupedBy(ips)[k] = Totals({j \in DOMAIN ips : ips[j] = k})
    BY DEF GroupedBy
  <2>2. {j \in DOMAIN ips : ips[j] = k} = {j \in J : j.row.ip = k}
    OBVIOUS
  <2> QED
    BY <2>1, <2>2
<1>3. ASSUME NEW k \in DOMAIN GroupedBy(domains)
      PROVE  GroupedBy(domains)[k] = Totals({j \in J : j.rep.domain = k})
  <2>1. GroupedBy(domains)[k] = Totals({j \in DOMAIN domains : domains[j] = k})
    BY DEF GroupedBy
  <2>2. {j \in DOMAIN domains : domains[j] = k} = {j \in J : j.rep.domain = k}
    OBVIOUS
  <2> QED
    BY <2>1, <2>2
<1> QED
  BY <1>1, <1>2, <1>3 DEF SourceVolumes, DomainStats

LineOf(f, ip) == [i \in {ip} |-> SourceInventory(f)[ip]]

\* The page of an address has the line of the inventory it was opened from.
LEMMA DetailRow ==
    ASSUME StatsInv, NEW f, IsFilter(f), NEW ip \in DOMAIN SourceInventory(f)
    PROVE  /\ SourceDetail(f, ip).row = LineOf(f, ip)
           /\ Where([f EXCEPT !.ip = ip]) = {j \in Where(f) : j.row.ip = ip}
<1> DEFINE sf == [f EXCEPT !.ip = ip]
           J == {j \in Where(f) : j.row.ip = ip}
           K == {k \in WhereNoTime(f) : k.row.ip = ip}
<1>1. PICK m \in Where(f) : m.row.ip = ip
  BY DEF SourceInventory
<1>2. f.ip \in {AnyValue, ip} /\ ip # AnyValue
  BY <1>1, RowDays DEF Where, WhereNoTime, Scoped
<1>3. Where(sf) = J /\ WhereNoTime(sf) = K
  BY <1>2, WhereIP
<1>4. sf.from = f.from /\ sf.to = f.to
  BY DEF IsFilter
<1> HIDE DEF sf
<1>5. /\ {j.row.ip : j \in Where(sf)} = {ip}
      /\ {j \in Where(sf) : j.row.ip = ip} = J
      /\ {k \in WhereNoTime(sf) : k.row.ip = ip} = K
  BY <1>1, <1>3
<1>6. SourceInventory(sf) = [i \in {ip} |-> SourceRow(sf, i, {j \in Where(sf) : j.row.ip = i})]
  BY <1>5 DEF SourceInventory
<1>7. SourceRow(sf, ip, J) = SourceRow(f, ip, J)
  BY <1>4, <1>5 DEF SourceRow, NewIn
<1>8. SourceInventory(f)[ip] = SourceRow(f, ip, J)
  BY DEF SourceInventory
<1> HIDE DEF J, K
<1>9. \A i \in {ip} : SourceRow(sf, i, {j \in Where(sf) : j.row.ip = i}) = SourceInventory(f)[ip]
  BY <1>5, <1>7, <1>8
<1>10. SourceInventory(sf) = [i \in {ip} |-> SourceInventory(f)[ip]]
  BY <1>6, <1>9
<1> QED
  BY <1>3, <1>10 DEF SourceDetail, sf, J, LineOf

LEMMA DetailParts ==
    ASSUME StatsInv, NEW f, IsFilter(f), NEW ip \in DOMAIN SourceInventory(f),
           NEW part \in DOMAIN SourceDetail(f, ip) \ {"row"}
    PROVE  GroupSum(SourceDetail(f, ip)[part]) = SourceInventory(f)[ip].messages
<1> DEFINE sf == [f EXCEPT !.ip = ip]
           J == Where(sf)
           page == SourceDetail(f, ip)
           daily == DailyTrend(f.from)
<1>1. J \in SUBSET AllRows
  BY WhereRows
<1>2. SourceInventory(f)[ip].messages = Messages(J)
  <2>1. J = {j \in Where(f) : j.row.ip = ip}
    BY DetailRow
  <2>2. SourceInventory(f)[ip].messages = Messages({j \in Where(f) : j.row.ip = ip})
    BY SourceLine
  <2> QED
    BY <2>1, <2>2
<1>3. /\ DOMAIN page = {"row", "timeline", "headerFroms", "envelopeFroms", "reporters", "domains"}
      /\ page.timeline = GroupedBy([j \in J |-> Bucket(j.rep.begin, daily)])
      /\ page.headerFroms = GroupedBy([j \in J |-> j.row.hfrom])
      /\ page.envelopeFroms = GroupedBy([j \in J |-> j.row.efrom])
      /\ page.reporters = GroupedBy([j \in J |-> j.rep.org])
      /\ page.domains = GroupedBy([j \in J |-> j.rep.domain])
  BY DEF SourceDetail, TrendData
<1> HIDE DEF J, page, daily
<1>4. /\ GroupSum(page.timeline) = Messages(J) /\ GroupSum(page.headerFroms) = Messages(J)
      /\ GroupSum(page.envelopeFroms) = Messages(J) /\ GroupSum(page.reporters) = Messages(J)
      /\ GroupSum(page.domains) = Messages(J)
  BY <1>1, <1>3, GroupedByAddsUp
<1>5. part \in {"timeline", "headerFroms", "envelopeFroms", "reporters", "domains"}
  BY <1>3 DEF page
<1>6. GroupSum(page[part]) = Messages(J)
  BY <1>4, <1>5
<1> QED
  BY <1>2, <1>6 DEF page

\* The bounds of a line are those of the page, which has no end.
LEMMA SinceRows ==
    ASSUME StatsInv, NEW f, IsFilter(f)
    PROVE  LET since == [Unbounded EXCEPT !.from = f.from]
           IN  /\ Where(f) \subseteq Where(since)
               /\ \A ip : ip # AnyValue =>
                     Where([Unbounded EXCEPT !.ip = ip, !.from = f.from])
                       = {j \in Where(since) : j.row.ip = ip}
               /\ \A d : d # AnyValue =>
                     Where([Unbounded EXCEPT !.domain = d, !.from = f.from])
                       = {j \in Where(since) : j.rep.domain = d}
<1> DEFINE since == [Unbounded EXCEPT !.from = f.from]
<1>0. f.from \in Int
  BY DEF IsFilter
<1>1. /\ IsFilter(since) /\ since.domain = AnyValue /\ since.ip = AnyValue
      /\ since.envelopeFrom = AnyValue /\ since.to = 0 /\ since.from = f.from
  BY <1>0, UnboundedFilters
<1> HIDE DEF since
<1>2. Where(f) \subseteq Where(since)
  BY <1>1 DEF Where, WhereNoTime, Scoped, InWindow
<1>3. ASSUME NEW ip, ip # AnyValue
      PROVE  Where([Unbounded EXCEPT !.ip = ip, !.from = f.from])
               = {j \in Where(since) : j.row.ip = ip}
  <2>1. [Unbounded EXCEPT !.ip = ip, !.from = f.from] = [since EXCEPT !.ip = ip]
    BY <1>0, UnboundedFilters DEF since
  <2> QED
    BY <1>1, <1>3, <2>1, WhereIP
<1>4. ASSUME NEW d, d # AnyValue
      PROVE  Where([Unbounded EXCEPT !.domain = d, !.from = f.from])
               = {j \in Where(since) : j.rep.domain = d}
  <2>1. [Unbounded EXCEPT !.domain = d, !.from = f.from] = [since EXCEPT !.domain = d]
    BY <1>0, UnboundedFilters DEF since
  <2>2. since.domain \in {AnyValue, d}
    BY <1>1
  <2>3. Where([since EXCEPT !.domain = d]) = {j \in Where(since) : j.rep.domain = d}
    BY <1>1, <1>4, <2>2, WhereDomain
  <2> QED
    BY <2>1, <2>3
<1> QED
  BY <1>2, <1>3, <1>4 DEF since

LEMMA SourcePageAgrees ==
    ASSUME StatsInv, NEW f, IsFilter(f), NEW ip \in DOMAIN SourceInventory(f)
    PROVE  SourceAggStats(ip, f.from) = SourceVolumes([Unbounded EXCEPT !.from = f.from])[ip]
<1> DEFINE since == [Unbounded EXCEPT !.from = f.from]
<1>1. PICK j \in Where(f) : j.row.ip = ip
  BY DEF SourceInventory
<1>2. ip # AnyValue
  BY <1>1, RowDays
<1>3. j \in Where(since)
  BY <1>1, SinceRows
<1>4. Where([Unbounded EXCEPT !.ip = ip, !.from = f.from]) = {k \in Where(since) : k.row.ip = ip}
  <2>1. \A x : x # AnyValue =>
           Where([Unbounded EXCEPT !.ip = x, !.from = f.from]) = {k \in Where(since) : k.row.ip = x}
    BY SinceRows
  <2> QED
    BY <1>2, <2>1, Zenon
<1> HIDE DEF since
<1>5. SourceVolumes(since)[ip] = Totals({k \in Where(since) : k.row.ip = ip})
  <2>1. ip \in {k.row.ip : k \in Where(since)}
    BY <1>1, <1>3
  <2>2. ip \in DOMAIN SourceVolumes(since)
    BY <2>1, VolumeLines
  <2> QED
    BY <2>2, VolumeLines, Zenon
<1> QED
  BY <1>4, <1>5 DEF SourceAggStats, since

-----------------------------------------------------------------------------
(* DetailsAgree: the pages of a domain and of a recipient, the lists        *)

LEMMA DomainPageAgrees ==
    ASSUME StatsInv, NEW f, IsFilter(f), NEW d \in DOMAIN DomainStats(f)
    PROVE  LET since == [Unbounded EXCEPT !.from = f.from]
           IN  /\ DomainAggStats(d, f.from).totals = DomainStats(since)[d]
               /\ GroupSum(EnvelopeFromBreakdown(d, f.from)) = DomainStats(since)[d].messages
               /\ GroupSum(EnvelopeToBreakdown(d)) <= DomainAggStats(d, 0).totals.messages
<1> DEFINE since == [Unbounded EXCEPT !.from = f.from]
           page == [Unbounded EXCEPT !.domain = d, !.from = f.from]
           all == [Unbounded EXCEPT !.domain = d]
           lines == {k \in Where(since) : k.rep.domain = d}
<1>1. PICK j \in Where(f) : j.rep.domain = d
  <2>1. DOMAIN DomainStats(f) = {j.rep.domain : j \in Where(f)}
    BY VolumeLines
  <2> QED
    BY <2>1
<1>2. d # AnyValue /\ j \in Where(since)
  BY <1>1, RowDays, SinceRows
<1>3. Where(page) = lines
  <2>1. \A x : x # AnyValue =>
           Where([Unbounded EXCEPT !.domain = x, !.from = f.from])
             = {k \in Where(since) : k.rep.domain = x}
    BY SinceRows
  <2> QED
    BY <1>2, <2>1, Zenon
<1>4. DomainStats(since)[d] = Totals(lines)
  <2>1. d \in {k.rep.domain : k \in Where(since)}
    BY <1>1, <1>2
  <2>2. d \in DOMAIN DomainStats(since)
    BY <2>1, VolumeLines
  <2> QED
    BY <2>2, VolumeLines, Zenon
<1>5. DomainAggStats(d, f.from).totals = Totals(lines)
  BY <1>3 DEF DomainAggStats
<1>6. GroupSum(EnvelopeFromBreakdown(d, f.from)) = Messages(lines)
  <2>1. lines \in SUBSET AllRows
    BY WhereRows
  <2>2. EnvelopeFromBreakdown(d, f.from) = GroupedBy([k \in lines |-> k.row.efrom])
    BY <1>3 DEF EnvelopeFromBreakdown
  <2> HIDE DEF lines
  <2> QED
    BY <2>1, <2>2, GroupedByAddsUp
<1>7. GroupSum(EnvelopeToBreakdown(d)) <= DomainAggStats(d, 0).totals.messages
  <2> DEFINE J == Where(all)
             D == Delivered(J)
  <2>1. J \in SUBSET AllRows /\ D \in SUBSET J
    BY WhereRows DEF Delivered
  <2>2. DomainAggStats(d, 0).totals.messages = Messages(J)
    <3>1. [Unbounded EXCEPT !.domain = d, !.from = 0] = [[Unbounded EXCEPT !.from = 0] EXCEPT !.domain = d]
      BY UnboundedFilters
    <3>2. [Unbounded EXCEPT !.from = 0] = Unbounded
      BY DEF Unbounded
    <3> QED
      BY <3>1, <3>2 DEF DomainAggStats, Totals
  <2>3. EnvelopeToBreakdown(d) = GroupedBy([k \in D |-> k.row.eto])
    BY DEF EnvelopeToBreakdown, EnvelopeToStats
  <2> HIDE DEF J, D
  <2>4. GroupSum(EnvelopeToBreakdown(d)) = Messages(D)
    BY <2>1, <2>3, GroupedByAddsUp
  <2> QED
    BY <2>1, <2>2, <2>4, MessagesSubset
<1>8. Totals(lines).messages = Messages(lines)
  BY DEF Totals
<1> HIDE DEF lines
<1> QED
  BY <1>4, <1>5, <1>6, <1>7, <1>8 DEF since

LEMMA RecipientPageAgrees ==
    ASSUME StatsInv, NEW e \in DOMAIN EnvelopeToStats(Unbounded)
    PROVE  GroupSum(RecipientSenders(e)) = EnvelopeToStats(Unbounded)[e].messages
<1> DEFINE J == Where(Unbounded)
           D == Delivered(J)
           key == [j \in D |-> j.row.eto]
           S == {k \in J : k.row.eto = e}
<1>1. S \in SUBSET AllRows
  BY WhereRows
<1>2. EnvelopeToStats(Unbounded) = GroupedBy(key)
  BY DEF EnvelopeToStats
<1>3. e \in Range(key) /\ GroupedBy(key)[e].messages = Messages({j \in DOMAIN key : key[j] = e})
  BY <1>2 DEF GroupedBy, Totals
<1>4. {j \in DOMAIN key : key[j] = e} = S
  BY <1>3 DEF Delivered, Range
<1>5. RecipientSenders(e) = GroupedBy([j \in S |-> j.row.hfrom])
  BY DEF RecipientSenders
<1> HIDE DEF S, key
<1>6. GroupSum(RecipientSenders(e)) = Messages(S)
  BY <1>1, <1>5, GroupedByAddsUp
<1> QED
  BY <1>2, <1>3, <1>4, <1>6

\* A line of the inventory has the messages of the address, and of these at most failed ones.
LEMMA InventoryVolumes ==
    ASSUME StatsInv, NEW f
    PROVE  /\ DOMAIN SourceInventory(f) = DOMAIN SourceVolumes(f)
           /\ \A ip \in DOMAIN SourceInventory(f) :
                 /\ SourceVolumes(f)[ip].messages = SourceInventory(f)[ip].messages
                 /\ SourceInventory(f)[ip].messages \in Nat
<1>1. DOMAIN SourceInventory(f) = DOMAIN SourceVolumes(f)
  BY VolumeLines DEF SourceInventory
<1>2. ASSUME NEW ip \in DOMAIN SourceInventory(f)
      PROVE  /\ SourceVolumes(f)[ip].messages = SourceInventory(f)[ip].messages
             /\ SourceInventory(f)[ip].messages \in Nat
  <2> DEFINE J == {j \in Where(f) : j.row.ip = ip}
  <2>1. SourceVolumes(f)[ip] = Totals(J)
    <3>1. ip \in DOMAIN SourceVolumes(f)
      BY <1>1
    <3> QED
      BY <3>1, VolumeLines, Zenon
  <2>2. SourceInventory(f)[ip].messages = Messages(J) /\ J \in SUBSET AllRows
    BY SourceLine
  <2> HIDE DEF J
  <2> QED
    BY <2>1, <2>2, MessagesNat DEF Totals
<1> QED
  BY <1>1, <1>2

LEMMA FailingSourcesAgree ==
    ASSUME StatsInv, NEW f
    PROVE  {<<x[1], x[3]>> : x \in TopFailingSources(f, 1)}
             = {<<ip, SourceInventory(f)[ip].messages>> :
                   ip \in {x \in DOMAIN SourceInventory(f) : SourceInventory(f)[x].messages > 0}}
<1> DEFINE inv == SourceInventory(f)
           g == SourceVolumes(f)
           D == {x \in DOMAIN g : g[x].messages >= 1}
<1>1. {x \in DOMAIN inv : inv[x].messages > 0} = D
  BY InventoryVolumes
<1>2. TopFailingSources(f, 1) = {<<ip, g[ip].failed, g[ip].messages>> : ip \in D}
  BY DEF TopFailingSources
<1>3. \A ip \in D : g[ip].messages = inv[ip].messages
  BY InventoryVolumes
<1> HIDE DEF inv, g, D
<1>4. {<<x[1], x[3]>> : x \in {<<ip, g[ip].failed, g[ip].messages>> : ip \in D}}
        = {<<ip, inv[ip].messages>> : ip \in D}
  <2> DEFINE L == {<<ip, g[ip].failed, g[ip].messages>> : ip \in D}
  <2>1. ASSUME NEW x \in L PROVE <<x[1], x[3]>> \in {<<ip, inv[ip].messages>> : ip \in D}
    <3>1. PICK ip \in D : x = <<ip, g[ip].failed, g[ip].messages>>
      OBVIOUS
    <3>2. x[1] = ip /\ x[3] = g[ip].messages
      BY <3>1
    <3> QED
      BY <1>3, <3>2
  <2>2. ASSUME NEW ip \in D PROVE <<ip, inv[ip].messages>> \in {<<x[1], x[3]>> : x \in L}
    <3> DEFINE x == <<ip, g[ip].failed, g[ip].messages>>
    <3>1. x[1] = ip /\ x[3] = g[ip].messages /\ x \in L
      OBVIOUS
    <3> HIDE DEF x, L
    <3> QED
      BY <1>3, <3>1
  <2> HIDE DEF L
  <2>3. {<<x[1], x[3]>> : x \in L} = {<<ip, inv[ip].messages>> : ip \in D}
    BY <2>1, <2>2
  <2> QED
    BY <2>3 DEF L
<1>5. {<<x[1], x[3]>> : x \in TopFailingSources(f, 1)} = {<<ip, inv[ip].messages>> : ip \in D}
  BY <1>2, <1>4
<1> QED
  BY <1>1, <1>5 DEF inv

LEMMA TopSourceAgrees ==
    ASSUME StatsInv, NEW f, NEW T \in TopSourcesByVolume(f, 1),
           NEW ip \in DOMAIN SourceInventory(f)
    PROVE  \E t \in T : SourceInventory(f)[t].messages >= SourceInventory(f)[ip].messages
<1> DEFINE g == SourceVolumes(f)
           D == DOMAIN g
<1>1. /\ T \in SUBSET D
      /\ Cardinality(T) = IF Cardinality(D) < 1 THEN Cardinality(D) ELSE 1
      /\ \A k \in T, o \in D \ T : g[k].messages >= g[o].messages
  BY DEF TopSourcesByVolume, TopSets
<1>2. ip \in D /\ \A k \in D : g[k].messages = SourceInventory(f)[k].messages
                             /\ g[k].messages \in Nat
  BY InventoryVolumes
<1>3. IsFiniteSet(D)
  <2> DEFINE J == Where(f)
             key == [j \in J |-> j.row.ip]
  <2>1. J \in SUBSET AllRows /\ D = Range(key) /\ DOMAIN key = J
    BY WhereRows DEF SourceVolumes, GroupedBy
  <2> HIDE DEF D, J, key
  <2> QED
    BY <2>1, KeysFinite
<1> HIDE DEF D
<1>4. T # {}
  <2>1. Cardinality(D) # 0 /\ Cardinality(D) \in Nat
    BY <1>2, <1>3, FS_EmptySet, FS_CardinalityType
  <2>2. Cardinality(T) = 1
    BY <1>1, <2>1
  <2> QED
    BY <2>2, FS_EmptySet
<1>5. PICK t \in T : TRUE
  BY <1>4
<1>6. CASE ip \in T
  BY <1>1, <1>2, <1>6
<1>7. CASE ip \notin T
  BY <1>1, <1>2, <1>5, <1>7
<1> QED
  BY <1>6, <1>7

Patterns == {"healthy", "forwarder", "broken_signing", "spoof_suspect", "mixed"}

LEMMA PatternKnown ==
    ASSUME NEW m, NEW c
    PROVE  EffectivePattern(m, c) \in Patterns
<1>1. PatternOf(m) \in Patterns
  BY DEF PatternOf, Patterns
<1> QED
  BY <1>1 DEF EffectivePattern, Patterns

LEMMA PatternsCover ==
    ASSUME StatsInv, NEW f
    PROVE  UNION {Listed(SourceInventory(f), f, [PlainQuery EXCEPT !.pattern = p]) : p \in Patterns}
             = DOMAIN SourceInventory(f)
<1> DEFINE inv == SourceInventory(f)
           L(p) == Listed(inv, f, [PlainQuery EXCEPT !.pattern = p])
<1>1. \A ip \in DOMAIN inv : inv[ip].pattern \in Patterns
                           /\ DOMAIN inv[ip].matrix = {"bothPass", "dkimOnly", "spfOnly", "neither"}
  BY PatternKnown DEF SourceInventory, SourceRow, Matrix
<1> HIDE DEF inv
<1>2. \A p \in Patterns : L(p) = {ip \in DOMAIN inv : inv[ip].pattern = p}
  <2> SUFFICES ASSUME NEW p \in Patterns
               PROVE  L(p) = {ip \in DOMAIN inv : inv[ip].pattern = p}
    OBVIOUS
  <2> DEFINE q == [PlainQuery EXCEPT !.pattern = p]
  <2>1. q.min = 0 /\ q.bucket = "" /\ q.newOnly = FALSE /\ q.pattern = p /\ p # ""
    BY DEF PlainQuery, Patterns
  <2> HIDE DEF q
  <2>2. ASSUME NEW ip \in DOMAIN inv
        PROVE  /\ q.min > 1 => inv[ip].messages >= q.min
               /\ q.bucket \in DOMAIN inv[ip].matrix => inv[ip].matrix[q.bucket] > 0
               /\ q.newOnly => f.from = 0 \/ inv[ip].isNew
               /\ q.pattern # "" => inv[ip].pattern = q.pattern <=> inv[ip].pattern = p
    <3>1. q.bucket \notin DOMAIN inv[ip].matrix
      BY <1>1, <2>1
    <3>2. ~(q.min > 1)
      <4>1. ~(0 > 1)
        OBVIOUS
      <4>2. q.min = 0
        BY <2>1
      <4> QED
        BY <4>1, <4>2, Zenon
    <3> QED
      BY <2>1, <3>1, <3>2
  <2>3. Listed(inv, f, q) = {ip \in DOMAIN inv : inv[ip].pattern = p}
    BY <2>1, <2>2 DEF Listed
  <2> QED
    BY <2>3 DEF q
<1> HIDE DEF L
<1>3. UNION {L(p) : p \in Patterns} = DOMAIN inv
  BY <1>1, <1>2
<1> QED
  BY <1>3 DEF L, inv

\* Where nothing failed, the rounded percentage is a hundred.
LEMMA AllPassedPercent ==
    ASSUME NEW m \in Nat, m > 0
    PROVE  RoundedPercent(m, m) = 10000
<1>1. 20000 * m + m = 10000 * (2 * m) + m /\ 2 * m \in Nat /\ 0 <= m /\ m < 2 * m /\ 2 * m > 0
  OBVIOUS
<1> QED
  BY <1>1 DEF RoundedPercent

LEMMA AtRiskFailed ==
    ASSUME StatsInv, NEW f
    PROVE  DomainsAtRisk(f, 90) \subseteq {d \in DOMAIN DomainStats(f) : DomainStats(f)[d].failed > 0}
<1> SUFFICES ASSUME NEW d \in DomainsAtRisk(f, 90)
             PROVE  d \in DOMAIN DomainStats(f) /\ DomainStats(f)[d].failed > 0
  OBVIOUS
<1> DEFINE t == DomainStats(f)[d]
           J == {j \in Where(f) : j.rep.domain = d}
<1>1. /\ d \in DOMAIN DomainStats(f) /\ t.messages > 0
      /\ RoundedPercent(t.passed, t.messages) < 100 * 90
  BY DEF DomainsAtRisk
<1>2. t = Totals(J)
  BY <1>1, VolumeLines
<1>3. J \in SUBSET AllRows
  BY WhereRows
<1> HIDE DEF J, t
<1>4. /\ t.messages = Messages(J) /\ t.passed = Messages(Passing(J))
      /\ t.failed = Messages(Failing(J))
  BY <1>2 DEF Totals
<1>5. /\ t.passed + t.failed = t.messages
      /\ t.messages \in Nat /\ t.failed \in Nat /\ t.passed \in Nat
  <2>1. Passing(J) \in SUBSET AllRows /\ Failing(J) \in SUBSET AllRows
    BY <1>3 DEF Passing, Failing
  <2> QED
    BY <1>3, <1>4, <2>1, MatrixSplits, MessagesNat
<1>6. t.failed # 0
  <2>1. SUFFICES ASSUME t.failed = 0 PROVE FALSE
    OBVIOUS
  <2>2. t.passed = t.messages
    BY <1>5, <2>1
  <2>3. RoundedPercent(t.passed, t.messages) = 10000
    BY <1>1, <1>5, <2>2, AllPassedPercent
  <2> QED
    BY <1>1, <2>3
<1> QED
  BY <1>1, <1>5, <1>6 DEF t

-----------------------------------------------------------------------------
(* Signatures, SPF results and override reasons of the rows                 *)

LEMMA OverSingle ==
    ASSUME NEW w, NEW x, w[x] \in Int
    PROVE  Over(w, {x}) = w[x]
<1>1. Over(w, {} \cup {x}) = Over(w, {}) + w[x]
  BY FS_EmptySet, OverAdd
<1>2. {} \cup {x} = {x}
  OBVIOUS
<1> QED
  BY <1>1, <1>2, OverEmpty

LEMMA SumIsOver ==
    ASSUME NEW w, NEW S, w = [x \in S |-> w[x]]
    PROVE  SumOf(w) = Over(w, S)
BY DEF Over

\* Finitely many numbered parts of each of finitely many rows.
LEMMA FanoutFinite ==
    ASSUME NEW J, IsFiniteSet(J), NEW dom, \A j \in J : \E n \in Nat : dom[j] = 1 .. n
    PROVE  IsFiniteSet(UNION {{<<j, i>> : i \in dom[j]} : j \in J})
<1> DEFINE cell == [j \in J |-> {<<j, i>> : i \in dom[j]}]
<1>1. ASSUME NEW j \in J PROVE IsFiniteSet(cell[j])
  <2> DEFINE fan == [i \in dom[j] |-> <<j, i>>]
  <2>1. PICK n \in Nat : dom[j] = 1 .. n
    OBVIOUS
  <2>2. IsFiniteSet(1 .. n)
    BY FS_Interval, 1 \in Int, n \in Int, Zenon
  <2>3. cell[j] = Image(fan, dom[j])
    BY DEF Image
  <2> QED
    BY <2>1, <2>2, <2>3, ImageFinite
<1>2. UNION {{<<j, i>> : i \in dom[j]} : j \in J} = UNION Image(cell, J)
  BY DEF Image
<1>3. \A T \in Image(cell, J) : IsFiniteSet(T)
  BY <1>1 DEF Image
<1> QED
  BY <1>2, <1>3, ImageFinite, FS_UNION

LEMMA FansFinite ==
    ASSUME NEW P \in SUBSET AllFans
    PROVE  IsFiniteSet(P) /\ \A p \in P : /\ FanOf[p] = p[1].row.count /\ FanOf[p] \in Nat
                                          /\ p[1] \in AllRows
<1>1. \A j \in AllRows : /\ \A part \in {"sigs", "spfs", "over"} :
                                Len(j.row[part]) \in Nat /\ DOMAIN j.row[part] = 1 .. Len(j.row[part])
  BY RowIn, RowsAssumption DEF AllRows
<1>2. IsFiniteSet(AllFans)
  <2>1. IsFiniteSet(AllRows)
    BY JoinFinite DEF AllRows
  <2>2. IsFiniteSet(Signatures(AllRows))
    <3> DEFINE dom == [j \in AllRows |-> DOMAIN j.row.sigs]
    <3>1. \A j \in AllRows : \E n \in Nat : dom[j] = 1 .. n
      BY <1>1
    <3>2. Signatures(AllRows) = UNION {{<<j, i>> : i \in dom[j]} : j \in AllRows}
      BY DEF Signatures
    <3> HIDE DEF dom
    <3> QED
      BY <2>1, <3>1, <3>2, FanoutFinite
  <2>3. IsFiniteSet(SpfResults(AllRows))
    <3> DEFINE dom == [j \in AllRows |-> DOMAIN j.row.spfs]
    <3>1. \A j \in AllRows : \E n \in Nat : dom[j] = 1 .. n
      BY <1>1
    <3>2. SpfResults(AllRows) = UNION {{<<j, i>> : i \in dom[j]} : j \in AllRows}
      BY DEF SpfResults
    <3> HIDE DEF dom
    <3> QED
      BY <2>1, <3>1, <3>2, FanoutFinite
  <2>4. IsFiniteSet(Overrides(AllRows))
    <3> DEFINE dom == [j \in AllRows |-> DOMAIN j.row.over]
    <3>1. \A j \in AllRows : \E n \in Nat : dom[j] = 1 .. n
      BY <1>1
    <3>2. Overrides(AllRows) = UNION {{<<j, i>> : i \in dom[j]} : j \in AllRows}
      BY DEF Overrides
    <3> HIDE DEF dom
    <3> QED
      BY <2>1, <3>1, <3>2, FanoutFinite
  <2> QED
    BY <2>2, <2>3, <2>4, FS_Union DEF AllFans
<1>3. \A p \in P : p \in AllFans /\ p[1] \in AllRows
  BY DEF AllFans, Signatures, SpfResults, Overrides
<1>4. \A p \in P : p[1].row.count \in Nat
  BY <1>3, RowIn DEF AllRows
<1> QED
  BY <1>2, <1>3, <1>4, FS_Subset DEF FanOf

LEMMA FannedOver ==
    ASSUME NEW P \in SUBSET AllFans
    PROVE  FannedMessages(P) = Over(FanOf, P)
<1>1. [p \in P |-> p[1].row.count] = [p \in P |-> FanOf[p]]
  BY FansFinite
<1> QED
  BY <1>1 DEF FannedMessages, Over

LEMMA FannedNat ==
    ASSUME NEW P \in SUBSET AllFans
    PROVE  FannedMessages(P) \in Nat
BY FannedOver, FansFinite, OverNat

FanParts(P, A, B) == P \in SUBSET AllFans /\ P = A \cup B /\ A \cap B = {}

LEMMA FannedSplit ==
    ASSUME NEW P, NEW A, NEW B, FanParts(P, A, B)
    PROVE  /\ FannedMessages(P) = FannedMessages(A) + FannedMessages(B)
           /\ FannedMessages(P) \in Nat /\ FannedMessages(A) \in Nat /\ FannedMessages(B) \in Nat
<1> USE DEF FanParts
<1>1. A \in SUBSET AllFans /\ B \in SUBSET AllFans /\ \A p \in P : FanOf[p] \in Int
  BY FansFinite
<1>2. Over(FanOf, P) = Over(FanOf, A) + Over(FanOf, B)
  BY <1>1, FansFinite, OverSplit
<1> QED
  BY <1>1, <1>2, FannedOver, FannedNat

\* Fans by a key: the groups of g are among K, and each tells its messages.
FanGroups(P, key, K, g) ==
    /\ P \in SUBSET AllFans
    /\ IsFiniteSet(K) /\ \A p \in P : key[p] \in K
    /\ \A k \in K : g[k] = FannedMessages({p \in P : key[p] = k})

LEMMA FannedGroups ==
    ASSUME NEW P, NEW key, NEW K, NEW g, FanGroups(P, key, K, g)
    PROVE  Over(g, K) = FannedMessages(P)
<1> USE DEF FanGroups
<1>1. \A k \in K : {p \in P : key[p] = k} \in SUBSET AllFans
  OBVIOUS
<1>2. \A k \in K : g[k] = Over(FanOf, {p \in P : key[p] = k})
  BY <1>1, FannedOver
<1>3. IsFiniteSet(P) /\ \A p \in P : FanOf[p] \in Int
  <2>1. P \in SUBSET AllFans
    OBVIOUS
  <2> HIDE DEF FanGroups
  <2> QED
    BY <2>1, FansFinite
<1>4. Grouping(FanOf, P, key, K, g)
  BY <1>2, <1>3 DEF Grouping
<1> QED
  BY <1>4, FannedOver, OverGroups

LEMMA DistributionAddsUp ==
    ASSUME NEW P \in SUBSET AllFans, NEW value, DOMAIN value = P
    PROVE  SumOf(Distribution(value)) = FannedMessages(P)
<1> DEFINE g == Distribution(value)
           K == Range(value)
<1>1. K = Image(value, P)
  BY DEF Range, Image
<1>2. IsFiniteSet(K)
  BY <1>1, FansFinite, ImageFinite
<1>3. g = [k \in K |-> g[k]] /\ \A k \in K : g[k] = FannedMessages({p \in P : value[p] = k})
  BY DEF Distribution
<1>4. FanGroups(P, value, K, g)
  BY <1>2, <1>3 DEF FanGroups, Range
<1> HIDE DEF g
<1>5. SumOf(g) = Over(g, K)
  BY <1>3, SumIsOver
<1> QED
  BY <1>4, <1>5, FannedGroups DEF g

LEMMA FansOfRows ==
    ASSUME NEW J \in SUBSET AllRows
    PROVE  /\ Signatures(J) \in SUBSET AllFans /\ SpfResults(J) \in SUBSET AllFans
           /\ Overrides(J) \in SUBSET AllFans
           /\ \A p \in Signatures(J) : p[1] \in J
           /\ \A p \in SpfResults(J) : p[1] \in J
BY DEF Signatures, SpfResults, Overrides, AllFans

\* Rows that each have a fan have at most the messages of the fans.
LEMMA RowsOfFans ==
    ASSUME NEW J \in SUBSET AllRows, NEW P \in SUBSET AllFans,
           \A j \in J : \E p \in P : p[1] = j
    PROVE  Messages(J) <= FannedMessages(P)
<1> DEFINE key == [p \in P |-> p[1]]
           g == [j \in AllRows |-> FannedMessages({p \in P : p[1] = j})]
<1>1. IsFiniteSet(AllRows) /\ IsFiniteSet(J)
  BY RowsFinite
<1>2. FanGroups(P, key, AllRows, g)
  BY <1>1, FansFinite DEF FanGroups
<1>3. \A j \in AllRows : g[j] \in Nat /\ g[j] \in Int
  BY FannedNat
<1>4. ASSUME NEW j \in J PROVE CountOf[j] <= g[j]
  <2> DEFINE Q == {p \in P : p[1] = j}
  <2>1. PICK p \in Q : TRUE
    OBVIOUS
  <2>2. Q \in SUBSET AllFans /\ {p} \in SUBSET Q /\ p \in AllFans /\ p[1] = j
    BY <2>1
  <2>3. FanOf[p] = CountOf[j] /\ FanOf[p] \in Int
    BY <2>2, FansFinite, RowsFinite
  <2>4. g[j] = Over(FanOf, Q)
    BY <2>2, FannedOver
  <2> HIDE DEF Q, g
  <2>5. Over(FanOf, {p}) <= Over(FanOf, Q)
    BY <2>2, FansFinite, OverSubset
  <2> QED
    BY <2>3, <2>4, <2>5, OverSingle
<1> HIDE DEF g, key
<1>5. Over(CountOf, J) <= Over(g, J)
  <2>1. \A j \in J : CountOf[j] \in Nat
    BY RowsFinite
  <2>2. \A j \in J : CountOf[j] \in Int /\ g[j] \in Int /\ CountOf[j] <= g[j]
    BY <1>3, <1>4, <2>1
  <2> QED
    BY <1>1, <2>2, OverMono
<1>6. Over(g, J) <= Over(g, AllRows)
  BY <1>1, <1>3, OverSubset
<1>7. Over(g, AllRows) = FannedMessages(P)
  BY <1>2, FannedGroups
<1>8. Over(CountOf, J) \in Int /\ Over(g, J) \in Int /\ Over(g, AllRows) \in Int
  <2>1. \A j \in J : CountOf[j] \in Int
    BY RowsFinite
  <2>2. \A j \in AllRows : g[j] \in Int
    BY <1>3
  <2> QED
    BY <1>1, <2>1, <2>2, OverType
<1> QED
  BY <1>5, <1>6, <1>7, <1>8, MessagesOver

\* A row with n signatures has n fans.
LEMMA SignaturesOfRow ==
    ASSUME NEW J \in SUBSET AllRows, NEW j \in J
    PROVE  FannedMessages({p \in Signatures(J) : p[1] = j}) = Len(j.row.sigs) * j.row.count
<1> DEFINE n == Len(j.row.sigs)
           P == {p \in Signatures(J) : p[1] = j}
           h == [i \in 1 .. n |-> <<j, i>>]
           ones == [p \in P |-> 1]
<1>1. n \in Nat /\ DOMAIN j.row.sigs = 1 .. n /\ j.row.count \in Nat
  <2>1. j.rep \in Pool /\ j.row \in j.rep.rows
    BY RowIn DEF AllRows
  <2>2. "sigs" \in {"sigs", "spfs", "over"}
    OBVIOUS
  <2> QED
    BY <2>1, <2>2, RowsAssumption
<1> HIDE DEF n
<1>2. P = {<<j, i>> : i \in 1 .. n}
  <2>1. ASSUME NEW p \in P PROVE p \in {<<j, i>> : i \in 1 .. n}
    BY <1>1 DEF Signatures, n
  <2>2. ASSUME NEW i \in 1 .. n PROVE <<j, i>> \in P
    <3>1. i \in DOMAIN j.row.sigs
      BY <1>1
    <3> QED
      BY <3>1 DEF Signatures
  <2> QED
    BY <2>1, <2>2
<1>3. P \in SUBSET AllFans
  BY FansOfRows
<1>4. h \in Bijection(1 .. n, P)
  <2>1. h \in [1 .. n -> P]
    BY <1>2
  <2>2. ASSUME NEW a \in 1 .. n, NEW b \in 1 .. n, h[a] = h[b] PROVE a = b
    <3>1. <<j, a>> = <<j, b>>
      BY <2>2
    <3> QED
      BY <3>1
  <2>3. \A p \in P : \E i \in 1 .. n : h[i] = p
    BY <1>2
  <2> HIDE DEF h, P
  <2> QED
    BY <2>1, <2>2, <2>3 DEF Bijection, Injection, Surjection, IsInjective
<1>5. IsFiniteSet(1 .. n) /\ Cardinality(1 .. n) = n
  <2>1. 1 \in Int /\ n \in Int
    BY <1>1
  <2>2. /\ IsFiniteSet(1 .. n)
        /\ Cardinality(1 .. n) = IF 1 > n THEN 0 ELSE n - 1 + 1
    BY <2>1, FS_Interval, Zenon
  <2> QED
    BY <1>1, <2>2
<1> HIDE DEF h
<1>6. IsFiniteSet(P) /\ Cardinality(P) = n
  <2>1. ExistsBijection(1 .. n, P)
    BY <1>4 DEF ExistsBijection
  <2> QED
    BY <1>5, <2>1, FS_Bijection
<1>7. \A p \in P : ones[p] \in Int /\ ones[p] = 1 /\ FanOf[p] = j.row.count * ones[p]
  <2>1. \A p \in P : FanOf[p] = j.row.count
    BY <1>3, FansFinite
  <2> QED
    BY <1>1, <2>1
<1> HIDE DEF P, ones
<1>8. Over(ones, P) = n
  BY <1>6, <1>7, OverOnes
<1>9. Over(FanOf, P) = j.row.count * Over(ones, P)
  BY <1>1, <1>6, <1>7, OverScale
<1>10. FannedMessages(P) = n * j.row.count
  BY <1>1, <1>3, <1>8, <1>9, FannedOver
<1> QED
  BY <1>10 DEF P, n

-----------------------------------------------------------------------------
(* RawResultsAddUp: histogram and error rates                               *)

\* Number of signatures times messages, by row and by number of signatures.
LEMMA HistogramWeighs ==
    ASSUME StatsInv, NEW f
    PROVE  LET hist == SigningAlignment(f).histogram
           IN  SumOf([n \in DOMAIN hist |-> n * hist[n].messages])
                 = FannedMessages(Signatures(Where(f)))
<1> DEFINE J == Where(f)
           P == Signatures(J)
           hist == SigningAlignment(f).histogram
           K == DOMAIN hist
           w == [n \in K |-> n * hist[n].messages]
           size == [j \in J |-> Len(j.row.sigs)]
           u == [j \in J |-> Len(j.row.sigs) * j.row.count]
           row == [p \in P |-> p[1]]
           of(n) == {j \in J : size[j] = n}
<1>1. J \in SUBSET AllRows /\ IsFiniteSet(J)
  BY WhereRows, RowsFinite
<1>2. \A j \in J : u[j] \in Int /\ size[j] \in Nat /\ CountOf[j] \in Int
                   /\ u[j] = size[j] * CountOf[j]
  <2> SUFFICES ASSUME NEW j \in J
               PROVE  u[j] \in Int /\ size[j] \in Nat /\ CountOf[j] \in Int
                      /\ u[j] = size[j] * CountOf[j]
    OBVIOUS
  <2>1. CountOf[j] = j.row.count /\ CountOf[j] \in Nat
    BY <1>1, RowsFinite
  <2>2. Len(j.row.sigs) \in Nat
    <3>1. j.rep \in Pool /\ j.row \in j.rep.rows
      BY <1>1, RowIn DEF AllRows
    <3>2. "sigs" \in {"sigs", "spfs", "over"}
      OBVIOUS
    <3>3. Len(j.row.sigs) \in Nat
      BY <3>1, <3>2, RowsAssumption
    <3> QED
      BY <3>3
  <2> QED
    BY <2>1, <2>2
<1>3. Over(u, J) = FannedMessages(P)
  <2>1. P \in SUBSET AllFans /\ \A p \in P : p[1] \in J
    BY <1>1, FansOfRows
  <2>2. ASSUME NEW j \in J PROVE u[j] = FannedMessages({p \in P : row[p] = j})
    <3>1. {p \in P : row[p] = j} = {p \in P : p[1] = j}
      OBVIOUS
    <3>2. FannedMessages({p \in P : p[1] = j}) = Len(j.row.sigs) * j.row.count
      BY <1>1, SignaturesOfRow
    <3> QED
      BY <3>1, <3>2
  <2>3. \A p \in P : row[p] \in J
    BY <2>1
  <2> HIDE DEF J, P, u, row
  <2>4. FanGroups(P, row, J, u)
    BY <1>1, <2>1, <2>2, <2>3 DEF FanGroups
  <2> QED
    BY <2>4, FannedGroups
<1>4. K = Range(size) /\ \A n \in K : hist[n].messages = Messages(of(n))
  <2>1. K = Range(size)
    BY DEF SigningAlignment, Range
  <2>2. ASSUME NEW n \in K PROVE hist[n].messages = Messages(of(n))
    <3>1. hist[n].messages = Messages({j \in J : Len(j.row.sigs) = n})
      BY DEF SigningAlignment
    <3>2. {j \in J : Len(j.row.sigs) = n} = of(n)
      OBVIOUS
    <3> QED
      BY <3>1, <3>2
  <2> QED
    BY <2>1, <2>2
<1>5. DOMAIN size = J
  OBVIOUS
<1>6. IsFiniteSet(K) /\ (\A j \in J : size[j] \in K) /\ (\A n \in K : n \in Nat)
  <2>1. Range(size) = {size[j] : j \in J}
    BY DEF Range
  <2> HIDE DEF J, size, K
  <2>2. IsFiniteSet(K) /\ \A j \in J : size[j] \in K
    BY <1>1, <1>4, <1>5, KeysFinite
  <2>3. \A n \in K : n \in Nat
    BY <1>2, <1>4, <2>1
  <2> QED
    BY <2>2, <2>3
<1>7. w = [n \in K |-> w[n]] /\ \A n \in K : w[n] = n * hist[n].messages
  OBVIOUS
<1> HIDE DEF J, P, hist, K, w, size, u, row
<1>8. ASSUME NEW n \in K PROVE w[n] = Over(u, {j \in J : size[j] = n})
  <2>1. of(n) \in SUBSET J /\ of(n) \in SUBSET AllRows /\ IsFiniteSet(of(n))
    BY <1>1, FS_Subset
  <2>2. \A j \in of(n) : CountOf[j] \in Int /\ u[j] = n * CountOf[j]
    BY <1>2
  <2>3. w[n] = n * Over(CountOf, of(n)) /\ n \in Int
    BY <1>4, <1>6, <1>7, <2>1, MessagesOver
  <2> HIDE DEF of
  <2>4. Over(u, of(n)) = n * Over(CountOf, of(n))
    BY <2>1, <2>2, <2>3, OverScale
  <2> QED
    BY <2>3, <2>4 DEF of
<1>9. Grouping(u, J, size, K, w)
  BY <1>1, <1>2, <1>6, <1>8 DEF Grouping
<1>10. SumOf(w) = Over(w, K)
  BY <1>7, SumIsOver
<1> QED
  BY <1>3, <1>9, <1>10, OverGroups DEF w, hist, K, P, J

\* The errors of the reporters are of all signatures and all SPF results.
LEMMA ErrorRateAddsUp ==
    ASSUME StatsInv, NEW f
    PROVE  LET errors == DNSErrorRate(f)
           IN  SumOf([o \in DOMAIN errors |-> errors[o].results])
                 = FannedMessages(Signatures(Where(f))) + FannedMessages(SpfResults(Where(f)))
<1> DEFINE J == Where(f)
           S == Signatures(J)
           R == SpfResults(J)
           errors == DNSErrorRate(f)
           O == DOMAIN errors
           w == [o \in O |-> errors[o].results]
           orgS == [p \in S |-> p[1].rep.org]
           orgR == [p \in R |-> p[1].rep.org]
           a == [o \in O |-> FannedMessages({p \in S : p[1].rep.org = o})]
           b == [o \in O |-> FannedMessages({p \in R : p[1].rep.org = o})]
<1>1. S \in SUBSET AllFans /\ R \in SUBSET AllFans
  BY WhereRows, FansOfRows
<1>2. O = Image(orgS, S) \cup Image(orgR, R)
  BY DEF DNSErrorRate, Image
<1>3. IsFiniteSet(O)
  BY <1>1, <1>2, FansFinite, ImageFinite, FS_Union
<1>4. \A o \in O : w[o] = a[o] + b[o] /\ a[o] \in Int /\ b[o] \in Int
  <2>1. \A o \in O : w[o] = a[o] + b[o]
    BY DEF DNSErrorRate
  <2>2. \A o \in O : a[o] \in Nat /\ b[o] \in Nat
    BY <1>1, FannedNat
  <2> HIDE DEF w, a, b, O
  <2> QED
    BY <2>1, <2>2
<1>5. w = [o \in O |-> w[o]]
  OBVIOUS
<1>6. FanGroups(S, orgS, O, a) /\ FanGroups(R, orgR, O, b)
  <2>1. (\A p \in S : orgS[p] \in O) /\ (\A p \in R : orgR[p] \in O)
    BY <1>2 DEF Image
  <2>2. ASSUME NEW o \in O
        PROVE  a[o] = FannedMessages({p \in S : orgS[p] = o})
    <3>1. {p \in S : orgS[p] = o} = {p \in S : p[1].rep.org = o}
      OBVIOUS
    <3> QED
      BY <3>1
  <2>3. ASSUME NEW o \in O
        PROVE  b[o] = FannedMessages({p \in R : orgR[p] = o})
    <3>1. {p \in R : orgR[p] = o} = {p \in R : p[1].rep.org = o}
      OBVIOUS
    <3> QED
      BY <3>1
  <2> HIDE DEF a, b, O, S, R, orgS, orgR
  <2> QED
    BY <1>1, <1>3, <2>1, <2>2, <2>3 DEF FanGroups
<1> HIDE DEF S, R, O, w, a, b, orgS, orgR
<1>7. Over(a, O) = FannedMessages(S) /\ Over(b, O) = FannedMessages(R)
  BY <1>6, FannedGroups
<1>8. Over(w, O) = Over(a, O) + Over(b, O)
  BY <1>3, <1>4, OverSum
<1>9. SumOf(w) = Over(w, O)
  BY <1>5, SumIsOver
<1> QED
  BY <1>7, <1>8, <1>9 DEF w, S, R, O

-----------------------------------------------------------------------------
(* RawResultsAddUp: alignment and the gap                                   *)

LEMMA SigningSplits ==
    ASSUME StatsInv, NEW f
    PROVE  LET signing == SigningAlignment(f)
           IN  /\ signing.exact + signing.relaxed + signing.thirdParty = signing.total
               /\ SumOf(signing.domains) = signing.thirdParty
<1> DEFINE signing == SigningAlignment(f)
           P == {p \in Signatures(Where(f)) : Sig(p).domain # ""}
           class(c) == {p \in P : AlignOf(Sig(p).domain, p[1].row.hfrom) = c}
           E == class("exact")
           R == class("relaxed")
           M == class("misaligned")
           T == R \cup M
           value == [p \in M |-> Sig(p).domain]
<1>1. P \in SUBSET AllFans
  BY WhereRows, FansOfRows
<1>2. /\ signing.exact = FannedMessages(E) /\ signing.relaxed = FannedMessages(R)
      /\ signing.thirdParty = FannedMessages(M) /\ signing.total = FannedMessages(P)
      /\ signing.domains = Distribution(value)
  BY DEF SigningAlignment
<1>3. FanParts(P, E, T) /\ FanParts(T, R, M)
  <2>1. \A a, h : AlignOf(a, h) \in {"exact", "relaxed", "misaligned"}
    BY DEF AlignOf
  <2>2. \A p \in P : p \in E \/ p \in R \/ p \in M
    BY <2>1
  <2>3. E \cap T = {} /\ R \cap M = {}
    OBVIOUS
  <2>4. P = E \cup T /\ T \in SUBSET AllFans
    BY <1>1, <2>2
  <2> HIDE DEF P, E, R, M
  <2> QED
    BY <1>1, <2>3, <2>4 DEF FanParts
<1>4. M \in SUBSET AllFans /\ DOMAIN value = M
  BY <1>1
<1> HIDE DEF signing, P, E, R, M, T, value
<1>5. /\ FannedMessages(P) = FannedMessages(E) + FannedMessages(T)
      /\ FannedMessages(T) = FannedMessages(R) + FannedMessages(M)
      /\ FannedMessages(E) \in Nat /\ FannedMessages(R) \in Nat /\ FannedMessages(M) \in Nat
  BY <1>3, FannedSplit
<1>6. SumOf(Distribution(value)) = FannedMessages(M)
  BY <1>4, DistributionAddsUp
<1>7. /\ signing.exact + signing.relaxed + signing.thirdParty = signing.total
      /\ SumOf(signing.domains) = signing.thirdParty
  BY <1>2, <1>5, <1>6
<1> QED
  BY <1>7 DEF signing

\* Fans of some pairs, told by pair: their messages, and no more rows than there are.
LEMMA PairsAddUp ==
    ASSUME NEW P \in SUBSET AllFans, NEW key, DOMAIN key = P, NEW g,
           DOMAIN g = Range(key),
           \A k \in DOMAIN g : g[k].messages = FannedMessages({p \in P : key[p] = k})
    PROVE  GroupSum(g) = FannedMessages(P)
<1> DEFINE K == DOMAIN g
           m == [k \in K |-> g[k].messages]
<1>1. K = Image(key, P)
  BY DEF Range, Image
<1>2. IsFiniteSet(K)
  BY <1>1, FansFinite, ImageFinite
<1>3. FanGroups(P, key, K, m)
  BY <1>1, <1>2 DEF FanGroups, Image
<1>4. GroupSum(g) = Over(m, K)
  BY DEF GroupSum, Over
<1> HIDE DEF m, K
<1> QED
  BY <1>3, <1>4, FannedGroups

PairsOf(domain) ==
    [k \in {<<domain[p], p[1].row.hfrom>> : p \in DOMAIN domain} |->
        LET Q == {p \in DOMAIN domain : <<domain[p], p[1].row.hfrom>> = k}
        IN  [messages |-> FannedMessages(Q), records |-> Cardinality({p[1] : p \in Q})]]

\* The pairs of the gap, for the fans P of rows in the gap G.
LEMMA GapPairs ==
    ASSUME NEW G \in SUBSET AllRows, NEW P \in SUBSET AllFans, \A p \in P : p[1] \in G,
           NEW domain, DOMAIN domain = P
    PROVE  /\ GroupSum(PairsOf(domain)) = FannedMessages(P)
           /\ \A k \in DOMAIN PairsOf(domain) : PairsOf(domain)[k].records <= Cardinality(G)
<1> DEFINE g == PairsOf(domain)
<1> DEFINE key == [p \in P |-> <<domain[p], p[1].row.hfrom>>]
           of(k) == {p \in P : <<domain[p], p[1].row.hfrom>> = k}
           rows(k) == {p[1] : p \in of(k)}
<1>1. DOMAIN key = P /\ DOMAIN g = Range(key)
  BY DEF Range, PairsOf
<1>2. ASSUME NEW k \in DOMAIN g
      PROVE  /\ g[k].messages = FannedMessages({p \in P : key[p] = k})
             /\ g[k].records = Cardinality(rows(k))
  <2>1. g[k] = [messages |-> FannedMessages(of(k)), records |-> Cardinality(rows(k))]
    BY DEF PairsOf
  <2>2. {p \in P : key[p] = k} = of(k)
    OBVIOUS
  <2> HIDE DEF of, key, rows, g
  <2>3. g[k].messages = FannedMessages(of(k)) /\ g[k].records = Cardinality(rows(k))
    BY <2>1
  <2> QED
    BY <2>2, <2>3
<1>3. \A k \in DOMAIN g : rows(k) \in SUBSET G
  OBVIOUS
<1>4. IsFiniteSet(G)
  BY RowsFinite
<1>5. \A k \in DOMAIN g : Cardinality(rows(k)) <= Cardinality(G)
  BY <1>3, <1>4, FS_Subset
<1> HIDE DEF key, of, rows, g
<1>6. GroupSum(g) = FannedMessages(P)
  <2>1. \A k \in DOMAIN g : g[k].messages = FannedMessages({p \in P : key[p] = k})
    BY <1>2
  <2> QED
    BY <1>1, <2>1, PairsAddUp
<1> QED
  BY <1>2, <1>5, <1>6 DEF g

LEMMA GapAgrees ==
    ASSUME StatsInv, NEW f
    PROVE  LET gap == AlignmentGap(f)
           IN  /\ gap.messages <= gap.dkim + gap.spf
               /\ gap.dkim <= GroupSum(gap.dkimPairs) /\ gap.spf <= GroupSum(gap.spfPairs)
               /\ \A k \in DOMAIN gap.dkimPairs : gap.dkimPairs[k].records <= gap.records
               /\ \A k \in DOMAIN gap.spfPairs : gap.spfPairs[k].records <= gap.records
<1> DEFINE J == Where(f)
           D == {j \in J : DkimGap(j)}
           S == {j \in J : SpfGap(j)}
           G == {j \in J : DkimGap(j) \/ SpfGap(j)}
           dkim == {p \in Signatures(J) : ~p[1].row.dkim /\ Sig(p).result = "pass"}
           spf == {p \in SpfResults(J) : ~p[1].row.spf /\ Spf(p).result = "pass"}
           dom == [p \in dkim |-> Sig(p).domain]
           som == [p \in spf |-> Spf(p).domain]
           gap == AlignmentGap(f)
<1>1. /\ J \in SUBSET AllRows /\ D \in SUBSET AllRows /\ S \in SUBSET AllRows
      /\ G \in SUBSET AllRows /\ G = D \cup S
  BY WhereRows
<1>2. /\ dkim \in SUBSET AllFans /\ spf \in SUBSET AllFans
      /\ \A p \in dkim : p \in Signatures(J) /\ p[1] \in J
      /\ \A p \in spf : p \in SpfResults(J) /\ p[1] \in J
  BY <1>1, FansOfRows
<1>3. /\ gap.messages = Messages(G) /\ gap.records = Cardinality(G)
      /\ gap.dkim = Messages(D) /\ gap.spf = Messages(S)
      /\ gap.dkimPairs = PairsOf(dom) /\ gap.spfPairs = PairsOf(som)
  BY DEF AlignmentGap, PairsOf
<1>4. \A j \in J : /\ Len(j.row.sigs) \in Nat /\ DOMAIN j.row.sigs = 1 .. Len(j.row.sigs)
                   /\ Len(j.row.spfs) \in Nat /\ DOMAIN j.row.spfs = 1 .. Len(j.row.spfs)
  <2> SUFFICES ASSUME NEW j \in J
               PROVE  /\ Len(j.row.sigs) \in Nat /\ DOMAIN j.row.sigs = 1 .. Len(j.row.sigs)
                      /\ Len(j.row.spfs) \in Nat /\ DOMAIN j.row.spfs = 1 .. Len(j.row.spfs)
    OBVIOUS
  <2>1. j.rep \in Pool /\ j.row \in j.rep.rows
    BY <1>1, RowIn DEF AllRows
  <2>2. /\ "sigs" \in {"sigs", "spfs", "over"}
        /\ "spfs" \in {"sigs", "spfs", "over"}
    OBVIOUS
  <2> QED
    BY <2>1, <2>2, RowsAssumption
<1>5. \A j \in D : \E p \in dkim : p[1] = j
  <2> SUFFICES ASSUME NEW j \in D PROVE \E p \in dkim : p[1] = j
    OBVIOUS
  <2>1. PICK i \in DOMAIN j.row.sigs : j.row.sigs[i].result = "pass"
    BY DEF DkimGap, RawPass
  <2>2. j \in J /\ ~j.row.dkim
    BY <1>4, <2>1 DEF DkimGap
  <2> DEFINE p == <<j, i>>
  <2>3. p = <<j, i>> /\ p[1] = j /\ p[2] = i
    OBVIOUS
  <2> HIDE DEF p
  <2>4. p \in dkim
    BY <2>1, <2>2, <2>3 DEF Signatures, Sig
  <2> QED
    BY <2>3, <2>4
<1>6. \A j \in S : \E p \in spf : p[1] = j
  <2> SUFFICES ASSUME NEW j \in S PROVE \E p \in spf : p[1] = j
    OBVIOUS
  <2>1. PICK i \in DOMAIN j.row.spfs : j.row.spfs[i].result = "pass"
    BY DEF SpfGap, RawPass
  <2>2. j \in J /\ ~j.row.spf
    BY <1>4, <2>1 DEF SpfGap
  <2> DEFINE p == <<j, i>>
  <2>3. p = <<j, i>> /\ p[1] = j /\ p[2] = i
    OBVIOUS
  <2> HIDE DEF p
  <2>4. p \in spf
    BY <2>1, <2>2, <2>3 DEF SpfResults, Spf
  <2> QED
    BY <2>3, <2>4
\* A fan that passed shows the raw pass of its row.
<1>7. (\A p \in dkim : p[1] \in G) /\ (\A p \in spf : p[1] \in G)
  <2>1. ASSUME NEW p \in dkim PROVE p[1] \in G
    <3>1. /\ p[1] \in J /\ ~p[1].row.dkim /\ p[1].row.sigs[p[2]].result = "pass"
          /\ p[2] \in DOMAIN p[1].row.sigs
      BY <1>2 DEF Sig, Signatures
    <3>2. p[2] \in DOMAIN p[1].row.sigs
      BY <1>4, <3>1
    <3> QED
      BY <3>1, <3>2 DEF DkimGap, RawPass
  <2>2. ASSUME NEW p \in spf PROVE p[1] \in G
    <3>1. /\ p[1] \in J /\ ~p[1].row.spf /\ p[1].row.spfs[p[2]].result = "pass"
          /\ p[2] \in DOMAIN p[1].row.spfs
      BY <1>2 DEF Spf, SpfResults
    <3>2. p[2] \in DOMAIN p[1].row.spfs
      BY <1>4, <3>1
    <3> QED
      BY <3>1, <3>2 DEF SpfGap, RawPass
  <2> QED
    BY <2>1, <2>2
<1>8. DOMAIN dom = dkim /\ DOMAIN som = spf
  OBVIOUS
<1> HIDE DEF J, D, S, G, dkim, spf, dom, som, gap
<1>9. Messages(G) <= Messages(D) + Messages(S)
  BY <1>1, MessagesUnion
<1>10. /\ GroupSum(gap.dkimPairs) = FannedMessages(dkim)
       /\ \A k \in DOMAIN gap.dkimPairs : gap.dkimPairs[k].records <= Cardinality(G)
  BY <1>1, <1>2, <1>3, <1>7, <1>8, GapPairs
<1>11. /\ GroupSum(gap.spfPairs) = FannedMessages(spf)
       /\ \A k \in DOMAIN gap.spfPairs : gap.spfPairs[k].records <= Cardinality(G)
  <2>1. /\ G \in SUBSET AllRows /\ spf \in SUBSET AllFans /\ DOMAIN som = spf
        /\ \A p \in spf : p[1] \in G
    BY <1>1, <1>2, <1>7, <1>8
  <2>2. gap.spfPairs = PairsOf(som)
    BY <1>3
  <2> QED
    BY <2>1, <2>2, GapPairs
<1>12. Messages(D) <= FannedMessages(dkim)
  BY <1>1, <1>2, <1>5, RowsOfFans
<1>13. Messages(S) <= FannedMessages(spf)
  BY <1>1, <1>2, <1>6, RowsOfFans
<1>14. /\ gap.messages <= gap.dkim + gap.spf
       /\ gap.dkim <= GroupSum(gap.dkimPairs) /\ gap.spf <= GroupSum(gap.spfPairs)
       /\ \A k \in DOMAIN gap.dkimPairs : gap.dkimPairs[k].records <= gap.records
       /\ \A k \in DOMAIN gap.spfPairs : gap.spfPairs[k].records <= gap.records
  BY <1>3, <1>9, <1>10, <1>11, <1>12, <1>13
<1> QED
  BY <1>14 DEF gap

LEMMA RawResultsAgree ==
    ASSUME StatsInv, NEW f
    PROVE  RawResultsAddUp(f)
<1> DEFINE J == Where(f)
           S == Signatures(J)
           R == SpfResults(J)
<1>1. S \in SUBSET AllFans /\ R \in SUBSET AllFans
  BY WhereRows, FansOfRows
<1>2. /\ SumOf(DKIMRawResults(f)) = FannedMessages(S)
      /\ SumOf(SPFRawResults(f)) = FannedMessages(R)
      /\ SumOf(SPFScopeSplit(f)) = FannedMessages(R)
  <2> HIDE DEF S, R
  <2>1. /\ SumOf(Distribution([p \in S |-> IF Sig(p).result = "" THEN "none" ELSE Sig(p).result]))
             = FannedMessages(S)
        /\ SumOf(Distribution([p \in R |-> IF Spf(p).result = "" THEN "none" ELSE Spf(p).result]))
             = FannedMessages(R)
        /\ SumOf(Distribution([p \in R |-> IF Spf(p).scope = "" THEN "mfrom" ELSE Spf(p).scope]))
             = FannedMessages(R)
    BY <1>1, DistributionAddsUp
  <2> QED
    BY <2>1 DEF DKIMRawResults, SPFRawResults, SPFScopeSplit, S, R
<1> HIDE DEF S, R
<1>3. LET hist == SigningAlignment(f).histogram
      IN  SumOf([n \in DOMAIN hist |-> n * hist[n].messages]) = FannedMessages(S)
  BY HistogramWeighs DEF S
<1>4. LET errors == DNSErrorRate(f)
      IN  SumOf([o \in DOMAIN errors |-> errors[o].results]) = FannedMessages(S) + FannedMessages(R)
  BY ErrorRateAddsUp DEF S, R
<1> QED
  BY <1>2, <1>3, <1>4, SigningSplits, GapAgrees DEF RawResultsAddUp

-----------------------------------------------------------------------------
(* FailuresSplit                                                            *)

\* Failed messages by the SPF record of their domain.
LEMMA SpoofSplits ==
    ASSUME StatsInv, NEW f
    PROVE  LET s == SpoofVolume(f)
           IN  /\ s.total = Messages(Failing(Where(f)))
               /\ s.inSPF + s.notInSPF + s.unresolved = s.total
               /\ s.pending = {} => s.unresolved = 0
<1> DEFINE s == SpoofVolume(f)
           J == Failing(Where(f))
           C == {j \in J : j.rep.domain \in spfCache}
           I == {j \in C : j.row.ip \in SpfOf[j.rep.domain]}
           N == C \ I
           U == J \ C
<1>1. J \in SUBSET AllRows
  BY WhereRows DEF Failing
<1>2. /\ s.total = Messages(J) /\ s.unresolved = Messages(U) /\ s.inSPF = Messages(I)
      /\ s.notInSPF = Messages(N) /\ s.pending = {j.rep.domain : j \in U}
  BY DEF SpoofVolume
<1>3. RowParts(J, C, U) /\ RowParts(C, I, N)
  BY <1>1 DEF RowParts
<1>4. s.pending = {} => U = {}
  <2>1. ASSUME NEW j \in U PROVE j.rep.domain \in s.pending
    BY <1>2
  <2> QED
    BY <2>1
<1> HIDE DEF s, J, C, I, N, U
<1>5. /\ Messages(J) = Messages(C) + Messages(U) /\ Messages(C) = Messages(I) + Messages(N)
      /\ Messages(U) \in Nat /\ Messages(I) \in Nat /\ Messages(N) \in Nat
  BY <1>3, MessagesSplit
<1>6. s.inSPF + s.notInSPF + s.unresolved = s.total
  BY <1>2, <1>5
<1>7. s.pending = {} => s.unresolved = 0
  BY <1>2, <1>4, MessagesNone
<1> QED
  BY <1>2, <1>6, <1>7 DEF s, J

LEMMA UnexplainedAddUp ==
    ASSUME StatsInv, NEW f
    PROVE  LET u == UnexplainedOverrides(f)
           IN  /\ u.messages <= Messages(Failing(Where(f)))
               /\ GroupSum(u.sources) = u.messages
<1> DEFINE U == Unexplained(Where(f))
           F == Failing(Where(f))
           u == UnexplainedOverrides(f)
<1>1. F \in SUBSET AllRows /\ U \in SUBSET F
  BY WhereRows DEF Failing, Unexplained
<1>2. u.messages = Messages(U) /\ u.sources = GroupedBy([j \in U |-> j.row.ip])
  BY DEF UnexplainedOverrides
<1> HIDE DEF U, F, u
<1>3. U \in SUBSET AllRows
  BY <1>1
<1>4. Messages(U) <= Messages(F)
  BY <1>1, MessagesSubset
<1>5. GroupSum(u.sources) = Messages(U)
  BY <1>2, <1>3, GroupedByAddsUp
<1> QED
  BY <1>2, <1>4, <1>5 DEF u, F

LEMMA ReadinessAddsUp ==
    ASSUME StatsInv, NEW f
    PROVE  LET ready == Readiness(f)
           IN  /\ ready.neither = Messages(Failing(Where(f)))
               /\ ready.knownGood <= Messages(Failing(Where(f)))
               /\ \A ip \in DOMAIN ready.sources : \A m :
                     EffectivePattern(m, LabelOf(ip)) = "healthy"
<1> DEFINE F == Failing(Where(f))
           K == {k \in F : KnownGood(k.row.ip)}
           ready == Readiness(f)
           key == [j \in K |-> j.row.ip]
<1>1. F \in SUBSET AllRows /\ K \in SUBSET F /\ K \in SUBSET AllRows
  BY WhereRows DEF Failing
<1>2. /\ ready.neither = Matrix(Where(f)).neither /\ ready.sources = GroupedBy(key)
      /\ ready.knownGood = GroupSum(GroupedBy(key))
  BY DEF Readiness
<1>3. ready.neither = Messages(F)
  BY <1>2, WhereRows, MatrixSplits
<1>4. DOMAIN ready.sources = {j.row.ip : j \in K} /\ DOMAIN key = K
  BY <1>2 DEF GroupedBy, Range
<1>5. ASSUME NEW ip \in DOMAIN ready.sources, NEW m
      PROVE  EffectivePattern(m, LabelOf(ip)) = "healthy"
  <2>1. LabelOf(ip) = "known_good"
    BY <1>4 DEF KnownGood
  <2> QED
    BY <2>1 DEF EffectivePattern
<1> HIDE DEF F, K, ready, key
<1>6. GroupSum(GroupedBy(key)) = Messages(K)
  BY <1>1, <1>4, GroupedByAddsUp
<1>7. Messages(K) <= Messages(F)
  BY <1>1, MessagesSubset
<1> QED
  BY <1>2, <1>3, <1>5, <1>6, <1>7 DEF ready, F

LEMMA FailuresAgree ==
    ASSUME StatsInv, NEW f
    PROVE  FailuresSplit(f)
<1> DEFINE failed == DashboardStats(f).totals.failed
<1>1. failed = Messages(Failing(Where(f)))
  BY DEF DashboardStats, Totals
<1> HIDE DEF failed
<1>2. LET s == SpoofVolume(f)
      IN  /\ s.total = failed /\ s.inSPF + s.notInSPF + s.unresolved = failed
          /\ s.pending = {} => s.unresolved = 0
  BY <1>1, SpoofSplits
<1>3. LET u == UnexplainedOverrides(f)
      IN  u.messages <= failed /\ GroupSum(u.sources) = u.messages
  BY <1>1, UnexplainedAddUp
<1>4. LET ready == Readiness(f)
      IN  /\ ready.neither = failed /\ ready.knownGood <= failed
          /\ \A ip \in DOMAIN ready.sources :
                EffectivePattern(AuthMatrix([f EXCEPT !.ip = ip]), LabelOf(ip)) = "healthy"
  BY <1>1, ReadinessAddsUp
<1>5. \A p \in ActivePolicies(f) : Enforcement(f, p).failing = failed
  BY <1>1 DEF Enforcement
<1> QED
  BY <1>2, <1>3, <1>4, <1>5 DEF FailuresSplit, failed

LEMMA DetailsMatch ==
    ASSUME StatsInv, NEW f, IsFilter(f)
    PROVE  DetailsAgree(f)
<1> DEFINE inv == SourceInventory(f)
           since == [Unbounded EXCEPT !.from = f.from]
           top == TopSourcesByVolume(f, 1)
<1>1. ASSUME NEW ip \in DOMAIN inv
      PROVE  LET page == SourceDetail(f, ip)
             IN  /\ page.row = [i \in {ip} |-> inv[ip]]
                 /\ \A part \in DOMAIN page \ {"row"} : GroupSum(page[part]) = inv[ip].messages
                 /\ SourceAggStats(ip, f.from) = SourceVolumes(since)[ip]
  <2>1. SourceDetail(f, ip).row = [i \in {ip} |-> inv[ip]]
    <3>1. SourceDetail(f, ip).row = LineOf(f, ip)
      BY DetailRow
    <3> QED
      BY <3>1 DEF LineOf
  <2>2. \A part \in DOMAIN SourceDetail(f, ip) \ {"row"} :
           GroupSum(SourceDetail(f, ip)[part]) = inv[ip].messages
    BY DetailParts
  <2>3. SourceAggStats(ip, f.from) = SourceVolumes(since)[ip]
    BY SourcePageAgrees
  <2> QED
    BY <2>1, <2>2, <2>3
<1>2. \A d \in DOMAIN DomainStats(f) :
         /\ DomainAggStats(d, f.from).totals = DomainStats(since)[d]
         /\ GroupSum(EnvelopeFromBreakdown(d, f.from)) = DomainStats(since)[d].messages
         /\ GroupSum(EnvelopeToBreakdown(d)) <= DomainAggStats(d, 0).totals.messages
  BY DomainPageAgrees
<1>3. \A e \in DOMAIN EnvelopeToStats(Unbounded) :
         GroupSum(RecipientSenders(e)) = EnvelopeToStats(Unbounded)[e].messages
  BY RecipientPageAgrees
<1>4. {<<x[1], x[3]>> : x \in TopFailingSources(f, 1)}
        = {<<ip, inv[ip].messages>> : ip \in {x \in DOMAIN inv : inv[x].messages > 0}}
  BY FailingSourcesAgree
<1>5. \A T \in top, ip \in DOMAIN inv : \E t \in T : inv[t].messages >= inv[ip].messages
  BY TopSourceAgrees
<1>6. UNION {Listed(inv, f, [PlainQuery EXCEPT !.pattern = p]) :
                p \in {"healthy", "forwarder", "broken_signing", "spoof_suspect", "mixed"}}
        = DOMAIN inv
  BY PatternsCover DEF Patterns
<1>7. DomainsAtRisk(f, 90)
        \subseteq {d \in DOMAIN DomainStats(f) : DomainStats(f)[d].failed > 0}
  BY AtRiskFailed
<1> QED
  BY <1>1, <1>2, <1>3, <1>4, <1>5, <1>6, <1>7 DEF DetailsAgree, inv, since, top

-----------------------------------------------------------------------------
(* The inductive invariant, and no message twice or left out                *)

\* Each step keeps what is stored inside the pool.
LEMMA StatsInvStep ==
    ASSUME StatsInv, [StatsNext]_statsVars
    PROVE  StatsInv'
<1>1. ASSUME NEW r \in Pool, ImportReport(r) PROVE StatsInv'
  <2>1. stored' = stored \cup {r}
    BY <1>1 DEF ImportReport
  <2>2. now' = now
    BY <1>1, Zenon DEF ImportReport
  <2> QED
    BY <2>1, <2>2 DEF StatsInv
<1>2. ASSUME DayPasses PROVE StatsInv'
  <2>1. stored' = stored /\ now' = now + 1
    BY <1>2 DEF DayPasses
  <2> QED
    BY <2>1 DEF StatsInv
<1>3. ASSUME UNCHANGED <<stored, now>> PROVE StatsInv'
  BY <1>3 DEF StatsInv
<1>4. ASSUME RowsNext PROVE StatsInv'
  <2>1. CASE \E r \in Pool : ImportReport(r)
    BY <1>1, <2>1
  <2>2. CASE \E ip \in LabelledIPs, c \in Classifications : LabelSource(ip, c)
    BY <1>3, <2>2 DEF LabelSource
  <2>3. CASE \E k \in MarkedSelectors, e \in {-1, 0, 1} : ExpectSelector(k, e)
    BY <1>3, <2>3 DEF ExpectSelector
  <2>4. CASE \E ip \in Addresses : LocateSource(ip)
    BY <1>3, <2>4 DEF LocateSource
  <2>5. CASE \E d \in PolicyDomains : CacheSpf(d)
    BY <1>3, <2>5 DEF CacheSpf
  <2>6. CASE ClearDNSCache
    BY <1>3, <2>6 DEF ClearDNSCache
  <2>7. CASE ManageDomains
    BY <1>3, <2>7 DEF ManageDomains
  <2> QED
    BY <1>2, <1>4, <2>1, <2>2, <2>3, <2>4, <2>5, <2>6, <2>7 DEF RowsNext
<1>5. ASSUME TlsNext PROVE StatsInv'
  <2>1. CASE DayPasses
    BY <1>2, <2>1
  <2>2. CASE ~DayPasses
    <3>1. UNCHANGED <<stored, now>>
      BY <1>5, <2>2 DEF TlsNext, ImportTlsReport, Snapshot, rowVars
    <3> QED
      BY <1>3, <3>1
  <2> QED
    BY <2>1, <2>2
<1>6. ASSUME UNCHANGED rowVars PROVE StatsInv'
  BY <1>3, <1>6 DEF rowVars
<1>7. ASSUME UNCHANGED statsVars PROVE StatsInv'
  BY <1>6, <1>7 DEF statsVars
<1> QED
  BY <1>2, <1>4, <1>5, <1>6, <1>7 DEF StatsNext

\* The stored reports are among those that may be imported.
LEMMA StatsKept == StatsSpec => []StatsInv
<1>1. StatsInit => StatsInv
  <2>1. StatsInit => stored = {} /\ now = FirstNow
    BY Zenon DEF StatsInit, RowsInit
  <2> QED
    BY <2>1, RowsAssumption DEF StatsInv
<1>2. StatsInv /\ [StatsNext]_statsVars => StatsInv'
  BY StatsInvStep
<1> QED
  BY <1>1, <1>2, PTL DEF StatsSpec

\* The part of TrafficAccountedFor about aggregate reports, for every pool of reports
\* and every filter: each view that sums messages tells the totals of the dashboard,
\* each detail page those of its line, raw results are counted once, and what failed
\* is split by the views of failures (stats.go, stats_sources.go, stats_auth.go).
THEOREM MessagesAreAccountedFor == StatsSpec => []MessagesAccountedFor
<1>1. StatsInv => MessagesAccountedFor
  <2> SUFFICES ASSUME StatsInv, NEW f \in Scopes
               PROVE  /\ SameTotal(f, DashboardStats(f).totals.messages)
                      /\ OutcomesAddUp(f) /\ DetailsAgree(f)
                      /\ RawResultsAddUp(f) /\ FailuresSplit(f)
    BY DEF MessagesAccountedFor
  <2>1. IsFilter(f)
    BY ScopeIsFilter DEF StatsInv
  <2> QED
    BY <2>1, TotalsAgree, OutcomesAgree, DetailsMatch, RawResultsAgree, FailuresAgree
<1> QED
  BY <1>1, StatsKept, PTL

-----------------------------------------------------------------------------
(* What reporters saw: consistency and sampling                             *)

\* The lines of the consistency list add up, and a single line means agreement.
LEMMA ConsistencyAddsUp ==
    ASSUME StatsInv, NEW f
    PROVE  GroupSum(PolicyConsistency(f)) = Messages(Where(f))
<1> DEFINE J == Where(f)
           key == [j \in J |-> Effective(j.rep.tuple)]
           g == PolicyConsistency(f)
<1>1. DOMAIN g = Range(key) /\ DOMAIN key = J
  BY DEF PolicyConsistency, Range
<1>2. \A k \in DOMAIN g : g[k].messages = Messages({j \in J : key[j] = k})
  <2>1. SUFFICES ASSUME NEW k \in DOMAIN g PROVE g[k].messages = Messages({j \in J : key[j] = k})
    OBVIOUS
  <2>2. g[k].messages = Messages({j \in J : Effective(j.rep.tuple) = k})
    BY DEF PolicyConsistency
  <2>3. {j \in J : Effective(j.rep.tuple) = k} = {j \in J : key[j] = k}
    OBVIOUS
  <2> QED
    BY <2>2, <2>3
<1>3. J \in SUBSET AllRows
  BY WhereRows
<1> HIDE DEF J, key, g
<1>4. GroupSum(g) = Messages(J)
  BY <1>1, <1>2, <1>3, BreakdownAddsUp
<1> QED
  BY <1>4 DEF g, J

\* What the active policy may be is a tuple of a row, and so is each reporter's view.
LEMMA ActiveTuple ==
    ASSUME NEW J, NEW a \in ActivePolicyTuples(J)
    PROVE  /\ a.tuple \in {j.rep.tuple : j \in J}
           /\ \E views : /\ \A o \in {j.rep.org : j \in J} : views[o] \in {j.rep.tuple : j \in J}
                         /\ a.consistent
                              <=> \A o \in {j.rep.org : j \in J} :
                                     Effective(views[o]) = Effective(a.tuple)
<1> DEFINE orgs == {j.rep.org : j \in J}
           own(o) == Leading({j \in J : j.rep.org = o})
<1>1. \A I : Leading(I) \subseteq {j.rep.tuple : j \in I}
  BY DEF Leading
<1> DEFINE V == {v \in [orgs -> UNION {own(o) : o \in orgs}] : \A o \in orgs : v[o] \in own(o)}
           agreed(t, v) == \A o \in orgs : Effective(v[o]) = Effective(t)
<1>2. a \in UNION {{[tuple |-> t, consistent |-> agreed(t, v)] : v \in V} : t \in Leading(J)}
  BY Zenon DEF ActivePolicyTuples
<1>3. \A v \in V, o \in orgs : v[o] \in {j.rep.tuple : j \in J}
  <2>1. \A v \in V, o \in orgs : v[o] \in own(o)
    OBVIOUS
  <2>2. \A o \in orgs : own(o) \subseteq {j.rep.tuple : j \in {i \in J : i.rep.org = o}}
    BY <1>1
  <2>3. \A o : {j.rep.tuple : j \in {i \in J : i.rep.org = o}} \subseteq {j.rep.tuple : j \in J}
    OBVIOUS
  <2> HIDE DEF V, own, orgs
  <2> QED
    BY <2>1, <2>2, <2>3
<1> HIDE DEF V, agreed, own
<1>4. PICK t \in Leading(J), v \in V : a = [tuple |-> t, consistent |-> agreed(t, v)]
  BY <1>2, Zenon
<1>5. a.tuple = t /\ (a.consistent <=> agreed(t, v))
  BY <1>4, Zenon
<1>6. t \in {j.rep.tuple : j \in J}
  BY <1>1
<1>7. \A o \in orgs : v[o] \in {j.rep.tuple : j \in J}
  BY <1>3
<1>8. agreed(t, v) <=> \A o \in orgs : Effective(v[o]) = Effective(a.tuple)
  BY <1>5 DEF agreed
<1> HIDE DEF orgs
<1>9. a.consistent <=> \A o \in orgs : Effective(v[o]) = Effective(a.tuple)
  BY <1>5, <1>8
<1> QED
  BY <1>5, <1>6, <1>7, <1>9 DEF orgs

LEMMA OneTupleAgrees ==
    ASSUME StatsInv, NEW f, Cardinality(DOMAIN PolicyConsistency(f)) = 1,
           NEW a \in ActivePolicyTuples(Where(f))
    PROVE  a.consistent
<1> DEFINE J == Where(f)
           key == [j \in J |-> Effective(j.rep.tuple)]
           K == DOMAIN PolicyConsistency(f)
<1>1. K = Range(key) /\ DOMAIN key = J
  BY DEF PolicyConsistency, Range
<1>2. \A t \in {j.rep.tuple : j \in J} : Effective(t) \in K
  BY DEF PolicyConsistency
<1>3. J \in SUBSET AllRows
  BY WhereRows
<1>4. a \in ActivePolicyTuples(J) /\ Cardinality(K) = 1
  OBVIOUS
<1> HIDE DEF J, key, K
<1>5. IsFiniteSet(K)
  BY <1>1, <1>3, KeysFinite
<1>6. PICK e : K = {e}
  BY <1>4, <1>5, FS_Singleton
<1>7. \A t \in {j.rep.tuple : j \in J} : Effective(t) = e
  BY <1>2, <1>6
<1> QED
  BY <1>4, <1>7, ActiveTuple


LEMMA SampledShare ==
    ASSUME NEW n \in Nat, NEW p \in Int, p < 100
    PROVE  p >= 0 => n * (100 - p) <= 100 * n
<1>1. n * (100 - p) = 100 * n - n * p
  OBVIOUS
<1>2. ASSUME p >= 0 PROVE n * p >= 0 /\ n * p \in Int
  BY <1>2
<1> QED
  BY <1>1, <1>2

\* The rows of one reason.
ReasonType(p) == IF p[1].row.over[p[2]] = "" THEN "other" ELSE p[1].row.over[p[2]]

LEMMA Reasons ==
    ASSUME StatsInv, NEW f
    PROVE  /\ DOMAIN OverrideBreakdown(f) = {ReasonType(p) : p \in Overrides(Where(f))}
           /\ \A t \in DOMAIN OverrideBreakdown(f) :
                 /\ OverrideBreakdown(f)[t].messages
                      = FannedMessages({p \in Overrides(Where(f)) : ReasonType(p) = t})
                 /\ OverrideBreakdown(f)[t].sources
                      = Cardinality({p[1].row.ip : p \in {q \in Overrides(Where(f)) : ReasonType(q) = t}})
BY DEF OverrideBreakdown, ReasonType

LEMMA SamplingMatches ==
    ASSUME StatsInv, NEW f, NEW t, t.pct \in Int
    PROVE  SamplingAgrees(f, t)
<1> DEFINE s == PctSampling(f, t)
           J == Where(f)
           P == Overrides(J)
           byReason == OverrideBreakdown(f)
           failing == Messages(Failing(J))
           sampled == {p \in P : p[1].row.over[p[2]] = "sampled_out"}
<1>1. J \in SUBSET AllRows
  BY WhereRows
<1>2. s.applies <=> Effective(t).pct < 100
  <2>1. s.applies <=> t.pct # NoPct /\ t.pct < 100
    BY Zenon DEF PctSampling
  <2>2. Effective(t).pct = IF t.pct = NoPct THEN 100 ELSE t.pct
    BY DEF Effective
  <2> HIDE DEF s
  <2> QED
    BY <2>1, <2>2
<1>3. failing \in Nat /\ failing = DashboardStats(f).totals.failed
  BY <1>1, MessagesNat DEF Failing, DashboardStats, Totals
<1>4. ASSUME s.applies
      PROVE  /\ t.pct < 100
             /\ s.failing = failing /\ s.expected = failing * (100 - t.pct)
             /\ s.observed = FannedMessages(sampled)
  BY <1>4 DEF PctSampling
<1>5. sampled = {p \in P : ReasonType(p) = "sampled_out"}
  BY DEF ReasonType
<1>6. FannedMessages(sampled)
        = IF "sampled_out" \in DOMAIN byReason THEN byReason["sampled_out"].messages ELSE 0
  <2>1. CASE "sampled_out" \in DOMAIN byReason
    <3>1. byReason["sampled_out"].messages
            = FannedMessages({p \in P : ReasonType(p) = "sampled_out"})
      BY <2>1, Reasons
    <3> HIDE DEF byReason, sampled, P
    <3> QED
      BY <1>5, <2>1, <3>1
  <2>2. CASE "sampled_out" \notin DOMAIN byReason
    <3>1. sampled = {}
      BY <1>5, <2>2, Reasons
    <3>2. FannedMessages({}) = 0
      BY SumEmpty DEF FannedMessages
    <3> QED
      BY <2>2, <3>1, <3>2
  <2> QED
    BY <2>1, <2>2
<1>7. \A r \in DOMAIN byReason : byReason[r].sources <= Cardinality(DOMAIN SourceVolumes(f))
  <2> SUFFICES ASSUME NEW r \in DOMAIN byReason
               PROVE  byReason[r].sources <= Cardinality(DOMAIN SourceVolumes(f))
    OBVIOUS
  <2> DEFINE key == [j \in J |-> j.row.ip]
             K == DOMAIN SourceVolumes(f)
             S == {p[1].row.ip : p \in {q \in P : ReasonType(q) = r}}
  <2>1. byReason[r].sources = Cardinality(S)
    BY Reasons
  <2>2. K = Range(key) /\ DOMAIN key = J
    BY DEF SourceVolumes, GroupedBy
  <2>3. \A p \in P : p[1] \in J
    BY DEF Overrides
  <2>4. K = {j.row.ip : j \in J}
    BY DEF SourceVolumes, GroupedBy, Range
  <2>5. S \subseteq K
    BY <2>3, <2>4
  <2> HIDE DEF key, K, S, J, P, byReason
  <2>6. IsFiniteSet(K)
    BY <1>1, <2>2, KeysFinite
  <2>7. Cardinality(S) <= Cardinality(K)
    BY <2>5, <2>6, FS_Subset
  <2>8. K = DOMAIN SourceVolumes(f)
    BY DEF K
  <2> QED
    BY <2>1, <2>7, <2>8
<1>8. ASSUME s.applies PROVE t.pct >= 0 => s.expected <= 100 * s.failing
  <2> HIDE DEF s, failing
  <2> QED
    BY <1>3, <1>4, <1>8, SampledShare
<1> HIDE DEF s, byReason, failing, sampled
<1>9. s.applies => /\ s.failing = DashboardStats(f).totals.failed
                   /\ t.pct >= 0 => s.expected <= 100 * s.failing
                   /\ s.observed = IF "sampled_out" \in DOMAIN byReason
                                   THEN byReason["sampled_out"].messages ELSE 0
  BY <1>3, <1>4, <1>6, <1>8
<1> QED
  BY <1>2, <1>7, <1>9 DEF SamplingAgrees, s, byReason

LEMMA ActiveSampling ==
    ASSUME StatsInv, NEW f, NEW a \in ActivePolicyTuples(Where(f))
    PROVE  SamplingAgrees(f, a.tuple)
<1>1. PICK j \in Where(f) : a.tuple = j.rep.tuple
  BY ActiveTuple
<1>2. j.rep \in stored
  BY RowDays
<1>3. a.tuple.pct \in Int
  BY <1>1, <1>2, RowsAssumption DEF StatsInv
<1> QED
  BY <1>3, SamplingMatches

-----------------------------------------------------------------------------
(* What reporters saw: policies by domain, subdomains                       *)

\* Something comes first, and it is one of the values.
LEMMA LargestExists ==
    ASSUME NEW D, IsFiniteSet(D), D # {}, NEW m, \A p \in D : m[p] \in Int
    PROVE  /\ Largest({<<p, m[p]>> : p \in D}) # {}
           /\ Largest({<<p, m[p]>> : p \in D}) \subseteq D
<1> DEFINE S == {<<p, m[p]>> : p \in D}
<1>1. Image(m, D) \in SUBSET Int /\ IsFiniteSet(Image(m, D)) /\ Image(m, D) # {}
  BY ImageFinite DEF Image
<1>2. PICK x \in Image(m, D) : \A y \in Image(m, D) : y <= x
  BY <1>1, Extremes
<1>3. PICK p \in D : x = m[p]
  BY <1>2 DEF Image
<1>4. \A q \in D : m[q] <= m[p]
  BY <1>2, <1>3 DEF Image
<1>5. <<p, m[p]>> \in {t \in S : \A u \in S : u[2] <= t[2]}
  BY <1>4
<1>6. \A s \in S : s[1] \in D
  OBVIOUS
<1> HIDE DEF S
<1>7. Largest(S) # {}
  BY <1>5 DEF Largest
<1>8. Largest(S) \subseteq D
  BY <1>6 DEF Largest
<1> QED
  BY <1>7, <1>8 DEF S

LEMMA ActivePoliciesExist ==
    ASSUME StatsInv, NEW f
    PROVE  ActivePolicies(f) # {} /\ IsFiniteSet(ActivePolicies(f))
<1> DEFINE J == Where(f)
           key == [j \in J |-> j.rep.tuple.p]
           g == GroupedBy(key)
           D == DOMAIN g
           m == [p \in D |-> g[p].messages]
<1>1. J \in SUBSET AllRows /\ DOMAIN key = J
  BY WhereRows
<1>2. D = Range(key)
  BY DEF GroupedBy
<1>3. \A p \in D : m[p] = Messages({j \in J : key[j] = p})
  BY DEF GroupedBy, Totals
<1>4. ActivePolicies(f) = IF D = {} THEN {""} ELSE Largest({<<p, g[p].messages>> : p \in D})
  BY DEF ActivePolicies
<1>5. {<<p, g[p].messages>> : p \in D} = {<<p, m[p]>> : p \in D}
  OBVIOUS
<1> HIDE DEF J, key, g, D, m
<1>6. IsFiniteSet(D)
  BY <1>1, <1>2, KeysFinite
<1>7. \A p \in D : {j \in J : key[j] = p} \in SUBSET AllRows
  BY <1>1
<1>8. ASSUME NEW p \in D PROVE m[p] \in Int
  <2> DEFINE I == {j \in J : key[j] = p}
  <2>1. I \in SUBSET AllRows /\ m[p] = Messages(I)
    BY <1>3, <1>7
  <2> HIDE DEF I
  <2> QED
    BY <2>1, MessagesNat
<1>9. CASE D = {}
  <2>1. ActivePolicies(f) = {""}
    BY <1>4, <1>9
  <2> QED
    BY <2>1, FS_Singleton
<1>10. CASE D # {}
  <2>1. ActivePolicies(f) = Largest({<<p, m[p]>> : p \in D})
    BY <1>4, <1>5, <1>10
  <2>2. ActivePolicies(f) # {} /\ ActivePolicies(f) \subseteq D
    BY <1>6, <1>8, <1>10, <2>1, LargestExists
  <2> QED
    BY <1>6, <2>2, FS_Subset
<1> QED
  BY <1>9, <1>10

\* Sets that cover D, counted: a member of D counts for each value of its set.
LEMMA CountedAtLeastOnce ==
    ASSUME NEW D, IsFiniteSet(D), NEW dominant,
           \A d \in D : dominant[d] # {} /\ IsFiniteSet(dominant[d]),
           NEW K, K = UNION {dominant[d] : d \in D},
           NEW count, \A p \in K : count[p] = Cardinality({d \in D : p \in dominant[d]})
    PROVE  Over(count, K) >= Cardinality(D)
<1> DEFINE one == [d \in D |-> 1]
           pick == [d \in D |-> CHOOSE p \in dominant[d] : TRUE]
           of(p) == {d \in D : pick[d] = p}
           g == [p \in K |-> Over(one, of(p))]
<1>1. \A d \in D : pick[d] \in dominant[d] /\ pick[d] \in K
  OBVIOUS
<1>2. IsFiniteSet(K)
  <2>1. IsFiniteSet(Image(dominant, D))
    BY ImageFinite
  <2>2. \A x \in Image(dominant, D) : IsFiniteSet(x)
    BY DEF Image
  <2>3. K = UNION Image(dominant, D)
    BY DEF Image
  <2> QED
    BY <2>1, <2>2, <2>3, FS_UNION
<1>3. \A p : of(p) \in SUBSET D
  OBVIOUS
<1>4. \A d \in D : one[d] = 1
  OBVIOUS
<1>5. \A p \in K : g[p] = Over(one, {d \in D : pick[d] = p})
  OBVIOUS
<1>6. ASSUME NEW p \in K PROVE g[p] \in Int /\ count[p] \in Int /\ g[p] <= count[p]
  <2> DEFINE A == of(p)
             B == {d \in D : p \in dominant[d]}
  <2>1. A \subseteq B /\ B \subseteq D
    BY <1>1
  <2>2. count[p] = Cardinality(B) /\ g[p] = Over(one, A)
    OBVIOUS
  <2>3. \A d \in A : one[d] = 1
    OBVIOUS
  <2> HIDE DEF A, B, one, g, pick
  <2>4. IsFiniteSet(B) /\ IsFiniteSet(A)
    BY <2>1, FS_Subset
  <2>5. Over(one, A) = Cardinality(A)
    BY <2>3, <2>4, OverOnes
  <2>6. Cardinality(A) <= Cardinality(B)
    BY <2>1, <2>4, FS_Subset
  <2>7. Cardinality(A) \in Nat /\ Cardinality(B) \in Nat
    BY <2>4, FS_CardinalityType
  <2> QED
    BY <2>2, <2>5, <2>6, <2>7
<1> HIDE DEF one, pick, g, of
<1>7. Grouping(one, D, pick, K, g)
  <2>1. \A d \in D : one[d] \in Int
    BY <1>4
  <2>2. \A d \in D : pick[d] \in K
    BY <1>1
  <2> QED
    BY <1>2, <1>5, <2>1, <2>2, Zenon DEF Grouping
<1>8. Over(g, K) = Over(one, D)
  BY <1>7, OverGroups
<1>9. Over(one, D) = Cardinality(D)
  BY <1>4, OverOnes
<1>10. Over(g, K) <= Over(count, K)
  BY <1>2, <1>6, OverMono
<1>11. Over(g, K) \in Int /\ Over(count, K) \in Int
  BY <1>2, <1>6, OverType
<1> QED
  BY <1>8, <1>9, <1>10, <1>11

LEMMA PoliciesCoverDomains ==
    ASSUME StatsInv, NEW f
    PROVE  SumOf(DomainPolicyBreakdown(f)) >= Cardinality(DOMAIN DomainStats(f))
<1> DEFINE D == DOMAIN DomainStats(f)
           dominant == [d \in D |-> ActivePolicies([f EXCEPT !.domain = d])]
           K == UNION {dominant[d] : d \in D}
           count == DomainPolicyBreakdown(f)
           key == [j \in Where(f) |-> j.rep.domain]
<1>1. D = Range(key) /\ DOMAIN key = Where(f)
  BY DEF DomainStats, GroupedBy
<1>2. Where(f) \in SUBSET AllRows
  BY WhereRows
<1>3. \A d \in D : dominant[d] # {} /\ IsFiniteSet(dominant[d])
  BY ActivePoliciesExist
<1>4. count = [p \in UNION {ActivePolicies([f EXCEPT !.domain = d]) : d \in D}
                 |-> Cardinality({d \in D : p \in ActivePolicies([f EXCEPT !.domain = d])})]
  BY Zenon DEF DomainPolicyBreakdown
<1>5. K = UNION {ActivePolicies([f EXCEPT !.domain = d]) : d \in D}
  OBVIOUS
<1>6. \A p : {d \in D : p \in dominant[d]} = {d \in D : p \in ActivePolicies([f EXCEPT !.domain = d])}
  OBVIOUS
<1> HIDE DEF D, dominant, count, key
<1>7. IsFiniteSet(D)
  BY <1>1, <1>2, KeysFinite
<1>8. DOMAIN count = K /\ \A p \in K : count[p] = Cardinality({d \in D : p \in dominant[d]})
  BY <1>4, <1>5, <1>6
<1>9. count = [p \in K |-> count[p]]
  BY <1>4, <1>5
<1> HIDE DEF K
<1>10. Over(count, K) >= Cardinality(D)
  BY <1>3, <1>7, <1>8, CountedAtLeastOnce DEF K
<1>11. SumOf(count) = Over(count, K)
  BY <1>9, SumIsOver
<1> QED
  BY <1>10, <1>11 DEF count, D

\* What subdomains send is part of what is sent.
LEMMA SubdomainsWithin ==
    ASSUME StatsInv, NEW f
    PROVE  GroupedTotal(SubdomainTraffic(f)) <= Messages(Where(f))
<1> DEFINE J == {j \in Where(f) : <<j.row.hfrom, j.rep.domain>> \in Subdomains}
           key == [j \in J |-> <<j.row.hfrom, j.rep.domain>>]
           e == SubdomainTraffic(f)
           g == [k \in DOMAIN e |-> e[k].totals]
<1>1. DOMAIN g = Range(key) /\ DOMAIN key = J
  BY DEF SubdomainTraffic, Range
<1>2. \A k \in DOMAIN g : g[k].messages = Messages({j \in J : key[j] = k})
  <2>1. SUFFICES ASSUME NEW k \in DOMAIN g PROVE g[k].messages = Messages({j \in J : key[j] = k})
    OBVIOUS
  <2>2. g[k].messages = Messages({j \in J : <<j.row.hfrom, j.rep.domain>> = k})
    BY DEF SubdomainTraffic, Totals
  <2>3. {j \in J : <<j.row.hfrom, j.rep.domain>> = k} = {j \in J : key[j] = k}
    OBVIOUS
  <2> QED
    BY <2>2, <2>3
<1>3. Where(f) \in SUBSET AllRows
  BY WhereRows
<1>4. J \in SUBSET Where(f)
  OBVIOUS
<1>5. GroupedTotal(e) = GroupSum(g)
  BY DEF GroupedTotal, GroupSum
<1> HIDE DEF J, key, g, e
<1>6. J \in SUBSET AllRows
  BY <1>3, <1>4
<1>7. GroupSum(g) = Messages(J)
  BY <1>1, <1>2, <1>6, BreakdownAddsUp
<1>8. Messages(J) <= Messages(Where(f))
  BY <1>3, <1>4, MessagesSubset
<1> QED
  BY <1>5, <1>7, <1>8 DEF e

\* What the policy pages of one filter tell agrees with the dashboard.
LEMMA PolicyPagesAgree ==
    ASSUME StatsInv, NEW f
    PROVE  LET groups == PolicyConsistency(f)
           IN  /\ GroupSum(groups) = DashboardStats(f).totals.messages
               /\ Cardinality(DOMAIN groups) = 1 =>
                     \A a \in ActivePolicyTuples(Where(f)) : a.consistent
               /\ \A a \in ActivePolicyTuples(Where(f)) : SamplingAgrees(f, a.tuple)
               /\ SumOf(DomainPolicyBreakdown(f)) >= Cardinality(DOMAIN DomainStats(f))
               /\ GroupedTotal(SubdomainTraffic(f)) <= DashboardStats(f).totals.messages
<1>1. DashboardStats(f).totals.messages = Messages(Where(f))
  BY DEF DashboardStats, Totals
<1> QED
  BY <1>1, ConsistencyAddsUp, OneTupleAgrees, ActiveSampling, PoliciesCoverDomains, SubdomainsWithin

-----------------------------------------------------------------------------
(* What reporters saw: the change log                                       *)

LEMMA StoredReports ==
    ASSUME StatsInv
    PROVE  /\ IsFiniteSet(stored)
           /\ \A r \in stored : r.begin \in Int /\ r.begin > 1 /\ r.id \in Int
           /\ \A r, s \in stored : r.id = s.id => r = s
<1>1. IsFiniteSet(stored)
  BY RowsAssumption, FS_Subset DEF StatsInv
<1> QED
  BY <1>1, RowsAssumption DEF StatsInv

\* Reports are in one order: some report is the first, and some the last.
LEMMA FirstReport ==
    ASSUME StatsInv, NEW S \in SUBSET stored, S # {}
    PROVE  \E a \in S : \A b \in S : b = a \/ Earlier(a, b)
<1> DEFINE begins == {r.begin : r \in S}
<1>1. begins \in SUBSET Int /\ begins # {}
  BY StoredReports
<1>2. IsFiniteSet(S)
  BY StoredReports, FS_Subset
<1>3. IsFiniteSet(begins)
  <2> DEFINE h == [r \in S |-> r.begin]
  <2>1. Image(h, S) = begins
    BY DEF Image
  <2> HIDE DEF h, begins
  <2> QED
    BY <1>2, <2>1, ImageFinite
<1>4. PICK x \in begins : \A y \in begins : x <= y
  <2> HIDE DEF begins
  <2> QED
    BY <1>1, <1>3, Extremes
<1> DEFINE F == {r \in S : r.begin = x}
           ids == {r.id : r \in F}
<1>5. ids \in SUBSET Int /\ ids # {}
  BY StoredReports
<1>6. IsFiniteSet(ids)
  <2> DEFINE h == [r \in F |-> r.id]
  <2>1. Image(h, F) = ids
    BY DEF Image
  <2>2. IsFiniteSet(F)
    BY <1>2, FS_Subset
  <2> HIDE DEF h, ids, F
  <2> QED
    BY <2>1, <2>2, ImageFinite
<1>7. PICK i \in ids : \A y \in ids : i <= y
  <2> HIDE DEF ids
  <2> QED
    BY <1>5, <1>6, Extremes
<1>8. PICK a \in F : a.id = i
  BY <1>7
<1>9. ASSUME NEW b \in S, b # a PROVE Earlier(a, b)
  <2>1. a \in stored /\ b \in stored /\ a.begin <= b.begin
    BY <1>4, <1>8, <1>9
  <2>2. b.begin = a.begin => a.id <= b.id
    BY <1>7, <1>8, <1>9
  <2>3. /\ a.begin \in Int /\ b.begin \in Int /\ a.id \in Int /\ b.id \in Int
        /\ a.id # b.id
    BY <1>9, <2>1, StoredReports
  <2> QED
    BY <2>1, <2>2, <2>3 DEF Earlier
<1> QED
  BY <1>8, <1>9

LEMMA LastReport ==
    ASSUME StatsInv, NEW S \in SUBSET stored, S # {}
    PROVE  \E a \in S : \A b \in S : b = a \/ Earlier(b, a)
<1> DEFINE begins == {r.begin : r \in S}
<1>1. begins \in SUBSET Int /\ begins # {}
  BY StoredReports
<1>2. IsFiniteSet(S)
  BY StoredReports, FS_Subset
<1>3. IsFiniteSet(begins)
  <2> DEFINE h == [r \in S |-> r.begin]
  <2>1. Image(h, S) = begins
    BY DEF Image
  <2> HIDE DEF h, begins
  <2> QED
    BY <1>2, <2>1, ImageFinite
<1>4. PICK x \in begins : \A y \in begins : y <= x
  <2> HIDE DEF begins
  <2> QED
    BY <1>1, <1>3, Extremes
<1> DEFINE F == {r \in S : r.begin = x}
           ids == {r.id : r \in F}
<1>5. ids \in SUBSET Int /\ ids # {}
  BY StoredReports
<1>6. IsFiniteSet(ids)
  <2> DEFINE h == [r \in F |-> r.id]
  <2>1. Image(h, F) = ids
    BY DEF Image
  <2>2. IsFiniteSet(F)
    BY <1>2, FS_Subset
  <2> HIDE DEF h, ids, F
  <2> QED
    BY <2>1, <2>2, ImageFinite
<1>7. PICK i \in ids : \A y \in ids : y <= i
  <2> HIDE DEF ids
  <2> QED
    BY <1>5, <1>6, Extremes
<1>8. PICK a \in F : a.id = i
  BY <1>7
<1>9. ASSUME NEW b \in S, b # a PROVE Earlier(b, a)
  <2>1. a \in stored /\ b \in stored /\ b.begin <= a.begin
    BY <1>4, <1>8, <1>9
  <2>2. b.begin = a.begin => b.id <= a.id
    BY <1>7, <1>8, <1>9
  <2>3. /\ a.begin \in Int /\ b.begin \in Int /\ a.id \in Int /\ b.id \in Int
        /\ a.id # b.id
    BY <1>9, <2>1, StoredReports
  <2> QED
    BY <2>1, <2>2, <2>3 DEF Earlier
<1> QED
  BY <1>8, <1>9


\* The reports of one reporter on one domain, and what they say.
Told(d, o) == {r \in stored : r.domain = d /\ r.org = o}
Versions(d, o) == {Effective(r.tuple) : r \in Told(d, o)}

LogKey(c) == <<c[2].begin, Diff(Effective(c[1].tuple), Effective(c[2].tuple))>>

LEMMA LogEntries ==
    ASSUME NEW d
    PROVE  /\ \A e \in PolicyChangeLog(d) :
                 /\ e.changes \subseteq ChangesOf(d)
                 /\ \E c \in ChangesOf(d) : e.at = c[2].begin
                 /\ e.before = Totals(Where(DaysBefore(d, e.at)))
                 /\ e.after = Totals(Where(DaysAfter(d, e.at)))
           /\ \A c \in ChangesOf(d) : \E e \in PolicyChangeLog(d) : c \in e.changes
<1> DEFINE C == ChangesOf(d)
           entry(k) == [at |-> k[1], diff |-> k[2], changes |-> {c \in C : LogKey(c) = k},
                        before |-> Totals(Where(DaysBefore(d, k[1]))),
                        after |-> Totals(Where(DaysAfter(d, k[1])))]
           K == {LogKey(c) : c \in C}
<1>1. PolicyChangeLog(d) = {entry(k) : k \in K}
  BY Zenon DEF PolicyChangeLog, LogKey
<1>2. \A k \in K : \E c \in C : k[1] = c[2].begin
  BY DEF LogKey
<1>3. \A c \in C : c \in entry(LogKey(c)).changes
  OBVIOUS
<1>4. \A k : /\ entry(k).changes \subseteq C /\ entry(k).at = k[1]
             /\ entry(k).before = Totals(Where(DaysBefore(d, k[1])))
             /\ entry(k).after = Totals(Where(DaysAfter(d, k[1])))
  OBVIOUS
<1>5. \A c \in C : LogKey(c) \in K
  OBVIOUS
<1> HIDE DEF C, K, entry
<1> QED
  BY <1>1, <1>2, <1>3, <1>4, <1>5 DEF C

\* A change lies between two reports of one reporter.
LEMMA ChangeIsSeen ==
    ASSUME NEW d, NEW c \in ChangesOf(d)
    PROVE  /\ c[2] \in stored /\ c[1] \in Told(d, c[2].org) /\ c[2] \in Told(d, c[2].org)
           /\ Effective(c[1].tuple) # Effective(c[2].tuple)
BY DEF ChangesOf, Before, Told

LEMMA VersionsFinite ==
    ASSUME StatsInv, NEW d, NEW o
    PROVE  IsFiniteSet(Versions(d, o))
<1> DEFINE R == Told(d, o)
           h == [r \in R |-> Effective(r.tuple)]
<1>1. Image(h, R) = Versions(d, o)
  BY DEF Image, Versions
<1>2. R \subseteq stored
  BY DEF Told
<1> HIDE DEF R, h
<1>3. IsFiniteSet(R)
  BY <1>2, StoredReports, FS_Subset
<1> QED
  BY <1>1, <1>3, ImageFinite

LEMMA ChangedIsNotSteady ==
    ASSUME StatsInv, NEW d, NEW c \in ChangesOf(d)
    PROVE  Cardinality(Versions(d, c[2].org)) # 1
<1> DEFINE V == Versions(d, c[2].org)
<1>1. Effective(c[1].tuple) \in V /\ Effective(c[2].tuple) \in V
  BY ChangeIsSeen DEF Versions
<1>2. Effective(c[1].tuple) # Effective(c[2].tuple)
  BY ChangeIsSeen
<1>3. IsFiniteSet(V)
  BY VersionsFinite
<1> HIDE DEF V
<1>4. ASSUME Cardinality(V) = 1 PROVE FALSE
  <2>1. PICK v : V = {v}
    BY <1>3, <1>4, FS_Singleton
  <2> QED
    BY <1>1, <1>2, <2>1
<1> QED
  BY <1>4 DEF V

\* Of a reporter that told several policies, some report differs from the one before.
LEMMA UnsteadyHasChanged ==
    ASSUME StatsInv, NEW d, NEW o, Told(d, o) # {}, Cardinality(Versions(d, o)) # 1
    PROVE  \E c \in ChangesOf(d) : c[2].org = o
<1> DEFINE R == Told(d, o)
<1>1. R \in SUBSET stored /\ R # {}
  BY DEF Told
<1>2. PICK a \in R : \A b \in R : b = a \/ Earlier(a, b)
  BY <1>1, FirstReport
<1> DEFINE Other == {r \in R : Effective(r.tuple) # Effective(a.tuple)}
<1>3. Other # {}
  <2>1. ASSUME Other = {} PROVE Versions(d, o) = {Effective(a.tuple)}
    BY <1>2, <2>1 DEF Versions
  <2> QED
    BY <2>1, FS_Singleton
<1>4. PICK r \in Other : \A b \in Other : b = r \/ Earlier(r, b)
  BY <1>1, <1>3, FirstReport
<1> DEFINE B == {x \in stored : x.org = r.org /\ x.domain = r.domain /\ Earlier(x, r)}
<1>5. B \subseteq R /\ a \in B
  BY <1>2, <1>4 DEF Told
<1>6. PICK p \in B : \A y \in B : y = p \/ Earlier(y, p)
  <2>1. B \in SUBSET stored /\ B # {}
    BY <1>5
  <2> HIDE DEF B
  <2> QED
    BY <2>1, LastReport
<1>7. p \in Before(r)
  BY <1>6 DEF Before
<1>8. p \notin Other
  <2>1. ASSUME p \in Other PROVE FALSE
    <3>1. p = r \/ Earlier(r, p)
      BY <1>4, <2>1
    <3>2. Earlier(p, r)
      BY <1>6
    <3>3. /\ p.begin \in Int /\ p.id \in Int /\ r.begin \in Int /\ r.id \in Int
      BY <1>4, <1>6, StoredReports DEF Told
    <3> QED
      BY <3>1, <3>2, <3>3 DEF Earlier
  <2> QED
    BY <2>1
<1>9. Effective(p.tuple) # Effective(r.tuple)
  BY <1>4, <1>5, <1>6, <1>8
<1>10. r.org = o /\ r.domain = d /\ r \in stored /\ p \in stored
  BY <1>4, <1>6 DEF Told
<1>11. <<p, r>> \in ChangesOf(d)
  BY <1>7, <1>9, <1>10 DEF ChangesOf
<1> QED
  BY <1>10, <1>11

LEMMA ThreeFields ==
    ASSUME NEW u, u = [envelopeFrom |-> u.envelopeFrom, domain |-> u.domain, ip |-> u.ip,
                       from |-> u.from, to |-> u.to],
           NEW d, NEW x, NEW y, NEW v, v = [u EXCEPT !.domain = d, !.from = x, !.to = y]
    PROVE  /\ v.envelopeFrom = u.envelopeFrom /\ v.domain = d /\ v.ip = u.ip
           /\ v.from = x /\ v.to = y
OBVIOUS

LEMMA TwoFields ==
    ASSUME NEW u, u = [envelopeFrom |-> u.envelopeFrom, domain |-> u.domain, ip |-> u.ip,
                       from |-> u.from, to |-> u.to],
           NEW d, NEW x, NEW v, v = [u EXCEPT !.domain = d, !.from = x]
    PROVE  /\ v.envelopeFrom = u.envelopeFrom /\ v.domain = d /\ v.ip = u.ip
           /\ v.from = x /\ v.to = u.to
OBVIOUS

\* The days before a change and the days from it on share no report.
LEMMA ChangeWindows ==
    ASSUME StatsInv, NEW d, d # AnyValue, NEW at \in Int, at > 1
    PROVE  Messages(Where(DaysBefore(d, at))) + Messages(Where(DaysAfter(d, at)))
              <= Messages(Where([Unbounded EXCEPT !.domain = d, !.from = 0]))
<1> DEFINE before == DaysBefore(d, at)
           after == DaysAfter(d, at)
           all == [Unbounded EXCEPT !.domain = d, !.from = 0]
           A == Where(before)
           B == Where(after)
           J == Where(all)
<1>1. /\ \A f \in {before, after, all} :
            f.envelopeFrom = AnyValue /\ f.domain = d /\ f.ip = AnyValue
      /\ before.from = at - 7 /\ before.to = at - 1
      /\ after.from = at /\ after.to = at + 6
      /\ all.from = 0 /\ all.to = 0
  <2> DEFINE u == Unbounded
  <2>1. /\ u = [envelopeFrom |-> u.envelopeFrom, domain |-> u.domain, ip |-> u.ip,
                from |-> u.from, to |-> u.to]
        /\ u.envelopeFrom = AnyValue /\ u.ip = AnyValue /\ u.to = 0
    BY DEF Unbounded
  <2>2. before = [u EXCEPT !.domain = d, !.from = at - 7, !.to = at - 1]
    BY DEF DaysBefore
  <2>3. after = [u EXCEPT !.domain = d, !.from = at, !.to = at + 6]
    BY DEF DaysAfter
  <2>4. all = [u EXCEPT !.domain = d, !.from = 0]
    OBVIOUS
  <2> HIDE DEF u, before, after, all
  <2>5. /\ before.envelopeFrom = u.envelopeFrom /\ before.domain = d /\ before.ip = u.ip
        /\ before.from = at - 7 /\ before.to = at - 1
    BY <2>1, <2>2, ThreeFields
  <2>6. /\ after.envelopeFrom = u.envelopeFrom /\ after.domain = d /\ after.ip = u.ip
        /\ after.from = at /\ after.to = at + 6
    BY <2>1, <2>3, ThreeFields
  <2>7. /\ all.envelopeFrom = u.envelopeFrom /\ all.domain = d /\ all.ip = u.ip
        /\ all.from = 0 /\ all.to = u.to
    BY <2>1, <2>4, TwoFields
  <2> QED
    BY <2>1, <2>5, <2>6, <2>7
<1> HIDE DEF before, after, all
<1>2. J \in SUBSET AllRows
  BY WhereRows
<1>3. A \subseteq J /\ B \subseteq J
  BY <1>1 DEF Where, WhereNoTime, Scoped, InWindow
<1>4. \A j \in J : j.rep.begin \in Int
  BY <1>2, RowsFinite, RowDays
<1>5. A \cap B = {}
  <2>1. \A j \in A : j.rep.begin <= at - 1
    BY <1>1 DEF Where, InWindow
  <2>2. \A j \in B : j.rep.begin >= at
    BY <1>1 DEF Where, InWindow
  <2> HIDE DEF A, B, J
  <2> QED
    BY <1>3, <1>4, <2>1, <2>2
<1> HIDE DEF A, B, J
<1>6. A \cup B \in SUBSET J /\ A \cup B \in SUBSET AllRows
  BY <1>2, <1>3
<1>7. RowParts(A \cup B, A, B)
  BY <1>5, <1>6 DEF RowParts
<1>8. Messages(A \cup B) = Messages(A) + Messages(B)
  BY <1>7, MessagesSplit
<1>9. Messages(A \cup B) <= Messages(J)
  BY <1>2, <1>6, MessagesSubset
<1> QED
  BY <1>8, <1>9 DEF A, B, J, before, after, all

\* The change log of a domain tells what its reporters saw.
LEMMA ChangeLogAgrees ==
    ASSUME StatsInv, NEW d \in ReportDomains
    PROVE  LET log == PolicyChangeLog(d)
               own(o) == {r \in stored : r.domain = d /\ r.org = o}
               steady(o) == Cardinality({Effective(r.tuple) : r \in own(o)}) = 1
           IN  /\ \A e \in log : \A c \in e.changes : ~steady(c[2].org)
               /\ \A o \in {r.org : r \in stored} :
                     own(o) # {} /\ ~steady(o) => \E e \in log : \E c \in e.changes : c[2].org = o
               /\ \A e \in log :
                     e.before.messages + e.after.messages <= DomainAggStats(d, 0).totals.messages
<1> DEFINE log == PolicyChangeLog(d)
           steady(o) == Cardinality(Versions(d, o)) = 1
<1>1. \A e \in log : \A c \in e.changes : ~steady(c[2].org)
  BY LogEntries, ChangedIsNotSteady
<1>2. \A o : Told(d, o) # {} /\ ~steady(o) => \E e \in log : \E c \in e.changes : c[2].org = o
  BY LogEntries, UnsteadyHasChanged
<1>3. ASSUME NEW e \in log
      PROVE  e.before.messages + e.after.messages <= DomainAggStats(d, 0).totals.messages
  <2>1. d # AnyValue
    BY RowsAssumption DEF ReportDomains, StatsInv
  <2>2. PICK c \in ChangesOf(d) : e.at = c[2].begin
    BY LogEntries
  <2>3. e.at \in Int /\ e.at > 1
    BY <2>2, ChangeIsSeen, StoredReports
  <2>4. /\ e.before.messages = Messages(Where(DaysBefore(d, e.at)))
        /\ e.after.messages = Messages(Where(DaysAfter(d, e.at)))
    <3>1. /\ e.before = Totals(Where(DaysBefore(d, e.at)))
          /\ e.after = Totals(Where(DaysAfter(d, e.at)))
      BY LogEntries
    <3> QED
      BY <3>1 DEF Totals
  <2>5. DomainAggStats(d, 0).totals.messages
          = Messages(Where([Unbounded EXCEPT !.domain = d, !.from = 0]))
    BY DEF DomainAggStats, Totals
  <2> QED
    BY <2>1, <2>3, <2>4, <2>5, ChangeWindows
<1> HIDE DEF log
<1> QED
  BY <1>1, <1>2, <1>3 DEF log, Versions, Told

\* ReportersTellOnePolicy for every pool of reports and every filter: the consistency
\* list adds up to the dashboard and agrees with the active policy, sampling is judged
\* where the policy asks for it, and the change log names the reporters that saw a
\* change, and no others (stats_policy.go:122-126, 204-231, 267-310, 325-331).
THEOREM ReportersAlwaysTellOnePolicy == StatsSpec => []ReportersTellOnePolicy
<1>1. StatsInv => ReportersTellOnePolicy
  BY PolicyPagesAgree, ChangeLogAgrees DEF ReportersTellOnePolicy
<1> QED
  BY <1>1, StatsKept, PTL

-----------------------------------------------------------------------------
(* The rules X1 to X11: the windows they read                               *)

\* What the rules rest on besides: the clock does not go back, and what the inventory
\* tells of a selector is the first report of it that was stored.
InventoryTold ==
    \A k \in DOMAIN inventory :
        /\ k = <<k[1], k[2]>>
        /\ inventory[k] = [first |-> inventory[k].first, last |-> inventory[k].last,
                           expected |-> inventory[k].expected]
        /\ inventory[k].first # 0 =>
              \E r \in stored : k \in KeysOf(r) /\ k[2] # "" /\ r.begin = inventory[k].first

RulesInv == StatsInv /\ now >= FirstNow /\ InventoryTold

Widened(old, r) ==
    [old EXCEPT !.first = IF @ = 0 \/ r.begin < @ THEN r.begin ELSE @,
                !.last = IF r.begin > @ THEN r.begin ELSE @]

LEMMA KeysArePairs ==
    ASSUME NEW r, NEW k \in KeysOf(r)
    PROVE  k = <<k[1], k[2]>>
<1>1. PICK p \in Signatures(JoinOf({r})) :
         k = <<p[1].row.sigs[p[2]].domain, p[1].row.sigs[p[2]].selector>>
  BY DEF KeysOf
<1> QED
  BY <1>1

LEMMA InventoryImported ==
    ASSUME RulesInv, NEW r \in Pool, ImportReport(r)
    PROVE  InventoryTold'
<1> DEFINE named == {k \in KeysOf(r) : k[2] # ""}
<1>0. inventory' = [k \in DOMAIN inventory \cup named |->
                       IF k \in named THEN Widened(InventoryRow(k), r) ELSE inventory[k]]
  BY Zenon DEF ImportReport, Widened
<1>1. ASSUME NEW k \in named
      PROVE  k = <<k[1], k[2]>> /\ inventory'[k] = Widened(InventoryRow(k), r)
  <2>1. k = <<k[1], k[2]>>
    BY KeysArePairs
  <2>2. k \in DOMAIN inventory \cup named /\ k \in named
    OBVIOUS
  <2> HIDE DEF named
  <2>3. inventory'[k] = Widened(InventoryRow(k), r)
    BY <1>0, <2>2, Zenon
  <2> QED
    BY <2>1, <2>3
<1>2. DOMAIN inventory' = DOMAIN inventory \cup named
  BY DEF ImportReport
<1>3. \A k \in DOMAIN inventory \ named : inventory'[k] = inventory[k]
  BY DEF ImportReport
<1>4. stored' = stored \cup {r}
  BY DEF ImportReport
<1>5. ASSUME NEW k \in named
      PROVE  LET old == InventoryRow(k)
             IN  /\ old = [first |-> old.first, last |-> old.last, expected |-> old.expected]
                 /\ old.first # 0 => \E s \in stored : /\ k \in KeysOf(s) /\ k[2] # ""
                                                       /\ s.begin = old.first
  BY DEF InventoryRow, Unseen, RulesInv, InventoryTold
<1>6. ASSUME NEW k \in named
      PROVE  /\ k = <<k[1], k[2]>>
             /\ inventory'[k] = [first |-> inventory'[k].first, last |-> inventory'[k].last,
                                 expected |-> inventory'[k].expected]
             /\ inventory'[k].first # 0 =>
                   \E s \in stored' : /\ k \in KeysOf(s) /\ k[2] # ""
                                      /\ s.begin = inventory'[k].first
  <2>1. PICK old : old = InventoryRow(k) /\ inventory'[k] = Widened(old, r)
    BY <1>1
  <2>2. /\ old = [first |-> old.first, last |-> old.last, expected |-> old.expected]
        /\ old.first # 0 => \E s \in stored : /\ k \in KeysOf(s) /\ k[2] # ""
                                              /\ s.begin = old.first
    BY <1>5, <2>1
  <2>3. /\ inventory'[k] = [first |-> inventory'[k].first, last |-> inventory'[k].last,
                            expected |-> inventory'[k].expected]
        /\ \/ inventory'[k].first = r.begin
           \/ old.first # 0 /\ inventory'[k].first = old.first
    BY <2>1, <2>2 DEF Widened
  <2>4. k \in KeysOf(r) /\ k[2] # "" /\ r \in stored'
    BY <1>4
  <2> QED
    BY <1>1, <1>4, <2>2, <2>3, <2>4
<1>7. ASSUME NEW k \in DOMAIN inventory \ named
      PROVE  /\ k = <<k[1], k[2]>>
             /\ inventory'[k] = [first |-> inventory'[k].first, last |-> inventory'[k].last,
                                 expected |-> inventory'[k].expected]
             /\ inventory'[k].first # 0 =>
                   \E s \in stored' : /\ k \in KeysOf(s) /\ k[2] # ""
                                      /\ s.begin = inventory'[k].first
  BY <1>3, <1>4 DEF RulesInv, InventoryTold
<1> HIDE DEF named
<1>8. \A k \in DOMAIN inventory' :
         /\ k = <<k[1], k[2]>>
         /\ inventory'[k] = [first |-> inventory'[k].first, last |-> inventory'[k].last,
                             expected |-> inventory'[k].expected]
         /\ inventory'[k].first # 0 =>
               \E s \in stored' : /\ k \in KeysOf(s) /\ k[2] # ""
                                  /\ s.begin = inventory'[k].first
  BY <1>2, <1>6, <1>7
<1> QED
  BY <1>8 DEF InventoryTold, KeysOf, Signatures, JoinOf

LEMMA InventoryMarked ==
    ASSUME RulesInv, NEW k \in MarkedSelectors, NEW e, ExpectSelector(k, e)
    PROVE  InventoryTold'
<1>1. /\ DOMAIN inventory' = DOMAIN inventory \cup {k}
      /\ \A x \in DOMAIN inventory \ {k} : inventory'[x] = inventory[x]
      /\ stored' = stored
      /\ \E old : old = InventoryRow(k) /\ inventory'[k] = [old EXCEPT !.expected = e]
  BY DEF ExpectSelector
<1>2. PICK old : old = InventoryRow(k) /\ inventory'[k] = [old EXCEPT !.expected = e]
  BY <1>1
<1>3. /\ old = [first |-> old.first, last |-> old.last, expected |-> old.expected]
      /\ old.first # 0 => \E s \in stored : /\ k \in KeysOf(s) /\ k[2] # ""
                                            /\ s.begin = old.first
  BY <1>2 DEF InventoryRow, Unseen, RulesInv, InventoryTold
<1>4. /\ inventory'[k] = [first |-> inventory'[k].first, last |-> inventory'[k].last,
                          expected |-> inventory'[k].expected]
      /\ inventory'[k].first = old.first
  BY <1>2, <1>3
<1>5. k = <<k[1], k[2]>>
  BY EditsAssumption
<1>6. \A x \in DOMAIN inventory' :
         /\ x = <<x[1], x[2]>>
         /\ inventory'[x] = [first |-> inventory'[x].first, last |-> inventory'[x].last,
                             expected |-> inventory'[x].expected]
         /\ inventory'[x].first # 0 =>
               \E s \in stored' : /\ x \in KeysOf(s) /\ x[2] # ""
                                  /\ s.begin = inventory'[x].first
  <2> SUFFICES ASSUME NEW x \in DOMAIN inventory'
      PROVE /\ x = <<x[1], x[2]>>
            /\ inventory'[x] = [first |-> inventory'[x].first, last |-> inventory'[x].last,
                                expected |-> inventory'[x].expected]
            /\ inventory'[x].first # 0 =>
                  \E s \in stored' : /\ x \in KeysOf(s) /\ x[2] # ""
                                     /\ s.begin = inventory'[x].first
    OBVIOUS
  <2>1. CASE x = k
    BY <1>1, <1>3, <1>4, <1>5, <2>1
  <2>2. CASE x # k
    BY <1>1, <2>2 DEF RulesInv, InventoryTold
  <2> QED
    BY <2>1, <2>2
<1> QED
  BY <1>6 DEF InventoryTold, KeysOf, Signatures, JoinOf

LEMMA RulesInvStep ==
    ASSUME RulesInv, [StatsNext]_statsVars
    PROVE  RulesInv'
<1>1. StatsInv'
  BY StatsInvStep DEF RulesInv
<1>2. ASSUME UNCHANGED <<stored, inventory>> PROVE InventoryTold'
  BY <1>2 DEF RulesInv, InventoryTold, KeysOf, Signatures, JoinOf
<1>3. ASSUME UNCHANGED now PROVE now' >= FirstNow
  BY <1>3 DEF RulesInv
<1>4. ASSUME DayPasses PROVE InventoryTold' /\ now' >= FirstNow
  <2>1. UNCHANGED <<stored, inventory>> /\ now' = now + 1
    BY <1>4 DEF DayPasses
  <2> QED
    BY <1>2, <2>1, RowsAssumption DEF RulesInv, StatsInv
<1>5. ASSUME UNCHANGED rowVars PROVE InventoryTold' /\ now' >= FirstNow
  BY <1>2, <1>3, <1>5 DEF rowVars
<1>6. ASSUME RowsNext PROVE InventoryTold' /\ now' >= FirstNow
  <2>1. CASE \E r \in Pool : ImportReport(r)
    <3>1. now' = now
      BY <2>1 DEF ImportReport
    <3> QED
      BY <1>3, <2>1, <3>1, InventoryImported
  <2>2. CASE \E ip \in LabelledIPs, c \in Classifications : LabelSource(ip, c)
    BY <1>2, <1>3, <2>2 DEF LabelSource
  <2>3. CASE \E k \in MarkedSelectors, e \in {-1, 0, 1} : ExpectSelector(k, e)
    <3>1. now' = now
      BY <2>3 DEF ExpectSelector
    <3> QED
      BY <1>3, <2>3, <3>1, InventoryMarked
  <2>4. CASE \E ip \in Addresses : LocateSource(ip)
    BY <1>2, <1>3, <2>4 DEF LocateSource
  <2>5. CASE \E d \in PolicyDomains : CacheSpf(d)
    BY <1>2, <1>3, <2>5 DEF CacheSpf
  <2>6. CASE ClearDNSCache
    BY <1>2, <1>3, <2>6 DEF ClearDNSCache
  <2>7. CASE ManageDomains
    BY <1>2, <1>3, <2>7 DEF ManageDomains
  <2> QED
    BY <1>4, <1>6, <2>1, <2>2, <2>3, <2>4, <2>5, <2>6, <2>7 DEF RowsNext
<1>7. ASSUME TlsNext PROVE InventoryTold' /\ now' >= FirstNow
  <2>1. CASE DayPasses
    BY <1>4, <2>1
  <2>2. CASE ~DayPasses
    <3>1. UNCHANGED rowVars
      BY <1>7, <2>2 DEF TlsNext, ImportTlsReport, Snapshot
    <3> QED
      BY <1>5, <3>1
  <2> QED
    BY <2>1, <2>2
<1>8. ASSUME UNCHANGED statsVars PROVE InventoryTold' /\ now' >= FirstNow
  BY <1>5, <1>8 DEF statsVars
<1>9. InventoryTold' /\ now' >= FirstNow
  BY <1>4, <1>5, <1>6, <1>7, <1>8 DEF StatsNext
<1> QED
  BY <1>1, <1>9 DEF RulesInv

\* The selectors of the inventory that have a first day are of a stored report of that
\* day: an import widens the range, a mark by the operator does not (labels.go:103-120).
THEOREM InventoryIsOfReports == StatsSpec => []RulesInv
<1>1. StatsInit => RulesInv
  <2> SUFFICES ASSUME StatsInit PROVE RulesInv
    OBVIOUS
  <2>1. StatsInv /\ now = FirstNow /\ FirstNow \in Int
    BY RowsAssumption DEF StatsInit, RowsInit, StatsInv
  <2>2. DOMAIN inventory = {}
    <3>1. inventory = << >>
      BY DEF StatsInit, RowsInit
    <3>2. DOMAIN << >> = {}
      OBVIOUS
    <3> QED
      BY <3>1, <3>2
  <2> QED
    BY <2>1, <2>2 DEF RulesInv, InventoryTold
<1>2. RulesInv /\ [StatsNext]_statsVars => RulesInv'
  BY RulesInvStep
<1> QED
  BY <1>1, <1>2, PTL DEF StatsSpec

\* A filter for a domain and its days; 0 is no bound.
DomainWindow(d, x, y) ==
    [envelopeFrom |-> AnyValue, domain |-> d, ip |-> AnyValue, from |-> x, to |-> y]

LEMMA DomainFields ==
    ASSUME NEW d, NEW x, NEW y
    PROVE  /\ DomainWindow(d, x, y).from = x /\ DomainWindow(d, x, y).to = y
           /\ DomainWindow(d, x, y).domain = d
           /\ DomainWindow(d, x, y).ip = AnyValue /\ DomainWindow(d, x, y).envelopeFrom = AnyValue
           /\ x \in Int /\ y \in Int => IsFilter(DomainWindow(d, x, y))
BY DEF DomainWindow, IsFilter

LEMMA SinceWindow ==
    ASSUME NEW d, NEW x \in Int
    PROVE  /\ [Unbounded EXCEPT !.domain = d, !.from = x] = DomainWindow(d, x, 0)
           /\ [Unbounded EXCEPT !.from = x] = DomainWindow(AnyValue, x, 0)
<1>1. ASSUME NEW u, u = [envelopeFrom |-> AnyValue, domain |-> AnyValue, ip |-> AnyValue,
                         from |-> 0, to |-> 0]
      PROVE  [u EXCEPT !.from = x] = DomainWindow(AnyValue, x, 0)
  BY <1>1 DEF DomainWindow
<1>2. [Unbounded EXCEPT !.from = x] = DomainWindow(AnyValue, x, 0)
  BY <1>1, Zenon DEF Unbounded
<1>3. ASSUME NEW v, v = DomainWindow(AnyValue, x, 0)
      PROVE  [v EXCEPT !.domain = d] = DomainWindow(d, x, 0)
  BY <1>3 DEF DomainWindow
<1>4. [Unbounded EXCEPT !.domain = d, !.from = x]
        = [[Unbounded EXCEPT !.from = x] EXCEPT !.domain = d]
  BY UnboundedFilters, Zenon
<1> QED
  BY <1>2, <1>3, <1>4, Zenon

LEMMA UntilWindow ==
    ASSUME NEW d, NEW x \in Int, NEW y
    PROVE  [[Unbounded EXCEPT !.domain = d, !.from = x] EXCEPT !.to = y] = DomainWindow(d, x, y)
<1>1. ASSUME NEW u, u = DomainWindow(d, x, 0)
      PROVE  [u EXCEPT !.to = y] = DomainWindow(d, x, y)
  BY <1>1 DEF DomainWindow
<1> QED
  BY <1>1, SinceWindow, Zenon

RowsOfDays(d, x, y) ==
    {j \in JoinOf(stored) : /\ j.rep.domain = d
                            /\ x > 0 => j.rep.begin >= x
                            /\ y > 0 => j.rep.begin <= y}

LEMMA DomainRows ==
    ASSUME NEW d, d # AnyValue, NEW x, NEW y
    PROVE  /\ WhereNoTime(DomainWindow(d, x, y)) = {j \in JoinOf(stored) : j.rep.domain = d}
           /\ Where(DomainWindow(d, x, y)) = RowsOfDays(d, x, y)
<1> DEFINE f == DomainWindow(d, x, y)
<1>1. /\ f.envelopeFrom = AnyValue /\ f.domain = d /\ f.ip = AnyValue
      /\ f.from = x /\ f.to = y
  BY DomainFields
<1> HIDE DEF f
<1>2. \A j : Scoped(j, f) <=> j.rep.domain = d
  BY <1>1 DEF Scoped
<1>3. \A j : InWindow(j.rep, f)
               <=> (x > 0 => j.rep.begin >= x) /\ (y > 0 => j.rep.begin <= y)
  BY <1>1 DEF InWindow
<1>4. WhereNoTime(f) = {j \in JoinOf(stored) : j.rep.domain = d}
  BY <1>2 DEF WhereNoTime
<1>5. Where(f) = RowsOfDays(d, x, y)
  BY <1>2, <1>3 DEF Where, WhereNoTime, RowsOfDays
<1> QED
  BY <1>4, <1>5 DEF f

\* The rows a rule reads of a domain are those of the filter with the same days.
LEMMA BetweenRows ==
    ASSUME StatsInv, NEW d, d # AnyValue, NEW from \in Int, NEW to \in Int,
           NEW x \in Int, NEW y \in Int,
           \A b \in Int : b > 0 =>
              (b >= from /\ b < to <=> (x > 0 => b >= x) /\ (y > 0 => b <= y))
    PROVE  Between(d, from, to) = Where(DomainWindow(d, x, y))
<1>1. \A j \in JoinOf(stored) : j.rep.begin \in Int /\ j.rep.begin > 0
  BY RowsAssumption DEF JoinOf, StatsInv
<1>2. Where(DomainWindow(d, x, y)) = RowsOfDays(d, x, y)
  BY DomainRows
<1>3. Between(d, from, to)
        = {j \in JoinOf(stored) : j.rep.domain = d /\ j.rep.begin >= from /\ j.rep.begin < to}
  BY DEF Between
<1> QED
  BY <1>1, <1>2, <1>3 DEF RowsOfDays

LEMMA RuleDays ==
    ASSUME RulesInv
    PROVE  /\ now \in Int /\ now > 8 /\ Recent \in Int /\ Recent > 1 /\ Recent < now
           /\ now - Setting(Cfg.newSelector, 2) \in Int
           /\ now - Setting(Cfg.newSelector, 2) > 0
           /\ Setting(Cfg.newSelector, 2) > 0
<1>1. /\ now \in Int /\ FirstNow \in Int /\ now >= FirstNow /\ FirstNow > 8
      /\ FirstNow > 3 /\ FirstNow > Cfg.recent + 1 /\ FirstNow > Cfg.newSelector + 1
      /\ Cfg.recent \in Int /\ Cfg.newSelector \in Int
  BY RulesAssumption, RowsAssumption DEF RulesInv, StatsInv
<1> QED
  BY <1>1 DEF Recent, Setting

LEMMA ReportedDomains ==
    ASSUME StatsInv, NEW d \in ReportDomains
    PROVE  d # AnyValue
BY RowsAssumption DEF ReportDomains, StatsInv

-----------------------------------------------------------------------------
(* X1, X2, X8, X10 and X11                                                  *)

LEMMA WeeksMatch ==
    ASSUME RulesInv, NEW d \in ReportDomains
    PROVE  LET week == [Unbounded EXCEPT !.domain = d, !.from = now - 7]
           IN  /\ ThisWeek(d) = DashboardStats([week EXCEPT !.to = now]).totals
               /\ LastWeek(d) = DashboardStats(PreviousWindow(week)).totals
<1> DEFINE week == [Unbounded EXCEPT !.domain = d, !.from = now - 7]
           back == IF now - 14 < 1 THEN 1 ELSE now - 14
<1>1. now \in Int /\ now > 8 /\ StatsInv /\ d # AnyValue
  BY RuleDays, ReportedDomains DEF RulesInv
<1>2. week = DomainWindow(d, now - 7, 0)
  <2>1. now - 7 \in Int
    BY <1>1
  <2> QED
    BY <2>1, SinceWindow, Zenon
<1>3. Between(d, now - 7, now + 1) = Where([week EXCEPT !.to = now])
  <2>1. Between(d, now - 7, now + 1) = Where(DomainWindow(d, now - 7, now))
    BY <1>1, BetweenRows
  <2>2. now - 7 \in Int
    BY <1>1
  <2>3. [week EXCEPT !.to = now] = DomainWindow(d, now - 7, now)
    BY <2>2, UntilWindow, Zenon
  <2> QED
    BY <2>1, <2>3
<1>4. PreviousWindow(week) = DomainWindow(d, back, now - 8)
  <2>1. ASSUME NEW w, w = DomainWindow(d, now - 7, 0)
        PROVE  PreviousWindow(w) = DomainWindow(d, back, now - 8)
    <3>1. w.to = 0 /\ w.from = now - 7
      BY <2>1, DomainFields
    <3>2. WindowEnd(w) = now
      BY <3>1 DEF WindowEnd
    <3>3. PreviousWindow(w) = [w EXCEPT !.to = w.from - 1,
             !.from = IF w.from - (WindowEnd(w) - w.from) < 1 THEN 1
                      ELSE w.from - (WindowEnd(w) - w.from)]
      BY Zenon DEF PreviousWindow
    <3>4. w.from - 1 = now - 8 /\ w.from - (WindowEnd(w) - w.from) = now - 14
      BY <1>1, <3>1, <3>2
    <3>5. PreviousWindow(w) = [w EXCEPT !.to = now - 8, !.from = back]
      BY <3>3, <3>4, Zenon
    <3> HIDE DEF back
    <3>6. ASSUME NEW v, v = [w EXCEPT !.to = now - 8]
          PROVE  [v EXCEPT !.from = back] = DomainWindow(d, back, now - 8)
      <4>1. v = DomainWindow(d, now - 7, now - 8)
        BY <2>1, <3>6 DEF DomainWindow
      <4> QED
        BY <4>1 DEF DomainWindow
    <3> QED
      BY <3>5, <3>6, Zenon
  <2> QED
    BY <1>2, <2>1
<1>5. Between(d, now - 14, now - 7) = Where(PreviousWindow(week))
  <2>1. Between(d, now - 14, now - 7) = Where(DomainWindow(d, back, now - 8))
    BY <1>1, BetweenRows
  <2> QED
    BY <1>4, <2>1
<1> HIDE DEF week, back
<1>6. /\ ThisWeek(d) = Totals(Where([week EXCEPT !.to = now]))
      /\ LastWeek(d) = Totals(Where(PreviousWindow(week)))
  BY <1>3, <1>5 DEF ThisWeek, LastWeek
<1>7. \A f : DashboardStats(f).totals = Totals(Where(f))
  BY DEF DashboardStats
<1> QED
  BY <1>6, <1>7 DEF week

LEMMA OverrideTotals ==
    ASSUME StatsInv, NEW f
    PROVE  GroupSum(OverrideBreakdown(f)) = FannedMessages(Overrides(Where(f)))
<1> DEFINE P == Overrides(Where(f))
           key == [p \in P |-> ReasonType(p)]
           g == OverrideBreakdown(f)
<1>1. P \in SUBSET AllFans
  BY WhereRows, FansOfRows
<1>2. DOMAIN key = P
  OBVIOUS
<1>3. DOMAIN g = Range(key)
  <2>1. Range(key) = {ReasonType(p) : p \in P}
    BY DEF Range
  <2> QED
    BY <2>1, Reasons
<1>4. \A t \in DOMAIN g : g[t].messages = FannedMessages({p \in P : key[p] = t})
  <2>1. SUFFICES ASSUME NEW t \in DOMAIN g
                 PROVE  g[t].messages = FannedMessages({p \in P : key[p] = t})
    OBVIOUS
  <2>2. {p \in P : key[p] = t} = {p \in P : ReasonType(p) = t}
    OBVIOUS
  <2>3. g[t].messages = FannedMessages({p \in P : ReasonType(p) = t})
    BY Reasons
  <2> QED
    BY <2>2, <2>3
<1> HIDE DEF P, key, g
<1>5. GroupSum(g) = FannedMessages(P)
  BY <1>1, <1>2, <1>3, <1>4, PairsAddUp
<1> QED
  BY <1>5 DEF g, P

LEMMA OverridesMatch ==
    ASSUME RulesInv, NEW d \in ReportDomains
    PROVE  LET lately == [Unbounded EXCEPT !.domain = d, !.from = Recent]
           IN  OverrideMessages(d, Recent, now + 1)
                 = GroupSum(OverrideBreakdown([lately EXCEPT !.to = now]))
<1> DEFINE lately == [Unbounded EXCEPT !.domain = d, !.from = Recent]
           f == DomainWindow(d, Recent, now)
<1>1. now \in Int /\ now > 8 /\ Recent \in Int /\ Recent > 1 /\ StatsInv /\ d # AnyValue
  BY RuleDays, ReportedDomains DEF RulesInv
<1>2. [lately EXCEPT !.to = now] = f
  BY <1>1, UntilWindow, Zenon
<1>3. Between(d, Recent, now + 1) = Where(f)
  BY <1>1, BetweenRows
<1> HIDE DEF lately, f
<1>4. OverrideMessages(d, Recent, now + 1) = GroupSum(OverrideBreakdown(f))
  BY <1>1, <1>3, OverrideTotals DEF OverrideMessages
<1> QED
  BY <1>2, <1>4 DEF lately

LEMMA SpoofsMatch ==
    ASSUME RulesInv, NEW d \in {a.domain : a \in SpoofSpike}
    PROVE  LET lately == [Unbounded EXCEPT !.domain = d, !.from = Recent]
               spoof == SpoofVolume(lately)
           IN  /\ spoof.inSPF + spoof.notInSPF = DashboardStats(lately).totals.failed
               /\ d \in spfCache
<1> DEFINE lately == [Unbounded EXCEPT !.domain = d, !.from = Recent]
           spoof == SpoofVolume(lately)
           J == Failing(Where(lately))
           checked == {j \in J : j.rep.domain \in spfCache}
           inside == {j \in checked : j.row.ip \in SpfOf[j.rep.domain]}
<1>1. d \in ReportDomains /\ spoof.resolved /\ spoof.unresolved = 0
  <2>1. PICK a \in SpoofSpike : a.domain = d
    OBVIOUS
  <2>2. PICK x \in ReportDomains, severity \in {"critical", "warning"} :
           /\ a = Alert("spoof_spike", x, now, severity)
           /\ SpoofVolume([Unbounded EXCEPT !.domain = x, !.from = Recent]).resolved
           /\ SpoofVolume([Unbounded EXCEPT !.domain = x, !.from = Recent]).unresolved = 0
    BY Zenon DEF SpoofSpike
  <2>3. x = d
    BY <2>1, <2>2 DEF Alert
  <2> QED
    BY <2>2, <2>3, Zenon
<1>2. now \in Int /\ Recent \in Int /\ StatsInv /\ d # AnyValue
  BY <1>1, RuleDays, ReportedDomains DEF RulesInv
<1>3. /\ spoof.total = Messages(J)
      /\ spoof.inSPF + spoof.notInSPF + spoof.unresolved = spoof.total
  BY <1>2, SpoofSplits
<1>4. /\ spoof.inSPF = Messages(inside) /\ spoof.notInSPF = Messages(checked \ inside)
      /\ spoof.resolved = (checked # {})
  BY DEF SpoofVolume
<1>5. Where(lately) \in SUBSET AllRows
  BY <1>2, WhereRows
<1>6. Messages(inside) \in Nat /\ Messages(checked \ inside) \in Nat /\ Messages(J) \in Nat
  <2>1. inside \in SUBSET AllRows /\ checked \ inside \in SUBSET AllRows /\ J \in SUBSET AllRows
    BY <1>5 DEF Failing
  <2> QED
    BY <2>1, MessagesNat
<1>7. DashboardStats(lately).totals.failed = Messages(J)
  BY DEF DashboardStats, Totals
<1>8. \A j \in Where(lately) : j.rep.domain = d
  <2>1. lately = DomainWindow(d, Recent, 0)
    BY <1>2, SinceWindow, Zenon
  <2>2. Where(lately) = RowsOfDays(d, Recent, 0)
    BY <1>2, <2>1, DomainRows
  <2> QED
    BY <2>2 DEF RowsOfDays
<1>9. d \in spfCache
  BY <1>1, <1>4, <1>8 DEF Failing
<1> HIDE DEF spoof, J, checked, inside
<1>10. spoof.inSPF + spoof.notInSPF = Messages(J)
  BY <1>1, <1>3, <1>4, <1>6
<1> QED
  BY <1>7, <1>9, <1>10 DEF spoof

LEMMA DistinctMatch ==
    ASSUME RulesInv, NEW d \in ReportDomains
    PROVE  LET lately == [Unbounded EXCEPT !.domain = d, !.from = Recent]
           IN  DistinctReporters(d, Recent)
                 = Cardinality({r.org : r \in ReportsWhere(lately)})
<1> DEFINE lately == [Unbounded EXCEPT !.domain = d, !.from = Recent]
           f == DomainWindow(d, Recent, 0)
<1>1. now \in Int /\ now > 8 /\ Recent \in Int /\ Recent > 1 /\ StatsInv /\ d # AnyValue
  BY RuleDays, ReportedDomains DEF RulesInv
<1>2. lately = f
  BY <1>1, SinceWindow, Zenon
<1>3. /\ f.envelopeFrom = AnyValue /\ f.domain = d /\ f.ip = AnyValue
      /\ f.from = Recent /\ f.to = 0
  BY DomainFields
<1> HIDE DEF lately, f
<1>4. ReportsWhere(f) = {r \in stored : f.domain \in {AnyValue, r.domain} /\ InWindow(r, f)}
  BY <1>3 DEF ReportsWhere
<1>5. \A r \in stored : r.begin \in Int
  BY <1>1, RowsAssumption DEF StatsInv
<1>6. ReportsWhere(f) = {r \in stored : r.begin >= Recent /\ d \in {AnyValue, r.domain}}
  BY <1>1, <1>3, <1>4, <1>5 DEF InWindow
<1> QED
  BY <1>2, <1>6 DEF DistinctReporters, lately

LEMMA ConsistentMatch ==
    ASSUME RulesInv, NEW d \in ReportDomains
    PROVE  LET lately == [Unbounded EXCEPT !.domain = d, !.from = Recent]
           IN  Where(lately) # {} /\ d \notin {a.domain : a \in PolicyInconsistent} =>
                  \A t \in ActivePolicyTuples(Where(lately)) : t.consistent
<1> DEFINE lately == [Unbounded EXCEPT !.domain = d, !.from = Recent]
           groups == DOMAIN PolicyConsistency(lately)
<1> SUFFICES ASSUME Where(lately) # {}, d \notin {a.domain : a \in PolicyInconsistent},
                    NEW t \in ActivePolicyTuples(Where(lately))
             PROVE  t.consistent
  OBVIOUS
<1>1. StatsInv
  BY DEF RulesInv
<1>2. ~(Cardinality(groups) > 1)
  <2> SUFFICES ASSUME Cardinality(groups) > 1 PROVE FALSE
    OBVIOUS
  <2>1. Alert("policy_inconsistent", d, groups, "warning") \in PolicyInconsistent
    BY DEF PolicyInconsistent
  <2>2. Alert("policy_inconsistent", d, groups, "warning").domain = d
    BY DEF Alert
  <2> QED
    BY <2>1, <2>2
<1>3. groups # {} /\ IsFiniteSet(groups)
  <2> DEFINE J == Where(lately)
             key == [j \in J |-> Effective(j.rep.tuple)]
  <2>1. groups = Range(key) /\ DOMAIN key = J
    BY DEF PolicyConsistency, Range
  <2>2. J \in SUBSET AllRows /\ J # {}
    BY <1>1, WhereRows
  <2> HIDE DEF J, key, groups
  <2>3. IsFiniteSet(groups) /\ \A j \in J : key[j] \in groups
    BY <2>1, <2>2, KeysFinite
  <2> QED
    BY <2>2, <2>3
<1> HIDE DEF groups
<1>4. Cardinality(groups) = 1
  BY <1>2, <1>3, FS_CardinalityType, FS_EmptySet
<1> QED
  BY <1>1, <1>4, OneTupleAgrees DEF groups

-----------------------------------------------------------------------------
(* X1: new sources                                                          *)

\* The rows of an address in the reports about a domain.
SourceRows(d, ip) == {j \in JoinOf(stored) : j.rep.domain = d /\ j.row.ip = ip}

LEMMA SourceTotals ==
    ASSUME NEW J \in SUBSET AllRows
    PROVE  /\ Totals(J).messages = Messages(J) /\ Totals(J).failed = Matrix(J).neither
           /\ Messages(J) \in Nat /\ Matrix(J).neither \in Nat
<1>1. Matrix(J).neither = Messages(Failing(J))
  BY MatrixSplits
<1>2. Failing(J) \in SUBSET AllRows
  BY DEF Failing
<1>3. Messages(J) \in Nat /\ Messages(Failing(J)) \in Nat
  BY <1>2, MessagesNat
<1> QED
  BY <1>1, <1>3 DEF Totals

\* What the rule asks of a source.
FailsNewly(d, ip) ==
    LET J == SourceRows(d, ip)
    IN  /\ J # {} /\ \A j \in J : j.rep.begin >= now - 2
        /\ Totals(J).failed > 0 /\ Totals(J).messages >= Setting(Cfg.newSourceMin, 1)

LEMMA NewlyFailing ==
    ASSUME StatsInv, NEW d \in ReportDomains
    PROVE  {a.key : a \in {b \in NewFailingSource : b.domain = d}} = {ip \in Addresses : FailsNewly(d, ip)}
<1> DEFINE severity(t) == IF t.failed = t.messages /\ t.messages >= 50 THEN "critical" ELSE "warning"
           alert(k) == Alert("new_failing_source", k[1], k[2],
                             severity(Totals(SourceRows(k[1], k[2]))))
<1>1. NewFailingSource
        = {alert(k) : k \in {x \in ReportDomains \X Addresses : FailsNewly(x[1], x[2])}}
  BY Zenon DEF NewFailingSource, FailsNewly, SourceRows
<1>2. \A k : alert(k).domain = k[1] /\ alert(k).key = k[2]
  BY DEF Alert
<1> HIDE DEF alert
<1>3. ASSUME NEW ip \in {a.key : a \in {b \in NewFailingSource : b.domain = d}}
      PROVE  ip \in Addresses /\ FailsNewly(d, ip)
  <2>1. PICK k \in ReportDomains \X Addresses :
           /\ FailsNewly(k[1], k[2]) /\ alert(k).domain = d /\ alert(k).key = ip
    BY <1>1
  <2> QED
    BY <1>2, <2>1
<1>4. ASSUME NEW ip \in Addresses, FailsNewly(d, ip)
      PROVE  ip \in {a.key : a \in {b \in NewFailingSource : b.domain = d}}
  <2>1. <<d, ip>> \in ReportDomains \X Addresses /\ <<d, ip>>[1] = d /\ <<d, ip>>[2] = ip
    OBVIOUS
  <2>2. alert(<<d, ip>>) \in NewFailingSource
    BY <1>1, <1>4, <2>1
  <2> QED
    BY <1>2, <2>1, <2>2
<1> QED
  BY <1>3, <1>4

LEMMA NewSourcesMatch ==
    ASSUME RulesInv, NEW d \in ReportDomains
    PROVE  LET f == [Unbounded EXCEPT !.domain = d, !.from = now - 2]
               inv == SourceInventory(f)
           IN  {a.key : a \in {b \in NewFailingSource : b.domain = d}}
                 = {ip \in NewSources(f) : /\ inv[ip].matrix.neither > 0
                                           /\ inv[ip].messages >= Setting(Cfg.newSourceMin, 1)}
<1> DEFINE f == [Unbounded EXCEPT !.domain = d, !.from = now - 2]
           inv == SourceInventory(f)
           span(ip) == {j.rep.begin : j \in {k \in WhereNoTime(f) : k.row.ip = ip}}
<1>1. now \in Int /\ now > 8 /\ StatsInv /\ d # AnyValue /\ now - 2 \in Int
  BY RuleDays, ReportedDomains DEF RulesInv
<1>2. f = DomainWindow(d, now - 2, 0)
  BY <1>1, SinceWindow, Zenon
<1>3. f.from = now - 2 /\ f.to = 0
  <2> HIDE DEF f
  <2> QED
    BY <1>2, DomainFields
<1>4. \A ip : {k \in WhereNoTime(f) : k.row.ip = ip} = SourceRows(d, ip)
  <2>1. WhereNoTime(f) = {j \in JoinOf(stored) : j.rep.domain = d}
    BY <1>1, <1>2, DomainRows
  <2> QED
    BY <2>1 DEF SourceRows
<1>5. Where(f) = RowsOfDays(d, now - 2, 0)
  BY <1>1, <1>2, DomainRows
<1> HIDE DEF f
<1>6. ASSUME NEW ip
      PROVE  /\ SourceRows(d, ip) \in SUBSET AllRows
             /\ \A j \in SourceRows(d, ip) : j.rep.begin \in Int
             /\ IsFiniteSet(span(ip)) /\ span(ip) \in SUBSET Int
  <2>1. SourceRows(d, ip) \in SUBSET AllRows
    BY <1>1 DEF SourceRows, StatsInv, AllRows, JoinOf
  <2>2. \A j \in SourceRows(d, ip) : j.rep.begin \in Int
    BY <2>1, RowIn DEF AllRows
  <2> DEFINE begins == [j \in SourceRows(d, ip) |-> j.rep.begin]
  <2>3. span(ip) = Image(begins, SourceRows(d, ip))
    BY <1>4 DEF Image
  <2> HIDE DEF begins
  <2>4. IsFiniteSet(span(ip))
    BY <2>1, <2>3, RowsFinite, ImageFinite
  <2>5. span(ip) = {j.rep.begin : j \in SourceRows(d, ip)}
    BY <1>4
  <2> QED
    BY <2>1, <2>2, <2>4, <2>5
<1>7. ASSUME NEW ip \in DOMAIN inv
      PROVE  LET J == {j \in Where(f) : j.row.ip = ip}
             IN  /\ inv[ip].isNew = (Least(span(ip)) >= now - 2)
                 /\ inv[ip].messages = Messages(J) /\ inv[ip].matrix = Matrix(J)
  <2>1. inv[ip] = SourceRow(f, ip, {j \in Where(f) : j.row.ip = ip})
    BY SourceLine, <1>1
  <2>2. NewIn(Least(span(ip)), f) = (Least(span(ip)) >= now - 2)
    BY <1>1, <1>3 DEF NewIn
  <2> QED
    BY <2>1, <2>2 DEF SourceRow
<1>8. ASSUME NEW ip, SourceRows(d, ip) # {}
      PROVE  Least(span(ip)) >= now - 2 <=> \A j \in SourceRows(d, ip) : j.rep.begin >= now - 2
  <2>1. span(ip) = {j.rep.begin : j \in SourceRows(d, ip)}
    BY <1>4
  <2>2. span(ip) # {} /\ span(ip) \in SUBSET Int /\ IsFiniteSet(span(ip))
    BY <1>6, <1>8, <2>1
  <2>3. ASSUME NEW S, S = span(ip)
        PROVE  Least(S) \in S /\ Least(S) \in Int /\ \A y \in S : Least(S) <= y
    <3>1. S # {} /\ S \in SUBSET Int /\ IsFiniteSet(S)
      BY <2>2, <2>3, Zenon
    <3> HIDE <2>3
    <3>2. Least(S) \in S /\ \A y \in S : Least(S) <= y
      BY <3>1, LeastGreatest
    <3> QED
      BY <3>1, <3>2
  <2>4. PICK S : S = span(ip)
    OBVIOUS
  <2>5. S = {j.rep.begin : j \in SourceRows(d, ip)}
    BY <2>1, <2>4, Zenon
  <2>6. Least(S) \in S /\ Least(S) \in Int /\ \A y \in S : Least(S) <= y
    BY <2>3, <2>4, Zenon
  <2> HIDE DEF span
  <2>7. Least(S) >= now - 2 <=> \A j \in SourceRows(d, ip) : j.rep.begin >= now - 2
    BY <1>1, <1>6, <2>5, <2>6
  <2> QED
    BY <2>4, <2>7, Zenon
<1>9. ASSUME NEW ip, \A j \in SourceRows(d, ip) : j.rep.begin >= now - 2
      PROVE  {j \in Where(f) : j.row.ip = ip} = SourceRows(d, ip)
  BY <1>5, <1>9 DEF RowsOfDays, SourceRows
<1>10. DOMAIN inv = {j.row.ip : j \in Where(f)}
  BY <1>1, SourceInventoryAddsUp
<1>11. \A j \in Where(f) : j \in SourceRows(d, j.row.ip) /\ j.row.ip \in Addresses
  BY <1>1, <1>5 DEF RowsOfDays, SourceRows, JoinOf, StatsInv, Addresses
<1>12. NewSources(f) = {ip \in DOMAIN inv : inv[ip].isNew}
  <2>1. PlainQuery.min = 0 /\ PlainQuery.bucket = "" /\ PlainQuery.pattern = ""
    BY DEF PlainQuery
  <2> DEFINE q == [PlainQuery EXCEPT !.newOnly = TRUE]
  <2>2. q.min = 0 /\ q.bucket = "" /\ q.pattern = "" /\ q.newOnly = TRUE
    BY DEF PlainQuery
  <2>3. NewSources(f) = Listed(inv, f, q)
    BY <1>1, <1>3 DEF NewSources
  <2> HIDE DEF q, inv
  <2>4. \A ip \in DOMAIN inv : q.bucket \notin DOMAIN inv[ip].matrix
    <3>1. \A ip \in DOMAIN inv : \E J : inv[ip].matrix = Matrix(J)
      BY <1>7, Zenon
    <3>2. \A J : "" \notin DOMAIN Matrix(J)
      BY DEF Matrix
    <3> QED
      BY <2>2, <3>1, <3>2
  <2>5. ~(f.from = 0) /\ ~(q.min > 1) /\ ~(q.pattern # "")
    <3>1. ~(f.from = 0)
      BY <1>1, <1>3
    <3>2. ~(0 > 1)
      OBVIOUS
    <3>3. ~(q.pattern # "")
      BY <2>2
    <3> QED
      BY <2>2, <3>1, <3>2, <3>3, Zenon
  <2>6. ASSUME NEW ip \in DOMAIN inv
        PROVE  /\ q.min > 1 => inv[ip].messages >= q.min
               /\ q.bucket \in DOMAIN inv[ip].matrix => inv[ip].matrix[q.bucket] > 0
               /\ q.pattern # "" => inv[ip].pattern = q.pattern
               /\ (q.newOnly => f.from = 0 \/ inv[ip].isNew) <=> inv[ip].isNew
    BY <2>2, <2>4, <2>5, Zenon
  <2>7. Listed(inv, f, q) = {ip \in DOMAIN inv : inv[ip].isNew}
    BY <2>6, Zenon DEF Listed
  <2> QED
    BY <2>3, <2>7, Zenon DEF inv
<1> DEFINE judged(ip) == /\ inv[ip].matrix.neither > 0
                         /\ inv[ip].messages >= Setting(Cfg.newSourceMin, 1)
<1>13. ASSUME NEW ip \in NewSources(f), judged(ip)
       PROVE  ip \in Addresses /\ FailsNewly(d, ip)
  <2>1. ip \in DOMAIN inv /\ inv[ip].isNew
    BY <1>12, <1>13
  <2>2. ip \in Addresses /\ SourceRows(d, ip) # {}
    BY <1>10, <1>11, <2>1
  <2>3. \A j \in SourceRows(d, ip) : j.rep.begin >= now - 2
    BY <1>7, <1>8, <2>1, <2>2
  <2>4. inv[ip].messages = Messages(SourceRows(d, ip)) /\ inv[ip].matrix = Matrix(SourceRows(d, ip))
    BY <1>7, <1>9, <2>1, <2>3
  <2> HIDE DEF inv
  <2>5. /\ Totals(SourceRows(d, ip)).messages = inv[ip].messages
        /\ Totals(SourceRows(d, ip)).failed = inv[ip].matrix.neither
    BY <1>6, <2>4, SourceTotals
  <2> QED
    BY <1>13, <2>2, <2>3, <2>5 DEF FailsNewly
<1>14. ASSUME NEW ip, FailsNewly(d, ip)
       PROVE  ip \in NewSources(f) /\ judged(ip)
  <2>1. SourceRows(d, ip) # {} /\ \A j \in SourceRows(d, ip) : j.rep.begin >= now - 2
    BY <1>14 DEF FailsNewly
  <2>2. {j \in Where(f) : j.row.ip = ip} = SourceRows(d, ip)
    BY <1>9, <2>1
  <2>3. ip \in DOMAIN inv
    BY <1>10, <2>1, <2>2
  <2>4. inv[ip].isNew
    BY <1>7, <1>8, <2>1, <2>3
  <2>5. inv[ip].messages = Messages(SourceRows(d, ip)) /\ inv[ip].matrix = Matrix(SourceRows(d, ip))
    BY <1>7, <2>2, <2>3
  <2> HIDE DEF inv
  <2>6. /\ Totals(SourceRows(d, ip)).messages = inv[ip].messages
        /\ Totals(SourceRows(d, ip)).failed = inv[ip].matrix.neither
    BY <1>6, <2>5, SourceTotals
  <2> QED
    BY <1>12, <1>14, <2>3, <2>4, <2>6 DEF FailsNewly
<1>15. {a.key : a \in {b \in NewFailingSource : b.domain = d}} = {ip \in Addresses : FailsNewly(d, ip)}
  BY <1>1, NewlyFailing
<1> HIDE DEF judged
<1>16. {ip \in Addresses : FailsNewly(d, ip)} = {ip \in NewSources(f) : judged(ip)}
  BY <1>13, <1>14
<1> QED
  BY <1>15, <1>16 DEF judged, inv, f

-----------------------------------------------------------------------------
(* X4 and X5: selectors                                                     *)

LEMMA NewSelectorsMatch ==
    ASSUME RulesInv
    PROVE  LET since == now - Setting(Cfg.newSelector, 2)
               sel == SelectorStats([Unbounded EXCEPT !.from = since])
           IN  Pairs(NewSelector) = {k \in DOMAIN sel : sel[k].isNew /\ sel[k].expected # 1}
<1> DEFINE since == now - Setting(Cfg.newSelector, 2)
           f == [Unbounded EXCEPT !.from = since]
           sel == SelectorStats(f)
           key(p) == <<Sig(p).domain, Sig(p).selector>>
           P == {p \in Signatures(Where(f)) : Sig(p).selector # ""}
           new == {k \in DOMAIN inventory : /\ inventory[k].expected # 1
                                            /\ inventory[k].first # 0
                                            /\ inventory[k].first >= since}
<1>1. since \in Int /\ since > 0 /\ StatsInv
  BY RuleDays DEF RulesInv
<1>2. f.from = since /\ f.to = 0
  <2>1. f = DomainWindow(AnyValue, since, 0)
    BY <1>1, SinceWindow, Zenon
  <2> HIDE DEF f
  <2> QED
    BY <2>1, DomainFields
<1>3. Where(f) = {j \in JoinOf(stored) : j.rep.begin >= since}
  <2>1. f = DomainWindow(AnyValue, since, 0)
    BY <1>1, SinceWindow, Zenon
  <2> HIDE DEF f
  <2>2. f.envelopeFrom = AnyValue /\ f.domain = AnyValue /\ f.ip = AnyValue
    BY <2>1, DomainFields
  <2> QED
    BY <1>1, <1>2, <2>2 DEF Where, WhereNoTime, Scoped, InWindow
<1>4. DOMAIN sel = {key(p) : p \in P}
  BY DEF SelectorStats
<1>5. \A k \in DOMAIN sel : /\ sel[k].isNew = NewIn(InventoryRow(k).first, f)
                            /\ sel[k].expected = InventoryRow(k).expected
  BY DEF SelectorStats
<1>6. \A k : NewIn(InventoryRow(k).first, f) <=> InventoryRow(k).first >= since
  BY <1>1, <1>2 DEF NewIn
<1> HIDE DEF f, sel
<1>7. ASSUME NEW k \in new PROVE k \in DOMAIN sel /\ sel[k].isNew /\ sel[k].expected # 1
  <2>1. PICK r \in stored : k \in KeysOf(r) /\ k[2] # "" /\ r.begin = inventory[k].first
    BY DEF RulesInv, InventoryTold
  <2>2. PICK p \in Signatures(JoinOf({r})) : k = key(p)
    BY <2>1 DEF KeysOf, Sig
  <2>3. p[1] \in JoinOf({r}) /\ p = <<p[1], p[2]>> /\ p[2] \in DOMAIN p[1].row.sigs
    BY <2>2 DEF Signatures
  <2>4. p[1].rep = r /\ p[1] \in JoinOf(stored)
    BY <2>3 DEF JoinOf
  <2>5. p[1] \in Where(f)
    BY <1>3, <2>1, <2>4
  <2>6. p \in Signatures(Where(f))
    BY <2>3, <2>5 DEF Signatures
  <2>7. p \in P
    BY <2>1, <2>2, <2>6
  <2>8. k \in DOMAIN sel
    BY <1>4, <2>2, <2>7
  <2>9. InventoryRow(k) = inventory[k]
    BY DEF InventoryRow
  <2> QED
    BY <1>5, <1>6, <2>8, <2>9
<1>8. ASSUME NEW k \in DOMAIN sel, sel[k].isNew, sel[k].expected # 1
      PROVE  k \in new /\ k = <<k[1], k[2]>>
  <2>1. InventoryRow(k).first >= since /\ InventoryRow(k).expected # 1
    BY <1>5, <1>6, <1>8
  <2>2. k \in DOMAIN inventory
    BY <1>1, <2>1 DEF InventoryRow, Unseen
  <2>3. InventoryRow(k) = inventory[k] /\ k = <<k[1], k[2]>>
    BY <2>2 DEF InventoryRow, RulesInv, InventoryTold
  <2> QED
    BY <1>1, <2>1, <2>2, <2>3
<1>9. Pairs(NewSelector) = {<<k[1], k[2]>> : k \in new}
  <2>1. NewSelector = {Alert("new_selector", k[1], k[2], "info") : k \in new}
    BY Zenon DEF NewSelector
  <2>2. \A k : /\ Alert("new_selector", k[1], k[2], "info").domain = k[1]
               /\ Alert("new_selector", k[1], k[2], "info").key = k[2]
    BY DEF Alert
  <2> HIDE DEF new
  <2> QED
    BY <2>1, <2>2 DEF Pairs
<1>10. \A k \in new : k = <<k[1], k[2]>>
  BY DEF RulesInv, InventoryTold
<1> HIDE DEF new
<1>11. Pairs(NewSelector) = {k \in DOMAIN sel : sel[k].isNew /\ sel[k].expected # 1}
  BY <1>7, <1>8, <1>9, <1>10
<1> QED
  BY <1>11 DEF sel, f

LEMMA NewIsNotMissing ==
    ASSUME RulesInv
    PROVE  Pairs(NewSelector) \cap Pairs(SelectorMissing) = {}
<1> SUFFICES ASSUME NEW k \in Pairs(NewSelector), k \in Pairs(SelectorMissing) PROVE FALSE
  OBVIOUS
<1>1. PICK x \in DOMAIN inventory : inventory[x].expected # 1 /\ k = <<x[1], x[2]>>
  <2>1. PICK a \in NewSelector : k = <<a.domain, a.key>>
    BY DEF Pairs
  <2>2. PICK x \in DOMAIN inventory : /\ inventory[x].expected # 1
                                      /\ a = Alert("new_selector", x[1], x[2], "info")
    BY DEF NewSelector
  <2> QED
    BY <2>1, <2>2 DEF Alert
<1>2. PICK y \in DOMAIN inventory : inventory[y].expected = 1 /\ k = <<y[1], y[2]>>
  <2>1. PICK a \in SelectorMissing : k = <<a.domain, a.key>>
    BY DEF Pairs
  <2>2. PICK y \in DOMAIN inventory : /\ inventory[y].expected = 1
                                      /\ a = Alert("selector_missing", y[1], y[2], "warning")
    BY DEF SelectorMissing
  <2> QED
    BY <2>1, <2>2 DEF Alert
<1>3. x = <<x[1], x[2]>> /\ y = <<y[1], y[2]>>
  BY DEF RulesInv, InventoryTold
<1> QED
  BY <1>1, <1>2, <1>3

-----------------------------------------------------------------------------
(* X6: silent reporters                                                     *)

LEMMA LastBegin ==
    ASSUME StatsInv, NEW o \in {r.org : r \in stored}
    PROVE  LET B == {r.begin : r \in {x \in stored : x.org = o}}
           IN  Greatest(B) \in B /\ B \in SUBSET Int /\ \A y \in B : y <= Greatest(B)
<1> DEFINE own == {x \in stored : x.org = o}
           begins == [r \in own |-> r.begin]
           B == {r.begin : r \in own}
<1>1. IsFiniteSet(own) /\ \A r \in own : r.begin \in Int
  BY StoredReports, FS_Subset
<1>2. B = Image(begins, own)
  BY DEF Image
<1>3. B \in SUBSET Int /\ B # {}
  BY <1>1
<1> HIDE DEF begins
<1>4. IsFiniteSet(B)
  BY <1>1, <1>2, ImageFinite
<1> HIDE DEF B
<1>5. Greatest(B) \in B /\ \A y \in B : y <= Greatest(B)
  BY <1>3, <1>4, LeastGreatest
<1> QED
  BY <1>3, <1>5 DEF B

LEMMA PresentReporters ==
    ASSUME NEW n
    PROVE  DOMAIN ReporterPresence(n)
             = {r.org : r \in {x \in stored : x.begin >= now - (n - 1)}}
BY DEF ReporterPresence

LEMMA GapReporters ==
    ASSUME StatsInv, NEW n \in Int, NEW g \in Int
    PROVE  ReporterGaps(n, g)
             = {o \in {r.org : r \in stored} :
                   /\ \E r \in stored : r.org = o /\ r.begin >= now - n
                   /\ \A r \in stored : r.org = o => r.begin < now - g}
<1> DEFINE B(o) == {r.begin : r \in {x \in stored : x.org = o}}
<1>1. now \in Int
  BY DEF StatsInv
<1>2. ASSUME NEW o \in {r.org : r \in stored}
      PROVE  Greatest(B(o)) >= now - n /\ Greatest(B(o)) < now - g
               <=> /\ \E r \in stored : r.org = o /\ r.begin >= now - n
                   /\ \A r \in stored : r.org = o => r.begin < now - g
  <2>1. PICK m : m = Greatest(B(o))
    OBVIOUS
  <2>2. m \in B(o) /\ B(o) \in SUBSET Int /\ \A y \in B(o) : y <= m
    BY <2>1, LastBegin
  <2>3. \A r \in stored : r.org = o => r.begin \in Int /\ r.begin <= m
    BY <2>2
  <2>4. PICK s \in stored : s.org = o /\ s.begin = m
    BY <2>2
  <2>5. m >= now - n /\ m < now - g
          <=> /\ \E r \in stored : r.org = o /\ r.begin >= now - n
              /\ \A r \in stored : r.org = o => r.begin < now - g
    <3> HIDE DEF B
    <3> QED
      BY <1>1, <2>3, <2>4
  <2> QED
    BY <2>1, <2>5
<1>3. ReporterGaps(n, g)
        = {o \in {r.org : r \in stored} : Greatest(B(o)) >= now - n /\ Greatest(B(o)) < now - g}
  BY Zenon DEF ReporterGaps
<1> QED
  BY <1>2, <1>3

LEMMA SilentMatch ==
    ASSUME RulesInv
    PROVE  {a.key : a \in ReporterSilent}
             = DOMAIN ReporterPresence(15) \ DOMAIN ReporterPresence(Setting(Cfg.gap, 3) + 1)
<1> DEFINE g == Setting(Cfg.gap, 3)
<1>1. g \in Int /\ StatsInv /\ now \in Int
  BY RulesAssumption DEF Setting, RulesInv, StatsInv
<1> HIDE DEF g
<1>2. {a.key : a \in ReporterSilent} = ReporterGaps(14, g)
  <2>1. ReporterSilent = {Alert("reporter_silent", "", o, "warning") : o \in ReporterGaps(14, g)}
    BY Zenon DEF ReporterSilent, g
  <2>2. \A o : Alert("reporter_silent", "", o, "warning").key = o
    BY DEF Alert
  <2> QED
    BY <2>1, <2>2
<1>3. DOMAIN ReporterPresence(15) = {r.org : r \in {x \in stored : x.begin >= now - 14}}
  <2>1. 15 - 1 = 14
    OBVIOUS
  <2> QED
    BY <2>1, PresentReporters, Zenon
<1>4. DOMAIN ReporterPresence(g + 1) = {r.org : r \in {x \in stored : x.begin >= now - g}}
  <2>1. (g + 1) - 1 = g
    BY <1>1
  <2> QED
    BY <2>1, PresentReporters, Zenon
<1>5. ReporterGaps(14, g)
        = {o \in {r.org : r \in stored} :
              /\ \E r \in stored : r.org = o /\ r.begin >= now - 14
              /\ \A r \in stored : r.org = o => r.begin < now - g}
  BY <1>1, GapReporters
<1>6. \A r \in stored : r.begin \in Int
  BY <1>1, StoredReports
<1>7. \A r \in stored : r.begin < now - g <=> ~(r.begin >= now - g)
  BY <1>1, <1>6
<1>8. ReporterGaps(14, g) = DOMAIN ReporterPresence(15) \ DOMAIN ReporterPresence(g + 1)
  <2>1. ASSUME NEW o
        PROVE  o \in ReporterGaps(14, g)
                 <=> o \in DOMAIN ReporterPresence(15) \ DOMAIN ReporterPresence(g + 1)
    <3>1. o \in DOMAIN ReporterPresence(15) <=> \E r \in stored : r.org = o /\ r.begin >= now - 14
      BY <1>3
    <3>2. o \in DOMAIN ReporterPresence(g + 1) <=> \E r \in stored : r.org = o /\ r.begin >= now - g
      BY <1>4
    <3>3. (\A r \in stored : r.org = o => r.begin < now - g)
            <=> ~ \E r \in stored : r.org = o /\ r.begin >= now - g
      BY <1>7, Zenon
    <3>4. o \in ReporterGaps(14, g) <=> /\ \E r \in stored : r.org = o /\ r.begin >= now - 14
                                       /\ \A r \in stored : r.org = o => r.begin < now - g
      BY <1>5
    <3> QED
      BY <3>1, <3>2, <3>3, <3>4
  <2> QED
    BY <2>1
<1> QED
  BY <1>2, <1>8 DEF g

-----------------------------------------------------------------------------
(* X3: a known source is degraded                                           *)

\* A rate that fell is not a full one.
LEMMA DropLoses ==
    ASSUME NEW k \in Nat, NEW pb \in Nat, NEW mb \in Nat, NEW pc \in Nat, NEW mc \in Nat,
           pb <= mb, pc <= mc, mb > 0,
           (100 * pb) * mc - (100 * pc) * mb > (k * mb) * mc
    PROVE  pc < mc
<1>1. SUFFICES ASSUME pc = mc PROVE FALSE
  OBVIOUS
<1>2. (k * mb) * mc >= 0
  <2>1. k * mb \in Nat
    OBVIOUS
  <2> QED
    BY <2>1
<1>3. pb * mc <= mb * mc
  BY SMT
<1>4. (100 * pb) * mc = 100 * (pb * mc) /\ (100 * mc) * mb = 100 * (mb * mc)
  BY SMT
<1> QED
  BY <1>1, <1>2, <1>3, <1>4

LEMMA DropOf ==
    ASSUME NEW p \in Int, NEW m \in Int, NEW q \in Int, NEW n \in Int, NEW k \in Int,
           DropsBy(<<p, m>>, <<q, n>>, k)
    PROVE  p * n - q * m > (k * m) * n
BY DEF DropsBy

LEMMA PassedParts ==
    ASSUME NEW J \in SUBSET AllRows
    PROVE  LET t == Totals(J)
           IN  /\ t.messages \in Nat /\ t.passed \in Nat /\ t.failed \in Nat
               /\ t.messages = t.passed + t.failed
<1>1. RowParts(J, Passing(J), Failing(J))
  BY DEF RowParts, Passing, Failing
<1> QED
  BY <1>1, MessagesSplit DEF Totals

LEMMA DropFails ==
    ASSUME NEW K \in SUBSET AllRows, NEW J \in SUBSET AllRows, NEW k \in Nat,
           Totals(J).messages >= 10,
           DropsBy(DashboardRate(Totals(K)), DashboardRate(Totals(J)), k)
    PROVE  Totals(J).failed > 0
<1> DEFINE pb == Totals(K).passed
           mb == Totals(K).messages
           pc == Totals(J).passed
           mc == Totals(J).messages
<1>1. /\ pb \in Nat /\ mb \in Nat /\ pc \in Nat /\ mc \in Nat
      /\ pb <= mb /\ pc <= mc /\ mc = pc + Totals(J).failed /\ Totals(J).failed \in Nat
  BY PassedParts
<1>2. DashboardRate(Totals(J))[1] = 100 * pc /\ DashboardRate(Totals(J))[2] = mc
  BY <1>1 DEF DashboardRate
<1>3. mb # 0
  <2> SUFFICES ASSUME mb = 0 PROVE FALSE
    OBVIOUS
  <2>1. DashboardRate(Totals(K))[1] = 0 /\ DashboardRate(Totals(K))[2] = 1
    BY DEF DashboardRate
  <2> HIDE DEF mb, pb, mc, pc
  <2>2. 0 * mc - (100 * pc) * 1 > (k * 1) * mc
    BY <1>2, <2>1 DEF DropsBy
  <2>3. k * mc \in Nat
    BY <1>1
  <2> QED
    BY <1>1, <2>2, <2>3
<1>4. DashboardRate(Totals(K))[1] = 100 * pb /\ DashboardRate(Totals(K))[2] = mb
  BY <1>3 DEF DashboardRate
<1> HIDE DEF mb, pb, mc, pc
<1>5. (100 * pb) * mc - (100 * pc) * mb > (k * mb) * mc
  <2>1. DashboardRate(Totals(K)) = <<100 * pb, mb>> /\ DashboardRate(Totals(J)) = <<100 * pc, mc>>
    BY <1>2, <1>4 DEF DashboardRate
  <2>2. 100 * pb \in Int /\ 100 * pc \in Int
    BY <1>1
  <2> QED
    BY <1>1, <2>1, <2>2, DropOf
<1>6. pc < mc
  <2>1. mb > 0
    BY <1>1, <1>3
  <2> QED
    BY <1>1, <1>5, <2>1, DropLoses
<1> QED
  BY <1>1, <1>6

LEMMA KnownDegradedMatch ==
    ASSUME RulesInv, Cfg.knownDrop >= 0, NEW a \in KnownSourceDegraded
    PROVE  SourceVolumes([Unbounded EXCEPT !.from = Recent])[a.key].failed > 0
<1> DEFINE f == [Unbounded EXCEPT !.from = Recent]
           base(ip) == [Unbounded EXCEPT !.ip = ip, !.from = now - 9, !.to = Recent - 1]
           cur(ip) == [Unbounded EXCEPT !.ip = ip, !.from = Recent, !.to = 0]
<1>1. PICK ip \in LabelledIPs :
         /\ a.key = ip /\ Totals(Where(cur(ip))).messages >= 10
         /\ DropsBy(DashboardRate(Totals(Where(base(ip)))), DashboardRate(Totals(Where(cur(ip)))),
                    Cfg.knownDrop)
  <2>1. PICK ip \in LabelledIPs :
           /\ a = Alert("known_source_degraded", "", ip, "warning")
           /\ Totals(Where(cur(ip))).messages >= 10
           /\ DropsBy(DashboardRate(Totals(Where(base(ip)))),
                      DashboardRate(Totals(Where(cur(ip)))), Cfg.knownDrop)
    BY Zenon DEF KnownSourceDegraded
  <2>2. a.key = ip
    BY <2>1 DEF Alert
  <2> QED
    BY <2>1, <2>2
<1>2. Cfg.knownDrop \in Nat /\ Recent \in Int /\ StatsInv /\ ip # AnyValue
  BY RuleDays, RulesAssumption, EditsAssumption DEF RulesInv
<1>3. Where(base(ip)) \in SUBSET AllRows /\ Where(cur(ip)) \in SUBSET AllRows
  BY <1>2, WhereRows, Zenon
<1>4. cur(ip) = [f EXCEPT !.ip = ip]
  <2>1. [Unbounded EXCEPT !.ip = ip, !.from = Recent] = [f EXCEPT !.ip = ip]
    BY <1>2, UnboundedFilters, Zenon
  <2>2. f = DomainWindow(AnyValue, Recent, 0)
    BY <1>2, SinceWindow, Zenon
  <2>3. ASSUME NEW u, u = Unbounded, NEW r
        PROVE  [u EXCEPT !.ip = ip, !.from = r, !.to = 0]
                 = [u EXCEPT !.ip = ip, !.from = r]
    <3>1. u = [envelopeFrom |-> AnyValue, domain |-> AnyValue, ip |-> AnyValue,
               from |-> 0, to |-> 0]
      BY <2>3 DEF Unbounded
    <3>2. ASSUME NEW v, v = [u EXCEPT !.ip = ip], NEW w, w = [v EXCEPT !.from = r]
          PROVE  [w EXCEPT !.to = 0] = w
      <4>1. v = [envelopeFrom |-> AnyValue, domain |-> AnyValue, ip |-> ip,
                 from |-> 0, to |-> 0]
        BY <3>1, <3>2
      <4>2. ASSUME NEW x, x = [envelopeFrom |-> AnyValue, domain |-> AnyValue, ip |-> ip,
                               from |-> 0, to |-> 0],
                   NEW y, y = [x EXCEPT !.from = r]
            PROVE  [y EXCEPT !.to = 0] = y
        <5>1. y = [envelopeFrom |-> AnyValue, domain |-> AnyValue, ip |-> ip,
                   from |-> r, to |-> 0]
          BY <4>2
        <5> QED
          BY <5>1
      <4> QED
        BY <3>2, <4>1, <4>2, Zenon
    <3> QED
      BY <3>2, Zenon
  <2> QED
    BY <2>1, <2>3, Zenon
<1>5. IsFilter(f) /\ f.ip = AnyValue
  BY <1>2, UnboundedFilters
<1> HIDE DEF f, base, cur
<1>6. Where(cur(ip)) = {j \in Where(f) : j.row.ip = ip}
  <2>1. Where([f EXCEPT !.ip = ip]) = {j \in Where(f) : j.row.ip = ip}
    <3>1. f.ip \in {AnyValue, ip}
      BY <1>5
    <3> QED
      BY <1>2, <1>5, <3>1, WhereIP
  <2> QED
    BY <1>4, <2>1, Zenon
<1>7. Totals(Where(cur(ip))).failed > 0
  BY <1>1, <1>2, <1>3, DropFails
<1>8. Where(cur(ip)) # {}
  <2> SUFFICES ASSUME Where(cur(ip)) = {} PROVE FALSE
    OBVIOUS
  <2>1. Totals(Where(cur(ip))).messages = 0
    BY MessagesNone DEF Totals
  <2> QED
    BY <1>1, <2>1
<1>9. ip \in DOMAIN SourceVolumes(f)
  BY <1>6, <1>8, VolumeLines
<1>10. SourceVolumes(f)[ip] = Totals(Where(cur(ip)))
  <2>1. SourceVolumes(f)[ip] = Totals({j \in Where(f) : j.row.ip = ip})
    BY <1>9, VolumeLines
  <2> QED
    BY <1>6, <2>1, Zenon
<1> QED
  BY <1>1, <1>7, <1>10 DEF f

-----------------------------------------------------------------------------
(* An alert is known by its domain and key                                  *)

Unique(R) == \A a, b \in R : a.domain = b.domain /\ a.key = b.key => a = b

LEMMA DomainlessUnique ==
    /\ Unique(KnownSourceDegraded) /\ Unique(ReporterSilent) /\ Unique(DNSErrorSpike)
    /\ Unique(NewSelector) /\ Unique(SelectorMissing)
<1>1. \A rule, d, x, s : Alert(rule, d, x, s).domain = d /\ Alert(rule, d, x, s).key = x
  BY DEF Alert
<1>2. \A a \in KnownSourceDegraded : \E x : a = Alert("known_source_degraded", "", x, "warning")
  BY Zenon DEF KnownSourceDegraded
<1>3. \A a \in ReporterSilent : \E x : a = Alert("reporter_silent", "", x, "warning")
  BY Zenon DEF ReporterSilent
<1>4. \A a \in DNSErrorSpike : \E x : a = Alert("dns_error_spike", "", x, "warning")
  BY Zenon DEF DNSErrorSpike
<1>5. \A a \in NewSelector : \E k : a = Alert("new_selector", k[1], k[2], "info")
  BY Zenon DEF NewSelector
<1>6. \A a \in SelectorMissing : \E k : a = Alert("selector_missing", k[1], k[2], "warning")
  <2> DEFINE missing == {x \in DOMAIN inventory :
                           /\ inventory[x].expected = 1
                           /\ inventory[x].last < now - Setting(Cfg.selectorMissing, 7)}
  <2>1. SelectorMissing = {Alert("selector_missing", k[1], k[2], "warning") : k \in missing}
    BY Zenon DEF SelectorMissing
  <2> HIDE DEF missing
  <2> QED
    BY <2>1, Zenon
<1>7. ASSUME NEW R, NEW rule, \A a \in R : \E x : a = Alert(rule, "", x, "warning")
      PROVE  Unique(R)
  <2>1. ASSUME NEW a \in R PROVE a = Alert(rule, "", a.key, "warning")
    <3>1. PICK x : a = Alert(rule, "", x, "warning")
      BY <1>7
    <3>2. a.key = x
      BY <3>1 DEF Alert
    <3> QED
      BY <3>1, <3>2
  <2> QED
    BY <2>1, Zenon DEF Unique
<1>8. Unique(KnownSourceDegraded) /\ Unique(ReporterSilent) /\ Unique(DNSErrorSpike)
  BY <1>2, <1>3, <1>4, <1>7
<1>9. Unique(NewSelector)
  BY <1>1, <1>5 DEF Unique
<1>10. Unique(SelectorMissing)
  BY <1>1, <1>6 DEF Unique
<1> QED
  BY <1>8, <1>9, <1>10

LEMMA NewFailingUnique == Unique(NewFailingSource)
<1> DEFINE sev(t) == IF t.failed = t.messages /\ t.messages >= 50 THEN "critical" ELSE "warning"
           severity(d, ip) == sev(Totals({j \in JoinOf(stored) : j.rep.domain = d /\ j.row.ip = ip}))
<1>1. \A a \in NewFailingSource :
         \E k : a = Alert("new_failing_source", k[1], k[2], severity(k[1], k[2]))
  BY Zenon DEF NewFailingSource
<1> HIDE DEF severity
<1>2. \A a \in NewFailingSource :
         a = Alert("new_failing_source", a.domain, a.key, severity(a.domain, a.key))
  <2>1. \A d, x, s : Alert("new_failing_source", d, x, s).domain = d
                     /\ Alert("new_failing_source", d, x, s).key = x
    BY DEF Alert
  <2> QED
    BY <1>1, <2>1
<1> QED
  BY <1>2, Zenon DEF Unique

\* A rule with one alert for a domain.
PerDomain(R, rule, key, severity) ==
    \A a \in R : \E d \in ReportDomains : a = Alert(rule, d, key[d], severity[d])

LEMMA PerDomainUnique ==
    ASSUME NEW R, NEW rule, NEW key, NEW severity, PerDomain(R, rule, key, severity)
    PROVE  Unique(R)
<1>1. \A a \in R : a = Alert(rule, a.domain, key[a.domain], severity[a.domain])
  <2>1. \A d, x, s : Alert(rule, d, x, s).domain = d
    BY DEF Alert
  <2> QED
    BY <2>1 DEF PerDomain
<1> QED
  BY <1>1 DEF Unique

LEMMA PassRateUnique == Unique(PassRateDrop)
<1> DEFINE sev(d) == IF DropsBy(RateOf(LastWeek(d)), RateOf(ThisWeek(d)), 2 * Cfg.passRateDrop)
                     THEN "critical" ELSE "warning"
           severity == [d \in ReportDomains |-> sev(d)]
           key == [d \in ReportDomains |-> "week"]
<1>1. \A a \in PassRateDrop : \E d \in ReportDomains : a = Alert("pass_rate_drop", d, "week", sev(d))
  BY Zenon DEF PassRateDrop
<1>2. \A d \in ReportDomains : severity[d] = sev(d) /\ key[d] = "week"
  BY Zenon
<1> HIDE DEF sev, severity, key
<1>3. PerDomain(PassRateDrop, "pass_rate_drop", key, severity)
  BY <1>1, <1>2, Zenon DEF PerDomain
<1> QED
  BY <1>3, PerDomainUnique, Zenon

LEMMA InconsistentUnique == Unique(PolicyInconsistent)
<1> DEFINE groups(d) == DOMAIN PolicyConsistency([Unbounded EXCEPT !.domain = d, !.from = Recent])
           severity == [d \in ReportDomains |-> "warning"]
           key == [d \in ReportDomains |-> groups(d)]
<1>1. \A a \in PolicyInconsistent :
         \E d \in ReportDomains : a = Alert("policy_inconsistent", d, groups(d), "warning")
  BY Zenon DEF PolicyInconsistent
<1>2. \A d \in ReportDomains : severity[d] = "warning" /\ key[d] = groups(d)
  BY Zenon
<1> HIDE DEF groups, severity, key
<1>3. PerDomain(PolicyInconsistent, "policy_inconsistent", key, severity)
  BY <1>1, <1>2, Zenon DEF PerDomain
<1> QED
  BY <1>3, PerDomainUnique, Zenon

LEMMA SpikesUnique == Unique(OverrideSpike) /\ Unique(SpoofSpike)
<1> DEFINE sev(d) == IF SpoofVolume([Unbounded EXCEPT !.domain = d, !.from = Recent]).notInSPF
                          > Setting(Cfg.spoofAbs, 50) THEN "critical" ELSE "warning"
           warning == [d \in ReportDomains |-> "warning"]
           severity == [d \in ReportDomains |-> sev(d)]
           key == [d \in ReportDomains |-> now]
<1>1. \A a \in OverrideSpike : \E d \in ReportDomains : a = Alert("override_spike", d, now, "warning")
  BY Zenon DEF OverrideSpike
<1>2. \A a \in SpoofSpike : \E d \in ReportDomains : a = Alert("spoof_spike", d, now, sev(d))
  BY Zenon DEF SpoofSpike
<1>3. \A d \in ReportDomains : warning[d] = "warning" /\ severity[d] = sev(d) /\ key[d] = now
  BY Zenon
<1> HIDE DEF sev, warning, severity, key
<1>4. PerDomain(OverrideSpike, "override_spike", key, warning)
  BY <1>1, <1>3, Zenon DEF PerDomain
<1>5. PerDomain(SpoofSpike, "spoof_spike", key, severity)
  BY <1>2, <1>3, Zenon DEF PerDomain
<1>6. Unique(OverrideSpike)
  BY <1>4, PerDomainUnique, Zenon
<1>7. Unique(SpoofSpike)
  BY <1>5, PerDomainUnique, Zenon
<1> QED
  BY <1>6, <1>7

\* Entries of the log of a domain differ in their day or in what changed.
LEMMA LogByKey ==
    ASSUME NEW d, NEW x \in PolicyChangeLog(d), NEW y \in PolicyChangeLog(d),
           x.at = y.at, x.diff = y.diff
    PROVE  x = y
<1> DEFINE key(c) == <<c[2].begin, Diff(Effective(c[1].tuple), Effective(c[2].tuple))>>
           C == ChangesOf(d)
           entry(k) == [at |-> k[1], diff |-> k[2], changes |-> {c \in C : key(c) = k},
                        before |-> Totals(Where(DaysBefore(d, k[1]))),
                        after |-> Totals(Where(DaysAfter(d, k[1])))]
<1>1. PolicyChangeLog(d) = {entry(k) : k \in {key(c) : c \in C}}
  BY Zenon DEF PolicyChangeLog
<1>2. \A k : entry(k).at = k[1] /\ entry(k).diff = k[2]
  OBVIOUS
<1>3. \A k \in {key(c) : c \in C} : k = <<k[1], k[2]>>
  OBVIOUS
<1> HIDE DEF entry, key, C
<1>4. PICK k \in {key(c) : c \in C} : x = entry(k)
  BY <1>1, Zenon
<1>5. PICK l \in {key(c) : c \in C} : y = entry(l)
  BY <1>1, Zenon
<1>6. k[1] = l[1] /\ k[2] = l[2]
  BY <1>2, <1>4, <1>5
<1>7. k = l
  BY <1>3, <1>6, Zenon
<1> QED
  BY <1>4, <1>5, <1>7

LEMMA ChangedUnique == Unique(PolicyChanged)
<1> DEFINE weaker(e) == \E c \in e.changes : Strength(c[2].tuple.p) < Strength(c[1].tuple.p)
           severity(e) == IF weaker(e) THEN "warning" ELSE "info"
<1>1. \A a \in PolicyChanged : \E d : \E e \in PolicyChangeLog(d) :
         a = Alert("policy_changed", d, <<e.at, e.diff>>, severity(e))
  <2>1. PolicyChanged
          = UNION {{Alert("policy_changed", d, <<e.at, e.diff>>, severity(e)) :
                       e \in {x \in PolicyChangeLog(d) : x.at >= now - 2}} : d \in ReportDomains}
    BY Zenon DEF PolicyChanged
  <2> HIDE DEF severity
  <2> QED
    BY <2>1, Zenon
<1> HIDE DEF severity
<1>2. SUFFICES ASSUME NEW a \in PolicyChanged, NEW b \in PolicyChanged,
                      a.domain = b.domain, a.key = b.key
               PROVE  a = b
  BY Zenon DEF Unique
<1>3. PICK d : \E e \in PolicyChangeLog(d) :
         a = Alert("policy_changed", d, <<e.at, e.diff>>, severity(e))
  BY <1>1
<1>4. PICK x \in PolicyChangeLog(d) : a = Alert("policy_changed", d, <<x.at, x.diff>>, severity(x))
  BY <1>3
<1>5. PICK c : \E e \in PolicyChangeLog(c) :
         b = Alert("policy_changed", c, <<e.at, e.diff>>, severity(e))
  BY <1>1
<1>6. PICK y \in PolicyChangeLog(c) : b = Alert("policy_changed", c, <<y.at, y.diff>>, severity(y))
  BY <1>5
<1>7. c = d /\ x.at = y.at /\ x.diff = y.diff
  BY <1>2, <1>4, <1>6 DEF Alert
<1>8. x = y
  BY <1>7, LogByKey
<1> QED
  BY <1>4, <1>6, <1>7, <1>8

LEMMA FiredUnique ==
    \A i \in DOMAIN Fired : \A a, b \in Fired[i] :
        a.domain = b.domain /\ a.key = b.key => a = b
<1>1. \A i \in DOMAIN Fired : Unique(Fired[i])
  <2>1. DOMAIN Fired = 1 .. 11
    BY DEF Fired
  <2>2. /\ Unique(Fired[1]) /\ Unique(Fired[2]) /\ Unique(Fired[3]) /\ Unique(Fired[4])
        /\ Unique(Fired[5]) /\ Unique(Fired[6]) /\ Unique(Fired[7]) /\ Unique(Fired[8])
        /\ Unique(Fired[9]) /\ Unique(Fired[10]) /\ Unique(Fired[11])
    BY DomainlessUnique, NewFailingUnique, PassRateUnique, InconsistentUnique, SpikesUnique,
       ChangedUnique DEF Fired
  <2>3. \A i \in 1 .. 11 : \/ i = 1 \/ i = 2 \/ i = 3 \/ i = 4 \/ i = 5 \/ i = 6
                           \/ i = 7 \/ i = 8 \/ i = 9 \/ i = 10 \/ i = 11
    OBVIOUS
  <2> QED
    BY <2>1, <2>2, <2>3, Zenon
<1> QED
  BY <1>1, Zenon DEF Unique

-----------------------------------------------------------------------------
(* A window and the one before it                                           *)

\* The new ones of an inventory are those its lines call new.
LEMMA NewListed ==
    ASSUME NEW f, f.from \in Int, f.from > 0
    PROVE  LET inv == SourceInventory(f)
           IN  NewSources(f) = {ip \in DOMAIN inv : inv[ip].isNew}
<1> DEFINE inv == SourceInventory(f)
           q == [PlainQuery EXCEPT !.newOnly = TRUE]
<1>1. q.min = 0 /\ q.bucket = "" /\ q.pattern = "" /\ q.newOnly = TRUE
  BY DEF PlainQuery
<1>2. NewSources(f) = Listed(inv, f, q)
  BY DEF NewSources
<1>3. ASSUME NEW ip \in DOMAIN inv PROVE q.bucket \notin DOMAIN inv[ip].matrix
  <2>1. inv[ip].matrix = Matrix({j \in Where(f) : j.row.ip = ip})
    BY DEF SourceInventory, SourceRow
  <2>2. \A J : "" \notin DOMAIN Matrix(J)
    BY DEF Matrix
  <2> QED
    BY <1>1, <2>1, <2>2
<1> HIDE DEF q, inv
<1>4. ~(f.from = 0) /\ ~(0 > 1)
  OBVIOUS
<1>5. ASSUME NEW ip \in DOMAIN inv
      PROVE  /\ q.min > 1 => inv[ip].messages >= q.min
             /\ q.bucket \in DOMAIN inv[ip].matrix => inv[ip].matrix[q.bucket] > 0
             /\ q.pattern # "" => inv[ip].pattern = q.pattern
             /\ (q.newOnly => f.from = 0 \/ inv[ip].isNew) <=> inv[ip].isNew
  BY <1>1, <1>3, <1>4, Zenon
<1>6. Listed(inv, f, q) = {ip \in DOMAIN inv : inv[ip].isNew}
  BY <1>5, Zenon DEF Listed
<1> QED
  BY <1>2, <1>6, Zenon DEF inv

\* What is new in a window was first seen in it.
LEMMA NewSince ==
    ASSUME StatsInv, NEW f, f.from \in Int, f.from > 0,
           NEW j \in WhereNoTime(f), j.row.ip \in NewSources(f)
    PROVE  j.rep.begin \in Int /\ j.rep.begin >= f.from
<1> DEFINE K == {k \in WhereNoTime(f) : k.row.ip = j.row.ip}
           span == {k.rep.begin : k \in K}
           begins == [k \in K |-> k.rep.begin]
<1>1. K \in SUBSET AllRows /\ j \in K
  BY WhereRows
<1>2. span \in SUBSET Int /\ j.rep.begin \in span
  BY <1>1, RowIn DEF AllRows
<1>3. span = Image(begins, K)
  BY DEF Image
<1>4. j.row.ip \in DOMAIN SourceInventory(f) /\ SourceInventory(f)[j.row.ip].isNew
  BY NewListed
<1>5. SourceInventory(f)[j.row.ip].isNew = NewIn(Least(span), f)
  BY <1>4, Zenon DEF SourceInventory, SourceRow
<1> HIDE DEF span, begins
<1>6. IsFiniteSet(span)
  BY <1>1, <1>3, RowsFinite, ImageFinite
<1>7. Least(span) \in Int /\ Least(span) <= j.rep.begin
  BY <1>2, <1>6, LeastGreatest
<1>8. Least(span) >= f.from
  <2>1. NewIn(Least(span), f)
    BY <1>4, <1>5, Zenon
  <2> QED
    BY <2>1 DEF NewIn
<1>9. j.rep.begin \in Int
  BY <1>2
<1> QED
  BY <1>7, <1>8, <1>9

LEMMA PreviousFields ==
    ASSUME NEW f, IsFilter(f)
    PROVE  LET prev == PreviousWindow(f)
               start == f.from - (WindowEnd(f) - f.from)
           IN  /\ prev.to = f.from - 1 /\ prev.from = IF start < 1 THEN 1 ELSE start
               /\ prev.envelopeFrom = f.envelopeFrom /\ prev.domain = f.domain
               /\ prev.ip = f.ip
<1> DEFINE start == f.from - (WindowEnd(f) - f.from)
           back == IF start < 1 THEN 1 ELSE start
<1>1. PreviousWindow(f) = [f EXCEPT !.to = f.from - 1, !.from = back]
  BY Zenon DEF PreviousWindow
<1> HIDE DEF back
<1>2. ASSUME NEW v, v = [f EXCEPT !.to = f.from - 1]
      PROVE  [v EXCEPT !.from = back]
               = [envelopeFrom |-> f.envelopeFrom, domain |-> f.domain, ip |-> f.ip,
                  from |-> back, to |-> f.from - 1]
  <2>1. v = [envelopeFrom |-> f.envelopeFrom, domain |-> f.domain, ip |-> f.ip,
             from |-> f.from, to |-> f.from - 1]
    BY <1>2 DEF IsFilter
  <2> QED
    BY <2>1
<1>3. PreviousWindow(f) = [envelopeFrom |-> f.envelopeFrom, domain |-> f.domain, ip |-> f.ip,
                           from |-> back, to |-> f.from - 1]
  BY <1>1, <1>2, Zenon
<1> QED
  BY <1>3 DEF back

LEMMA WindowsAreApart ==
    ASSUME StatsInv, NEW f, IsFilter(f), HasPrevious(f), f.from > 1
    PROVE  WindowsApart(f)
<1> DEFINE prev == PreviousWindow(f)
<1>1. /\ f.from \in Int /\ f.to \in Int /\ now \in Int /\ WindowEnd(f) \in Int
      /\ f.to > 0 => WindowEnd(f) = f.to
  BY DEF IsFilter, StatsInv, WindowEnd
<1>2. /\ prev.to = f.from - 1 /\ prev.from \in Int /\ prev.from > 0
      /\ prev.envelopeFrom = f.envelopeFrom /\ prev.domain = f.domain /\ prev.ip = f.ip
  BY <1>1, PreviousFields
<1> HIDE DEF prev
<1>3. WhereNoTime(prev) = WhereNoTime(f)
  BY <1>2 DEF WhereNoTime, Scoped
<1>4. \A j \in WhereNoTime(f) : j.rep.begin \in Int
  BY WhereRows, RowIn DEF AllRows
<1>5. \A j : j \in Where(f) <=> /\ j \in WhereNoTime(f) /\ j.rep.begin >= f.from
                                /\ f.to > 0 => j.rep.begin <= f.to
  BY <1>1 DEF Where, InWindow
<1>6. \A j : j \in Where(prev) <=> /\ j \in WhereNoTime(f) /\ j.rep.begin >= prev.from
                                   /\ j.rep.begin <= f.from - 1
  BY <1>1, <1>2, <1>3 DEF Where, InWindow
<1>7. Where(f) \cap Where(prev) = {}
  BY <1>1, <1>4, <1>5, <1>6
<1>8. NewSources(f) \cap DOMAIN SourceVolumes(prev) = {}
  <2> SUFFICES ASSUME NEW ip \in NewSources(f), ip \in DOMAIN SourceVolumes(prev) PROVE FALSE
    OBVIOUS
  <2>1. PICK j \in Where(prev) : j.row.ip = ip
    <3>1. DOMAIN SourceVolumes(prev) = {j.row.ip : j \in Where(prev)}
      BY VolumeLines, Zenon
    <3> QED
      BY <3>1
  <2>2. j \in WhereNoTime(f) /\ j.rep.begin <= f.from - 1
    BY <1>6, <2>1
  <2>3. j.rep.begin \in Int /\ j.rep.begin >= f.from
    BY <1>1, <2>1, <2>2, NewSince
  <2> QED
    BY <1>1, <2>2, <2>3
<1>9. ASSUME NEW j \in WhereNoTime(f),
             prev.from <= j.rep.begin, j.rep.begin <= WindowEnd(f)
      PROVE  j \in Where(f) \cup Where(prev)
  BY <1>1, <1>2, <1>4, <1>5, <1>6, <1>9
<1> QED
  BY <1>7, <1>8, <1>9 DEF WindowsApart, prev

-----------------------------------------------------------------------------
(* Delays by their rank                                                     *)

Dated(R) == R # {} /\ IsFiniteSet(R) /\ \A r \in R : r.delay \in Int

\* There is an n-th delay, and it is what Nth says of it.
LEMMA NthExists ==
    ASSUME NEW R, Dated(R), NEW n \in Int, 1 <= n, n <= Cardinality(R)
    PROVE  /\ Nth(R, n) \in Int
           /\ Cardinality({r \in R : r.delay < Nth(R, n)}) < n
           /\ n <= Cardinality({r \in R : r.delay <= Nth(R, n)})
<1> DEFINE delays == {r.delay : r \in R}
           delay == [r \in R |-> r.delay]
           atMost(v) == {r \in R : r.delay <= v}
           below(v) == {r \in R : r.delay < v}
           enough == {v \in delays : n <= Cardinality(atMost(v))}
<1>1. IsFiniteSet(R) /\ R # {} /\ \A r \in R : r.delay \in Int
  BY DEF Dated
<1>2. delays \in SUBSET Int /\ delays # {} /\ IsFiniteSet(delays)
  <2>1. delays = Image(delay, R)
    BY DEF Image
  <2> HIDE DEF delay
  <2>2. IsFiniteSet(delays)
    BY <1>1, <2>1, ImageFinite
  <2> QED
    BY <1>1, <2>2
<1>3. \A v : /\ IsFiniteSet(atMost(v)) /\ Cardinality(atMost(v)) \in Nat
             /\ IsFiniteSet(below(v)) /\ Cardinality(below(v)) \in Nat
  <2>1. \A v : atMost(v) \in SUBSET R /\ below(v) \in SUBSET R
    OBVIOUS
  <2> HIDE DEF atMost, below
  <2> QED
    BY <1>1, <2>1, FS_Subset, FS_CardinalityType
<1>4. enough # {}
  <2>1. PICK v \in delays : \A w \in delays : w <= v
    BY <1>2, Extremes
  <2>2. atMost(v) = R
    BY <2>1
  <2> QED
    BY <2>1, <2>2
<1>5. enough \in SUBSET Int /\ IsFiniteSet(enough)
  <2>1. enough \in SUBSET delays
    OBVIOUS
  <2> HIDE DEF enough, delays
  <2> QED
    BY <1>2, <2>1, FS_Subset
<1> HIDE DEF enough
<1>6. PICK v \in enough : \A w \in enough : v <= w
  BY <1>4, <1>5, Extremes
<1>7. v \in delays /\ v \in Int /\ n <= Cardinality(atMost(v))
  BY <1>5, <1>6 DEF enough
<1>8. Cardinality(below(v)) < n
  <2>1. CASE below(v) = {}
    BY <2>1, FS_EmptySet
  <2>2. CASE below(v) # {}
    <3> DEFINE smaller == {w \in delays : w < v}
    <3>1. smaller # {} /\ smaller \in SUBSET delays
      BY <2>2
    <3>2. IsFiniteSet(smaller) /\ smaller \in SUBSET Int
      <4> HIDE DEF smaller, delays
      <4> QED
        BY <1>2, <3>1, FS_Subset
    <3> HIDE DEF smaller
    <3>3. PICK w \in smaller : \A x \in smaller : x <= w
      BY <3>1, <3>2, Extremes
    <3>4. w \in delays /\ w \in Int /\ w < v
      BY <3>2, <3>3 DEF smaller
    <3>5. ~(n <= Cardinality(atMost(w)))
      <4>1. w \notin enough
        BY <1>6, <1>7, <3>4
      <4> QED
        BY <3>4, <4>1 DEF enough
    <3>6. below(v) = atMost(w)
      <4>1. \A r \in R : r.delay < v => r.delay <= w
        BY <3>3 DEF smaller
      <4>2. \A r \in R : r.delay <= w => r.delay < v
        BY <1>1, <1>7, <3>4
      <4> QED
        BY <4>1, <4>2
    <3> HIDE DEF below, atMost
    <3> QED
      BY <1>3, <3>5, <3>6
  <2> QED
    BY <2>1, <2>2
<1>9. Nth(R, n) \in delays /\ Cardinality(below(Nth(R, n))) < n
      /\ n <= Cardinality(atMost(Nth(R, n)))
  BY <1>7, <1>8, Zenon DEF Nth
<1> QED
  BY <1>2, <1>9

LEMMA NthMonotone ==
    ASSUME NEW R, Dated(R), NEW m \in Int, NEW n \in Int,
           1 <= m, m <= n, n <= Cardinality(R), Cardinality(R) \in Nat
    PROVE  Nth(R, m) <= Nth(R, n)
<1> DEFINE v == Nth(R, m)
           w == Nth(R, n)
<1>1. 1 <= n /\ m <= Cardinality(R)
  OBVIOUS
<1>2. v \in Int /\ Cardinality({r \in R : r.delay < v}) < m
  BY <1>1, NthExists
<1>3. w \in Int /\ n <= Cardinality({r \in R : r.delay <= w})
  BY <1>1, NthExists
<1> HIDE DEF v, w
<1>4. SUFFICES ASSUME w < v PROVE FALSE
  BY <1>2, <1>3 DEF v, w
<1> DEFINE A == {r \in R : r.delay <= w}
           B == {r \in R : r.delay < v}
<1>5. A \in SUBSET B /\ B \in SUBSET R
  BY <1>2, <1>3, <1>4 DEF Dated
<1> HIDE DEF A, B
<1>6. IsFiniteSet(B)
  BY <1>5, FS_Subset DEF Dated
<1>7. Cardinality(A) <= Cardinality(B) /\ Cardinality(A) \in Nat /\ Cardinality(B) \in Nat
  BY <1>5, <1>6, FS_Subset, FS_CardinalityType
<1>8. Cardinality(B) < m /\ n <= Cardinality(A)
  BY <1>2, <1>3 DEF A, B
<1> QED
  BY <1>7, <1>8

\* The rank of a percentile of n samples.
Rank(n, p) ==
    LET rank == (n * p * 2 + 100) \div 200
    IN  IF rank < 1 THEN 1 ELSE IF rank > n THEN n ELSE rank

LEMMA RanksInOrder ==
    ASSUME NEW n \in Nat, n >= 1
    PROVE  /\ Rank(n, 50) \in Int /\ Rank(n, 95) \in Int
           /\ 1 <= Rank(n, 50) /\ Rank(n, 50) <= Rank(n, 95) /\ Rank(n, 95) <= n
<1> DEFINE a == (n * 50 * 2 + 100) \div 200
           b == (n * 95 * 2 + 100) \div 200
<1>1. a \in Int /\ b \in Int /\ a <= b
  OBVIOUS
<1> HIDE DEF a, b
<1>2. /\ Rank(n, 50) = IF a < 1 THEN 1 ELSE IF a > n THEN n ELSE a
      /\ Rank(n, 95) = IF b < 1 THEN 1 ELSE IF b > n THEN n ELSE b
  BY DEF Rank, a, b
<1> QED
  BY <1>1, <1>2

LEMMA PercentilesInOrder ==
    ASSUME NEW R, Dated(R)
    PROVE  /\ Nth(R, 1) <= Percentile(R, 50) /\ Percentile(R, 50) <= Percentile(R, 95)
           /\ Percentile(R, 95) <= Nth(R, Cardinality(R))
<1>1. Cardinality(R) \in Nat /\ Cardinality(R) >= 1
  <2>1. Cardinality(R) \in Nat /\ Cardinality(R) # 0
    BY FS_CardinalityType, FS_EmptySet DEF Dated
  <2> QED
    BY <2>1
<1>2. PICK n : n = Cardinality(R)
  OBVIOUS
<1>3. PICK k, l : k = Rank(n, 50) /\ l = Rank(n, 95)
  OBVIOUS
<1>4. k \in Int /\ l \in Int /\ 1 <= k /\ k <= l /\ l <= n /\ n \in Nat
  BY <1>1, <1>2, <1>3, RanksInOrder
<1>5. Percentile(R, 50) = Nth(R, k) /\ Percentile(R, 95) = Nth(R, l)
  BY <1>2, <1>3, Zenon DEF Percentile, Rank
<1>6. Nth(R, 1) <= Nth(R, k)
  BY <1>2, <1>4, NthMonotone
<1>7. Nth(R, k) <= Nth(R, l)
  BY <1>2, <1>4, NthMonotone
<1>8. Nth(R, l) <= Nth(R, n)
  BY <1>2, <1>4, NthMonotone
<1> QED
  BY <1>2, <1>5, <1>6, <1>7, <1>8

LEMMA ReportersAreListed ==
    ASSUME StatsInv, NEW f
    PROVE  ReportersListed(f)
<1> DEFINE late == ReportLatency(f)
           schema == SchemaDistribution(f)
           dated == {r \in ReportsWhere(f) : r.dated}
           of(o) == {r \in dated : r.org = o}
<1>1. ReportsWhere(f) \in SUBSET stored
  <2>1. \A j \in Where(f) : j.rep \in stored
    BY WhereRows DEF JoinOf
  <2> QED
    BY <2>1 DEF ReportsWhere
<1>2. ASSUME NEW o \in DOMAIN late
      PROVE  /\ late[o].min <= late[o].median /\ late[o].median <= late[o].p95
             /\ late[o].p95 <= late[o].max
             /\ late[o].samples <= Cardinality({r \in stored : r.org = o})
  <2>1. of(o) # {} /\ of(o) \in SUBSET {r \in stored : r.org = o}
    BY <1>1 DEF ReportLatency
  <2>2. \A r \in of(o) : r.delay \in Int
    BY <1>1, DelaysAssumption DEF StatsInv
  <2>3. /\ late[o].samples = Cardinality(of(o))
        /\ late[o].median = Percentile(of(o), 50) /\ late[o].p95 = Percentile(of(o), 95)
        /\ late[o].min = Nth(of(o), 1) /\ late[o].max = Nth(of(o), Cardinality(of(o)))
    BY DEF ReportLatency
  <2> HIDE DEF late, of
  <2>4. IsFiniteSet({r \in stored : r.org = o})
    BY StoredReports, FS_Subset
  <2>5. IsFiniteSet(of(o)) /\ Cardinality(of(o)) <= Cardinality({r \in stored : r.org = o})
    BY <2>1, <2>4, FS_Subset
  <2>6. Dated(of(o))
    BY <2>1, <2>2, <2>5 DEF Dated
  <2> QED
    BY <2>3, <2>5, <2>6, PercentilesInOrder
<1>3. UNION {schema[k] : k \in DOMAIN schema} = {r.org : r \in ReportsWhere(f)}
  <2> DEFINE R == ReportsWhere(f)
             key(r) == <<IF r.version = "" THEN "(none)" ELSE r.version,
                         IF r.ns = "" THEN "rfc7489" ELSE "dmarc-2.0">>
  <2>1. schema = [k \in {key(r) : r \in R} |-> {r.org : r \in {x \in R : key(x) = k}}]
    BY Zenon DEF SchemaDistribution
  <2> HIDE DEF schema, key, R
  <2>2. DOMAIN schema = {key(r) : r \in R}
    BY <2>1
  <2>3. \A k \in DOMAIN schema : schema[k] = {r.org : r \in {x \in R : key(x) = k}}
    BY <2>1
  <2>4. UNION {schema[k] : k \in DOMAIN schema} = {r.org : r \in R}
    <3>1. ASSUME NEW r \in R PROVE r.org \in schema[key(r)] /\ key(r) \in DOMAIN schema
      BY <2>2, <2>3
    <3> QED
      BY <2>3, <3>1
  <2> QED
    BY <2>4 DEF R
<1>4. {r.org : r \in DateRangeAnomalies(f)} \subseteq {r.org : r \in ReportsWhere(f)}
  BY DEF DateRangeAnomalies
<1>5. DOMAIN ReporterInventory(f) \subseteq {r.org : r \in ReportsWhere(f)}
  <2>1. DOMAIN ReporterInventory(f) = {j.rep.org : j \in Where(f)}
    BY DEF ReporterInventory
  <2>2. ASSUME NEW j \in Where(f) PROVE j.rep \in ReportsWhere(f)
    <3>1. /\ f.domain \in {AnyValue, j.rep.domain} /\ InWindow(j.rep, f) /\ j.rep \in stored
      BY WhereRows DEF Where, WhereNoTime, Scoped, JoinOf
    <3> QED
      BY <3>1 DEF ReportsWhere
  <2> QED
    BY <2>1, <2>2
<1> HIDE DEF late, schema
<1> QED
  BY <1>2, <1>3, <1>4, <1>5 DEF ReportersListed, late, schema

-----------------------------------------------------------------------------

LEMMA DomainRulesMatch ==
    ASSUME RulesInv, NEW d \in ReportDomains
    PROVE  LET f == [Unbounded EXCEPT !.domain = d, !.from = now - 2]
               inv == SourceInventory(f)
               week == [Unbounded EXCEPT !.domain = d, !.from = now - 7]
               lately == [Unbounded EXCEPT !.domain = d, !.from = Recent]
               spoof == SpoofVolume(lately)
           IN  /\ {a.key : a \in {b \in NewFailingSource : b.domain = d}}
                    = {ip \in NewSources(f) : /\ inv[ip].matrix.neither > 0
                                              /\ inv[ip].messages >= Setting(Cfg.newSourceMin, 1)}
               /\ ThisWeek(d) = DashboardStats([week EXCEPT !.to = now]).totals
               /\ LastWeek(d) = DashboardStats(PreviousWindow(week)).totals
               /\ OverrideMessages(d, Recent, now + 1)
                    = LET g == OverrideBreakdown([lately EXCEPT !.to = now]) IN GroupSum(g)
               /\ d \in {a.domain : a \in SpoofSpike} =>
                     /\ spoof.inSPF + spoof.notInSPF = DashboardStats(lately).totals.failed
                     /\ d \in spfCache
               /\ DistinctReporters(d, Recent)
                    = Cardinality({r.org : r \in ReportsWhere(lately)})
               /\ Where(lately) # {} /\ d \notin {a.domain : a \in PolicyInconsistent} =>
                     \A t \in ActivePolicyTuples(Where(lately)) : t.consistent
<1> QED
  BY NewSourcesMatch, WeeksMatch, OverridesMatch, SpoofsMatch, DistinctMatch, ConsistentMatch,
     Zenon

LEMMA RulesMatch ==
    ASSUME RulesInv
    PROVE  DmarcRulesMatchPages
<1>1. StatsInv /\ now \in Int
  BY DEF RulesInv, StatsInv
<1>2. ASSUME NEW f \in Scopes
      PROVE  ReportersListed(f) /\ (HasPrevious(f) /\ f.from > 1 => WindowsApart(f))
  BY <1>1, ReportersAreListed, WindowsAreApart, ScopeIsFilter
<1> QED
  BY <1>2, DomainRulesMatch, NewSelectorsMatch, NewIsNotMissing, SilentMatch,
     KnownDegradedMatch, FiredUnique, Zenon DEF DmarcRulesMatchPages

\* What the rules X1 to X11 find is what the pages of the aggregate reports show.
THEOREM DmarcRulesAgree == StatsSpec => []DmarcRulesMatchPages
<1>1. RulesInv => DmarcRulesMatchPages
  BY RulesMatch
<1> QED
  BY <1>1, InventoryIsOfReports, PTL
=============================================================================
