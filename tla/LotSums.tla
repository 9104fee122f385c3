-------------------------------- MODULE LotSums --------------------------------
(***************************************************************************)
(* Facts about MapThenSumSet, with which protective_lifecycle.py's sums    *)
(* over fills and outstanding quantities and account_evidence.py's sums    *)
(* over income rows are translated.                                        *)
(*                                                                         *)
(* A sum of naturals is the number of units that are summed: the pairs of  *)
(* an element and one of the numbers 1..f[element].  So what is known of   *)
(* finite sets, of subsets and of disjoint unions is known of sums.  A sum *)
(* of integers is that of its gains less that of its losses.               *)
(***************************************************************************)
EXTENDS FiniteSetsExt, FiniteSetTheorems, TLAPS

Units(f, S) == {u \in S \X (Nat \ {0}) : u[2] <= f[u[1]]}

\* One solution of the recursion behind MapThenSumSet on the subsets of S.
Pick(s) == CHOOSE x \in s : TRUE

SolvesSum(sum, f, S) ==
  sum = [s \in SUBSET S |-> IF s = {} THEN 0 ELSE f[Pick(s)] + sum[s \ {Pick(s)}]]

\* Whatever can happen to some of the subsets of a finite set happens to one
\* of which nothing less can.
LEMMA LeastSubset ==
  ASSUME NEW S, IsFiniteSet(S), NEW T \in SUBSET (SUBSET S), T # {}
  PROVE  \E x \in T : \A y \in T : y \subseteq x => y = x
  <1>1. FiniteSubsetsOf(S) = SUBSET S
    BY FS_FiniteSubsetsOfFinite
  <1>2. IsWellFoundedOn(StrictSubsetOrdering(S), SUBSET S)
    BY <1>1, FS_StrictSubsetOrderingWellFounded
  <1>3. \E x \in T : \A y \in T : ~ (<<y, x>> \in StrictSubsetOrdering(S))
    BY <1>2, WFMin
  <1> QED
    BY <1>3 DEF StrictSubsetOrdering

\* Of one element there are as many units as its number says.
LEMMA UnitsOfOne ==
  ASSUME NEW f, NEW x, f[x] \in Nat
  PROVE  IsFiniteSet(Units(f, {x})) /\ Cardinality(Units(f, {x})) = f[x]
  <1> DEFINE n == f[x]
             b == [k \in 1..n |-> <<x, k>>]
  <1>1. b \in [1..n -> Units(f, {x})]
    BY DEF Units
  <1>2. b \in Bijection(1..n, Units(f, {x}))
    <2>1. \A j, k \in 1..n : b[j] = b[k] => j = k
      OBVIOUS
    <2>2. \A u \in Units(f, {x}) : u[2] \in 1..n /\ b[u[2]] = u
      BY DEF Units
    <2> QED
      BY <1>1, <2>1, <2>2 DEF Bijection, Injection, Surjection, IsInjective
  <1>3. IsFiniteSet(1..n) /\ Cardinality(1..n) = n
    BY FS_Interval
  <1> QED
    BY <1>2, <1>3, FS_Bijection DEF ExistsBijection

\* An element more or less adds or takes its units.
LEMMA UnitsOfOneMore ==
  ASSUME NEW f, NEW S, NEW x \in S, f[x] \in Nat, IsFiniteSet(Units(f, S \ {x}))
  PROVE  /\ IsFiniteSet(Units(f, S))
         /\ Cardinality(Units(f, S)) = f[x] + Cardinality(Units(f, S \ {x}))
  <1>1. Units(f, S) = Units(f, {x}) \cup Units(f, S \ {x})
    BY DEF Units
  <1>2. Units(f, {x}) \cap Units(f, S \ {x}) = {}
    BY DEF Units
  <1>3. Cardinality(Units(f, S \ {x})) \in Nat
    BY FS_CardinalityType
  <1>4. IsFiniteSet(Units(f, {x})) /\ Cardinality(Units(f, {x})) = f[x]
    BY UnitsOfOne
  <1>5. ASSUME NEW A, NEW B, IsFiniteSet(A), IsFiniteSet(B), A \cap B = {}
        PROVE  /\ IsFiniteSet(A \cup B)
               /\ Cardinality(A \cup B) = Cardinality(A) + Cardinality(B) - Cardinality({})
    BY <1>5, FS_Union
  <1>6. /\ IsFiniteSet(Units(f, {x}) \cup Units(f, S \ {x}))
        /\ Cardinality(Units(f, {x}) \cup Units(f, S \ {x}))
             = Cardinality(Units(f, {x})) + Cardinality(Units(f, S \ {x})) - Cardinality({})
    <2> HIDE DEF Units
    <2> QED
      BY <1>2, <1>4, <1>5
  <1>7. Cardinality({}) = 0
    BY FS_EmptySet
  <1> QED
    BY <1>1, <1>3, <1>4, <1>6, <1>7

\* There are no units of no element.
LEMMA NoUnits == \A f : Units(f, {}) = {}
  BY DEF Units

\* There are finitely many units of finitely many elements.
LEMMA UnitsFinite ==
  ASSUME NEW S, IsFiniteSet(S), NEW f, \A x \in S : f[x] \in Nat
  PROVE  \A s \in SUBSET S : IsFiniteSet(Units(f, s))
  <1> DEFINE T == {s \in SUBSET S : ~IsFiniteSet(Units(f, s))}
  <1> SUFFICES ASSUME T # {} PROVE FALSE
    OBVIOUS
  <1>0. T \in SUBSET (SUBSET S) /\ T # {}
    OBVIOUS
  <1>1. PICK s \in T : \A y \in T : y \subseteq s => y = s
    <2> HIDE DEF T
    <2> QED
      BY <1>0, LeastSubset
  <1>2. s # {}
    BY NoUnits, FS_EmptySet
  <1>3. PICK x \in s : TRUE
    BY <1>2
  <1>4. IsFiniteSet(Units(f, s \ {x}))
    BY <1>1, <1>3
  <1> QED
    BY <1>3, <1>4, UnitsOfOneMore

\* The chosen element of a set is in it.
LEMMA PickFacts == \A s : s # {} => Pick(s) \in s
  BY DEF Pick

\* The number of units solves the recursion ...
LEMMA UnitsSolve ==
  ASSUME NEW S, IsFiniteSet(S), NEW f, \A x \in S : f[x] \in Nat
  PROVE  SolvesSum([s \in SUBSET S |-> Cardinality(Units(f, s))], f, S)
  <1> DEFINE sum == [s \in SUBSET S |-> Cardinality(Units(f, s))]
  <1>1. ASSUME NEW s \in SUBSET S
        PROVE  sum[s] = IF s = {} THEN 0 ELSE f[Pick(s)] + sum[s \ {Pick(s)}]
    <2>1. CASE s = {}
      BY <2>1, NoUnits, FS_EmptySet
    <2>2. CASE s # {}
      <3>1. Pick(s) \in s
        BY <2>2, PickFacts
      <3>2. IsFiniteSet(Units(f, s \ {Pick(s)}))
        BY UnitsFinite
      <3>3. Cardinality(Units(f, s)) = f[Pick(s)] + Cardinality(Units(f, s \ {Pick(s)}))
        BY <3>1, <3>2, UnitsOfOneMore
      <3> QED
        BY <2>2, <3>3
    <2> QED
      BY <2>1, <2>2
  <1>2. sum = [s \in SUBSET S |-> IF s = {} THEN 0 ELSE f[Pick(s)] + sum[s \ {Pick(s)}]]
    BY <1>1, Zenon
  <1> QED
    BY <1>2, Zenon DEF SolvesSum

\* ... and nothing else does.
LEMMA SolutionsAgree ==
  ASSUME NEW S, IsFiniteSet(S), NEW f, NEW sum, NEW other,
         SolvesSum(sum, f, S), SolvesSum(other, f, S)
  PROVE  sum[S] = other[S]
  <1> DEFINE T == {s \in SUBSET S : sum[s] # other[s]}
  <1> SUFFICES ASSUME T # {} PROVE FALSE
    OBVIOUS
  <1>0. T \in SUBSET (SUBSET S) /\ T # {}
    OBVIOUS
  <1>1. PICK s \in T : \A y \in T : y \subseteq s => y = s
    <2> HIDE DEF T
    <2> QED
      BY <1>0, LeastSubset
  <1>2. /\ sum[s] = IF s = {} THEN 0 ELSE f[Pick(s)] + sum[s \ {Pick(s)}]
        /\ other[s] = IF s = {} THEN 0 ELSE f[Pick(s)] + other[s \ {Pick(s)}]
    BY <1>1, Zenon DEF SolvesSum
  <1>3. CASE s = {}
    BY <1>1, <1>2, <1>3
  <1>4. CASE s # {}
    <2>1. Pick(s) \in s
      BY <1>4, PickFacts
    <2>2. s \ {Pick(s)} \notin T
      BY <1>1, <2>1
    <2>3. sum[s \ {Pick(s)}] = other[s \ {Pick(s)}]
      BY <1>1, <2>2
    <2> QED
      BY <1>1, <1>2, <1>4, <2>3
  <1> QED
    BY <1>3, <1>4

\* A sum is the number of units.
LEMMA SumIsUnits ==
  ASSUME NEW S, IsFiniteSet(S), NEW f, \A x \in S : f[x] \in Nat
  PROVE  /\ MapThenSumSet(LAMBDA x : f[x], S) = Cardinality(Units(f, S))
         /\ IsFiniteSet(Units(f, S))
         /\ Cardinality(Units(f, S)) \in Nat
  <1> DEFINE sum == CHOOSE g : g = [s \in SUBSET S |->
                                      IF s = {} THEN 0
                                      ELSE f[CHOOSE x \in s : TRUE]
                                             + g[s \ {CHOOSE x \in s : TRUE}]]
             units == [s \in SUBSET S |-> Cardinality(Units(f, s))]
  <1>1. SolvesSum(units, f, S)
    BY UnitsSolve
  <1>2. SolvesSum(sum, f, S)
    BY <1>1, Zenon DEF SolvesSum, Pick
  <1>3. sum[S] = units[S]
    BY <1>1, <1>2, SolutionsAgree
  <1>4. MapThenSumSet(LAMBDA x : f[x], S) = sum[S]
    BY DEF MapThenSumSet, MapThenFoldSet
  <1>5. IsFiniteSet(Units(f, S))
    BY UnitsFinite
  <1> QED
    BY <1>3, <1>4, <1>5, FS_CardinalityType

--------------------------------------------------------------------------------
(* How sums compare and add up.                                            *)

Lots(f, S) == Cardinality(Units(f, S))

\* The number of units is a number.
LEMMA LotsType ==
  ASSUME NEW S, IsFiniteSet(S), NEW f, \A x \in S : f[x] \in Nat
  PROVE  IsFiniteSet(Units(f, S)) /\ Lots(f, S) \in Nat
  BY UnitsFinite, FS_CardinalityType DEF Lots

\* What is nowhere more does not add up to more.
LEMMA LotsGrow ==
  ASSUME NEW S, IsFiniteSet(S), NEW f, NEW g,
         \A x \in S : f[x] \in Nat /\ g[x] \in Nat /\ f[x] <= g[x]
  PROVE  Lots(f, S) <= Lots(g, S)
  <1>1. Units(f, S) \subseteq Units(g, S)
    BY DEF Units
  <1> QED
    BY <1>1, LotsType, FS_Subset DEF Lots

\* What is nothing outside a part adds up to what the part does.
LEMMA LotsOfPart ==
  ASSUME NEW S, NEW T \in SUBSET S, NEW f, NEW g,
         \A x \in T : f[x] = g[x], \A x \in S \ T : f[x] = 0
  PROVE  Lots(f, S) = Lots(g, T)
  <1>1. Units(f, S) = Units(g, T)
    BY DEF Units
  <1> QED
    BY <1>1 DEF Lots

\* Of one element there are as many units as its number says.
LEMMA LotsOfOne ==
  ASSUME NEW f, NEW x, f[x] \in Nat
  PROVE  Lots(f, {x}) = f[x]
  BY UnitsOfOne DEF Lots

\* Sums of the same elements add up, element by element.
LEMMA LotsAdd ==
  ASSUME NEW S, IsFiniteSet(S), NEW f, NEW g, NEW h,
         \A x \in S : f[x] \in Nat /\ g[x] \in Nat /\ h[x] = f[x] + g[x]
  PROVE  Lots(h, S) = Lots(f, S) + Lots(g, S)
  <1> DEFINE T == {s \in SUBSET S : Lots(h, s) # Lots(f, s) + Lots(g, s)}
  <1> SUFFICES ASSUME T # {} PROVE FALSE
    OBVIOUS
  <1>0. T \in SUBSET (SUBSET S) /\ T # {}
    OBVIOUS
  <1>1. PICK s \in T : \A y \in T : y \subseteq s => y = s
    <2> HIDE DEF T
    <2> QED
      BY <1>0, LeastSubset
  <1>2. s # {}
    <2>1. Lots(h, {}) = 0 /\ Lots(f, {}) = 0 /\ Lots(g, {}) = 0
      BY NoUnits, FS_EmptySet DEF Lots
    <2>2. Lots(h, s) # Lots(f, s) + Lots(g, s)
      OBVIOUS
    <2>3. s = {} => 0 # 0 + 0
      BY <2>1, <2>2, Zenon
    <2> QED
      BY <2>3
  <1>3. PICK x \in s : TRUE
    BY <1>2
  <1>4. Lots(h, s \ {x}) = Lots(f, s \ {x}) + Lots(g, s \ {x})
    BY <1>1, <1>3
  <1>5. ASSUME NEW k, \A y \in S : k[y] \in Nat
        PROVE  Lots(k, s) = k[x] + Lots(k, s \ {x}) /\ Lots(k, s \ {x}) \in Nat
    <2>1. s \ {x} \in SUBSET S /\ IsFiniteSet(s \ {x}) /\ k[x] \in Nat
      BY <1>1, <1>3, <1>5, FS_Subset
    <2>2. IsFiniteSet(Units(k, s \ {x})) /\ Lots(k, s \ {x}) \in Nat
      BY <1>5, <2>1, LotsType
    <2> QED
      BY <1>3, <2>1, <2>2, UnitsOfOneMore DEF Lots
  <1>6. \A y \in S : h[y] \in Nat
    OBVIOUS
  <1>7. /\ Lots(h, s) = h[x] + Lots(h, s \ {x})
        /\ Lots(f, s) = f[x] + Lots(f, s \ {x}) /\ Lots(f, s \ {x}) \in Nat
        /\ Lots(g, s) = g[x] + Lots(g, s \ {x}) /\ Lots(g, s \ {x}) \in Nat
    BY <1>5, <1>6
  <1>8. h[x] = f[x] + g[x] /\ f[x] \in Nat /\ g[x] \in Nat
    BY <1>1, <1>3
  <1> QED
    BY <1>1, <1>4, <1>7, <1>8

\* Sums over two sets that have nothing in common add up.
LEMMA LotsApart ==
  ASSUME NEW A, NEW B, IsFiniteSet(A), IsFiniteSet(B), A \cap B = {},
         NEW f, \A x \in A \cup B : f[x] \in Nat
  PROVE  Lots(f, A \cup B) = Lots(f, A) + Lots(f, B)
  <1>1. Units(f, A \cup B) = Units(f, A) \cup Units(f, B)
    BY DEF Units
  <1>2. Units(f, A) \cap Units(f, B) = {}
    BY DEF Units
  <1>3. IsFiniteSet(Units(f, A)) /\ IsFiniteSet(Units(f, B))
        /\ Lots(f, A) \in Nat /\ Lots(f, B) \in Nat
    BY LotsType
  <1>4. Cardinality(Units(f, A) \cup Units(f, B))
          = Cardinality(Units(f, A)) + Cardinality(Units(f, B))
              - Cardinality(Units(f, A) \cap Units(f, B))
    BY <1>3, FS_Union
  <1>5. Cardinality(Units(f, A) \cap Units(f, B)) = 0
    BY <1>2, FS_EmptySet
  <1>6. Lots(f, A \cup B) = Lots(f, A) + Lots(f, B) - 0
    BY <1>1, <1>4, <1>5 DEF Lots
  <1> QED
    BY <1>3, <1>6

--------------------------------------------------------------------------------
(* Sums of integers: what comes in less what goes out.                     *)

Gains(f, S)  == [x \in S |-> IF f[x] > 0 THEN f[x] ELSE 0]
Losses(f, S) == [x \in S |-> IF f[x] < 0 THEN -f[x] ELSE 0]

Net(f, S) == Lots(Gains(f, S), S) - Lots(Losses(f, S), S)

\* Gains and losses are numbers, and make up what they are of.
LEMMA GainsAndLosses ==
  ASSUME NEW S, NEW f, \A x \in S : f[x] \in Int
  PROVE  \A x \in S : /\ Gains(f, S)[x] \in Nat /\ Losses(f, S)[x] \in Nat
                      /\ f[x] = Gains(f, S)[x] - Losses(f, S)[x]
  BY DEF Gains, Losses

\* A part of the elements has the same gains and losses among more.
LEMMA NetOfPart ==
  ASSUME NEW S, NEW s \in SUBSET S, NEW f
  PROVE  Net(f, s) = Lots(Gains(f, S), s) - Lots(Losses(f, S), s)
  <1>1. Units(Gains(f, S), s) = Units(Gains(f, s), s)
    BY DEF Units, Gains
  <1>2. Units(Losses(f, S), s) = Units(Losses(f, s), s)
    BY DEF Units, Losses
  <1> QED
    BY <1>1, <1>2 DEF Net, Lots

\* A sum of integers is an integer ...
LEMMA NetType ==
  ASSUME NEW S, IsFiniteSet(S), NEW f, \A x \in S : f[x] \in Int
  PROVE  Net(f, S) \in Int
  <1>1. Lots(Gains(f, S), S) \in Nat /\ Lots(Losses(f, S), S) \in Nat
    BY GainsAndLosses, LotsType
  <1> QED
    BY <1>1 DEF Net

\* ... and of nothing it is zero.
LEMMA NetOfNothing == \A f : Net(f, {}) = 0
  <1> SUFFICES ASSUME NEW f PROVE Net(f, {}) = 0
    OBVIOUS
  <1>1. Lots(Gains(f, {}), {}) = 0 /\ Lots(Losses(f, {}), {}) = 0
    BY NoUnits, FS_EmptySet DEF Lots
  <1> QED
    BY <1>1 DEF Net

\* The sum depends on nothing but what is summed.
LEMMA NetSame ==
  ASSUME NEW S, NEW f, NEW g, \A x \in S : f[x] = g[x]
  PROVE  Net(f, S) = Net(g, S)
  <1>1. Gains(f, S) = Gains(g, S) /\ Losses(f, S) = Losses(g, S)
    BY DEF Gains, Losses
  <1> QED
    BY <1>1 DEF Net

\* Sums of integers over two sets that have nothing in common add up.
LEMMA NetApart ==
  ASSUME NEW A, NEW B, IsFiniteSet(A), IsFiniteSet(B), A \cap B = {},
         NEW f, \A x \in A \cup B : f[x] \in Int
  PROVE  Net(f, A \cup B) = Net(f, A) + Net(f, B)
  <1> DEFINE S == A \cup B
             g == Gains(f, S)
             l == Losses(f, S)
  <1>1. \A x \in S : g[x] \in Nat /\ l[x] \in Nat
    BY GainsAndLosses
  <1>2. Lots(g, S) = Lots(g, A) + Lots(g, B) /\ Lots(l, S) = Lots(l, A) + Lots(l, B)
    BY <1>1, LotsApart
  <1>3. /\ Net(f, A) = Lots(g, A) - Lots(l, A)
        /\ Net(f, B) = Lots(g, B) - Lots(l, B)
        /\ Net(f, S) = Lots(g, S) - Lots(l, S)
    BY NetOfPart
  <1>4. /\ Lots(g, A) \in Nat /\ Lots(g, B) \in Nat /\ Lots(l, A) \in Nat
        /\ Lots(l, B) \in Nat
    BY <1>1, LotsType
  <1> QED
    BY <1>2, <1>3, <1>4

\* One element is summed as it is.
LEMMA NetOfOne ==
  ASSUME NEW f, NEW x, f[x] \in Int
  PROVE  Net(f, {x}) = f[x]
  <1>1. /\ Gains(f, {x})[x] \in Nat /\ Losses(f, {x})[x] \in Nat
        /\ f[x] = Gains(f, {x})[x] - Losses(f, {x})[x]
    BY GainsAndLosses
  <1>2. /\ Lots(Gains(f, {x}), {x}) = Gains(f, {x})[x]
        /\ Lots(Losses(f, {x}), {x}) = Losses(f, {x})[x]
    BY <1>1, LotsOfOne
  <1> QED
    BY <1>1, <1>2 DEF Net

\* Sums of integers solve the recursion.
LEMMA NetSolves ==
  ASSUME NEW S, IsFiniteSet(S), NEW f, \A x \in S : f[x] \in Int
  PROVE  SolvesSum([s \in SUBSET S |-> Net(f, s)], f, S)
  <1> DEFINE sum == [s \in SUBSET S |-> Net(f, s)]
  <1>1. ASSUME NEW s \in SUBSET S
        PROVE  sum[s] = IF s = {} THEN 0 ELSE f[Pick(s)] + sum[s \ {Pick(s)}]
    <2>1. CASE s = {}
      BY <2>1, NetOfNothing
    <2>2. CASE s # {}
      <3> DEFINE x == Pick(s)
                 rest == s \ {x}
      <3>1. x \in s
        BY <2>2, PickFacts
      <3>2. IsFiniteSet({x}) /\ IsFiniteSet(rest)
        BY FS_Subset, FS_Singleton
      <3>3. {x} \cup rest = s /\ {x} \cap rest = {}
        BY <3>1
      <3>4. \A y \in {x} \cup rest : f[y] \in Int
        BY <3>1
      <3>5. Net(f, {x} \cup rest) = Net(f, {x}) + Net(f, rest)
        <4> HIDE DEF x, rest
        <4> QED
          BY <3>2, <3>3, <3>4, NetApart
      <3>6. Net(f, {x}) = f[x]
        BY <3>1, NetOfOne
      <3>7. Net(f, s) = f[x] + Net(f, rest)
        BY <3>3, <3>5, <3>6
      <3> QED
        BY <2>2, <3>1, <3>7
    <2> QED
      BY <2>1, <2>2
  <1>2. sum = [s \in SUBSET S |-> IF s = {} THEN 0 ELSE f[Pick(s)] + sum[s \ {Pick(s)}]]
    BY <1>1, Zenon
  <1> QED
    BY <1>2, Zenon DEF SolvesSum

================================================================================
