---------------------------- MODULE TotalsProofs ----------------------------
(***************************************************************************)
(* What a sum is: a number, no less than any of its terms, that grows with *)
(* its terms and by its terms.                                             *)
(***************************************************************************)
EXTENDS Totals, FiniteSetTheorems, TLAPS

\* A sum over a finite set is a number.
LEMMA TotalIsNumber ==
  ASSUME NEW S, IsFiniteSet(S), NEW f \in [S -> Nat]
  PROVE  IsFiniteSet(Units(f)) /\ Total(f) \in Nat
<1> DEFINE Of(x) == {x} \X (1 .. f[x])
<1>1. \A x \in S : IsFiniteSet(Of(x))
  <2>1. TAKE x \in S
  <2>2. IsFiniteSet({x})
    BY FS_Singleton
  <2>3. IsFiniteSet(1 .. f[x])
    BY FS_Interval
  <2>4. QED
    BY <2>2, <2>3, FS_Product
<1>2. IsFiniteSet({Of(x) : x \in S})
  <2> DEFINE F == [x \in S |-> Of(x)]
  <2>1. F \in Surjection(S, {Of(x) : x \in S})
    BY DEF Surjection
  <2> HIDE DEF F, Of
  <2>2. QED
    BY <2>1, FS_Surjection
<1>3. IsFiniteSet(UNION {Of(x) : x \in S})
  <2> HIDE DEF Of
  <2>1. QED
    BY <1>1, <1>2, FS_UNION
<1>4. Units(f) = UNION {Of(x) : x \in S}
  BY DEF Units
<1>5. QED
  BY <1>3, <1>4, FS_CardinalityType DEF Total

\* A sum of fewer and smaller numbers is smaller.
LEMMA TotalIsMonotone ==
  ASSUME NEW S, NEW T, IsFiniteSet(T), S \subseteq T,
         NEW f \in [S -> Nat], NEW g \in [T -> Nat], \A x \in S : f[x] <= g[x]
  PROVE  Total(f) <= Total(g)
<1>1. Units(f) \subseteq Units(g)
  BY DEF Units
<1>2. IsFiniteSet(Units(g))
  BY TotalIsNumber
<1>3. QED
  BY <1>1, <1>2, FS_Subset DEF Total

\* A sum is no greater than one that has each of its terms, or a greater one, but zeros.
LEMMA TotalIsCovered ==
  ASSUME NEW S, NEW T, IsFiniteSet(T), NEW f \in [S -> Nat], NEW g \in [T -> Nat],
         \A x \in S : f[x] # 0 => x \in T /\ f[x] <= g[x]
  PROVE  Total(f) <= Total(g)
<1>1. Units(f) \subseteq Units(g)
  <2>1. \A x \in S : \A n \in 1 .. f[x] : x \in T /\ n \in 1 .. g[x]
    OBVIOUS
  <2>2. QED
    BY <2>1 DEF Units
<1>2. IsFiniteSet(Units(g))
  BY TotalIsNumber
<1>3. QED
  BY <1>1, <1>2, FS_Subset DEF Total

\* A sum is one of its terms and the sum of the others.
LEMMA TotalOfOneMore ==
  ASSUME NEW T, IsFiniteSet(T), NEW f \in [T -> Nat], NEW x \in T
  PROVE  Total(f) = Total([y \in T \ {x} |-> f[y]]) + f[x]
<1> DEFINE S == T \ {x}
           g == [y \in S |-> f[y]]
<1> DEFINE One == {x} \X (1 .. f[x])
<1>1. Units(f) = Units(g) \cup One
  <2>1. T = S \cup {x} /\ g \in [S -> Nat] /\ \A y \in S : g[y] = f[y]
    OBVIOUS
  <2> HIDE DEF S, g
  <2>2. QED
    BY <2>1 DEF Units
<1>2. Units(g) \cap One = {}
  BY DEF Units
<1>3. IsFiniteSet(One) /\ Cardinality(One) = f[x]
  <2>1. IsFiniteSet({x}) /\ Cardinality({x}) = 1
    BY FS_Singleton
  <2>2. IsFiniteSet(1 .. f[x]) /\ Cardinality(1 .. f[x]) = f[x]
    BY FS_Interval
  <2>3. QED
    <3>1. Cardinality({x}) * Cardinality(1 .. f[x]) = f[x]
      BY <2>1, <2>2
    <3>2. QED
      BY <2>1, <2>2, <3>1, FS_Product
<1>4. IsFiniteSet(Units(g)) /\ Cardinality(Units(g)) \in Nat
  <2>1. IsFiniteSet(S) /\ g \in [S -> Nat]
    BY FS_Subset
  <2>2. QED
    BY <2>1, TotalIsNumber, FS_CardinalityType
<1>5. Cardinality(Units(f)) = Cardinality(Units(g)) + Cardinality(One) - Cardinality({})
  <2> HIDE DEF One
  <2>1. QED
    BY <1>1, <1>2, <1>3, <1>4, FS_Union
<1>6. Cardinality({}) = 0
  BY FS_EmptySet
<1>7. QED
  BY <1>3, <1>4, <1>5, <1>6 DEF Total

\* No term exceeds its sum.
LEMMA TermIsWithin ==
  ASSUME NEW S, IsFiniteSet(S), NEW f \in [S -> Nat], NEW x \in S
  PROVE  f[x] <= Total(f)
<1> DEFINE rest == Total([y \in S \ {x} |-> f[y]])
<1>1. Total(f) = rest + f[x]
  BY TotalOfOneMore
<1>2. rest \in Nat
  <2>1. IsFiniteSet(S \ {x}) /\ [y \in S \ {x} |-> f[y]] \in [S \ {x} -> Nat]
    BY FS_Subset
  <2>2. QED
    BY <2>1, TotalIsNumber
<1>3. f[x] \in Nat
  OBVIOUS
<1> HIDE DEF rest
<1>4. QED
  BY <1>1, <1>2, <1>3

\* Where one term changes, the sum changes by as much.
LEMMA TotalOfChanged ==
  ASSUME NEW S, IsFiniteSet(S), NEW f \in [S -> Nat], NEW g \in [S -> Nat], NEW x \in S,
         \A y \in S : y # x => g[y] = f[y]
  PROVE  Total(g) + f[x] = Total(f) + g[x]
<1> DEFINE rest == [y \in S \ {x} |-> f[y]]
<1>1. Total(f) = Total(rest) + f[x]
  BY TotalOfOneMore
<1>2. Total(g) = Total(rest) + g[x]
  <2>1. [y \in S \ {x} |-> g[y]] = rest
    OBVIOUS
  <2> HIDE DEF rest
  <2>2. QED
    BY <2>1, TotalOfOneMore
<1>3. Total(rest) \in Nat
  <2>1. IsFiniteSet(S \ {x}) /\ rest \in [S \ {x} -> Nat]
    BY FS_Subset
  <2> HIDE DEF rest
  <2>2. QED
    BY <2>1, TotalIsNumber
<1>4. f[x] \in Nat /\ g[x] \in Nat
  OBVIOUS
<1> HIDE DEF rest
<1>5. QED
  BY <1>1, <1>2, <1>3, <1>4

\* Where one term grows by one, so does the sum.
LEMMA TotalOfOneUnit ==
  ASSUME NEW S, IsFiniteSet(S), NEW f \in [S -> Nat], NEW g \in [S -> Nat], NEW x \in S,
         g[x] = f[x] + 1, \A y \in S : y # x => g[y] = f[y]
  PROVE  Total(g) = Total(f) + 1
<1>1. Total(g) + f[x] = Total(f) + g[x]
  BY TotalOfChanged
<1>2. Total(f) \in Nat /\ Total(g) \in Nat
  BY TotalIsNumber
<1>3. f[x] \in Nat
  OBVIOUS
<1>4. QED
  BY <1>1, <1>2, <1>3

\* A sum of nothing but zeros is zero.
LEMMA TotalOfNone ==
  ASSUME NEW S, NEW f \in [S -> Nat], \A y \in S : f[y] = 0
  PROVE  Total(f) = 0
<1>1. Units(f) = {}
  BY DEF Units
<1>2. QED
  BY <1>1, FS_EmptySet DEF Total

\* A sum of which all other terms are zero is its one term.
LEMMA TotalOfOnlyOne ==
  ASSUME NEW S, IsFiniteSet(S), NEW f \in [S -> Nat], NEW x \in S,
         \A y \in S : y # x => f[y] = 0
  PROVE  Total(f) = f[x]
<1> DEFINE rest == [y \in S \ {x} |-> f[y]]
<1>1. Total(f) = Total(rest) + f[x]
  BY TotalOfOneMore
<1>2. Total(rest) = 0
  <2>1. rest \in [S \ {x} -> Nat] /\ \A y \in S \ {x} : rest[y] = 0
    OBVIOUS
  <2> HIDE DEF rest
  <2>2. QED
    BY <2>1, TotalOfNone
<1> HIDE DEF rest
<1>3. f[x] \in Nat
  OBVIOUS
<1>4. QED
  BY <1>1, <1>2, <1>3

\* A sequence with one more entry has one more term.
LEMMA TotalOfAppended ==
  ASSUME NEW n \in Nat, NEW f \in [1 .. n -> Nat], NEW g \in [1 .. n + 1 -> Nat],
         \A i \in 1 .. n : g[i] = f[i]
  PROVE  Total(g) = Total(f) + g[n + 1]
<1>1. IsFiniteSet(1 .. n + 1) /\ n + 1 \in 1 .. n + 1
  BY FS_Interval
<1>2. Total(g) = Total([i \in (1 .. n + 1) \ {n + 1} |-> g[i]]) + g[n + 1]
  BY <1>1, TotalOfOneMore
<1>3. (1 .. n + 1) \ {n + 1} = 1 .. n
  OBVIOUS
<1>4. [i \in (1 .. n + 1) \ {n + 1} |-> g[i]] = f
  BY <1>3
<1>5. QED
  BY <1>2, <1>4

\* When one term is the whole sum, the others are zero.
LEMMA OthersAreZero ==
  ASSUME NEW S, IsFiniteSet(S), NEW f \in [S -> Nat], NEW x \in S, Total(f) = f[x]
  PROVE  \A y \in S : y # x => f[y] = 0
<1> DEFINE rest == [y \in S \ {x} |-> f[y]]
<1>1. Total(f) = Total(rest) + f[x]
  BY TotalOfOneMore
<1>2. rest \in [S \ {x} -> Nat] /\ \A y \in S \ {x} : rest[y] = f[y]
  OBVIOUS
<1> HIDE DEF rest
<1>3. IsFiniteSet(S \ {x})
  BY FS_Subset
<1>4. Total(rest) \in Nat /\ \A y \in S \ {x} : rest[y] <= Total(rest)
  BY <1>2, <1>3, TotalIsNumber, TermIsWithin
<1>5. Total(rest) = 0
  <2>1. f[x] \in Nat
    OBVIOUS
  <2>2. QED
    BY <1>1, <1>4, <2>1
<1>6. QED
  BY <1>2, <1>4, <1>5

\* Two lists of terms that differ in one term at most.
DifferAt(x, S, f, g) ==
  /\ IsFiniteSet(S) /\ f \in [S -> Nat] /\ g \in [S -> Nat] /\ x \in S
  /\ \A y \in S : y # x => g[y] = f[y]

\* Their sums differ as that term does.
LEMMA TotalsDiffer ==
  ASSUME NEW x, NEW S, NEW f, NEW g, DifferAt(x, S, f, g)
  PROVE  /\ Total(g) + f[x] = Total(f) + g[x]
         /\ g[x] = f[x] + 1 => Total(g) = Total(f) + 1
<1>1. Total(g) + f[x] = Total(f) + g[x]
  BY TotalOfChanged DEF DifferAt
<1>2. g[x] = f[x] + 1 => Total(g) = Total(f) + 1
  BY TotalOfOneUnit DEF DifferAt
<1>3. QED
  BY <1>1, <1>2
=============================================================================
