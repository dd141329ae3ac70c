------------------------------- MODULE Counting --------------------------------
(***************************************************************************)
(* Lemmas about finite sets that the proofs about the portal's pages need: *)
(* induction over a set, sums over a set as a number of elements, and the  *)
(* parts of a whole.                                                       *)
(***************************************************************************)
EXTENDS Integers, FiniteSets, WellFoundedInduction, FiniteSetTheorems, FunctionTheorems, TLAPS

\* Induction over the natural numbers, from all smaller ones; Good holds the numbers for
\* which the statement is true.
LEMMA SmallerFirst ==
    ASSUME NEW Good,
           \A n \in Nat : (\A k \in Nat : k < n => k \in Good) => n \in Good
    PROVE  \A n \in Nat : n \in Good
<1>1. SUFFICES ASSUME Nat \ Good # {} PROVE FALSE
  OBVIOUS
<1>2. PICK n \in Nat \ Good : \A k \in Nat \ Good : ~(<<k, n>> \in OpToRel(<, Nat))
  BY <1>1, WFMin, NatLessThanWellFounded
<1>3. \A k \in Nat : k < n => k \in Good
  BY <1>2 DEF OpToRel
<1>4. QED
  BY <1>2, <1>3

\* Induction over a finite set: Good holds the sets for which the statement is true.
LEMMA SetInduction ==
    ASSUME NEW S, IsFiniteSet(S), NEW Good, {} \in Good,
           \A T \in SUBSET S, x \in S : T \in Good /\ x \notin T => T \cup {x} \in Good
    PROVE  S \in Good
<1> DEFINE Sizes == {n \in Nat : \A T \in SUBSET S : Cardinality(T) = n => T \in Good}
<1>1. \A T \in SUBSET S : IsFiniteSet(T) /\ Cardinality(T) \in Nat
  BY FS_Subset, FS_CardinalityType
<1>2. ASSUME NEW n \in Nat, \A k \in Nat : k < n => k \in Sizes PROVE n \in Sizes
  <2>1. SUFFICES ASSUME NEW T \in SUBSET S, Cardinality(T) = n, T # {} PROVE T \in Good
    OBVIOUS
  <2>2. PICK x \in T : TRUE
    BY <2>1
  <2>3. T \ {x} \in SUBSET S /\ Cardinality(T \ {x}) = n - 1
    BY <1>1, <2>1, <2>2, FS_RemoveElement
  <2>4. n - 1 \in Nat /\ n - 1 < n
    BY <1>1, <2>3
  <2>5. T \ {x} \in Good
    BY <1>2, <2>3, <2>4
  <2>6. (T \ {x}) \cup {x} = T
    BY <2>2
  <2>7. QED
    BY <2>2, <2>3, <2>5, <2>6
<1> HIDE DEF Sizes
<1>3. \A n \in Nat : n \in Sizes
  BY <1>2, SmallerFirst
<1>4. Cardinality(S) \in Sizes /\ S \in SUBSET S
  BY <1>1, <1>3
<1>5. QED
  BY <1>4 DEF Sizes

------------------------------------------------------------------------------
(* The parts of a whole, and images.                                       *)

LEMMA TwoParts ==
    ASSUME NEW A, NEW B, IsFiniteSet(A), IsFiniteSet(B), A \cap B = {}
    PROVE  /\ IsFiniteSet(A \cup B)
           /\ Cardinality(A \cup B) = Cardinality(A) + Cardinality(B)
           /\ Cardinality(A) \in Nat /\ Cardinality(B) \in Nat
<1>1. /\ IsFiniteSet(A \cup B)
      /\ Cardinality(A \cup B) = Cardinality(A) + Cardinality(B) - Cardinality(A \cap B)
  BY FS_Union
<1>2. Cardinality(A \cap B) = 0 /\ Cardinality(A) \in Nat /\ Cardinality(B) \in Nat
  BY FS_EmptySet, FS_CardinalityType
<1>3. QED
  BY <1>1, <1>2

LEMMA ThreeParts ==
    ASSUME NEW A, NEW B, NEW C, IsFiniteSet(A), IsFiniteSet(B), IsFiniteSet(C),
           A \cap B = {}, A \cap C = {}, B \cap C = {}
    PROVE  /\ IsFiniteSet(A \cup B \cup C)
           /\ Cardinality(A \cup B \cup C) = Cardinality(A) + Cardinality(B) + Cardinality(C)
<1>1. IsFiniteSet(A \cup B) /\ Cardinality(A \cup B) = Cardinality(A) + Cardinality(B)
  BY TwoParts
<1>2. (A \cup B) \cap C = {}
  OBVIOUS
<1>3. /\ IsFiniteSet((A \cup B) \cup C)
      /\ Cardinality((A \cup B) \cup C) = Cardinality(A \cup B) + Cardinality(C)
  BY <1>1, <1>2, TwoParts
<1>4. QED
  BY <1>1, <1>3

LEMMA FourParts ==
    ASSUME NEW A, NEW B, NEW C, NEW D,
           IsFiniteSet(A), IsFiniteSet(B), IsFiniteSet(C), IsFiniteSet(D),
           A \cap B = {}, A \cap C = {}, B \cap C = {}, A \cap D = {}, B \cap D = {}, C \cap D = {}
    PROVE  Cardinality(A \cup B \cup C \cup D)
               = Cardinality(A) + Cardinality(B) + Cardinality(C) + Cardinality(D)
<1>1. /\ IsFiniteSet(A \cup B \cup C)
      /\ Cardinality(A \cup B \cup C) = Cardinality(A) + Cardinality(B) + Cardinality(C)
  BY ThreeParts
<1>2. (A \cup B \cup C) \cap D = {}
  OBVIOUS
<1>3. Cardinality((A \cup B \cup C) \cup D) = Cardinality(A \cup B \cup C) + Cardinality(D)
  BY <1>1, <1>2, TwoParts
<1>4. QED
  BY <1>1, <1>3

\* As many images as elements, when no two have the same.
LEMMA ImagesCounted ==
    ASSUME NEW S, IsFiniteSet(S), NEW f, \A x, y \in S : f[x] = f[y] => x = y
    PROVE  /\ IsFiniteSet({f[x] : x \in S})
           /\ Cardinality({f[x] : x \in S}) = Cardinality(S)
<1> DEFINE g == [x \in S |-> f[x]]
           T == {f[x] : x \in S}
<1>1. g \in [S -> T] /\ \A x, y \in S : g[x] = g[y] => x = y
  OBVIOUS
<1>2. \A t \in T : \E x \in S : g[x] = t
  OBVIOUS
<1> HIDE DEF g, T
<1>3. g \in Bijection(S, T)
  BY <1>1, <1>2 DEF Bijection, Injection, Surjection, IsInjective
<1>4. ExistsBijection(S, T)
  BY <1>3 DEF ExistsBijection
<1>5. IsFiniteSet(T) /\ Cardinality(T) = Cardinality(S)
  BY <1>4, FS_Bijection
<1>6. QED
  BY <1>5 DEF T

LEMMA ImagesAreFinite ==
    ASSUME NEW S, IsFiniteSet(S), NEW f
    PROVE  IsFiniteSet({f[x] : x \in S})
<1> DEFINE g == [x \in S |-> f[x]]
           T == {f[x] : x \in S}
<1>1. g \in [S -> T]
  OBVIOUS
<1>2. \A t \in T : \E x \in S : g[x] = t
  OBVIOUS
<1> HIDE DEF g, T
<1>3. g \in Surjection(S, T)
  BY <1>1, <1>2 DEF Surjection
<1>4. IsFiniteSet(T)
  BY <1>3, FS_Surjection
<1>5. QED
  BY <1>4 DEF T

\* A finite set of numbers has a least and a greatest one.
LEMMA LeastAndGreatest ==
    ASSUME NEW S, IsFiniteSet(S), S \subseteq Nat, S # {}
    PROVE  /\ \E x \in S : \A y \in S : x <= y
           /\ \E x \in S : \A y \in S : x >= y
<1> DEFINE Good == {T \in SUBSET S : T = {} \/ /\ \E x \in T : \A y \in T : x <= y
                                               /\ \E x \in T : \A y \in T : x >= y}
<1>1. {} \in Good
  OBVIOUS
<1>2. ASSUME NEW T \in SUBSET S, NEW z \in S, T \in Good, z \notin T PROVE T \cup {z} \in Good
  <2>1. CASE T = {}
    BY <2>1
  <2>2. CASE T # {}
    <3>1. PICK low \in T : \A y \in T : low <= y
      BY <1>2, <2>2
    <3>2. PICK high \in T : \A y \in T : high >= y
      BY <1>2, <2>2
    <3>3. \E x \in T \cup {z} : \A y \in T \cup {z} : x <= y
      <4>1. CASE z <= low
        BY <3>1, <4>1
      <4>2. CASE low <= z
        BY <3>1, <4>2
      <4>3. QED
        BY <4>1, <4>2
    <3>4. \E x \in T \cup {z} : \A y \in T \cup {z} : x >= y
      <4>1. CASE z >= high
        BY <3>2, <4>1
      <4>2. CASE high >= z
        BY <3>2, <4>2
      <4>3. QED
        BY <4>1, <4>2
    <3>5. QED
      BY <3>3, <3>4
  <2>3. QED
    BY <2>1, <2>2
<1> HIDE DEF Good
<1>3. S \in Good
  BY <1>1, <1>2, SetInduction
<1>4. QED
  BY <1>3 DEF Good

------------------------------------------------------------------------------
(* The sum of f over S is the number of its units.                         *)

Units(S, f) == {u \in S \X Nat : u[2] \in 1 .. f[u[1]]}

LEMMA UnitsOfOneMore ==
    ASSUME NEW S, NEW f \in [S -> Nat], NEW T \in SUBSET S, NEW x \in S, x \notin T,
           IsFiniteSet(Units(T, f))
    PROVE  /\ IsFiniteSet(Units(T \cup {x}, f))
           /\ Cardinality(Units(T \cup {x}, f)) = Cardinality(Units(T, f)) + f[x]
<1> DEFINE Row == {x} \X (1 .. f[x])
<1>1. Units(T \cup {x}, f) = Units(T, f) \cup Row
  BY DEF Units
<1>2. Units(T, f) \cap Row = {}
  BY DEF Units
<1>3. f[x] \in Nat /\ IsFiniteSet(1 .. f[x]) /\ Cardinality(1 .. f[x]) = f[x]
  BY FS_Interval
<1>4. IsFiniteSet({x}) /\ Cardinality({x}) = 1
  BY FS_Singleton
<1>5. IsFiniteSet(Row) /\ Cardinality(Row) = f[x]
  BY <1>3, <1>4, FS_Product
<1> HIDE DEF Row
<1>6. /\ IsFiniteSet(Units(T, f) \cup Row)
      /\ Cardinality(Units(T, f) \cup Row)
             = Cardinality(Units(T, f)) + Cardinality(Row) - Cardinality({})
  BY <1>2, <1>5, FS_Union
<1>7. Cardinality({}) = 0 /\ Cardinality(Units(T, f)) \in Nat
  BY FS_EmptySet, FS_CardinalityType
<1> DEFINE more == Units(T \cup {x}, f)
           before == Cardinality(Units(T, f))
<1>8. IsFiniteSet(more) /\ Cardinality(more) = before + Cardinality(Row) - Cardinality({})
  BY <1>1, <1>6
<1> HIDE DEF more, before
<1>9. Cardinality(more) = before + f[x]
  <2>1. before \in Nat /\ Cardinality({}) = 0
    BY <1>7 DEF before
  <2>2. QED
    BY <1>3, <1>5, <1>8, <2>1
<1>10. QED
  BY <1>8, <1>9 DEF more, before

LEMMA UnitsAreFinite ==
    ASSUME NEW S, IsFiniteSet(S), NEW f \in [S -> Nat]
    PROVE  /\ Cardinality(Units({}, f)) = 0
           /\ \A T \in SUBSET S : IsFiniteSet(Units(T, f)) /\ Cardinality(Units(T, f)) \in Nat
<1>1. Units({}, f) = {}
  BY DEF Units
<1>2. ASSUME NEW T \in SUBSET S PROVE IsFiniteSet(Units(T, f))
  <2> DEFINE Good == {U \in SUBSET T : IsFiniteSet(Units(U, f))}
  <2>1. IsFiniteSet(T)
    BY FS_Subset
  <2>2. {} \in Good
    BY <1>1, FS_EmptySet
  <2>3. ASSUME NEW U \in SUBSET T, NEW x \in T, U \in Good, x \notin U
        PROVE  U \cup {x} \in Good
    BY <2>3, UnitsOfOneMore
  <2> HIDE DEF Good
  <2>4. T \in Good
    BY <2>1, <2>2, <2>3, SetInduction
  <2>5. QED
    BY <2>4 DEF Good
<1>3. QED
  BY <1>1, <1>2, FS_EmptySet, FS_CardinalityType

\* What the recursion of a sum over a set does in one step.
Added(f, sum, T) ==
    IF T = {} THEN 0
    ELSE f[CHOOSE x \in T : TRUE] + sum[T \ {CHOOSE x \in T : TRUE}]

IsSum(sum, S, f) == sum = [T \in SUBSET S |-> Added(f, sum, T)]

\* There is a function that keeps to the recursion ...
LEMMA SumExists ==
    ASSUME NEW S, IsFiniteSet(S), NEW f \in [S -> Nat]
    PROVE  \E sum : IsSum(sum, S, f)
<1> DEFINE sum == [T \in SUBSET S |-> Cardinality(Units(T, f))]
<1>1. ASSUME NEW T \in SUBSET S PROVE sum[T] = Added(f, sum, T)
  <2>1. CASE T = {}
    BY <2>1, UnitsAreFinite DEF Added
  <2>2. CASE T # {}
    <3> DEFINE x == CHOOSE x \in T : TRUE
               U == T \ {x}
    <3>1. x \in T
      BY <2>2
    <3> HIDE DEF x
    <3>2. U \cup {x} = T /\ x \notin U /\ U \in SUBSET S /\ x \in S
      BY <3>1
    <3>3. IsFiniteSet(Units(U, f)) /\ Cardinality(Units(U, f)) \in Nat
      BY <3>2, UnitsAreFinite
    <3> HIDE DEF U
    <3>4. Cardinality(Units(T, f)) = Cardinality(Units(U, f)) + f[x]
      <4>1. Cardinality(Units(U \cup {x}, f)) = Cardinality(Units(U, f)) + f[x]
        BY <3>2, <3>3, UnitsOfOneMore
      <4>2. QED
        BY <3>2, <4>1
    <3>5. sum[T] = f[x] + sum[U]
      BY <3>2, <3>3, <3>4
    <3> HIDE DEF sum
    <3>6. QED
      BY <2>2, <3>5 DEF Added, x, U
  <2>3. QED
    BY <2>1, <2>2
<1>2. sum = [T \in SUBSET S |-> sum[T]]
  OBVIOUS
<1> HIDE DEF sum
<1>3. sum = [T \in SUBSET S |-> Added(f, sum, T)]
  BY <1>1, <1>2
<1>4. QED
  BY <1>3 DEF IsSum

\* ... and what it computes is the number of units.
LEMMA SumCountsUnits ==
    ASSUME NEW S, IsFiniteSet(S), NEW f \in [S -> Nat],
           NEW sum, IsSum(sum, S, f)
    PROVE  sum[S] = Cardinality(Units(S, f))
<1> DEFINE Agrees(T) == sum[T] = Cardinality(Units(T, f))
           Good == {n \in Nat : \A T \in SUBSET S : Cardinality(T) = n => Agrees(T)}
<1>1. \A T \in SUBSET S : IsFiniteSet(T) /\ Cardinality(T) \in Nat
  BY FS_Subset, FS_CardinalityType
<1>2. ASSUME NEW n \in Nat, \A k \in Nat : k < n => k \in Good
      PROVE  n \in Good
  <2>1. SUFFICES ASSUME NEW T \in SUBSET S, Cardinality(T) = n PROVE Agrees(T)
    OBVIOUS
  <2>2. sum[T] = Added(f, sum, T)
    <3>1. \A V \in SUBSET S : sum[V] = Added(f, sum, V)
      <4> DEFINE A(V) == Added(f, sum, V)
      <4>1. sum = [V \in SUBSET S |-> A(V)]
        BY DEF IsSum
      <4> HIDE DEF A
      <4>2. \A V \in SUBSET S : sum[V] = A(V)
        BY <4>1
      <4>3. QED
        BY <4>2 DEF A
    <3>2. QED
      BY <3>1
  <2>3. CASE T = {}
    BY <2>2, <2>3, UnitsAreFinite DEF Added
  <2>4. CASE T # {}
    <3> DEFINE x == CHOOSE x \in T : TRUE
               U == T \ {x}
    <3>1. x \in T
      BY <2>4
    <3>2. sum[T] = f[x] + sum[U]
      BY <2>2, <2>4 DEF Added
    <3> HIDE DEF x
    <3>3. U \cup {x} = T /\ x \notin U /\ U \in SUBSET S /\ x \in S
      BY <3>1
    <3>4. Cardinality(U) = n - 1 /\ n - 1 \in Nat /\ n - 1 < n
      <4>1. Cardinality(U) = n - 1
        BY <1>1, <2>1, <3>1, FS_RemoveElement
      <4>2. QED
        BY <1>1, <3>3, <4>1
    <3> HIDE DEF U
    <3>5. sum[U] = Cardinality(Units(U, f))
      BY <1>2, <3>3, <3>4
    <3>6. IsFiniteSet(Units(U, f)) /\ Cardinality(Units(U, f)) \in Nat
      BY <3>3, UnitsAreFinite
    <3>7. Cardinality(Units(U \cup {x}, f)) = Cardinality(Units(U, f)) + f[x]
      BY <3>3, <3>6, UnitsOfOneMore
    <3>8. f[x] \in Nat
      BY <3>3
    <3>9. Cardinality(Units(T, f)) = Cardinality(Units(U, f)) + f[x]
      BY <3>3, <3>7
    <3>10. f[x] + Cardinality(Units(U, f)) = Cardinality(Units(U, f)) + f[x]
      BY <3>6, <3>8
    <3>11. QED
      BY <3>2, <3>5, <3>9, <3>10
  <2>5. QED
    BY <2>3, <2>4
<1> HIDE DEF Good
<1>3. \A n \in Nat : n \in Good
  BY <1>2, SmallerFirst
<1>4. Cardinality(S) \in Good /\ S \in SUBSET S
  BY <1>1, <1>3
<1>5. QED
  BY <1>4 DEF Good

\* A sum lies between what its terms are at least, and at most, times their number.
LEMMA UnitsBetween ==
    ASSUME NEW S, IsFiniteSet(S), NEW f \in [S -> Nat], NEW low \in Nat, NEW high \in Nat,
           \A x \in S : low <= f[x] /\ f[x] <= high
    PROVE  /\ Cardinality(S) * low <= Cardinality(Units(S, f))
           /\ Cardinality(Units(S, f)) <= Cardinality(S) * high
<1>1. S \X (1 .. low) \subseteq Units(S, f) /\ Units(S, f) \subseteq S \X (1 .. high)
  BY DEF Units
<1>2. \A n \in Nat : IsFiniteSet(1 .. n) /\ Cardinality(1 .. n) = n
  BY FS_Interval
<1>3. /\ IsFiniteSet(S \X (1 .. low)) /\ Cardinality(S \X (1 .. low)) = Cardinality(S) * low
      /\ IsFiniteSet(S \X (1 .. high)) /\ Cardinality(S \X (1 .. high)) = Cardinality(S) * high
  <2>1. ASSUME NEW n \in Nat
        PROVE  /\ IsFiniteSet(S \X (1 .. n))
               /\ Cardinality(S \X (1 .. n)) = Cardinality(S) * n
    <3> DEFINE N == 1 .. n
    <3>1. IsFiniteSet(N) /\ Cardinality(N) = n
      BY <1>2
    <3> HIDE DEF N
    <3>2. IsFiniteSet(S \X N) /\ Cardinality(S \X N) = Cardinality(S) * Cardinality(N)
      BY <3>1, FS_Product, Zenon
    <3>3. QED
      BY <3>1, <3>2 DEF N
  <2>2. QED
    BY <2>1
<1>4. IsFiniteSet(Units(S, f))
  BY UnitsAreFinite
<1>5. Cardinality(S \X (1 .. low)) <= Cardinality(Units(S, f))
  BY <1>1, <1>4, FS_Subset
<1>6. Cardinality(Units(S, f)) <= Cardinality(S \X (1 .. high))
  BY <1>1, <1>3, FS_Subset
<1>7. QED
  BY <1>3, <1>5, <1>6

\* Elements that are counted under their key are counted once each.
LEMMA CountedByKey ==
    ASSUME NEW I, IsFiniteSet(I), NEW A, IsFiniteSet(A), NEW key \in [A -> I],
           NEW f \in [I -> Nat], \A i \in I : f[i] = Cardinality({a \in A : key[a] = i})
    PROVE  Cardinality(Units(I, f)) = Cardinality(A)
<1> DEFINE Under(T) == {a \in A : key[a] \in T}
           Good == {T \in SUBSET I : Cardinality(Units(T, f)) = Cardinality(Under(T))}
<1>1. \A T : IsFiniteSet(Under(T)) /\ Cardinality(Under(T)) \in Nat
  BY FS_Subset, FS_CardinalityType
<1>2. {} \in Good
  <2>1. Under({}) = {}
    OBVIOUS
  <2>2. QED
    BY <2>1, UnitsAreFinite, FS_EmptySet
<1>3. ASSUME NEW T \in SUBSET I, NEW x \in I, T \in Good, x \notin T PROVE T \cup {x} \in Good
  <2> DEFINE new == {a \in A : key[a] = x}
  <2>1. Under(T \cup {x}) = Under(T) \cup new /\ Under(T) \cap new = {}
    BY <1>3
  <2>2. IsFiniteSet(new) /\ Cardinality(new) \in Nat /\ f[x] = Cardinality(new)
    BY FS_Subset, FS_CardinalityType
  <2>3. IsFiniteSet(Units(T, f)) /\ Cardinality(Units(T, f)) \in Nat
    BY UnitsAreFinite
  <2>4. Cardinality(Units(T \cup {x}, f)) = Cardinality(Units(T, f)) + f[x]
    BY <1>3, <2>3, UnitsOfOneMore
  <2>5. Cardinality(Units(T, f)) = Cardinality(Under(T))
    BY <1>3
  <2> HIDE DEF Under, new, Good
  <2>6. Cardinality(Under(T) \cup new) = Cardinality(Under(T)) + Cardinality(new)
    BY <1>1, <2>1, <2>2, TwoParts
  <2>7. Cardinality(Under(T \cup {x})) = Cardinality(Under(T)) + Cardinality(new)
    BY <2>1, <2>6
  <2>8. Cardinality(Units(T \cup {x}, f)) = Cardinality(Under(T \cup {x}))
    BY <2>2, <2>4, <2>5, <2>7
  <2>9. T \cup {x} \in SUBSET I
    BY <1>3
  <2>10. QED
    BY <2>8, <2>9 DEF Good
<1>4. Under(I) = A
  OBVIOUS
<1> HIDE DEF Under, Good
<1>5. I \in Good
  BY <1>2, <1>3, SetInduction
<1>6. QED
  BY <1>4, <1>5 DEF Good
==============================================================================
