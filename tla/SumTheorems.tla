---------------------------- MODULE SumTheorems ----------------------------
(***************************************************************************)
(* Facts about SumFunctionOnSet, the sum of the values f[x] for x in a     *)
(* finite set S, for the proofs about the books that the contracts keep,   *)
(* and about the decimals in which the scripts compute with them.          *)
(*                                                                         *)
(* The library defines the sum by a CHOOSE over recursive functions on     *)
(* SUBSET S.  The first part shows that this is the number of Units(f, S), *)
(* the set that holds f[x] pairs for each x in S: that the recursion has a *)
(* solution, and, by induction on the subsets of S, no other.  What is     *)
(* needed of sums then follows from what is known of Cardinality.          *)
(*                                                                         *)
(* The second part does the same for the recursions of Decimals, bounds    *)
(* what an operation loses by its rounding, and what a sum of rounded      *)
(* terms can be away from the exact one.                                   *)
(***************************************************************************)
EXTENDS Decimals, Functions, FiniteSetTheorems, FunctionTheorems,
        WellFoundedInduction, TLAPS

\* f[x] distinct pairs for each x in S.
Units(f, S) == UNION {{x} \X (1..f[x]) : x \in S}

\* The element the library's definition takes from s, and its recursion.
Pick(s) == CHOOSE x \in s : TRUE

SumEq(g, f, S) ==
    g = [s \in SUBSET S |->
            IF s = {} THEN 0 ELSE f[Pick(s)] + g[s \ {Pick(s)}]]

\* Induction on the subsets of a finite set, for a set G of good subsets.
LEMMA SetInduction ==
  ASSUME NEW S, IsFiniteSet(S),
         NEW G, {} \in G,
         \A T \in SUBSET S : T # {} /\ (\A x \in T : T \ {x} \in G) => T \in G
  PROVE  S \in G
<1> DEFINE Bad == {T \in SUBSET S : T \notin G}
<1> SUFFICES ASSUME S \notin G PROVE FALSE
  OBVIOUS
<1>1. Bad # {} /\ Bad \subseteq FiniteSubsetsOf(S)
  BY FS_FiniteSubsetsOfFinite
<1>2. PICK T \in Bad : \A U \in Bad : <<U, T>> \notin StrictSubsetOrdering(S)
  <2> HIDE DEF Bad
  <2>1. IsWellFoundedOn(StrictSubsetOrdering(S), FiniteSubsetsOf(S))
    BY FS_StrictSubsetOrderingWellFounded
  <2> QED  BY <1>1, <2>1, WFMin
<1>3. ASSUME NEW x \in T  PROVE T \ {x} \in G
  <2>1. <<T \ {x}, T>> \in StrictSubsetOrdering(S)
    <3>1. T \in SUBSET S /\ T \ {x} \in SUBSET S /\ T \ {x} # T
      BY <1>3
    <3> QED  BY <3>1 DEF StrictSubsetOrdering
  <2>2. T \ {x} \notin Bad
    BY <1>2, <2>1
  <2> QED  BY <2>2
<1> QED  BY <1>2, <1>3

\* Induction on the numbers up to n.
LEMMA RangeInduction ==
    ASSUME NEW n \in Nat, NEW G, 0 \in G,
           \A k \in 0..n : k # 0 /\ k - 1 \in G => k \in G
    PROVE  n \in G
<1> DEFINE H == {T \in SUBSET (1..n) : \A k \in 0..n : T = 1..k => k \in G}
<1>1. IsFiniteSet(1..n)
  BY FS_Interval
<1>2. {} \in H
  <2>1. ASSUME NEW k \in 0..n, {} = 1..k  PROVE k = 0
    <3>1. k # 0 => 1 \in 1..k
      OBVIOUS
    <3> QED
      BY <2>1, <3>1
  <2> QED
    BY <2>1
<1>3. ASSUME NEW T \in SUBSET (1..n), T # {}, \A x \in T : T \ {x} \in H
      PROVE  T \in H
  <2>1. ASSUME NEW k \in 0..n, T = 1..k  PROVE k \in G
    <3>1. k # 0 /\ k \in T
      <4>1. k = 0 => 1..k = {}
        OBVIOUS
      <4> QED
        BY <1>3, <2>1, <4>1
    <3>2. (1..k) \ {k} = 1..(k - 1) /\ k - 1 \in 0..n
      BY <3>1
    <3>3. T \ {k} \in H
      BY <1>3, <3>1
    <3>4. k - 1 \in G
      BY <2>1, <3>2, <3>3
    <3> QED
      BY <3>1, <3>4
  <2> QED
    BY <2>1
<1>4. 1..n \in H
  <2> HIDE DEF H
  <2> QED
    BY <1>1, <1>2, <1>3, SetInduction
<1> QED
  BY <1>4

\* What the library's definition says.
LEMMA SumUnfold ==
  ASSUME NEW f, NEW S
  PROVE  SumFunctionOnSet(f, S) = (CHOOSE g : SumEq(g, f, S))[S]
  BY DEF SumFunctionOnSet, FoldFunctionOnSet, MapThenFoldSet, SumEq, Pick

\* One element has f[x] units.
LEMMA UnitsAt ==
  ASSUME NEW f, NEW x, f[x] \in Nat
  PROVE  IsFiniteSet({x} \X (1..f[x])) /\ Cardinality({x} \X (1..f[x])) = f[x]
<1>1. IsFiniteSet(1..f[x]) /\ Cardinality(1..f[x]) = f[x]
  BY FS_Interval
<1>2. IsFiniteSet({x}) /\ Cardinality({x}) = 1
  BY FS_Singleton
<1>3. /\ IsFiniteSet({x} \X (1..f[x])) 
      /\ Cardinality({x} \X (1..f[x])) = Cardinality({x}) * Cardinality(1..f[x])
  BY <1>1, <1>2, FS_Product
<1> QED  BY <1>1, <1>2, <1>3

LEMMA UnitsFinite ==
  ASSUME NEW S, IsFiniteSet(S), NEW f, \A x \in S : f[x] \in Nat
  PROVE  IsFiniteSet(Units(f, S)) /\ Cardinality(Units(f, S)) \in Nat
<1> DEFINE G == {T \in SUBSET S : IsFiniteSet(Units(f, T))}
<1>1. {} \in G
  BY FS_EmptySet DEF Units
<1>2. ASSUME NEW T \in SUBSET S, T # {}, \A x \in T : T \ {x} \in G
      PROVE  T \in G
  <2>0. PICK x \in T : T \ {x} \in G
    BY <1>2
  <2>1. Units(f, T) = Units(f, T \ {x}) \cup ({x} \X (1..f[x]))
    BY <2>0 DEF Units
  <2>2. IsFiniteSet({x} \X (1..f[x]))
    BY <2>0, UnitsAt
  <2>3. IsFiniteSet(Units(f, T \ {x}))
    BY <2>0
  <2>4. IsFiniteSet(Units(f, T \ {x}) \cup ({x} \X (1..f[x])))
    BY <2>2, <2>3, FS_Union
  <2> QED  BY <2>1, <2>4
<1>3. S \in G
  <2> HIDE DEF G
  <2> QED BY <1>1, <1>2, SetInduction
<1> QED  BY <1>3, FS_CardinalityType

\* The units of different elements are different.
LEMMA UnitsAdd ==
  ASSUME NEW S, IsFiniteSet(S), NEW f, \A x \in S : f[x] \in Nat, NEW x \in S
  PROVE  Cardinality(Units(f, S)) = f[x] + Cardinality(Units(f, S \ {x}))
<1> DEFINE A == Units(f, S \ {x})
<1> DEFINE B == {x} \X (1..f[x])
<1>1. Units(f, S) = A \cup B
  BY DEF Units
<1>2. A \cap B = {}
  BY DEF Units
<1>3. IsFiniteSet(A) /\ Cardinality(A) \in Nat
  BY UnitsFinite, FS_RemoveElement
<1>4. IsFiniteSet(B) /\ Cardinality(B) = f[x]
  BY UnitsAt
<1> HIDE DEF A, B
<1>5. Cardinality(A \cup B) = Cardinality(A) + Cardinality(B) - Cardinality(A \cap B)
  BY <1>3, <1>4, FS_Union
<1>6. Cardinality(A \cap B) = 0
  BY <1>2, FS_EmptySet
<1>7. Cardinality(Units(f, S)) = f[x] + Cardinality(A)
  BY <1>1, <1>3, <1>4, <1>5, <1>6
<1> QED  BY <1>7 DEF A

\* The sum counts the units.
LEMMA SumIsUnits ==
  ASSUME NEW S, IsFiniteSet(S), NEW f, \A x \in S : f[x] \in Nat
  PROVE  SumFunctionOnSet(f, S) = Cardinality(Units(f, S))
<1> DEFINE h == [s \in SUBSET S |-> Cardinality(Units(f, s))]
<1> DEFINE g == CHOOSE g : SumEq(g, f, S)
<1>0. \A s \in SUBSET S : s # {} => Pick(s) \in s
  BY DEF Pick
<1>1. SumEq(h, f, S)
  <2>1. ASSUME NEW s \in SUBSET S
        PROVE  h[s] = IF s = {} THEN 0 ELSE f[Pick(s)] + h[s \ {Pick(s)}]
    <3>1. CASE s = {}
      BY <3>1, FS_EmptySet DEF Units
    <3>2. CASE s # {}
      <4>1. IsFiniteSet(s) /\ Pick(s) \in s
        BY <1>0, <3>2, FS_Subset
      <4>2. Cardinality(Units(f, s)) = f[Pick(s)] + Cardinality(Units(f, s \ {Pick(s)}))
        BY <4>1, UnitsAdd
      <4> QED  BY <3>2, <4>2
    <3> QED  BY <3>1, <3>2
  <2> QED  BY <2>1 DEF SumEq
<1>2. SumEq(g, f, S)
  BY <1>1
<1> DEFINE G == {T \in SUBSET S : g[T] = h[T]}
<1> HIDE DEF g, h
<1>3. {} \in G
  BY <1>1, <1>2 DEF SumEq
<1>4. ASSUME NEW T \in SUBSET S, T # {}, \A x \in T : T \ {x} \in G
      PROVE  T \in G
  <2>1. T \ {Pick(T)} \in SUBSET S /\ g[T \ {Pick(T)}] = h[T \ {Pick(T)}]
    BY <1>0, <1>4
  <2>2. g[T] = f[Pick(T)] + g[T \ {Pick(T)}]
    BY <1>2, <1>4 DEF SumEq
  <2>3. h[T] = f[Pick(T)] + h[T \ {Pick(T)}]
    BY <1>1, <1>4 DEF SumEq
  <2> QED  BY <2>1, <2>2, <2>3
<1>5. S \in G
  <2> HIDE DEF G
  <2> QED BY <1>3, <1>4, SetInduction
<1>6. g[S] = h[S]
  BY <1>5
<1> QED  BY <1>6, SumUnfold DEF g, h

------------------------------------------------------------------------------

\* A sum of natural numbers is one.
LEMMA SumType ==
    ASSUME NEW S, IsFiniteSet(S), NEW f, \A x \in S : f[x] \in Nat
    PROVE  SumFunctionOnSet(f, S) \in Nat
BY SumIsUnits, UnitsFinite

LEMMA SumEmpty ==
    ASSUME NEW f
    PROVE  SumFunctionOnSet(f, {}) = 0
<1>1. SumFunctionOnSet(f, {}) = Cardinality(Units(f, {}))
  BY SumIsUnits, FS_EmptySet
<1> QED
  BY <1>1, FS_EmptySet DEF Units

\* One element apart: the sum is what it has and what the others have.
LEMMA SumRemove ==
    ASSUME NEW S, IsFiniteSet(S), NEW f, \A x \in S : f[x] \in Nat, NEW x \in S
    PROVE  /\ SumFunctionOnSet(f, S) = f[x] + SumFunctionOnSet(f, S \ {x})
           /\ SumFunctionOnSet(f, S \ {x}) \in Nat
           /\ f[x] <= SumFunctionOnSet(f, S)
<1>1. IsFiniteSet(S \ {x})
  BY FS_RemoveElement
<1>2. SumFunctionOnSet(f, S \ {x}) = Cardinality(Units(f, S \ {x}))
  BY <1>1, SumIsUnits
<1>3. SumFunctionOnSet(f, S \ {x}) \in Nat
  BY <1>1, SumType
<1> QED
  BY <1>2, <1>3, SumIsUnits, UnitsAdd

\* One element more.
LEMMA SumAdd ==
    ASSUME NEW S, IsFiniteSet(S), NEW f, NEW x, x \notin S,
           \A y \in S \cup {x} : f[y] \in Nat
    PROVE  /\ IsFiniteSet(S \cup {x})
           /\ SumFunctionOnSet(f, S \cup {x}) = f[x] + SumFunctionOnSet(f, S)
<1>1. IsFiniteSet(S \cup {x}) /\ (S \cup {x}) \ {x} = S
  BY FS_AddElement
<1> QED
  BY <1>1, SumRemove

\* The sum depends on the values only.
LEMMA SumSame ==
    ASSUME NEW S, IsFiniteSet(S), NEW f, NEW g,
           \A x \in S : f[x] \in Nat /\ g[x] = f[x]
    PROVE  SumFunctionOnSet(g, S) = SumFunctionOnSet(f, S)
<1>1. Units(f, S) = Units(g, S)
  BY DEF Units
<1> QED
  BY <1>1, SumIsUnits

\* One value changes: so does the sum, by as much.
LEMMA SumChange ==
    ASSUME NEW S, IsFiniteSet(S), NEW f, NEW g, NEW x \in S,
           \A y \in S : f[y] \in Nat /\ g[y] \in Nat,
           \A y \in S \ {x} : g[y] = f[y]
    PROVE  /\ SumFunctionOnSet(f, S) \in Nat
           /\ SumFunctionOnSet(g, S) \in Nat
           /\ SumFunctionOnSet(g, S) + f[x] = SumFunctionOnSet(f, S) + g[x]
<1>1. SumFunctionOnSet(g, S \ {x}) = SumFunctionOnSet(f, S \ {x})
  BY SumSame, FS_RemoveElement
<1>2. /\ SumFunctionOnSet(f, S) = f[x] + SumFunctionOnSet(f, S \ {x})
      /\ SumFunctionOnSet(f, S \ {x}) \in Nat
  BY SumRemove
<1>3. SumFunctionOnSet(g, S) = g[x] + SumFunctionOnSet(g, S \ {x})
  BY SumRemove
<1>4. SumFunctionOnSet(f, S) \in Nat /\ SumFunctionOnSet(g, S) \in Nat
  BY SumType
<1> QED
  BY <1>1, <1>2, <1>3, <1>4

LEMMA SumZero ==
    ASSUME NEW S, IsFiniteSet(S), NEW f, \A x \in S : f[x] = 0
    PROVE  SumFunctionOnSet(f, S) = 0
<1>1. Units(f, S) = {}
  <2>1. \A x \in S : 1..f[x] = {}
    OBVIOUS
  <2> QED
    BY <2>1 DEF Units
<1> QED
  BY <1>1, SumIsUnits, FS_EmptySet

\* Zeros may be left out.
LEMMA SumExtend ==
    ASSUME NEW S, IsFiniteSet(S), NEW T \in SUBSET S, NEW f, NEW g,
           \A x \in T : f[x] \in Nat /\ g[x] = f[x],
           \A x \in S \ T : g[x] = 0
    PROVE  SumFunctionOnSet(g, S) = SumFunctionOnSet(f, T)
<1>1. IsFiniteSet(T)
  BY FS_Subset
<1>2. \A x \in S : g[x] \in Nat
  OBVIOUS
<1>3. Units(g, S) = Units(f, T)
  <2>1. \A x \in S \ T : 1..g[x] = {}
    OBVIOUS
  <2> QED
    BY <2>1 DEF Units
<1> QED
  BY <1>1, <1>2, <1>3, SumIsUnits

\* A part of the set has no larger sum.
LEMMA SumSubset ==
    ASSUME NEW S, IsFiniteSet(S), NEW T \in SUBSET S, NEW f,
           \A x \in S : f[x] \in Nat
    PROVE  SumFunctionOnSet(f, T) <= SumFunctionOnSet(f, S)
<1>1. IsFiniteSet(T)
  BY FS_Subset
<1>2. Units(f, T) \subseteq Units(f, S)
  BY DEF Units
<1>3. Cardinality(Units(f, T)) <= Cardinality(Units(f, S))
  BY <1>2, UnitsFinite, FS_Subset
<1> QED
  BY <1>1, <1>3, SumIsUnits

Where(here, d) == IF here THEN d ELSE 0

\* One entry of a finite table changes, and so does its sum.
LEMMA SumAdded ==
    ASSUME NEW A, IsFiniteSet(A), NEW f, NEW g, NEW a, NEW d \in Int,
           \A x \in A : /\ f[x] \in Nat /\ g[x] \in Nat
                        /\ g[x] = f[x] + Where(x = a, d),
           a \in A \/ d = 0
    PROVE  /\ SumFunctionOnSet(f, A) \in Nat
           /\ SumFunctionOnSet(g, A) \in Nat
           /\ SumFunctionOnSet(g, A) = SumFunctionOnSet(f, A) + d
<1>1. CASE a \in A
  <2>1. /\ SumFunctionOnSet(f, A) \in Nat
        /\ SumFunctionOnSet(g, A) \in Nat
        /\ SumFunctionOnSet(g, A) + f[a] = SumFunctionOnSet(f, A) + g[a]
      BY <1>1, SumChange DEF Where
  <2>2. g[a] = f[a] + d /\ f[a] \in Nat
      BY <1>1 DEF Where
  <2> QED
      BY <2>1, <2>2
<1>2. CASE d = 0
  <2>1. \A x \in A : f[x] \in Nat /\ g[x] = f[x]
      BY <1>2 DEF Where
  <2>2. SumFunctionOnSet(g, A) = SumFunctionOnSet(f, A)
      BY <2>1, SumSame
  <2>3. SumFunctionOnSet(f, A) \in Nat
      BY <2>1, SumType
  <2> QED
      BY <1>2, <2>2, <2>3
<1> QED
    BY <1>1, <1>2

\* Two sums at once.
LEMMA SumPlus ==
    ASSUME NEW S, IsFiniteSet(S), NEW f, NEW g, NEW h,
           \A x \in S : f[x] \in Nat /\ g[x] \in Nat /\ h[x] = f[x] + g[x]
    PROVE  SumFunctionOnSet(h, S) =
               SumFunctionOnSet(f, S) + SumFunctionOnSet(g, S)
<1> DEFINE G == {T \in SUBSET S : SumFunctionOnSet(h, T) =
                     SumFunctionOnSet(f, T) + SumFunctionOnSet(g, T)}
<1>1. {} \in G
  BY SumEmpty
<1>2. ASSUME NEW T \in SUBSET S, T # {}, \A x \in T : T \ {x} \in G
      PROVE  T \in G
  <2>1. PICK x \in T : T \ {x} \in G
    BY <1>2
  <2>2. IsFiniteSet(T) /\ \A y \in T : h[y] \in Nat
    BY FS_Subset
  <2>3. /\ SumFunctionOnSet(f, T) = f[x] + SumFunctionOnSet(f, T \ {x})
        /\ SumFunctionOnSet(f, T \ {x}) \in Nat
    BY <2>2, SumRemove
  <2>4. /\ SumFunctionOnSet(g, T) = g[x] + SumFunctionOnSet(g, T \ {x})
        /\ SumFunctionOnSet(g, T \ {x}) \in Nat
    BY <2>2, SumRemove
  <2>5. SumFunctionOnSet(h, T) = h[x] + SumFunctionOnSet(h, T \ {x})
    BY <2>2, SumRemove
  <2>6. SumFunctionOnSet(h, T \ {x}) =
            SumFunctionOnSet(f, T \ {x}) + SumFunctionOnSet(g, T \ {x})
    BY <2>1
  <2>7. f[x] \in Nat /\ g[x] \in Nat /\ h[x] = f[x] + g[x]
    OBVIOUS
  <2> QED
    BY <2>3, <2>4, <2>5, <2>6, <2>7
<1>3. S \in G
  <2> HIDE DEF G
  <2> QED BY <1>1, <1>2, SetInduction
<1> QED
  BY <1>3

\* A factor of every value is one of the sum.
LEMMA SumScale ==
    ASSUME NEW S, IsFiniteSet(S), NEW f, NEW g, NEW c \in Nat,
           \A x \in S : f[x] \in Nat /\ g[x] = f[x] * c
    PROVE  SumFunctionOnSet(g, S) = SumFunctionOnSet(f, S) * c
<1> DEFINE G == {T \in SUBSET S :
                    SumFunctionOnSet(g, T) = SumFunctionOnSet(f, T) * c}
<1>1. {} \in G
  BY SumEmpty
<1>2. ASSUME NEW T \in SUBSET S, T # {}, \A x \in T : T \ {x} \in G
      PROVE  T \in G
  <2>1. PICK x \in T : T \ {x} \in G
    BY <1>2
  <2>2. IsFiniteSet(T) /\ \A y \in T : f[y] \in Nat /\ g[y] \in Nat
    <3>1. \A y \in S : f[y] * c \in Nat
      OBVIOUS
    <3> QED
      BY <3>1, FS_Subset
  <2>3. /\ SumFunctionOnSet(f, T) = f[x] + SumFunctionOnSet(f, T \ {x})
        /\ SumFunctionOnSet(f, T \ {x}) \in Nat
    BY <2>2, SumRemove
  <2>4. SumFunctionOnSet(g, T) = g[x] + SumFunctionOnSet(g, T \ {x})
    BY <2>2, SumRemove
  <2>5. SumFunctionOnSet(g, T \ {x}) = SumFunctionOnSet(f, T \ {x}) * c
    BY <2>1
  <2>6. f[x] \in Nat /\ g[x] = f[x] * c
    OBVIOUS
  <2>7. \A a, b \in Nat : (a + b) * c = a * c + b * c
    OBVIOUS
  <2>8. SumFunctionOnSet(f, T) * c = f[x] * c + SumFunctionOnSet(f, T \ {x}) * c
    BY <2>3, <2>6, <2>7
  <2> QED
    BY <2>4, <2>5, <2>6, <2>8
<1>3. S \in G
  <2> HIDE DEF G
  <2> QED BY <1>1, <1>2, SetInduction
<1> QED
  BY <1>3

\* Smaller values have no larger sum.
LEMMA SumLeq ==
    ASSUME NEW S, IsFiniteSet(S), NEW f, NEW g,
           \A x \in S : f[x] \in Nat /\ g[x] \in Nat /\ f[x] <= g[x]
    PROVE  SumFunctionOnSet(f, S) <= SumFunctionOnSet(g, S)
<1> DEFINE d == [x \in S |-> g[x] - f[x]]
<1>1. \A x \in S : f[x] \in Nat /\ d[x] \in Nat /\ g[x] = f[x] + d[x]
  OBVIOUS
<1> HIDE DEF d
<1>2. SumFunctionOnSet(g, S) = SumFunctionOnSet(f, S) + SumFunctionOnSet(d, S)
  BY <1>1, SumPlus
<1>3. SumFunctionOnSet(f, S) \in Nat /\ SumFunctionOnSet(d, S) \in Nat
  BY <1>1, SumType
<1> QED
  BY <1>2, <1>3

\* Ones count.
LEMMA SumOfOnes ==
    ASSUME NEW S, IsFiniteSet(S), NEW f, \A x \in S : f[x] = 1
    PROVE  SumFunctionOnSet(f, S) = Cardinality(S)
<1> DEFINE G == {T \in SUBSET S : SumFunctionOnSet(f, T) = Cardinality(T)}
<1>1. {} \in G
  BY SumEmpty, FS_EmptySet
<1>2. ASSUME NEW T \in SUBSET S, T # {}, \A x \in T : T \ {x} \in G
      PROVE  T \in G
  <2>1. PICK x \in T : T \ {x} \in G
    BY <1>2
  <2>2. IsFiniteSet(T) /\ \A y \in T : f[y] \in Nat
    BY FS_Subset
  <2>3. SumFunctionOnSet(f, T) = f[x] + SumFunctionOnSet(f, T \ {x})
    BY <2>2, SumRemove
  <2>4. /\ Cardinality(T \ {x}) = Cardinality(T) - 1
        /\ Cardinality(T) \in Nat
    BY <2>2, FS_RemoveElement, FS_CardinalityType
  <2> QED
    BY <2>1, <2>3, <2>4
<1>3. S \in G
  <2> HIDE DEF G
  <2> QED BY <1>1, <1>2, SetInduction
<1> QED
  BY <1>3

\* The sum of the sums of the rows is that of the columns.
LEMMA SumSwap ==
    ASSUME NEW S, IsFiniteSet(S), NEW R, IsFiniteSet(R), NEW f,
           \A x \in S, y \in R : f[x][y] \in Nat
    PROVE  SumFunctionOnSet([x \in S |-> SumFunctionOnSet(f[x], R)], S) =
           SumFunctionOnSet(
               [y \in R |-> SumFunctionOnSet([x \in S |-> f[x][y]], S)], R)
<1> DEFINE Row(x) == SumFunctionOnSet(f[x], R)
           Column(y, T) == SumFunctionOnSet([x \in S |-> f[x][y]], T)
           Rows == [x \in S |-> Row(x)]
           Columns(T) == [y \in R |-> Column(y, T)]
           G == {T \in SUBSET S : SumFunctionOnSet(Rows, T) =
                                      SumFunctionOnSet(Columns(T), R)}
<1>0. ASSUME NEW T \in SUBSET S
      PROVE  /\ IsFiniteSet(T)
             /\ \A x \in S : Row(x) \in Nat /\ Rows[x] = Row(x)
             /\ \A y \in R : Column(y, T) \in Nat /\ Columns(T)[y] = Column(y, T)
             /\ \A y \in R : \A x \in T :
                    Column(y, T) = f[x][y] + Column(y, T \ {x})
  <2>1. IsFiniteSet(T)
    BY FS_Subset
  <2>2. ASSUME NEW x \in S PROVE Row(x) \in Nat
    BY SumType
  <2>3. ASSUME NEW y \in R PROVE Column(y, T) \in Nat
    <3>1. \A x \in T : [u \in S |-> f[u][y]][x] \in Nat
      OBVIOUS
    <3> QED
      BY <2>1, <3>1, SumType
  <2>4. ASSUME NEW y \in R, NEW x \in T
        PROVE  Column(y, T) = f[x][y] + Column(y, T \ {x})
    <3> DEFINE c == [u \in S |-> f[u][y]]
    <3>1. (\A u \in T : c[u] \in Nat) /\ c[x] = f[x][y]
      OBVIOUS
    <3> HIDE DEF c
    <3>2. SumFunctionOnSet(c, T) = c[x] + SumFunctionOnSet(c, T \ {x})
      BY <2>1, <3>1, SumRemove
    <3> QED
      BY <3>1, <3>2 DEF c
  <2> QED
    BY <2>1, <2>2, <2>3, <2>4
<1> HIDE DEF Row, Column
<1>1. {} \in G
  <2>1. \A y \in R : Columns({})[y] = 0
    BY SumEmpty DEF Column
  <2>2. SumFunctionOnSet(Columns({}), R) = 0
    BY <2>1, SumZero
  <2> QED
    BY <2>2, SumEmpty
<1>2. ASSUME NEW T \in SUBSET S, T # {}, \A x \in T : T \ {x} \in G
      PROVE  T \in G
  <2>1. PICK x \in T : T \ {x} \in G
    BY <1>2
  <2>2. SumFunctionOnSet(Rows, T) = Row(x) + SumFunctionOnSet(Rows, T \ {x})
    BY <1>0, SumRemove
  <2>3. \A y \in R : /\ f[x][y] \in Nat
                     /\ Columns(T \ {x})[y] \in Nat
                     /\ Columns(T)[y] = f[x][y] + Columns(T \ {x})[y]
    BY <1>0
  <2>4. SumFunctionOnSet(Columns(T), R) =
            SumFunctionOnSet(f[x], R) + SumFunctionOnSet(Columns(T \ {x}), R)
    <3> HIDE DEF Columns
    <3> QED
      BY <2>3, SumPlus
  <2>5. Row(x) = SumFunctionOnSet(f[x], R)
    BY DEF Row
  <2> HIDE DEF Rows, Columns
  <2> QED
    BY <2>1, <2>2, <2>4, <2>5
<1>3. S \in G
  <2> HIDE DEF G
  <2> QED BY <1>1, <1>2, SetInduction
<1> QED
  BY <1>3 DEF Row, Column

\* The elements that have a key in R are finitely many, so is R.
LEMMA KeysFinite ==
    ASSUME NEW S, IsFiniteSet(S), NEW key, NEW R,
           \A r \in R : \E x \in S : key[x] = r
    PROVE  IsFiniteSet(R)
<1>1. CASE R = {}
  BY <1>1, FS_EmptySet
<1>2. CASE R # {}
  <2>1. PICK r0 \in R : TRUE
    BY <1>2
  <2> DEFINE h == [x \in S |-> IF key[x] \in R THEN key[x] ELSE r0]
  <2>2. h \in Surjection(S, R)
    BY <2>1 DEF Surjection
  <2> QED
    BY <2>2, FS_Surjection
<1> QED
  BY <1>1, <1>2

\* The members of S with one key.
Group(S, key, r) == {x \in S : key[x] = r}

\* The keys of S are in R, and g sums f by them.
SumsByKey(g, R, key, f, S) ==
    /\ IsFiniteSet(S) /\ IsFiniteSet(R)
    /\ \A x \in S : f[x] \in Nat /\ key[x] \in R
    /\ \A r \in R : g[r] = SumFunctionOnSet(f, Group(S, key, r))

\* Summed by keys, a sum is the same.
LEMMA SumGroups ==
    ASSUME NEW S, NEW R, NEW f, NEW key, NEW g, SumsByKey(g, R, key, f, S)
    PROVE  SumFunctionOnSet(g, R) = SumFunctionOnSet(f, S)
<1>0. /\ IsFiniteSet(S) /\ IsFiniteSet(R)
      /\ \A x \in S : f[x] \in Nat /\ key[x] \in R
      /\ \A r \in R : g[r] = SumFunctionOnSet(f, Group(S, key, r))
  BY DEF SumsByKey
<1> DEFINE h == [x \in S |-> [r \in R |-> Where(key[x] = r, f[x])]]
           row == [x \in S |-> SumFunctionOnSet(h[x], R)]
           at(r) == [x \in S |-> h[x][r]]
           column == [r \in R |-> SumFunctionOnSet(at(r), S)]
<1>1. /\ \A x \in S, r \in R : h[x][r] = IF key[x] = r THEN f[x] ELSE 0
      /\ \A x \in S, r \in R : h[x][r] \in Nat
  BY <1>0 DEF Where
<1>2. SumFunctionOnSet(row, S) = SumFunctionOnSet(column, R)
  <2>1. PICK table : table = h
    OBVIOUS
  <2>2. \A x \in S, r \in R : table[x][r] \in Nat
    BY <1>1, <2>1
  <2>3. SumFunctionOnSet([x \in S |-> SumFunctionOnSet(table[x], R)], S) =
        SumFunctionOnSet(
            [r \in R |-> SumFunctionOnSet([x \in S |-> table[x][r]], S)], R)
    <3> HIDE DEF h
    <3>1. IsFiniteSet(S) /\ IsFiniteSet(R)
      BY <1>0
    <3> QED
      BY ONLY <2>2, <3>1, SumSwap
  <2> QED
    BY <2>1, <2>3
<1>3. SumFunctionOnSet(row, S) = SumFunctionOnSet(f, S)
  <2>1. ASSUME NEW x \in S
        PROVE  row[x] = f[x]
    <3>1. PICK line : line = h[x]
      OBVIOUS
    <3>2. /\ \A r \in R : line[r] \in Nat
          /\ line[key[x]] = f[x]
          /\ \A r \in R \ {key[x]} : line[r] = 0
      BY <1>0, <1>1, <3>1
    <3>3. SumFunctionOnSet(line, R)
              = line[key[x]] + SumFunctionOnSet(line, R \ {key[x]})
      BY <1>0, <3>2, SumRemove
    <3>4. SumFunctionOnSet(line, R \ {key[x]}) = 0
      BY <1>0, <3>2, SumZero, FS_RemoveElement
    <3> QED
      BY <1>0, <3>1, <3>2, <3>3, <3>4
  <2> HIDE DEF row
  <2> QED
    BY <1>0, <2>1, SumSame
<1>4. SumFunctionOnSet(column, R) = SumFunctionOnSet(g, R)
  <2>1. ASSUME NEW r \in R
        PROVE  column[r] = g[r] /\ g[r] \in Nat
    <3> DEFINE T == Group(S, key, r)
    <3>1. PICK line : line = at(r)
      OBVIOUS
    <3>2. /\ \A x \in T : f[x] \in Nat /\ line[x] = f[x]
          /\ \A x \in S \ T : line[x] = 0
      BY <1>0, <1>1, <3>1 DEF Group
    <3>3. SumFunctionOnSet(line, S) = SumFunctionOnSet(f, T)
      <4> HIDE DEF T
      <4>1. T \in SUBSET S
        BY DEF T, Group
      <4> QED
        BY <1>0, <3>2, <4>1, SumExtend
    <3>4. SumFunctionOnSet(f, T) \in Nat
      BY <1>0, <3>2, SumType, FS_Subset DEF Group
    <3> QED
      BY <1>0, <3>1, <3>3, <3>4
  <2> HIDE DEF column
  <2> QED
    BY <1>0, <2>1, SumSame
<1> QED
  BY <1>2, <1>3, <1>4

\* The sum of one.
LEMMA SumOne ==
    ASSUME NEW f, NEW x, f[x] \in Nat
    PROVE  SumFunctionOnSet(f, {x}) = f[x]
<1>1. IsFiniteSet({x}) /\ {x} \ {x} = {}
  BY FS_Singleton
<1> QED
  BY <1>1, SumRemove, SumEmpty

------------------------------------------------------------------------------
(* What is known of quotients and products of naturals. *)

LEMMA DivFacts ==
  ASSUME NEW a \in Nat, NEW b \in Nat \ {0}
  PROVE  /\ a \div b \in Nat
         /\ b * (a \div b) <= a
         /\ a < b * (a \div b) + b
  OBVIOUS

LEMMA ProductLeq ==
  ASSUME NEW a \in Nat, NEW b \in Nat, NEW c \in Nat, a <= b
  PROVE  a * c <= b * c /\ c * a <= c * b /\ a * c \in Nat
  OBVIOUS

LEMMA ProductCancel ==
  ASSUME NEW a \in Nat, NEW b \in Nat, NEW c \in Nat, c * a < c * b
  PROVE  a < b
  OBVIOUS

LEMMA ProductAssoc ==
  ASSUME NEW a \in Int, NEW b \in Int, NEW c \in Int
  PROVE  a * (b * c) = (a * b) * c
  OBVIOUS

LEMMA DivAtMost ==
  ASSUME NEW a \in Nat, NEW b \in Nat \ {0}, NEW t \in Nat, a < b * t + b
  PROVE  a \div b <= t
<1> DEFINE q == a \div b
<1>1. q \in Nat /\ b * q <= a
  BY DivFacts
<1> HIDE DEF q
<1>2. b * q < b * (t + 1)
  BY <1>1
<1>3. q < t + 1
  BY <1>1, <1>2, ProductCancel
<1> QED
  BY <1>1, <1>3 DEF q

------------------------------------------------------------------------------
(* The recursions of Decimals have a solution, which is found step by step *)
(* on 0..m.  Both are of the form                                          *)
(*     f = [n \in Nat |-> IF n < a THEN 1 ELSE r * f[g[n]]]                *)
(* with g[n] < n.                                                          *)

UpTo(f, a, r, g, m) ==
    \A n \in 0..m : f[n] = IF n < a THEN 1 ELSE r * f[g[n]]

LEMMA UpToExists ==
  ASSUME NEW a \in Nat \ {0}, NEW r \in Nat, NEW g \in [Nat -> Nat],
         \A n \in Nat : n >= a => g[n] < n,
         NEW m \in Nat
  PROVE  \E f : UpTo(f, a, r, g, m)
<1> DEFINE G == {k \in Nat : \E f : UpTo(f, a, r, g, k)}
<1>1. 0 \in G
  <2> DEFINE f == [n \in 0..0 |-> 1]
  <2>1. UpTo(f, a, r, g, 0)
    BY DEF UpTo
  <2> QED
    BY <2>1
<1>2. ASSUME NEW k \in 0..m, k # 0, k - 1 \in G  PROVE k \in G
  <2>1. PICK f : UpTo(f, a, r, g, k - 1)
    BY <1>2
  <2> DEFINE h == [n \in 0..k |-> IF n < k THEN f[n]
                                  ELSE IF n < a THEN 1 ELSE r * f[g[n]]]
  <2>2. ASSUME NEW n \in 0..k
        PROVE  h[n] = IF n < a THEN 1 ELSE r * h[g[n]]
    <3>1. n >= a => g[n] \in 0..(k - 1) /\ h[g[n]] = f[g[n]]
      OBVIOUS
    <3>2. n < k => f[n] = IF n < a THEN 1 ELSE r * f[g[n]]
      BY <2>1 DEF UpTo
    <3> QED
      BY <3>1, <3>2
  <2>3. UpTo(h, a, r, g, k)
    <3> HIDE DEF h
    <3> QED
      BY <2>2 DEF UpTo
  <2> QED
    BY <2>3
<1> QED
  <2> HIDE DEF G
  <2>1. m \in G
    BY <1>1, <1>2, RangeInduction
  <2> QED
    BY <2>1 DEF G

LEMMA UpToAgree ==
  ASSUME NEW a \in Nat \ {0}, NEW r \in Nat, NEW g \in [Nat -> Nat],
         \A n \in Nat : n >= a => g[n] < n,
         NEW m \in Nat, NEW k \in Nat, NEW f, NEW h,
         UpTo(f, a, r, g, m), UpTo(h, a, r, g, k),
         NEW i \in Nat, i <= m, i <= k
  PROVE  f[i] = h[i]
<1> DEFINE G == {n \in Nat : \A j \in 0..n : f[j] = h[j]}
<1>1. 0 \in G
  BY DEF UpTo
<1>2. ASSUME NEW n \in 0..i, n # 0, n - 1 \in G  PROVE n \in G
  <2>1. ASSUME NEW j \in 0..n  PROVE f[j] = h[j]
    <3>1. f[j] = IF j < a THEN 1 ELSE r * f[g[j]]
      BY DEF UpTo
    <3>2. h[j] = IF j < a THEN 1 ELSE r * h[g[j]]
      BY DEF UpTo
    <3>3. j >= a => g[j] \in 0..(n - 1)
      OBVIOUS
    <3> QED
      BY <1>2, <3>1, <3>2, <3>3
  <2> QED
    BY <2>1
<1> QED
  <2>1. i \in G
    <3> HIDE DEF G
    <3> QED
      BY <1>1, <1>2, RangeInduction
  <2> QED
    BY <2>1

LEMMA RecursionSolution ==
  ASSUME NEW a \in Nat \ {0}, NEW r \in Nat, NEW g \in [Nat -> Nat],
         \A n \in Nat : n >= a => g[n] < n
  PROVE  \E f : f = [n \in Nat |-> IF n < a THEN 1 ELSE r * f[g[n]]]
<1> DEFINE F == [n \in Nat |-> (CHOOSE f : UpTo(f, a, r, g, n))[n]]
<1>1. ASSUME NEW n \in Nat
      PROVE  F[n] = IF n < a THEN 1 ELSE r * F[g[n]]
  <2> DEFINE f == CHOOSE f : UpTo(f, a, r, g, n)
             h == CHOOSE h : UpTo(h, a, r, g, g[n])
  <2>1. UpTo(f, a, r, g, n)
    BY UpToExists
  <2>2. UpTo(h, a, r, g, g[n])
    <3>1. g[n] \in Nat
      OBVIOUS
    <3> QED
      BY <3>1, UpToExists
  <2>3. F[n] = f[n] /\ F[g[n]] = h[g[n]]
    OBVIOUS
  <2> HIDE DEF f, h, F
  <2>4. n >= a => f[g[n]] = h[g[n]]
    <3> SUFFICES ASSUME n >= a PROVE f[g[n]] = h[g[n]]
      OBVIOUS
    <3>1. g[n] \in Nat /\ g[n] <= n
      OBVIOUS
    <3> QED
      BY <2>1, <2>2, <3>1, UpToAgree
  <2>5. f[n] = IF n < a THEN 1 ELSE r * f[g[n]]
    BY <2>1 DEF UpTo
  <2> QED
    BY <2>3, <2>4, <2>5
<1>2. F = [n \in Nat |-> F[n]]
  OBVIOUS
<1> HIDE DEF F
<1>3. F = [n \in Nat |-> IF n < a THEN 1 ELSE r * F[g[n]]]
  BY <1>1, <1>2
<1> QED
  BY <1>3

LEMMA ScaleDef ==
  \A k \in Nat : Scale[k] = IF k = 0 THEN 1 ELSE Radix * Scale[k - 1]
<1> DEFINE g == [n \in Nat |-> IF n = 0 THEN 0 ELSE n - 1]
           Eq(f) == f = [k \in Nat |-> IF k = 0 THEN 1 ELSE Radix * f[k - 1]]
<1>0. PICK a : a = 1
  OBVIOUS
<1>1. PICK f : f = [n \in Nat |-> IF n < a THEN 1 ELSE Radix * f[g[n]]]
  <2>1. g \in [Nat -> Nat] /\ \A n \in Nat : n >= a => g[n] < n
    BY <1>0
  <2>2. a \in Nat \ {0} /\ Radix \in Nat
    BY <1>0, DecimalsAssumption
  <2> HIDE DEF g
  <2> QED
    BY <2>1, <2>2, RecursionSolution
<1>2. Eq(f)
  <2>1. \A n \in Nat : (n < a) = (n = 0) /\ (n # 0 => g[n] = n - 1)
    BY <1>0
  <2>2. [n \in Nat |-> IF n < a THEN 1 ELSE Radix * f[g[n]]]
            = [k \in Nat |-> IF k = 0 THEN 1 ELSE Radix * f[k - 1]]
    <3> HIDE DEF g
    <3> QED
      BY <2>1
  <2> QED
    BY <1>1, <2>2
<1>3. Scale = CHOOSE h : Eq(h)
  BY DEF Scale
<1>4. Eq(Scale)
  <2> HIDE DEF Eq
  <2> QED
    BY <1>2, <1>3
<1>5. PICK h : h = [k \in Nat |-> IF k = 0 THEN 1 ELSE Radix * Scale[k - 1]]
  OBVIOUS
<1> QED
  BY <1>4, <1>5

LEMMA UlpDef ==
  ASSUME NEW n \in Nat, Exact \in Nat \ {0}
  PROVE  Ulp[n] = IF n < Exact THEN 1 ELSE Radix * Ulp[n \div Radix]
<1> USE DecimalsAssumption
<1> DEFINE g == [k \in Nat |-> k \div Radix]
           Eq(f) == f = [k \in Nat |-> IF k < Exact THEN 1
                                       ELSE Radix * f[k \div Radix]]
<1>0. ASSUME NEW k \in Nat
      PROVE  k \div Radix \in Nat /\ (k >= Exact => k \div Radix < k)
  <2>1. /\ k \div Radix \in Nat
        /\ Radix * (k \div Radix) <= k
    BY DivFacts
  <2>2. PICK q : q = k \div Radix
    OBVIOUS
  <2>3. q \in Nat /\ Radix * q <= k
    BY <2>1, <2>2
  <2>4. 2 * q <= Radix * q
    BY <2>3
  <2> QED
    BY <2>2, <2>3, <2>4
<1>1. PICK f : f = [k \in Nat |-> IF k < Exact THEN 1 ELSE Radix * f[g[k]]]
  <2>1. g \in [Nat -> Nat] /\ \A k \in Nat : k >= Exact => g[k] < k
    BY <1>0
  <2> HIDE DEF g
  <2> QED
    BY <2>1, RecursionSolution
<1>2. Eq(f)
  <2>1. \A k \in Nat : g[k] = k \div Radix
    OBVIOUS
  <2>2. [k \in Nat |-> IF k < Exact THEN 1 ELSE Radix * f[g[k]]]
            = [k \in Nat |-> IF k < Exact THEN 1 ELSE Radix * f[k \div Radix]]
    <3> HIDE DEF g
    <3> QED
      BY <2>1
  <2> QED
    BY <1>1, <2>2
<1>3. Ulp = CHOOSE h : Eq(h)
  BY DEF Ulp
<1>4. Eq(Ulp)
  <2> HIDE DEF Eq
  <2> QED
    BY <1>2, <1>3
<1>5. PICK h : h = [k \in Nat |-> IF k < Exact THEN 1
                                  ELSE Radix * Ulp[k \div Radix]]
  OBVIOUS
<1>6. Ulp = h
  BY <1>4, <1>5
<1> QED
  BY <1>5, <1>6

LEMMA ScaleFacts ==
  ASSUME NEW k \in Nat
  PROVE  /\ Scale[0] = 1
         /\ Scale[k] \in Nat \ {0}
         /\ Scale[k + 1] = Radix * Scale[k]
<1> DEFINE G == {n \in Nat : Scale[n] \in Nat \ {0}}
<1>1. Scale[0] = 1 /\ Scale[k + 1] = Radix * Scale[k]
  BY ScaleDef
<1>2. 0 \in G
  BY <1>1
<1>3. ASSUME NEW n \in 0..k, n # 0, n - 1 \in G  PROVE n \in G
  <2>1. Scale[n] = Radix * Scale[n - 1] /\ Scale[n - 1] \in Nat \ {0}
    BY <1>3, ScaleDef
  <2> QED
    BY <2>1, DecimalsAssumption
<1>4. k \in G
  <2> HIDE DEF G
  <2> QED
    BY <1>2, <1>3, RangeInduction
<1> QED
  BY <1>1, <1>4

LEMMA ScaleSum ==
  ASSUME NEW i \in Nat, NEW j \in Nat
  PROVE  Scale[i + j] = Scale[i] * Scale[j]
<1> DEFINE G == {n \in Nat : Scale[i + n] = Scale[i] * Scale[n]}
<1>1. 0 \in G
  BY ScaleFacts
<1>2. ASSUME NEW n \in 0..j, n # 0, n - 1 \in G  PROVE n \in G
  <2>1. /\ Scale[i + (n - 1)] = Scale[i] * Scale[n - 1]
        /\ (i + (n - 1)) + 1 = i + n /\ (n - 1) + 1 = n
    BY <1>2
  <2>2. /\ Scale[n] = Radix * Scale[n - 1]
        /\ Scale[i + n] = Radix * Scale[i + (n - 1)]
    <3>1. n - 1 \in Nat /\ i + (n - 1) \in Nat
      BY <1>2
    <3> QED
      BY <2>1, <3>1, ScaleFacts
  <2>3. Scale[i] \in Int /\ Scale[n - 1] \in Int /\ Radix \in Int
    BY <1>2, ScaleFacts, DecimalsAssumption
  <2>4. Radix * (Scale[i] * Scale[n - 1]) = Scale[i] * (Radix * Scale[n - 1])
    BY <2>3
  <2> QED
    BY <2>1, <2>2, <2>4
<1>3. j \in G
  <2> HIDE DEF G
  <2> QED
    BY <1>1, <1>2, RangeInduction
<1> QED
  BY <1>3

LEMMA ScaleMonotone ==
  ASSUME NEW i \in Nat, NEW j \in Nat, i <= j
  PROVE  Scale[i] <= Scale[j]
<1>1. PICK d \in Nat : j = i + d
  <2>1. j - i \in Nat /\ j = i + (j - i)
    OBVIOUS
  <2> QED
    BY <2>1
<1>2. Scale[j] = Scale[i] * Scale[d]
  BY <1>1, ScaleSum
<1>3. Scale[i] \in Nat /\ Scale[d] \in Nat /\ 1 <= Scale[d]
  BY ScaleFacts
<1>4. Scale[i] * 1 <= Scale[i] * Scale[d]
  BY <1>3, ProductLeq
<1> QED
  BY <1>2, <1>3, <1>4

\* What is kept is at least a digit, and a fraction of as many digits is exact.
LEMMA ExactFacts ==
  /\ Radix \in Nat /\ Radix >= 2
  /\ Exact \in Nat /\ Exact >= Radix
  /\ Parts \in Nat /\ Parts >= Exact
  /\ \E c \in Nat \ {0} : Parts = Exact * c
<1>1. Radix \in Nat /\ Radix >= 2 /\ Precision \in Nat /\ Precision >= 1
  BY DecimalsAssumption
<1>2. PartDigits \in Nat /\ Precision <= PartDigits
  BY DecimalsAssumption
<1>3. Exact \in Nat /\ Parts \in Nat
  BY <1>1, <1>2, ScaleFacts DEF Exact, Parts
<1>4. Scale[1] = Radix
  <2>1. Scale[0 + 1] = Radix * Scale[0] /\ Scale[0] = 1
    BY ScaleFacts
  <2> QED
    BY <1>1, <2>1
<1>5. Scale[1] <= Exact /\ Exact <= Parts
  BY <1>1, <1>2, ScaleMonotone DEF Exact, Parts
<1>6. \E c \in Nat \ {0} : Parts = Exact * c
  <2>1. PICK d \in Nat : PartDigits = Precision + d
    <3>1. /\ PartDigits - Precision \in Nat
          /\ PartDigits = Precision + (PartDigits - Precision)
      BY <1>1, <1>2
    <3> QED
      BY <3>1
  <2> QED
    BY <1>1, <2>1, ScaleSum, ScaleFacts DEF Exact, Parts
<1> QED
  BY <1>1, <1>3, <1>4, <1>5, <1>6

LEMMA UlpIsScale ==
  ASSUME NEW n \in Nat
  PROVE  \E k \in Nat :
             /\ Ulp[n] = Scale[k]
             /\ n < Exact * Scale[k]
             /\ k # 0 => Exact * Scale[k - 1] <= n
<1> USE ExactFacts
<1> DEFINE At(i, k) == /\ Ulp[i] = Scale[k]
                       /\ i < Exact * Scale[k]
                       /\ k # 0 => Exact * Scale[k - 1] <= i
           G == {m \in Nat : \A i \in 0..m : \E k \in Nat : At(i, k)}
<1>1. ASSUME NEW i \in Nat, i < Exact  PROVE At(i, 0)
  <2>1. Ulp[i] = 1
    BY <1>1, UlpDef
  <2>2. Scale[0] = 1
    BY ScaleFacts
  <2> QED
    BY <1>1, <2>1, <2>2
<1>2. ASSUME NEW i \in Nat, i >= Exact, NEW k \in Nat, At(i \div Radix, k)
      PROVE  At(i, k + 1)
  <2> DEFINE q == i \div Radix
  <2>1. q \in Nat /\ Radix * q <= i /\ i < Radix * q + Radix
    BY DivFacts
  <2>2. Ulp[i] = Radix * Ulp[q]
    BY <1>2, UlpDef
  <2> HIDE DEF q
  <2>3. Scale[k] \in Nat /\ Scale[k + 1] = Radix * Scale[k]
    BY ScaleFacts
  <2>4. At(q, k)
    BY <1>2 DEF q
  <2>5. i < Exact * Scale[k + 1]
    <3>1. q + 1 <= Exact * Scale[k] /\ Exact * Scale[k] \in Nat
      BY <2>1, <2>3, <2>4
    <3>2. Radix * (q + 1) <= Radix * (Exact * Scale[k])
      BY <2>1, <3>1, ProductLeq
    <3>3. Radix * (Exact * Scale[k]) = Exact * (Radix * Scale[k])
      BY <2>3
    <3>4. Radix * (q + 1) = Radix * q + Radix
      BY <2>1
    <3> QED
      BY <2>1, <2>3, <3>2, <3>3, <3>4
  <2>6. Exact * Scale[k] <= i
    <3>1. CASE k = 0
      <4>1. Scale[k] = 1
        BY <3>1, ScaleFacts
      <4> QED
        BY <1>2, <4>1
    <3>2. CASE k # 0
      <4>1. /\ Exact * Scale[k - 1] <= q
            /\ Scale[k - 1] \in Nat /\ Scale[k] = Radix * Scale[k - 1]
        <5>1. k - 1 \in Nat /\ (k - 1) + 1 = k
          BY <3>2
        <5> QED
          BY <2>4, <3>2, <5>1, ScaleFacts
      <4>2. Radix * (Exact * Scale[k - 1]) <= Radix * q
        <5>1. Exact * Scale[k - 1] \in Nat
          BY <4>1
        <5> QED
          BY <2>1, <4>1, <5>1, ProductLeq
      <4>3. Radix * (Exact * Scale[k - 1]) = Exact * (Radix * Scale[k - 1])
        BY <4>1
      <4> QED
        BY <2>1, <4>1, <4>2, <4>3
    <3> QED
      BY <3>1, <3>2
  <2>7. (k + 1) - 1 = k
    OBVIOUS
  <2> QED
    BY <2>2, <2>3, <2>4, <2>5, <2>6, <2>7
<1> HIDE DEF At
<1>3. 0 \in G
  <2>1. At(0, 0)
    BY <1>1
  <2> QED
    BY <2>1
<1>4. ASSUME NEW m \in 0..n, m # 0, m - 1 \in G  PROVE m \in G
  <2>1. ASSUME NEW i \in 0..m  PROVE \E k \in Nat : At(i, k)
    <3>1. CASE i < Exact
      BY <1>1, <3>1
    <3>2. CASE i >= Exact
      <4>1. PICK q : q = i \div Radix
        OBVIOUS
      <4>2. q \in 0..(m - 1)
        <5>1. q \in Nat /\ Radix * q <= i
          BY <4>1, DivFacts
        <5>2. 2 * q <= Radix * q
          BY <5>1
        <5> QED
          BY <3>2, <5>1, <5>2
      <4>3. PICK k \in Nat : At(q, k)
        BY <1>4, <4>2
      <4>4. At(i, k + 1)
        BY <1>2, <3>2, <4>1, <4>3
      <4> QED
        BY <4>4
    <3> QED
      BY <3>1, <3>2
  <2> QED
    BY <2>1
<1>5. n \in G
  <2> HIDE DEF G
  <2> QED
    BY <1>3, <1>4, RangeInduction
<1>6. PICK k \in Nat : At(n, k)
  BY <1>5
<1> QED
  BY <1>6 DEF At

LEMMA UlpType ==
  ASSUME NEW n \in Nat
  PROVE  Ulp[n] \in Nat \ {0} /\ (n < Exact => Ulp[n] = 1)
<1>1. \E k \in Nat : Ulp[n] = Scale[k]
  BY UlpIsScale
<1>2. Ulp[n] \in Nat \ {0}
  BY <1>1, ScaleFacts
<1> QED
  BY <1>2, UlpDef, ExactFacts

LEMMA UlpAtMost ==
  ASSUME NEW n \in Nat, NEW j \in Nat, n < Exact * Scale[j]
  PROVE  Ulp[n] <= Scale[j]
<1>1. PICK k \in Nat : /\ Ulp[n] = Scale[k]
                       /\ k # 0 => Exact * Scale[k - 1] <= n
  BY UlpIsScale
<1>2. k <= j
  <2> SUFFICES ASSUME k > j PROVE FALSE
    BY <1>1
  <2>1. k - 1 \in Nat /\ j <= k - 1 /\ k # 0
    OBVIOUS
  <2>2. Scale[j] \in Nat /\ Scale[k - 1] \in Nat /\ Scale[j] <= Scale[k - 1]
    BY <2>1, ScaleFacts, ScaleMonotone
  <2>3. Exact * Scale[j] <= Exact * Scale[k - 1]
    BY <2>2, ProductLeq, ExactFacts
  <2>4. Exact * Scale[j] \in Int /\ Exact * Scale[k - 1] \in Int
    BY <2>2, ExactFacts
  <2> QED
    BY <1>1, <2>1, <2>3, <2>4
<1> QED
  BY <1>1, <1>2, ScaleMonotone

LEMMA UlpMonotone ==
  ASSUME NEW n \in Nat, NEW m \in Nat, n <= m
  PROVE  Ulp[n] <= Ulp[m]
<1>1. PICK k \in Nat : Ulp[m] = Scale[k] /\ m < Exact * Scale[k]
  BY UlpIsScale
<1>2. Exact * Scale[k] \in Int
  BY ScaleFacts, ExactFacts
<1>3. n < Exact * Scale[k]
  BY <1>1, <1>2
<1> QED
  BY <1>1, <1>3, UlpAtMost

\* A fraction has no fewer digits than the number of its parts.
LEMMA UlpOfParts ==
  ASSUME NEW n \in Nat
  PROVE  Ulp[n * Parts] <= Parts * Ulp[n]
<1>1. PICK k \in Nat : Ulp[n] = Scale[k] /\ n < Exact * Scale[k]
  BY UlpIsScale
<1>2. PICK d \in Nat : d = PartDigits /\ Parts = Scale[d]
  BY DecimalsAssumption DEF Parts
<1>3. k + d \in Nat /\ Scale[k + d] = Scale[k] * Parts
  BY <1>2, ScaleSum
<1>4. Scale[k] \in Nat /\ Parts \in Nat /\ Parts >= 1 /\ Exact \in Nat
  BY <1>2, ScaleFacts, ExactFacts
<1>5. n * Parts < Exact * Scale[k + d]
  <2>1. n + 1 <= Exact * Scale[k] /\ Exact * Scale[k] \in Nat
    BY <1>1, <1>4
  <2>2. (n + 1) * Parts <= (Exact * Scale[k]) * Parts
    BY <1>4, <2>1, ProductLeq
  <2>3. (n + 1) * Parts = n * Parts + Parts
    BY <1>4
  <2>4. (Exact * Scale[k]) * Parts = Exact * (Scale[k] * Parts)
    BY <1>4, ProductAssoc
  <2>5. n * Parts \in Int /\ Exact * (Scale[k] * Parts) \in Int
    BY <1>4
  <2> QED
    BY <1>3, <1>4, <2>2, <2>3, <2>4, <2>5
<1>6. n * Parts \in Nat
  BY <1>4
<1>7. Ulp[n * Parts] <= Scale[k + d]
  BY <1>3, <1>5, <1>6, UlpAtMost
<1> QED
  BY <1>1, <1>3, <1>4, <1>7

LEMMA UlpSmall ==
  ASSUME NEW n \in Nat
  PROVE  Ulp[n] = 1 \/ Exact * Ulp[n] <= Radix * n
<1>1. PICK k \in Nat : /\ Ulp[n] = Scale[k]
                       /\ k # 0 => Exact * Scale[k - 1] <= n
  BY UlpIsScale
<1>2. CASE k = 0
  BY <1>1, <1>2, ScaleFacts
<1>3. CASE k # 0
  <2>1. k - 1 \in Nat /\ (k - 1) + 1 = k
    BY <1>3
  <2>2. Scale[k - 1] \in Nat /\ Scale[k] = Radix * Scale[k - 1]
    BY <2>1, ScaleFacts
  <2>3. Exact * Scale[k - 1] \in Nat
    BY <2>2, ExactFacts
  <2>4. Radix * (Exact * Scale[k - 1]) <= Radix * n
    BY <1>1, <1>3, <2>3, ProductLeq, ExactFacts
  <2>5. Radix * (Exact * Scale[k - 1]) = Exact * (Radix * Scale[k - 1])
    BY <2>2, ExactFacts
  <2> QED
    BY <1>1, <2>2, <2>4, <2>5
<1> QED
  BY <1>2, <1>3

------------------------------------------------------------------------------
(* Rounding. *)

\* a and b differ by at most half of u.
Near(a, b, u) == 2 * a - 2 * b <= u /\ 2 * b - 2 * a <= u

LEMMA RoundedDef ==
  ASSUME NEW n \in Nat
  PROVE  \E q \in Nat :
             /\ q = (2 * n + Ulp[n]) \div (2 * Ulp[n])
             /\ Rounded(n) = Ulp[n] * q
             /\ 2 * (Ulp[n] * q) <= 2 * n + Ulp[n]
             /\ 2 * n < 2 * (Ulp[n] * q) + Ulp[n]
<1>1. PICK u \in Nat \ {0} : u = Ulp[n]
  BY UlpType
<1>2. PICK q : q = (2 * n + u) \div (2 * u)
  OBVIOUS
<1>3. /\ q \in Nat /\ (2 * u) * q <= 2 * n + u
      /\ 2 * n + u < (2 * u) * q + 2 * u
  <2>1. 2 * n + u \in Nat /\ 2 * u \in Nat \ {0}
    OBVIOUS
  <2> QED
    BY <1>2, <2>1, DivFacts
<1>4. Rounded(n) = q * u /\ q * u = u * q /\ (2 * u) * q = 2 * (u * q)
  BY <1>1, <1>2, <1>3 DEF Rounded
<1>5. u * q \in Nat
  BY <1>3
<1> QED
  BY <1>1, <1>2, <1>3, <1>4, <1>5

LEMMA RoundedFacts ==
  ASSUME NEW n \in Nat
  PROVE  /\ Rounded(n) \in Nat
         /\ Near(Rounded(n), n, Ulp[n])
         /\ n < Exact => Rounded(n) = n
<1>1. PICK q \in Nat :
             /\ Rounded(n) = Ulp[n] * q
             /\ 2 * (Ulp[n] * q) <= 2 * n + Ulp[n]
             /\ 2 * n < 2 * (Ulp[n] * q) + Ulp[n]
  BY RoundedDef
<1>2. Ulp[n] \in Nat \ {0}
  BY UlpType
<1>3. Ulp[n] * q \in Nat
  BY <1>2
<1>4. ASSUME n < Exact  PROVE Rounded(n) = n
  <2>1. Ulp[n] = 1
    BY <1>4, UlpType
  <2> QED
    BY <1>1, <2>1
<1> QED
  BY <1>1, <1>2, <1>3, <1>4 DEF Near

\* Multiples of the last digit that is kept are not crossed.
LEMMA RoundedBelow ==
  ASSUME NEW n \in Nat, NEW t \in Nat, n <= Ulp[n] * t
  PROVE  Rounded(n) <= Ulp[n] * t
<1>1. PICK q \in Nat : /\ Rounded(n) = Ulp[n] * q
                       /\ 2 * (Ulp[n] * q) <= 2 * n + Ulp[n]
  BY RoundedDef
<1>2. PICK u \in Nat \ {0} : u = Ulp[n]
  BY UlpType
<1>3. u * q \in Nat /\ u * t \in Nat
  BY <1>2
<1>4. u * q < u * (t + 1)
  BY <1>1, <1>2, <1>3
<1>5. q <= t
  BY <1>4, ProductCancel
<1> QED
  BY <1>1, <1>2, <1>5, ProductLeq

LEMMA RoundedAbove ==
  ASSUME NEW n \in Nat, NEW t \in Nat, Ulp[n] * t <= n
  PROVE  Ulp[n] * t <= Rounded(n)
<1>1. PICK q \in Nat : /\ Rounded(n) = Ulp[n] * q
                       /\ 2 * n < 2 * (Ulp[n] * q) + Ulp[n]
  BY RoundedDef
<1>2. PICK u \in Nat \ {0} : u = Ulp[n]
  BY UlpType
<1>3. u * q \in Nat /\ u * t \in Nat
  BY <1>2
<1>4. u * t < u * (q + 1)
  BY <1>1, <1>2, <1>3
<1>5. t <= q
  BY <1>4, ProductCancel
<1> QED
  BY <1>1, <1>2, <1>5, ProductLeq

LEMMA RoundedMonotone ==
  ASSUME NEW a \in Nat, NEW b \in Nat, a <= b
  PROVE  Rounded(a) <= Rounded(b)
<1>1. Rounded(a) \in Nat /\ Rounded(b) \in Nat
  BY RoundedFacts
<1>2. CASE Ulp[a] = Ulp[b]
  <2>1. PICK u \in Nat \ {0} : u = Ulp[a]
    BY UlpType
  <2>2. PICK p \in Nat : /\ Rounded(a) = u * p
                         /\ 2 * (u * p) <= 2 * a + u
    BY <2>1, RoundedDef
  <2>3. PICK q \in Nat : /\ Rounded(b) = u * q
                         /\ 2 * b < 2 * (u * q) + u
    BY <1>2, <2>1, RoundedDef
  <2>4. u * p \in Nat /\ u * q \in Nat
    OBVIOUS
  <2>5. u * p < u * (q + 1)
    BY <2>2, <2>3, <2>4
  <2>6. p <= q
    BY <2>5, ProductCancel
  <2> QED
    BY <2>2, <2>3, <2>6, ProductLeq
<1>3. CASE Ulp[a] # Ulp[b]
  <2>1. PICK i \in Nat : Ulp[a] = Scale[i] /\ a < Exact * Scale[i]
    BY UlpIsScale
  <2>2. PICK j \in Nat : Ulp[b] = Scale[j] /\ (j # 0 => Exact * Scale[j - 1] <= b)
    BY UlpIsScale
  <2>3. Ulp[a] <= Ulp[b]
    BY UlpMonotone
  <2>4. i < j
    <3> SUFFICES ASSUME j <= i PROVE FALSE
      OBVIOUS
    <3>1. Scale[j] <= Scale[i] /\ Scale[j] \in Nat /\ Scale[i] \in Nat
      BY ScaleMonotone, ScaleFacts
    <3> QED
      BY <1>3, <2>1, <2>2, <2>3, <3>1
  <2>5. j - 1 \in Nat /\ (j - 1) + 1 = j /\ i <= j - 1
    BY <2>4
  <2>6. /\ Scale[j] = Radix * Scale[j - 1] /\ Scale[j - 1] \in Nat
        /\ Scale[i] \in Nat /\ Scale[i] <= Scale[j - 1]
    BY <2>5, ScaleFacts, ScaleMonotone
  <2>7. PICK p \in Nat : Exact = Radix * p
    <3>1. Precision - 1 \in Nat /\ (Precision - 1) + 1 = Precision
      BY DecimalsAssumption
    <3> QED
      BY <3>1, ScaleFacts DEF Exact
  <2>8. Rounded(a) <= Exact * Scale[i]
    <3>1. a <= Ulp[a] * Exact /\ Ulp[a] * Exact = Exact * Scale[i]
      BY <2>1, <2>6, ExactFacts
    <3> QED
      BY <3>1, RoundedBelow, ExactFacts
  <2>9. Exact * Scale[j - 1] <= Rounded(b)
    <3>1. Ulp[b] * p = Exact * Scale[j - 1]
      BY <2>2, <2>6, <2>7, ExactFacts
    <3>2. Ulp[b] * p <= b
      BY <2>2, <2>4, <3>1
    <3> QED
      BY <3>1, <3>2, RoundedAbove
  <2>10. Exact * Scale[i] <= Exact * Scale[j - 1]
    BY <2>6, ProductLeq, ExactFacts
  <2>11. Exact * Scale[i] \in Int /\ Exact * Scale[j - 1] \in Int
    BY <2>6, ExactFacts
  <2> QED
    BY <1>1, <2>8, <2>9, <2>10, <2>11
<1> QED
  BY <1>2, <1>3

LEMMA QuotientFacts ==
  ASSUME NEW a \in Nat, NEW b \in Nat, a < b
  PROVE  /\ Quotient(a, b) \in Nat
         /\ Quotient(a, b) <= Parts
         /\ \E u \in Nat : /\ u * Exact <= Parts
                           /\ Near(b * Quotient(a, b), a * Parts, b * u)
<1>1. PICK n : n = a * Parts
  OBVIOUS
<1>2. PICK N \in Nat : N = Parts
  BY ExactFacts
<1>3. n \in Nat /\ b \in Nat \ {0} /\ n + N <= b * N
  <2>1. (a + 1) * N <= b * N
    BY <1>2, ProductLeq
  <2> QED
    BY <1>1, <1>2, <2>1
<1>4. PICK d \in Nat : PartDigits = Precision + d
  <2>1. /\ PartDigits - Precision \in Nat
        /\ PartDigits = Precision + (PartDigits - Precision)
    BY DecimalsAssumption
  <2> QED
    BY <2>1
<1>5. N = Exact * Scale[d]
  BY <1>2, <1>4, ScaleSum, DecimalsAssumption DEF Exact, Parts
<1>6. n \div b \in Nat /\ n \div b < N
  <2>1. PICK m : m = n \div b
    OBVIOUS
  <2>2. m \in Nat /\ b * m <= n
    BY <1>3, <2>1, DivFacts
  <2>3. b * m < b * N
    BY <1>2, <1>3, <2>2, ExactFacts
  <2> QED
    BY <1>2, <2>1, <2>2, <2>3, ProductCancel
<1>7. PICK k \in Nat : Ulp[n \div b] = Scale[k] /\ k <= d
  <2>1. PICK k \in Nat : /\ Ulp[n \div b] = Scale[k]
                         /\ k # 0 => Exact * Scale[k - 1] <= n \div b
    BY <1>6, UlpIsScale
  <2>2. ASSUME k > d  PROVE FALSE
    <3>1. k - 1 \in Nat /\ d <= k - 1 /\ k # 0
      BY <2>2
    <3>2. /\ Scale[d] <= Scale[k - 1]
          /\ Scale[d] \in Nat /\ Scale[k - 1] \in Nat
      BY <3>1, ScaleMonotone, ScaleFacts
    <3>3. Exact * Scale[d] <= Exact * Scale[k - 1]
      BY <3>2, ProductLeq, ExactFacts
    <3>4. Exact * Scale[d] \in Int /\ Exact * Scale[k - 1] \in Int
      BY <3>2, ExactFacts
    <3> QED
      BY <1>5, <1>6, <2>1, <3>1, <3>3, <3>4
  <2> QED
    BY <2>1, <2>2
<1>8. PICK u \in Nat \ {0} : u = Ulp[n \div b]
  BY <1>6, UlpType
<1>9. u <= Scale[d] /\ Scale[d] \in Nat
  BY <1>7, <1>8, ScaleMonotone, ScaleFacts
<1>10. u * Exact <= N
  <2>1. u * Exact <= Scale[d] * Exact
    BY <1>9, ProductLeq, ExactFacts
  <2> QED
    BY <1>5, <1>9, <2>1, ExactFacts
<1>11. PICK t \in Nat : N = u * t
  <2>1. d - k \in Nat /\ d = k + (d - k)
    BY <1>7
  <2>2. Scale[d] = Scale[k] * Scale[d - k]
    BY <2>1, ScaleSum
  <2>3. Scale[d - k] \in Nat
    BY <2>1, ScaleFacts
  <2>4. Exact * (u * Scale[d - k]) = u * (Exact * Scale[d - k])
    BY <2>3, ExactFacts
  <2>5. Exact * Scale[d - k] \in Nat
    BY <2>3, ExactFacts
  <2> QED
    BY <1>5, <1>7, <1>8, <2>2, <2>4, <2>5
<1>12. PICK c \in Nat \ {0} : c = b * u
  <2>1. b * u \in Nat \ {0}
    BY <1>3
  <2> QED
    BY <2>1
<1>13. PICK q : q = (2 * n + c) \div (2 * c)
  OBVIOUS
<1>14. /\ q \in Nat /\ (2 * c) * q <= 2 * n + c
       /\ 2 * n + c < (2 * c) * q + 2 * c
  <2>1. 2 * n + c \in Nat /\ 2 * c \in Nat \ {0}
    BY <1>3
  <2> QED
    BY <1>13, <2>1, DivFacts
<1>15. Quotient(a, b) = q * u
  <2>1. 2 * b * u = 2 * c
    BY <1>12
  <2> QED
    BY <1>1, <1>8, <1>12, <1>13, <2>1 DEF Quotient
<1>16. q <= t
  <2>1. b * N = c * t
    BY <1>11, <1>12, ProductAssoc
  <2>2. c * t \in Nat /\ (2 * c) * t = 2 * (c * t)
    OBVIOUS
  <2>3. 2 * n + c < (2 * c) * t + 2 * c
    BY <1>3, <2>1, <2>2
  <2>4. 2 * n + c \in Nat /\ 2 * c \in Nat \ {0}
    BY <1>3
  <2> QED
    BY <1>13, <2>3, <2>4, DivAtMost
<1>17. q * u <= N /\ q * u \in Nat
  <2>1. q * u <= t * u
    BY <1>14, <1>16, ProductLeq
  <2> QED
    BY <1>11, <1>14, <2>1
<1>18. Near(b * (q * u), n, c)
  <2>1. b * (q * u) = c * q
    BY <1>12, <1>14
  <2>2. (2 * c) * q = 2 * (c * q) /\ c * q \in Nat
    BY <1>14
  <2> QED
    BY <1>3, <1>14, <2>1, <2>2 DEF Near
<1> QED
  BY <1>1, <1>2, <1>10, <1>12, <1>15, <1>17, <1>18

------------------------------------------------------------------------------
(* Elements added one after the other. *)

PartialSums(sum, list, m) ==
    \A i \in 0..m : sum[i] = IF i = 0 THEN 0 ELSE Plus(sum[i - 1], list[i])

LEMMA PartialSumsExist ==
  ASSUME NEW list, NEW m \in Nat
  PROVE  \E sum : PartialSums(sum, list, m)
<1> DEFINE G == {k \in Nat : \E sum : PartialSums(sum, list, k)}
<1>1. 0 \in G
  <2>1. PartialSums([i \in 0..0 |-> 0], list, 0)
    BY DEF PartialSums
  <2> QED
    BY <2>1
<1>2. ASSUME NEW k \in 0..m, k # 0, k - 1 \in G  PROVE k \in G
  <2>1. PICK f : PartialSums(f, list, k - 1)
    BY <1>2
  <2> DEFINE h == [i \in 0..k |-> IF i < k THEN f[i]
                                  ELSE Plus(f[k - 1], list[k])]
  <2>2. ASSUME NEW i \in 0..k
        PROVE  h[i] = IF i = 0 THEN 0 ELSE Plus(h[i - 1], list[i])
    <3>1. i # 0 => i - 1 \in 0..k /\ h[i - 1] = f[i - 1]
      OBVIOUS
    <3>2. i < k => f[i] = IF i = 0 THEN 0 ELSE Plus(f[i - 1], list[i])
      BY <2>1 DEF PartialSums
    <3> QED
      BY <1>2, <3>1, <3>2
  <2>3. PartialSums(h, list, k)
    <3> HIDE DEF h
    <3> QED
      BY <2>2 DEF PartialSums
  <2> QED
    BY <2>3
<1> QED
  <2> HIDE DEF G
  <2>1. m \in G
    BY <1>1, <1>2, RangeInduction
  <2> QED
    BY <2>1 DEF G

LEMMA RoundedSumDef ==
  ASSUME NEW list, Len(list) \in Nat
  PROVE  \E sum : /\ PartialSums(sum, list, Len(list))
                  /\ RoundedSum(list) = sum[Len(list)]
<1> DEFINE n == Len(list)
           Eq(f) == f = [i \in 0..n |-> IF i = 0 THEN 0
                                        ELSE Plus(f[i - 1], list[i])]
<1>1. PICK s : PartialSums(s, list, n)
  BY PartialSumsExist
<1>2. PICK f : f = [i \in 0..n |-> s[i]]
  OBVIOUS
<1>3. ASSUME NEW i \in 0..n
      PROVE  f[i] = IF i = 0 THEN 0 ELSE Plus(f[i - 1], list[i])
  <2>1. f[i] = s[i] /\ (i # 0 => f[i - 1] = s[i - 1])
    BY <1>2
  <2> QED
    BY <1>1, <2>1 DEF PartialSums
<1>4. Eq(f)
  <2>1. f = [i \in 0..n |-> f[i]]
    BY <1>2
  <2> QED
    BY <1>3, <2>1
<1>5. RoundedSum(list) = (CHOOSE h : Eq(h))[n]
  BY DEF RoundedSum
<1>6. PICK h : h = CHOOSE g : Eq(g)
  OBVIOUS
<1>7. Eq(h)
  <2> HIDE DEF Eq
  <2> QED
    BY <1>4, <1>6
<1>8. PartialSums(h, list, n)
  <2>1. PICK g : g = [i \in 0..n |-> IF i = 0 THEN 0
                                     ELSE Plus(h[i - 1], list[i])]
    OBVIOUS
  <2>2. h = g
    BY <1>7, <2>1
  <2> QED
    BY <2>1, <2>2 DEF PartialSums
<1> QED
  BY <1>5, <1>6, <1>8

LEMMA RoundedSumType ==
  ASSUME NEW n \in Nat, NEW list, Len(list) = n,
         \A i \in 1..n : list[i] \in Nat
  PROVE  RoundedSum(list) \in Nat
<1>1. PICK s : PartialSums(s, list, n) /\ RoundedSum(list) = s[n]
  BY RoundedSumDef
<1> DEFINE G == {i \in Nat : s[i] \in Nat}
<1>2. 0 \in G
  BY <1>1 DEF PartialSums
<1>3. ASSUME NEW i \in 0..n, i # 0, i - 1 \in G  PROVE i \in G
  <2>1. s[i] = Rounded(s[i - 1] + list[i])
    BY <1>1, <1>3 DEF PartialSums, Plus
  <2>2. s[i - 1] + list[i] \in Nat
    BY <1>3
  <2>3. Rounded(s[i - 1] + list[i]) \in Nat
    BY <2>2, RoundedFacts
  <2> QED
    BY <2>1, <2>3
<1>4. n \in G
  <2> HIDE DEF G
  <2> QED
    BY <1>2, <1>3, RangeInduction
<1> QED
  BY <1>1, <1>4

\* The elements of list are, nearly, what y grows by.  An addition may lose as
\* much as an element already has.
LEMMA RoundedSumNear ==
  ASSUME NEW n \in Nat, NEW list, Len(list) = n,
         NEW y, NEW M \in Nat, y[0] = 0,
         \A i \in 0..n : y[i] \in Nat /\ y[i] + n * Ulp[M] <= M,
         \A i \in 1..n : /\ list[i] \in Nat
                         /\ Near(list[i], y[i] - y[i - 1], Ulp[M])
  PROVE  /\ RoundedSum(list) - y[n] <= n * Ulp[M]
         /\ y[n] - RoundedSum(list) <= n * Ulp[M]
<1>1. PICK s : PartialSums(s, list, n) /\ RoundedSum(list) = s[n]
  BY RoundedSumDef
<1>2. PICK u \in Nat \ {0} : u = Ulp[M]
  BY UlpType
<1> DEFINE G == {i \in Nat : /\ s[i] \in Nat
                             /\ s[i] - y[i] <= i * u
                             /\ y[i] - s[i] <= i * u}
<1>3. 0 \in G
  <2>1. s[0] = 0
    BY <1>1 DEF PartialSums
  <2> QED
    BY <2>1
<1>4. ASSUME NEW i \in 0..n, i # 0, i - 1 \in G  PROVE i \in G
  <2>1. PICK x \in Nat : x = s[i - 1] + list[i]
    BY <1>4
  <2>2. s[i] = Rounded(x)
    BY <1>1, <1>4, <2>1 DEF PartialSums, Plus
  <2>3. /\ s[i - 1] \in Nat
        /\ s[i - 1] - y[i - 1] <= (i - 1) * u
        /\ y[i - 1] - s[i - 1] <= (i - 1) * u
    BY <1>4
  <2>4. y[i] \in Nat /\ y[i - 1] \in Nat /\ y[i] + n * u <= M
    BY <1>2, <1>4
  <2>5. list[i] \in Nat /\ Near(list[i], y[i] - y[i - 1], u)
    BY <1>2, <1>4
  <2>6. /\ (i - 1) * u = i * u - u /\ i * u \in Nat /\ n * u \in Nat
        /\ i * u <= n * u
    BY <1>4, ProductLeq
  <2>7. PICK s0 \in Nat, y0 \in Nat, y1 \in Nat, l \in Nat, v \in Nat, w \in Nat :
            /\ s0 = s[i - 1] /\ y0 = y[i - 1] /\ y1 = y[i] /\ l = list[i]
            /\ v = i * u /\ w = n * u
    BY <2>3, <2>4, <2>5, <2>6
  <2>a. /\ s0 - y0 <= v - u /\ y0 - s0 <= v - u /\ v <= w /\ y1 + w <= M
        /\ Near(l, y1 - y0, u) /\ x = s0 + l
    BY <2>1, <2>3, <2>4, <2>5, <2>6, <2>7
  <2>b. x <= M
    BY <2>a DEF Near
  <2>8. Ulp[x] <= u /\ Ulp[x] \in Nat
    BY <1>2, <2>b, UlpMonotone, UlpType
  <2>9. s[i] \in Nat /\ Near(s[i], x, Ulp[x])
    BY <2>2, RoundedFacts
  <2>10. PICK s1 \in Nat, r \in Nat : s1 = s[i] /\ r = Ulp[x]
    BY <2>8, <2>9
  <2>c. r <= u /\ Near(s1, x, r)
    BY <2>8, <2>9, <2>10
  <2>11. s1 - y1 <= v /\ y1 - s1 <= v
    BY <2>a, <2>c DEF Near
  <2> QED
    BY <2>7, <2>10, <2>11
<1>5. n \in G
  <2> HIDE DEF G
  <2> QED
    BY <1>3, <1>4, RangeInduction
<1> QED
  BY <1>1, <1>2, <1>5

------------------------------------------------------------------------------
(* Sums that are nearly equal. *)

LEMMA SumDifference ==
  ASSUME NEW S, IsFiniteSet(S), NEW f, NEW p, NEW q,
         \A x \in S : p[x] \in Nat /\ q[x] \in Nat /\ f[x] = p[x] - q[x]
  PROVE  SumFunctionOnSet(f, S) =
             SumFunctionOnSet(p, S) - SumFunctionOnSet(q, S)
<1> DEFINE h == [s \in SUBSET S |->
                    SumFunctionOnSet(p, s) - SumFunctionOnSet(q, s)]
           g == CHOOSE g : SumEq(g, f, S)
<1>0. \A s \in SUBSET S : s # {} => Pick(s) \in s
  BY DEF Pick
<1>1. SumEq(h, f, S)
  <2>1. ASSUME NEW s \in SUBSET S
        PROVE  h[s] = IF s = {} THEN 0 ELSE f[Pick(s)] + h[s \ {Pick(s)}]
    <3>1. CASE s = {}
      BY <3>1, SumEmpty
    <3>2. CASE s # {}
      <4>1. PICK x \in s : x = Pick(s)
        BY <1>0, <3>2
      <4>2. IsFiniteSet(s)
        BY FS_Subset
      <4>3. /\ SumFunctionOnSet(p, s) = p[x] + SumFunctionOnSet(p, s \ {x})
            /\ SumFunctionOnSet(p, s \ {x}) \in Nat
        BY <4>2, SumRemove
      <4>4. /\ SumFunctionOnSet(q, s) = q[x] + SumFunctionOnSet(q, s \ {x})
            /\ SumFunctionOnSet(q, s \ {x}) \in Nat
        BY <4>2, SumRemove
      <4>5. p[x] \in Nat /\ q[x] \in Nat /\ f[x] = p[x] - q[x]
        OBVIOUS
      <4>6. h[s \ {x}] = SumFunctionOnSet(p, s \ {x}) - SumFunctionOnSet(q, s \ {x})
        OBVIOUS
      <4>7. h[s] = f[x] + h[s \ {x}]
        <5>1. h[s] = SumFunctionOnSet(p, s) - SumFunctionOnSet(q, s)
          OBVIOUS
        <5> HIDE DEF h
        <5> QED
          BY <4>3, <4>4, <4>5, <4>6, <5>1
      <4> HIDE DEF h
      <4> QED
        BY <3>2, <4>1, <4>7
    <3> QED
      BY <3>1, <3>2
  <2>2. h = [s \in SUBSET S |-> h[s]]
    OBVIOUS
  <2> HIDE DEF h
  <2> QED
    BY <2>1, <2>2 DEF SumEq
<1>2. SumEq(g, f, S)
  BY <1>1
<1> DEFINE G == {T \in SUBSET S : g[T] = h[T]}
<1>3. SumFunctionOnSet(p, S) - SumFunctionOnSet(q, S) = h[S]
  OBVIOUS
<1> HIDE DEF g, h
<1>4. {} \in G
  BY <1>1, <1>2 DEF SumEq
<1>5. ASSUME NEW T \in SUBSET S, T # {}, \A x \in T : T \ {x} \in G
      PROVE  T \in G
  <2>1. T \ {Pick(T)} \in SUBSET S /\ g[T \ {Pick(T)}] = h[T \ {Pick(T)}]
    BY <1>0, <1>5
  <2>2. g[T] = f[Pick(T)] + g[T \ {Pick(T)}]
    BY <1>2, <1>5 DEF SumEq
  <2>3. h[T] = f[Pick(T)] + h[T \ {Pick(T)}]
    BY <1>1, <1>5 DEF SumEq
  <2> QED
    BY <2>1, <2>2, <2>3
<1>6. S \in G
  <2> HIDE DEF G
  <2> QED
    BY <1>4, <1>5, SetInduction
<1> QED
  BY <1>3, <1>6, SumUnfold DEF g

LEMMA SumWithin ==
  ASSUME NEW S, IsFiniteSet(S), NEW f, NEW g, NEW c \in Nat, NEW e \in Nat,
         \A x \in S : /\ f[x] \in Int /\ g[x] \in Nat
                      /\ f[x] * c - g[x] <= e
                      /\ g[x] - f[x] * c <= e
  PROVE  /\ SumFunctionOnSet(f, S) \in Int
         /\ SumFunctionOnSet(f, S) * c - SumFunctionOnSet(g, S)
                <= Cardinality(S) * e
         /\ SumFunctionOnSet(g, S) - SumFunctionOnSet(f, S) * c
                <= Cardinality(S) * e
<1> DEFINE p == [x \in S |-> IF f[x] >= 0 THEN f[x] ELSE 0]
           q == [x \in S |-> IF f[x] >= 0 THEN 0 ELSE -f[x]]
           pc == [x \in S |-> p[x] * c]
           qc == [x \in S |-> q[x] * c]
           one == [x \in S |-> 1]
           es == [x \in S |-> one[x] * e]
           gq == [x \in S |-> g[x] + qc[x]]
           gqe == [x \in S |-> gq[x] + es[x]]
           pe == [x \in S |-> pc[x] + es[x]]
<1>1. \A x \in S : /\ p[x] \in Nat /\ q[x] \in Nat /\ f[x] = p[x] - q[x]
                   /\ f[x] \in Int
  OBVIOUS
<1>2. \A x \in S : pc[x] = p[x] * c /\ qc[x] = q[x] * c
  OBVIOUS
<1>3. \A x \in S : one[x] = 1 /\ one[x] \in Nat /\ es[x] = one[x] * e /\ es[x] = e
  OBVIOUS
<1>4. \A x \in S : /\ gq[x] = g[x] + qc[x] /\ gqe[x] = gq[x] + es[x]
                   /\ pe[x] = pc[x] + es[x]
  OBVIOUS
<1> HIDE DEF p, q, pc, qc, one, es, gq, gqe, pe
<1>5. ASSUME NEW x \in S
      PROVE  /\ pc[x] \in Nat /\ qc[x] \in Nat /\ g[x] \in Nat /\ es[x] \in Nat
             /\ gq[x] \in Nat /\ gqe[x] \in Nat /\ pe[x] \in Nat
             /\ pc[x] <= gqe[x] /\ gq[x] <= pe[x]
  <2>1. p[x] * c \in Nat /\ q[x] * c \in Nat
    BY <1>1
  <2>2. f[x] * c = p[x] * c - q[x] * c
    BY <1>1
  <2> QED
    BY <1>2, <1>3, <1>4, <2>1, <2>2
<1>6. SumFunctionOnSet(f, S) = SumFunctionOnSet(p, S) - SumFunctionOnSet(q, S)
  BY <1>1, SumDifference
<1>7. /\ SumFunctionOnSet(pc, S) = SumFunctionOnSet(p, S) * c
      /\ SumFunctionOnSet(qc, S) = SumFunctionOnSet(q, S) * c
  BY <1>1, <1>2, SumScale
<1>8. SumFunctionOnSet(es, S) = Cardinality(S) * e
  <2>1. SumFunctionOnSet(es, S) = SumFunctionOnSet(one, S) * e
    BY <1>3, SumScale
  <2>2. SumFunctionOnSet(one, S) = Cardinality(S)
    BY <1>3, SumOfOnes
  <2> QED
    BY <2>1, <2>2
<1>9. SumFunctionOnSet(gq, S) = SumFunctionOnSet(g, S) + SumFunctionOnSet(qc, S)
  BY <1>4, <1>5, SumPlus
<1>10. SumFunctionOnSet(gqe, S) = SumFunctionOnSet(gq, S) + SumFunctionOnSet(es, S)
  BY <1>4, <1>5, SumPlus
<1>11. SumFunctionOnSet(pe, S) = SumFunctionOnSet(pc, S) + SumFunctionOnSet(es, S)
  BY <1>4, <1>5, SumPlus
<1>12. /\ SumFunctionOnSet(pc, S) <= SumFunctionOnSet(gqe, S)
       /\ SumFunctionOnSet(gq, S) <= SumFunctionOnSet(pe, S)
  BY <1>5, SumLeq
<1>13. /\ SumFunctionOnSet(p, S) \in Nat /\ SumFunctionOnSet(q, S) \in Nat
       /\ SumFunctionOnSet(g, S) \in Nat /\ SumFunctionOnSet(pc, S) \in Nat
       /\ SumFunctionOnSet(qc, S) \in Nat /\ SumFunctionOnSet(es, S) \in Nat
  BY <1>1, <1>5, SumType
<1>14. SumFunctionOnSet(f, S) * c =
           SumFunctionOnSet(pc, S) - SumFunctionOnSet(qc, S)
  BY <1>6, <1>7, <1>13
<1> QED
  BY <1>6, <1>8, <1>9, <1>10, <1>11, <1>12, <1>13, <1>14
=============================================================================
