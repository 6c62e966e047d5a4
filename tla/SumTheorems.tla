----------------------------- MODULE SumTheorems -----------------------------
(***************************************************************************)
(* The arithmetic the models share: sums over finite sets, as the risk of  *)
(* a book, the calls of an hour or the days of a year need them, largest   *)
(* and smallest members, quotients, and what survives a fold or a          *)
(* recursive function. Total(f, S) is the sum of f[x] over S. Induction   *)
(* is used in the form of sets: a set of numbers, or of subsets, that is   *)
(* closed under the step holds everything.                                 *)
(***************************************************************************)
EXTENDS Integers, FiniteSetsExt, FiniteSetTheorems, WellFoundedInduction, TLAPS

Total(f, S) == MapThenSumSet(LAMBDA x : f[x], S)

-----------------------------------------------------------------------------
(* Induction                                                               *)

LEMMA CountingUp ==
    ASSUME NEW B, 0 \in B, \A n \in Nat : n \in B => n + 1 \in B
    PROVE  Nat \subseteq B
<1> SUFFICES ASSUME Nat \ B # {} PROVE FALSE
  OBVIOUS
<1>1. PICK m \in Nat \ B : \A u \in Nat \ B : ~ (<<u, m>> \in OpToRel(<, Nat))
  <2>1. Nat \ B \subseteq Nat
    OBVIOUS
  <2> QED BY <2>1, NatLessThanWellFounded, WFMin, Zenon
<1>2. m # 0
  OBVIOUS
<1>3. m - 1 \in Nat /\ m - 1 < m
  BY <1>2
<1>4. m - 1 \in B
  BY <1>1, <1>3 DEF OpToRel
<1> QED BY <1>3, <1>4

LEMMA AddingElements ==
    ASSUME NEW S, IsFiniteSet(S), NEW G, {} \in G,
           \A s \in SUBSET S, x \in S : s \in G /\ x \notin s => s \cup {x} \in G
    PROVE  S \in G
<1> DEFINE B == {n \in Nat : \A s \in SUBSET S : Cardinality(s) = n => s \in G}
<1>1. \A s \in SUBSET S : IsFiniteSet(s) /\ Cardinality(s) \in Nat
  BY FS_Subset, FS_CardinalityType
<1>2. 0 \in B
  BY <1>1, FS_EmptySet
<1>3. ASSUME NEW n \in Nat, n \in B PROVE n + 1 \in B
  <2> SUFFICES ASSUME NEW s \in SUBSET S, Cardinality(s) = n + 1 PROVE s \in G
    OBVIOUS
  <2>1. s # {}
    BY <1>1, FS_EmptySet
  <2>2. PICK x \in s : TRUE
    BY <2>1
  <2>3. Cardinality(s \ {x}) = n
    <3>1. Cardinality(s \ {x}) = Cardinality(s) - 1
      BY <1>1, FS_RemoveElement, Zenon
    <3> QED BY <3>1
  <2>4. s \ {x} \in G
    BY <1>3, <2>3
  <2>5. s = (s \ {x}) \cup {x} /\ s \ {x} \in SUBSET S /\ x \in S /\ x \notin s \ {x}
    OBVIOUS
  <2> QED BY <2>4, <2>5
<1> HIDE DEF B
<1>4. Cardinality(S) \in B
  BY <1>1, <1>2, <1>3, CountingUp
<1> QED BY <1>4 DEF B

-----------------------------------------------------------------------------
(* The sum is well defined                                                 *)

Pick(s) == CHOOSE x \in s : TRUE

\* One unfolding of the fold.
Unfolded(f, g, s) == IF s = {} THEN 0 ELSE f[Pick(s)] + g[s \ {Pick(s)}]

IsFold(f, g, Sets) == g = [s \in Sets |-> Unfolded(f, g, s)]

LEMMA PickIsElement == ASSUME NEW s, s # {} PROVE Pick(s) \in s
  BY DEF Pick

LEMMA TotalIsFold ==
    ASSUME NEW f, NEW S
    PROVE  Total(f, S) = (CHOOSE g : IsFold(f, g, SUBSET S))[S]
  BY DEF IsFold, Total, MapThenSumSet, MapThenFoldSet, Unfolded, Pick

\* Sets up to a size have an unfolding, since the smaller sets do.
LEMMA FoldExists ==
    ASSUME NEW f, NEW S, IsFiniteSet(S)
    PROVE  \E g : IsFold(f, g, SUBSET S)
<1> DEFINE Upto(n) == {s \in SUBSET S : Cardinality(s) =< n}
           B == {n \in Nat : \E g : IsFold(f, g, Upto(n))}
<1>1. \A s \in SUBSET S : IsFiniteSet(s) /\ Cardinality(s) \in Nat
  BY FS_Subset, FS_CardinalityType
<1>2. \A s \in SUBSET S : s # {} => /\ Pick(s) \in s /\ s \ {Pick(s)} \in SUBSET S
                                    /\ Cardinality(s \ {Pick(s)}) = Cardinality(s) - 1
  BY <1>1, PickIsElement, FS_RemoveElement
<1>3. 0 \in B
  <2> DEFINE g == [s \in Upto(0) |-> 0]
  <2>1. \A s \in Upto(0) : s = {}
    BY <1>1, FS_EmptySet
  <2>2. IsFold(f, g, Upto(0))
    BY <2>1 DEF Unfolded, IsFold
  <2> QED BY <2>2
<1>4. ASSUME NEW n \in Nat, n \in B PROVE n + 1 \in B
  <2>1. PICK g : IsFold(f, g, Upto(n))
    BY <1>4
  <2> DEFINE h == [s \in Upto(n + 1) |-> Unfolded(f, g, s)]
  <2>2. \A s \in Upto(n) : s \in Upto(n + 1) /\ h[s] = g[s]
    BY <1>1, <2>1 DEF IsFold
  <2>3. \A s \in Upto(n + 1) : s # {} => s \ {Pick(s)} \in Upto(n)
    <3>1. TAKE s \in Upto(n + 1)
    <3>2. s \in SUBSET S /\ Cardinality(s) =< n + 1 /\ Cardinality(s) \in Nat
      BY <1>1
    <3>3. s # {} => /\ s \ {Pick(s)} \in SUBSET S
                    /\ Cardinality(s \ {Pick(s)}) = Cardinality(s) - 1
      BY <1>2, <3>2, Zenon
    <3> QED BY <3>2, <3>3
  <2>4. \A s \in Upto(n + 1) : Unfolded(f, g, s) = Unfolded(f, h, s)
    BY <2>2, <2>3 DEF Unfolded
  <2>5. IsFold(f, h, Upto(n + 1))
    BY <2>4 DEF IsFold
  <2>6. \E hh : IsFold(f, hh, Upto(n + 1))
    <3> HIDE DEF h
    <3> QED BY <2>5
  <2>7. n + 1 \in Nat
    OBVIOUS
  <2> QED BY <2>6, <2>7
<1> HIDE DEF B
<1>5. Cardinality(S) \in B
  BY <1>1, <1>3, <1>4, CountingUp
<1>6. SUBSET S = Upto(Cardinality(S))
  BY <1>1, FS_Subset
<1> QED BY <1>5, <1>6 DEF B

\* and there is only one.
LEMMA FoldUnique ==
    ASSUME NEW f, NEW S, IsFiniteSet(S),
           NEW g, IsFold(f, g, SUBSET S),
           NEW h, NEW T, S \subseteq T, IsFold(f, h, SUBSET T),
           NEW s \in SUBSET S
    PROVE  g[s] = h[s]
<1> DEFINE B == {n \in Nat : \A t \in SUBSET S : Cardinality(t) = n => g[t] = h[t]}
<1>1. \A t \in SUBSET S : IsFiniteSet(t) /\ Cardinality(t) \in Nat
  BY FS_Subset, FS_CardinalityType
<1>2. \A t \in SUBSET S : g[t] = Unfolded(f, g, t) /\ h[t] = Unfolded(f, h, t)
  BY DEF IsFold
<1>3. 0 \in B
  BY <1>1, <1>2, FS_EmptySet DEF Unfolded
<1>4. ASSUME NEW n \in Nat, n \in B PROVE n + 1 \in B
  <2> SUFFICES \A t \in SUBSET S : Cardinality(t) = n + 1 => g[t] = h[t]
    OBVIOUS
  <2> TAKE t \in SUBSET S
  <2> HAVE Cardinality(t) = n + 1
  <2>1. t # {}
    BY <1>1, FS_EmptySet
  <2>2. Cardinality(t \ {Pick(t)}) = n /\ t \ {Pick(t)} \in SUBSET S
    <3>1. Pick(t) \in t
      BY <2>1, PickIsElement
    <3>2. Cardinality(t \ {Pick(t)}) = Cardinality(t) - 1
      BY <1>1, <3>1, FS_RemoveElement, Zenon
    <3> QED BY <3>2
  <2>3. g[t \ {Pick(t)}] = h[t \ {Pick(t)}]
    BY <1>4, <2>2
  <2> QED BY <1>2, <2>1, <2>3 DEF Unfolded
<1> HIDE DEF B
<1>5. Cardinality(s) \in B
  BY <1>1, <1>3, <1>4, CountingUp
<1> QED BY <1>5 DEF B

LEMMA TotalIsUnfolded ==
    ASSUME NEW f, NEW S, IsFiniteSet(S),
           NEW g, IsFold(f, g, SUBSET S)
    PROVE  \A s \in SUBSET S : Total(f, s) = g[s]
<1> TAKE s \in SUBSET S
<1>1. IsFiniteSet(s)
  BY FS_Subset
<1>2. PICK h : IsFold(f, h, SUBSET s) /\ Total(f, s) = h[s]
  BY <1>1, FoldExists, TotalIsFold
<1>3. s \in SUBSET s
  OBVIOUS
<1>4. s \subseteq S
  OBVIOUS
<1>5. h[s] = g[s]
  BY <1>1, <1>2, <1>3, <1>4, FoldUnique, SMTT(30)
<1> QED BY <1>2, <1>5

LEMMA TotalStep ==
    ASSUME NEW f, NEW S, IsFiniteSet(S)
    PROVE  /\ Total(f, {}) = 0
           /\ S # {} => Pick(S) \in S /\ Total(f, S) = f[Pick(S)] + Total(f, S \ {Pick(S)})
<1>1. PICK g : IsFold(f, g, SUBSET S)
  BY FoldExists
<1>2. \A s \in SUBSET S : Total(f, s) = g[s] /\ g[s] = Unfolded(f, g, s)
  BY <1>1, TotalIsUnfolded DEF IsFold
<1>3. Total(f, {}) = 0
  BY <1>2 DEF Unfolded
<1>4. S # {} => Pick(S) \in S /\ Total(f, S) = f[Pick(S)] + Total(f, S \ {Pick(S)})
  BY <1>2, PickIsElement DEF Unfolded
<1> QED BY <1>3, <1>4

-----------------------------------------------------------------------------
(* Laws of the sum                                                         *)

LEMMA TotalIsInteger ==
    ASSUME NEW f, NEW S, IsFiniteSet(S), \A x \in S : f[x] \in Int
    PROVE  Total(f, S) \in Int
<1> DEFINE B == {n \in Nat : \A s \in SUBSET S : Cardinality(s) = n => Total(f, s) \in Int}
<1>1. \A s \in SUBSET S : IsFiniteSet(s) /\ Cardinality(s) \in Nat
  BY FS_Subset, FS_CardinalityType
<1>2. 0 \in B
  <2>1. \A s \in SUBSET S : Cardinality(s) = 0 => s = {}
    BY <1>1, FS_EmptySet
  <2>2. Total(f, {}) = 0
    BY FS_EmptySet, TotalStep
  <2> QED BY <2>1, <2>2
<1>3. ASSUME NEW n \in Nat, n \in B PROVE n + 1 \in B
  <2> SUFFICES \A s \in SUBSET S : Cardinality(s) = n + 1 => Total(f, s) \in Int
    OBVIOUS
  <2> TAKE s \in SUBSET S
  <2> HAVE Cardinality(s) = n + 1
  <2>1. s # {}
    BY <1>1, FS_EmptySet
  <2>2. Pick(s) \in s /\ Total(f, s) = f[Pick(s)] + Total(f, s \ {Pick(s)})
    BY <1>1, <2>1, TotalStep
  <2>3. Cardinality(s \ {Pick(s)}) = n
    <3>1. Cardinality(s \ {Pick(s)}) = Cardinality(s) - 1
      BY <1>1, <2>2, FS_RemoveElement, Zenon
    <3> QED BY <3>1
  <2>4. Total(f, s \ {Pick(s)}) \in Int /\ f[Pick(s)] \in Int
    BY <1>3, <2>2, <2>3
  <2> QED BY <2>2, <2>4
<1> HIDE DEF B
<1>4. Cardinality(S) \in B
  BY <1>1, <1>2, <1>3, CountingUp
<1> QED BY <1>4 DEF B

\* Any element may be taken out, not only the one the fold picks.
LEMMA TotalRemove ==
    ASSUME NEW f, NEW S, IsFiniteSet(S), \A x \in S : f[x] \in Int, NEW y \in S
    PROVE  Total(f, S) = f[y] + Total(f, S \ {y})
<1> DEFINE Out(s) == \A x \in s : Total(f, s) = f[x] + Total(f, s \ {x})
           B == {n \in Nat : \A s \in SUBSET S : Cardinality(s) = n => Out(s)}
<1>1. \A s \in SUBSET S : IsFiniteSet(s) /\ Cardinality(s) \in Nat
  BY FS_Subset, FS_CardinalityType
<1>2. 0 \in B
  BY <1>1, FS_EmptySet
<1>3. ASSUME NEW n \in Nat, n \in B PROVE n + 1 \in B
  <2> SUFFICES \A s \in SUBSET S : Cardinality(s) = n + 1 => Out(s)
    OBVIOUS
  <2> TAKE s \in SUBSET S
  <2> HAVE Cardinality(s) = n + 1
  <2> TAKE x \in s
  <2>1. s # {}
    OBVIOUS
  <2>2. PICK p \in s : p = Pick(s) /\ Total(f, s) = f[p] + Total(f, s \ {p})
    BY <1>1, <2>1, TotalStep
  <2>3. CASE p = x
    BY <2>2, <2>3
  <2>4. CASE p # x
    <3>1. Cardinality(s \ {p}) = n /\ Cardinality(s \ {x}) = n
      <4>1. Cardinality(s \ {p}) = Cardinality(s) - 1 /\ Cardinality(s \ {x}) = Cardinality(s) - 1
        BY <1>1, FS_RemoveElement, Zenon
      <4> QED BY <4>1
    <3>2. Out(s \ {p}) /\ Out(s \ {x})
      BY <1>3, <3>1
    <3>3. x \in s \ {p} /\ p \in s \ {x} /\ (s \ {p}) \ {x} = (s \ {x}) \ {p}
      BY <2>4
    <3>4. /\ Total(f, s \ {p}) = f[x] + Total(f, (s \ {x}) \ {p})
          /\ Total(f, s \ {x}) = f[p] + Total(f, (s \ {x}) \ {p})
      BY <3>2, <3>3
    <3>5. Total(f, (s \ {x}) \ {p}) \in Int /\ f[x] \in Int /\ f[p] \in Int
      <4>1. IsFiniteSet((s \ {x}) \ {p}) /\ \A z \in (s \ {x}) \ {p} : f[z] \in Int
        BY <1>1
      <4> QED BY <4>1, TotalIsInteger
    <3> QED BY <2>2, <3>4, <3>5
  <2> QED BY <2>3, <2>4
<1> HIDE DEF B
<1>4. Cardinality(S) \in B
  BY <1>1, <1>2, <1>3, CountingUp
<1> QED BY <1>4 DEF B

LEMMA TotalAdd ==
    ASSUME NEW f, NEW S, IsFiniteSet(S), NEW y, y \notin S, \A x \in S \cup {y} : f[x] \in Int
    PROVE  Total(f, S \cup {y}) = f[y] + Total(f, S)
<1>1. IsFiniteSet(S \cup {y}) /\ y \in S \cup {y} /\ (S \cup {y}) \ {y} = S
  BY FS_AddElement
<1> QED BY <1>1, TotalRemove

LEMMA TotalOfNothing == ASSUME NEW f PROVE Total(f, {}) = 0
  BY FS_EmptySet, TotalStep

LEMMA TotalOfOne ==
    ASSUME NEW f, NEW y, f[y] \in Int
    PROVE  Total(f, {y}) = f[y]
<1>1. IsFiniteSet({y}) /\ {y} \ {y} = {} /\ Total(f, {}) = 0
  BY FS_Singleton, TotalOfNothing
<1>2. Total(f, {y}) = f[y] + Total(f, {y} \ {y})
  BY <1>1, TotalRemove
<1> QED BY <1>1, <1>2

\* Terms that are no larger make a sum that is no larger.
LEMMA TotalMonotone ==
    ASSUME NEW f, NEW g, NEW S, IsFiniteSet(S),
           \A x \in S : f[x] \in Int /\ g[x] \in Int /\ f[x] =< g[x]
    PROVE  Total(f, S) =< Total(g, S)
<1> DEFINE G == {s \in SUBSET S : Total(f, s) =< Total(g, s)}
<1>1. {} \in G
  BY TotalOfNothing
<1>2. ASSUME NEW s \in SUBSET S, NEW x \in S, s \in G, x \notin s PROVE s \cup {x} \in G
  <2>1. IsFiniteSet(s) /\ \A z \in s \cup {x} : f[z] \in Int /\ g[z] \in Int
    BY FS_Subset
  <2>2. Total(f, s \cup {x}) = f[x] + Total(f, s) /\ Total(g, s \cup {x}) = g[x] + Total(g, s)
    BY <1>2, <2>1, TotalAdd
  <2>3. Total(f, s) \in Int /\ Total(g, s) \in Int
    BY <2>1, TotalIsInteger
  <2>4. f[x] =< g[x] /\ Total(f, s) =< Total(g, s) /\ f[x] \in Int /\ g[x] \in Int
    BY <1>2
  <2>5. Total(f, s \cup {x}) =< Total(g, s \cup {x})
    BY <2>2, <2>3, <2>4
  <2> QED BY <2>5
<1> HIDE DEF G
<1>3. S \in G
  BY <1>1, <1>2, AddingElements
<1> QED BY <1>3 DEF G

LEMMA TotalSame ==
    ASSUME NEW f, NEW g, NEW S, IsFiniteSet(S), \A x \in S : f[x] \in Int /\ f[x] = g[x]
    PROVE  Total(f, S) = Total(g, S)
<1>1. \A x \in S : g[x] \in Int /\ f[x] =< g[x] /\ g[x] =< f[x]
  OBVIOUS
<1>2. Total(f, S) =< Total(g, S)
  BY <1>1, TotalMonotone
<1>3. Total(g, S) =< Total(f, S)
  BY <1>1, TotalMonotone
<1>4. Total(f, S) \in Int /\ Total(g, S) \in Int
  BY <1>1, TotalIsInteger
<1> QED BY <1>2, <1>3, <1>4

LEMMA TotalOfUnion ==
    ASSUME NEW f, NEW S, IsFiniteSet(S), NEW T, IsFiniteSet(T), S \cap T = {},
           \A x \in S \cup T : f[x] \in Int
    PROVE  Total(f, S \cup T) = Total(f, S) + Total(f, T)
<1> DEFINE G == {s \in SUBSET S : Total(f, s \cup T) = Total(f, s) + Total(f, T)}
<1>1. Total(f, T) \in Int /\ \A s \in SUBSET S : IsFiniteSet(s) /\ IsFiniteSet(s \cup T)
  BY TotalIsInteger, FS_Subset, FS_Union
<1>2. {} \in G
  <2>1. {} \cup T = T /\ Total(f, {}) = 0
    BY TotalOfNothing
  <2> QED BY <1>1, <2>1
<1>3. ASSUME NEW s \in SUBSET S, NEW x \in S, s \in G, x \notin s PROVE s \cup {x} \in G
  <2>1. x \notin s \cup T /\ (s \cup {x}) \cup T = (s \cup T) \cup {x}
    BY <1>3
  <2>2. Total(f, (s \cup T) \cup {x}) = f[x] + Total(f, s \cup T)
    BY <1>1, <2>1, TotalAdd
  <2>3. Total(f, s \cup {x}) = f[x] + Total(f, s)
    BY <1>1, <1>3, TotalAdd
  <2>4. Total(f, s) \in Int /\ f[x] \in Int
    BY <1>1, TotalIsInteger
  <2>5. Total(f, s \cup T) = Total(f, s) + Total(f, T)
    BY <1>3
  <2>6. Total(f, (s \cup {x}) \cup T) = Total(f, s \cup {x}) + Total(f, T)
    <3>1. Total(f, (s \cup {x}) \cup T) = f[x] + (Total(f, s) + Total(f, T))
      BY <2>1, <2>2, <2>5, Zenon
    <3> QED BY <1>1, <2>3, <2>4, <3>1
  <2> QED BY <2>6
<1> HIDE DEF G
<1>4. S \in G
  BY <1>2, <1>3, AddingElements
<1> QED BY <1>4 DEF G

LEMMA TotalIsNatural ==
    ASSUME NEW f, NEW S, IsFiniteSet(S), \A x \in S : f[x] \in Nat
    PROVE  Total(f, S) \in Nat
<1> DEFINE G == {s \in SUBSET S : Total(f, s) \in Nat}
<1>1. {} \in G
  BY TotalOfNothing
<1>2. ASSUME NEW s \in SUBSET S, NEW x \in S, s \in G, x \notin s PROVE s \cup {x} \in G
  <2>1. IsFiniteSet(s) /\ \A y \in s \cup {x} : f[y] \in Int
    BY FS_Subset
  <2>2. Total(f, s \cup {x}) = f[x] + Total(f, s)
    BY <1>2, <2>1, TotalAdd
  <2>3. Total(f, s) \in Nat /\ f[x] \in Nat
    BY <1>2
  <2> QED BY <2>2, <2>3
<1> HIDE DEF G
<1>3. S \in G
  BY <1>1, <1>2, AddingElements
<1> QED BY <1>3 DEF G

\* Fewer terms, none of them negative, make a sum that is no larger.
LEMMA TotalOfPart ==
    ASSUME NEW f, NEW S, IsFiniteSet(S), NEW T, T \subseteq S, \A x \in S : f[x] \in Nat
    PROVE  Total(f, T) =< Total(f, S)
<1>1. IsFiniteSet(T) /\ IsFiniteSet(S \ T) /\ T \cup (S \ T) = S /\ T \cap (S \ T) = {}
  BY FS_Subset, FS_Difference
<1>2. \A x \in T \cup (S \ T) : f[x] \in Int /\ f[x] \in Nat
  OBVIOUS
<1>3. Total(f, T \cup (S \ T)) = Total(f, T) + Total(f, S \ T)
  BY <1>1, <1>2, TotalOfUnion
<1>4. Total(f, S) = Total(f, T) + Total(f, S \ T)
  BY <1>1, <1>3
<1>5. Total(f, T) \in Nat /\ Total(f, S \ T) \in Nat
  BY <1>1, <1>2, TotalIsNatural
<1> QED BY <1>4, <1>5

\* Terms up to c make a sum up to c times their number.
LEMMA TotalBounded ==
    ASSUME NEW f, NEW S, IsFiniteSet(S), NEW c \in Int, \A x \in S : f[x] \in Int /\ f[x] =< c
    PROVE  Total(f, S) =< Cardinality(S) * c
<1> DEFINE G == {s \in SUBSET S : Total(f, s) =< Cardinality(s) * c}
<1>1. {} \in G
  BY TotalOfNothing, FS_EmptySet
<1>2. ASSUME NEW s \in SUBSET S, NEW x \in S, s \in G, x \notin s PROVE s \cup {x} \in G
  <2>1. IsFiniteSet(s) /\ Cardinality(s) \in Nat /\ \A z \in s \cup {x} : f[z] \in Int
    BY FS_Subset, FS_CardinalityType
  <2>2. Total(f, s \cup {x}) = f[x] + Total(f, s)
    BY <1>2, <2>1, TotalAdd
  <2>3. Cardinality(s \cup {x}) = Cardinality(s) + 1
    BY <1>2, <2>1, FS_AddElement
  <2>4. PICK k \in Nat : k = Cardinality(s)
    BY <2>1
  <2>5. Total(f, s) \in Int /\ f[x] \in Int /\ f[x] =< c /\ Total(f, s) =< k * c
    BY <1>2, <2>1, <2>4, TotalIsInteger
  <2>6. k * c \in Int /\ (k + 1) * c = k * c + c
    OBVIOUS
  <2>7. Total(f, s \cup {x}) =< (k + 1) * c
    BY <2>2, <2>5, <2>6
  <2> QED BY <2>3, <2>4, <2>7
<1> HIDE DEF G
<1>3. S \in G
  BY <1>1, <1>2, AddingElements
<1> QED BY <1>3 DEF G

-----------------------------------------------------------------------------
(* Largest and smallest members *)

\* A set of natural numbers with a bound has a largest member.
LEMMA LargestExists ==
    ASSUME NEW S \in SUBSET Nat, S # {}, NEW n \in Nat, \A y \in S : y =< n
    PROVE  Max(S) \in S /\ \A y \in S : Max(S) >= y
<1> DEFINE U == {u \in Nat : \A y \in S : y =< u}
<1>1. U \subseteq Nat /\ U # {}
  OBVIOUS
<1>2. PICK m \in U : \A u \in U : ~ (<<u, m>> \in OpToRel(<, Nat))
  BY <1>1, NatLessThanWellFounded, WFMin, Zenon
<1>3. \A u \in U : ~ (u < m)
  BY <1>1, <1>2 DEF OpToRel
<1>4. m \in S
  <2>1. SUFFICES ASSUME m \notin S PROVE FALSE
    OBVIOUS
  <2>2. PICK x \in S : TRUE
    OBVIOUS
  <2>3. m - 1 \in U
    BY <2>1, <2>2
  <2> QED BY <2>3, <1>3
<1>5. \E x \in S : \A y \in S : x >= y
  BY <1>4
<1> QED BY <1>5 DEF Max

\* A set of natural numbers has a smallest member.
LEMMA SmallestExists ==
    ASSUME NEW S \in SUBSET Nat, S # {}
    PROVE  Min(S) \in S /\ \A y \in S : Min(S) =< y
<1>0. S \subseteq Nat /\ S # {}
  OBVIOUS
<1>1. PICK m \in S : \A u \in S : ~ (<<u, m>> \in OpToRel(<, Nat))
  BY <1>0, NatLessThanWellFounded, WFMin, Zenon
<1>2. ASSUME NEW u \in S PROVE m =< u
  <2>1. u \in Nat /\ m \in Nat /\ ~ (<<u, m>> \in OpToRel(<, Nat))
    BY <1>1
  <2> QED BY <2>1 DEF OpToRel
<1>3. \E x \in S : \A y \in S : x =< y
  BY <1>2
<1> QED BY <1>3 DEF Min

\* So has a finite set of integers: the member with the fewest above or below it.
LEMMA FiniteHasLargest ==
    ASSUME NEW S \in SUBSET Int, IsFiniteSet(S), S # {}
    PROVE  \E t \in S : \A y \in S : y =< t
<1> DEFINE Above(x) == {y \in S : y > x}
           C == {Cardinality(Above(x)) : x \in S}
<1>1. \A x \in S : IsFiniteSet(Above(x)) /\ Cardinality(Above(x)) \in Nat
  <2> TAKE x \in S
  <2>1. Above(x) \in SUBSET S
    OBVIOUS
  <2> HIDE DEF Above
  <2> QED BY <2>1, FS_Subset, FS_CardinalityType
<1>2. C \in SUBSET Nat /\ C # {}
  BY <1>1
<1>3. Min(C) \in C /\ \A n \in C : Min(C) =< n
  BY <1>2, SmallestExists
<1>4. PICK t \in S : \A x \in S : Cardinality(Above(t)) =< Cardinality(Above(x))
  BY <1>3
<1>5. ASSUME NEW y \in S, y > t PROVE FALSE
  <2>1. Above(y) \in SUBSET Above(t)
    <3>1. ASSUME NEW z \in S, z > y PROVE z > t
      BY <1>5, <3>1
    <3> QED BY <3>1
  <2>2. y \in Above(t) /\ y \notin Above(y)
    BY <1>5
  <2> HIDE DEF Above, C
  <2>3. Cardinality(Above(y)) =< Cardinality(Above(t))
        /\ Cardinality(Above(t)) # Cardinality(Above(y))
    BY <1>1, <2>1, <2>2, FS_Subset
  <2> QED BY <1>1, <1>4, <2>3
<1>6. \A y \in S : y =< t
  BY <1>5
<1> QED BY <1>6

LEMMA FiniteHasSmallest ==
    ASSUME NEW S \in SUBSET Int, IsFiniteSet(S), S # {}
    PROVE  Min(S) \in S /\ \A y \in S : Min(S) =< y
<1> DEFINE N == {-x : x \in S}
           f == [x \in S |-> -x]
<1>1. f \in Surjection(S, N)
  BY DEF Surjection
<1>2. IsFiniteSet(N)
  BY <1>1, FS_Surjection
<1>3. N \in SUBSET Int /\ N # {}
  <2>1. ASSUME NEW n \in N PROVE n \in Int
    <3>1. PICK x \in S : n = -x
      OBVIOUS
    <3> QED BY <3>1
  <2>2. PICK x : x \in S
    OBVIOUS
  <2>3. -x \in N
    BY <2>2
  <2> QED BY <2>1, <2>3
<1>4. PICK t \in N : \A y \in N : y =< t
  BY <1>2, <1>3, FiniteHasLargest
<1>5. PICK x \in S : t = -x
  OBVIOUS
<1>6. ASSUME NEW y \in S PROVE x =< y
  <2>1. -y \in N
    OBVIOUS
  <2>2. -y =< -x
    BY <1>4, <1>5, <2>1
  <2> QED BY <2>2
<1>7. \E m \in S : \A y \in S : m =< y
  BY <1>6
<1> QED BY <1>7 DEF Min

-----------------------------------------------------------------------------
(* Quotients *)

LEMMA TimesMonotone ==
    ASSUME NEW d \in Nat, NEW a \in Int, NEW b \in Int, a =< b
    PROVE  d * a \in Int /\ d * b \in Int /\ d * a =< d * b
  OBVIOUS

\* What division returns.
LEMMA Quotient ==
    ASSUME NEW a \in Int, NEW n \in Nat \ {0}
    PROVE  a \div n \in Int /\ n * (a \div n) =< a /\ a < n * (a \div n) + n
<1>1. a \div n \in Int /\ (a \div n) * n =< a /\ a < ((a \div n) + 1) * n
  OBVIOUS
<1> QED BY <1>1

LEMMA DivideMonotone ==
    ASSUME NEW a \in Int, NEW b \in Int, NEW n \in Nat \ {0}, a =< b
    PROVE  a \div n \in Int /\ b \div n \in Int /\ a \div n =< b \div n
<1> DEFINE p == a \div n
           q == b \div n
<1>1. p \in Int /\ q \in Int /\ n * p =< a /\ b < n * q + n
  BY Quotient
<1> HIDE DEF p, q
<1>2. ASSUME q + 1 =< p PROVE FALSE
  <2>1. n * (q + 1) =< n * p
    BY <1>1, <1>2, TimesMonotone
  <2> QED BY <1>1, <2>1
<1>3. p =< q
  BY <1>1, <1>2
<1> QED BY <1>1, <1>3 DEF p, q

LEMMA DivNatural ==
    ASSUME NEW a \in Nat, NEW n \in Nat \ {0}
    PROVE  a \div n \in Nat
<1>1. 0 \div n <= a \div n /\ a \div n \in Int
  BY DivideMonotone
<1>2. 0 \div n = 0
  OBVIOUS
<1> QED BY <1>1, <1>2


-----------------------------------------------------------------------------
(* Steps in a row                                                          *)

\* The fold of FoldFunction: from base, one step F[<<element, result>>] for
\* each place of fun.
NextOf(F, base, fun, h, s) == IF s = {} THEN base ELSE F[<<fun[Pick(s)], h[s \ {Pick(s)}]>>]

IsRun(F, base, fun, h, Sets) == h = [s \in Sets |-> NextOf(F, base, fun, h, s)]

LEMMA RunExists ==
    ASSUME NEW F, NEW base, NEW fun, NEW S, IsFiniteSet(S)
    PROVE  \E h : IsRun(F, base, fun, h, SUBSET S)
<1> DEFINE Small(n) == {s \in SUBSET S : Cardinality(s) =< n}
           B == {n \in Nat : \E h : IsRun(F, base, fun, h, Small(n))}
<1>1. \A s \in SUBSET S : IsFiniteSet(s) /\ Cardinality(s) \in Nat
  BY FS_Subset, FS_CardinalityType
<1>2. \A s \in SUBSET S : s # {} => /\ Pick(s) \in s /\ s \ {Pick(s)} \in SUBSET S
                                    /\ Cardinality(s \ {Pick(s)}) = Cardinality(s) - 1
  BY <1>1, PickIsElement, FS_RemoveElement
<1>3. 0 \in B
  <2> DEFINE h == [s \in Small(0) |-> base]
  <2>1. \A s \in Small(0) : s = {}
    BY <1>1, FS_EmptySet
  <2>2. IsRun(F, base, fun, h, Small(0))
    BY <2>1 DEF NextOf, IsRun
  <2> QED BY <2>2
<1>4. ASSUME NEW n \in Nat, n \in B PROVE n + 1 \in B
  <2>1. PICK h : IsRun(F, base, fun, h, Small(n))
    BY <1>4
  <2> DEFINE k == [s \in Small(n + 1) |-> NextOf(F, base, fun, h, s)]
  <2>2. \A s \in Small(n) : s \in Small(n + 1) /\ k[s] = h[s]
    BY <1>1, <2>1 DEF IsRun
  <2>3. \A s \in Small(n + 1) : s # {} => s \ {Pick(s)} \in Small(n)
    <3>1. TAKE s \in Small(n + 1)
    <3>2. s \in SUBSET S /\ Cardinality(s) =< n + 1 /\ Cardinality(s) \in Nat
      BY <1>1
    <3>3. s # {} => /\ s \ {Pick(s)} \in SUBSET S
                    /\ Cardinality(s \ {Pick(s)}) = Cardinality(s) - 1
      BY <1>2, <3>2, Zenon
    <3> QED BY <3>2, <3>3
  <2>4. \A s \in Small(n + 1) : NextOf(F, base, fun, h, s) = NextOf(F, base, fun, k, s)
    BY <2>2, <2>3 DEF NextOf
  <2>5. IsRun(F, base, fun, k, Small(n + 1))
    BY <2>4 DEF IsRun
  <2>6. \E kk : IsRun(F, base, fun, kk, Small(n + 1))
    <3> HIDE DEF k
    <3> QED BY <2>5
  <2>7. n + 1 \in Nat
    OBVIOUS
  <2> QED BY <2>6, <2>7
<1> HIDE DEF B
<1>5. Cardinality(S) \in B
  BY <1>1, <1>3, <1>4, CountingUp
<1>6. SUBSET S = Small(Cardinality(S))
  BY <1>1, FS_Subset
<1> QED BY <1>5, <1>6 DEF B

\* What holds of base and survives every step holds of the result.
LEMMA RunStays ==
    ASSUME NEW S, IsFiniteSet(S), NEW R, NEW h,
           h[{}] \in R,
           \A s \in SUBSET S : s # {} /\ h[s \ {Pick(s)}] \in R => h[s] \in R
    PROVE  \A s \in SUBSET S : h[s] \in R
<1> DEFINE B == {n \in Nat : \A s \in SUBSET S : Cardinality(s) = n => h[s] \in R}
<1>1. \A s \in SUBSET S : IsFiniteSet(s) /\ Cardinality(s) \in Nat
  BY FS_Subset, FS_CardinalityType
<1>2. 0 \in B
  BY <1>1, FS_EmptySet
<1>3. ASSUME NEW n \in Nat, n \in B PROVE n + 1 \in B
  <2> SUFFICES ASSUME NEW s \in SUBSET S, Cardinality(s) = n + 1 PROVE h[s] \in R
    OBVIOUS
  <2>1. s # {}
    BY <1>1, FS_EmptySet
  <2>2. Cardinality(s \ {Pick(s)}) = n /\ s \ {Pick(s)} \in SUBSET S
    <3>1. Pick(s) \in s
      BY <2>1, PickIsElement
    <3>2. Cardinality(s \ {Pick(s)}) = Cardinality(s) - 1
      BY <1>1, <3>1, FS_RemoveElement, Zenon
    <3> QED BY <3>2
  <2> QED BY <1>3, <2>1, <2>2
<1> HIDE DEF B
<1>4. Nat \subseteq B
  BY <1>2, <1>3, CountingUp
<1> QED BY <1>1, <1>4 DEF B

\* The same for steps along the numbers, as a recursive function takes them
\* from first on.
Along(F, base, first, h, n) == IF n < first THEN base ELSE F[<<n, h[n - 1]>>]

IsTrail(F, base, first, h, Numbers) == h = [n \in Numbers |-> Along(F, base, first, h, n)]

LEMMA TrailExists ==
    ASSUME NEW F, NEW base, NEW first \in Nat \ {0}
    PROVE  \E h : IsTrail(F, base, first, h, Nat)
<1> DEFINE B == {n \in Nat : \E h : IsTrail(F, base, first, h, 0 .. n)}
<1>1. 0 \in B
  <2> DEFINE h == [n \in 0 .. 0 |-> base]
  <2>1. \A n \in 0 .. 0 : n < first
    OBVIOUS
  <2>2. IsTrail(F, base, first, h, 0 .. 0)
    BY <2>1 DEF IsTrail, Along
  <2> QED BY <2>2
<1>2. ASSUME NEW n \in Nat, n \in B PROVE n + 1 \in B
  <2>1. PICK h : IsTrail(F, base, first, h, 0 .. n)
    BY <1>2
  <2> DEFINE k == [m \in 0 .. n + 1 |-> Along(F, base, first, h, m)]
  <2>2. \A m \in 0 .. n : m \in 0 .. n + 1 /\ k[m] = h[m]
    BY <2>1 DEF IsTrail
  <2>3. ASSUME NEW m \in 0 .. n + 1 PROVE Along(F, base, first, h, m) = Along(F, base, first, k, m)
    <3>1. CASE m < first
      BY <3>1 DEF Along
    <3>2. CASE ~(m < first)
      <4>1. m - 1 \in 0 .. n
        BY <3>2
      <4>2. k[m - 1] = h[m - 1]
        BY <2>2, <4>1
      <4> HIDE DEF k
      <4> QED BY <3>2, <4>2 DEF Along
    <3> QED BY <3>1, <3>2
  <2>4. IsTrail(F, base, first, k, 0 .. n + 1)
    BY <2>3 DEF IsTrail
  <2>5. \E kk : IsTrail(F, base, first, kk, 0 .. n + 1)
    <3> HIDE DEF k
    <3> QED BY <2>4
  <2>6. n + 1 \in Nat
    OBVIOUS
  <2> QED BY <2>5, <2>6
<1>3. \A n \in Nat : \E h : IsTrail(F, base, first, h, 0 .. n)
  <2> HIDE DEF B
  <2>1. Nat \subseteq B
    BY <1>1, <1>2, CountingUp
  <2> QED BY <2>1 DEF B
<1> DEFINE T(n) == CHOOSE h : IsTrail(F, base, first, h, 0 .. n)
<1>4. \A n \in Nat : IsTrail(F, base, first, T(n), 0 .. n)
  BY <1>3
<1> HIDE DEF T
<1>5. \A n \in Nat, m \in Nat : m =< n => T(n)[m] = Along(F, base, first, T(n), m)
  <2> TAKE n \in Nat, m \in Nat
  <2> HAVE m =< n
  <2>1. T(n) = [i \in 0 .. n |-> Along(F, base, first, T(n), i)]
    BY <1>4 DEF IsTrail
  <2>2. m \in 0 .. n
    OBVIOUS
  <2> QED BY <2>1, <2>2
<1> DEFINE C == {m \in Nat : \A n \in Nat : m =< n => T(n)[m] = T(m)[m]}
<1>6. 0 \in C
  <2>1. \A n \in Nat : T(n)[0] = Along(F, base, first, T(n), 0)
    BY <1>5
  <2>2. ASSUME NEW n \in Nat PROVE T(n)[0] = base
    <3>1. 0 < first
      OBVIOUS
    <3>2. Along(F, base, first, T(n), 0) = base
      BY <3>1 DEF Along
    <3> QED BY <2>1, <3>2
  <2>3. T(0)[0] = base
    BY <2>2
  <2> QED BY <2>2, <2>3
<1>7. ASSUME NEW m \in Nat, m \in C PROVE m + 1 \in C
  <2> SUFFICES ASSUME NEW n \in Nat, m + 1 =< n PROVE T(n)[m + 1] = T(m + 1)[m + 1]
    OBVIOUS
  <2>1. T(n)[m + 1] = Along(F, base, first, T(n), m + 1)
        /\ T(m + 1)[m + 1] = Along(F, base, first, T(m + 1), m + 1)
    BY <1>5
  <2>2. T(n)[m] = T(m + 1)[m]
    <3>1. m =< n /\ m =< m + 1 /\ m + 1 \in Nat
      OBVIOUS
    <3> QED BY <1>7, <3>1
  <2>3. (m + 1) - 1 = m
    OBVIOUS
  <2> QED BY <2>1, <2>2, <2>3 DEF Along
<1>8. Nat \subseteq C
  <2> HIDE DEF C
  <2> QED BY <1>6, <1>7, CountingUp
<1> DEFINE h == [n \in Nat |-> T(n)[n]]
<1>9. ASSUME NEW n \in Nat PROVE h[n] = Along(F, base, first, h, n)
  <2>1. h[n] = Along(F, base, first, T(n), n)
    BY <1>5
  <2>2. CASE n < first
    BY <2>1, <2>2 DEF Along
  <2>3. CASE ~(n < first)
    <3>1. n - 1 \in Nat /\ n - 1 =< n
      BY <2>3
    <3>2. T(n)[n - 1] = h[n - 1]
      BY <1>8, <3>1
    <3> HIDE DEF h
    <3> QED BY <2>1, <2>3, <3>2 DEF Along
  <2> QED BY <2>2, <2>3
<1>10. IsTrail(F, base, first, h, Nat)
  BY <1>9 DEF IsTrail
<1> HIDE DEF h
<1> QED BY <1>10

LEMMA TrailStays ==
    ASSUME NEW R, NEW h, NEW first \in Nat \ {0}, NEW last \in Nat,
           \A n \in Nat : n < first => h[n] \in R,
           \A n \in first .. last : h[n - 1] \in R => h[n] \in R
    PROVE  h[last] \in R
<1> DEFINE B == {n \in Nat : n =< last => h[n] \in R}
<1>1. 0 \in B
  OBVIOUS
<1>2. ASSUME NEW n \in Nat, n \in B PROVE n + 1 \in B
  <2> SUFFICES ASSUME n + 1 =< last PROVE h[n + 1] \in R
    OBVIOUS
  <2>1. CASE n + 1 < first
    BY <2>1
  <2>2. CASE ~(n + 1 < first)
    <3>1. n + 1 \in first .. last /\ (n + 1) - 1 = n
      BY <2>2
    <3> QED BY <1>2, <3>1
  <2> QED BY <2>1, <2>2
<1>3. last \in B
  <2> HIDE DEF B
  <2> QED BY <1>1, <1>2, CountingUp
<1> QED BY <1>3

==============================================================================
