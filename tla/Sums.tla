-------------------------------- MODULE Sums --------------------------------
(***************************************************************************)
(* Sums over finite sets, as FoldFunction computes them by taking away one *)
(* element after the other: they are well defined, do not depend on the    *)
(* order, and follow a change of one element.  All of it is by induction,  *)
(* in the form of a least counterexample: the set of those there are is    *)
(* empty, or it has a member with no smaller one.                          *)
(***************************************************************************)
EXTENDS Numbers, Functions, FiniteSetTheorems

\* A set of subsets of a finite set has a member none of whose elements can be
\* taken away within it.
LEMMA SmallestSubset ==
  ASSUME NEW S, IsFiniteSet(S), NEW B \in SUBSET (SUBSET S), B # {}
  PROVE  \E s \in B : \A x \in s : s \ {x} \notin B
<1> DEFINE T == {Cardinality(s) : s \in B}
<1>1. \A s \in B : IsFiniteSet(s) /\ Cardinality(s) \in Nat
  BY FS_Subset, FS_CardinalityType
<1>2. T \in SUBSET Nat /\ T # {}
  BY <1>1
<1>3. PICK n \in T : \A k \in T : n <= k
  BY <1>2, LeastNat
<1>4. PICK s \in B : Cardinality(s) = n
  BY <1>3
<1>5. ASSUME NEW x \in s, s \ {x} \in B
      PROVE  FALSE
  <2>1. Cardinality(s \ {x}) = Cardinality(s) - 1
    BY <1>1, FS_RemoveElement
  <2> QED
    BY <1>1, <1>3, <1>4, <1>5, <2>1
<1> QED
  BY <1>5

-----------------------------------------------------------------------------
(* The recursive function a fold applies, and that there is one.           *)

Pick(s) == CHOOSE x \in s : TRUE

LEMMA PickIn == \A s : s # {} => Pick(s) \in s
BY DEF Pick

Body(f, S, it) ==
  [s \in SUBSET S |-> IF s = {} THEN 0 ELSE f[Pick(s)] + it[s \ {Pick(s)}]]

Iter(f, S) == CHOOSE it : it = Body(f, S, it)

Total(f) == SumFunction(f)

LEMMA TotalIs == \A f : Total(f) = Iter(f, DOMAIN f)[DOMAIN f]
BY Zenon DEF Total, SumFunction, SumFunctionOnSet, FoldFunctionOnSet, MapThenFoldSet, Iter, Body,
             Pick

UpTo(S, n) == {s \in SUBSET S : Cardinality(s) <= n}

\* it is such a function as far as sets of n elements.
Partial(f, S, n, it) ==
  /\ it = [s \in UpTo(S, n) |-> it[s]]
  /\ \A s \in UpTo(S, n) :
       it[s] = IF s = {} THEN 0 ELSE f[Pick(s)] + it[s \ {Pick(s)}]

LEMMA FinitePart ==
  ASSUME NEW S, IsFiniteSet(S), NEW s \in SUBSET S
  PROVE  /\ IsFiniteSet(s) /\ Cardinality(s) \in Nat
         /\ Cardinality(s) = 0 <=> s = {}
         /\ s # {} => Cardinality(s \ {Pick(s)}) = Cardinality(s) - 1
<1>1. IsFiniteSet(s) /\ Cardinality(s) \in Nat
  BY FS_Subset, FS_CardinalityType
<1>2. s # {} => Cardinality(s \ {Pick(s)}) = Cardinality(s) - 1
  BY <1>1, FS_RemoveElement, PickIn
<1> QED
  BY <1>1, <1>2, FS_EmptySet

LEMMA PartialNext ==
  ASSUME NEW f, NEW S, IsFiniteSet(S), NEW n \in Nat, NEW it, Partial(f, S, n, it)
  PROVE  \E next : Partial(f, S, n + 1, next)
<1> DEFINE next == [s \in UpTo(S, n + 1) |->
                      IF s = {} THEN 0 ELSE f[Pick(s)] + it[s \ {Pick(s)}]]
<1>1. ASSUME NEW s \in UpTo(S, n + 1), s # {}
      PROVE  s \ {Pick(s)} \in UpTo(S, n)
  BY <1>1, FinitePart DEF UpTo
<1>2. ASSUME NEW s \in UpTo(S, n)
      PROVE  s \in UpTo(S, n + 1) /\ next[s] = it[s]
  <2>1. s \in SUBSET S /\ Cardinality(s) <= n
    BY DEF UpTo
  <2>2. Cardinality(s) \in Nat
    BY <2>1, FinitePart
  <2>3. s \in UpTo(S, n + 1)
    BY <2>1, <2>2 DEF UpTo
  <2> QED
    BY <2>3 DEF Partial
<1>3. ASSUME NEW s \in UpTo(S, n + 1)
      PROVE  next[s] = IF s = {} THEN 0 ELSE f[Pick(s)] + next[s \ {Pick(s)}]
  <2>1. CASE s = {}
    BY <2>1
  <2>2. CASE s # {}
    <3>1. next[s \ {Pick(s)}] = it[s \ {Pick(s)}]
      BY <1>1, <1>2, <2>2
    <3>2. next[s] = f[Pick(s)] + it[s \ {Pick(s)}]
      BY <2>2
    <3> HIDE DEF next
    <3> QED
      BY <2>2, <3>1, <3>2
  <2> QED
    BY <2>1, <2>2
<1>4. next = [s \in UpTo(S, n + 1) |-> next[s]]
  OBVIOUS
<1> HIDE DEF next
<1> QED
  BY <1>3, <1>4 DEF Partial

LEMMA PartialExists ==
  ASSUME NEW f, NEW S, IsFiniteSet(S)
  PROVE  \A n \in Nat : \E it : Partial(f, S, n, it)
<1> DEFINE T == {n \in Nat : ~\E it : Partial(f, S, n, it)}
<1>1. ASSUME T # {}
      PROVE  FALSE
  <2>1. PICK n \in T : \A k \in T : n <= k
    BY <1>1, LeastNat
  <2>2. CASE n = 0
    <3> DEFINE it == [s \in UpTo(S, 0) |-> 0]
    <3>1. ASSUME NEW s \in UpTo(S, 0)
          PROVE  s = {}
      <4>1. s \in SUBSET S /\ Cardinality(s) <= 0
        BY DEF UpTo
      <4>2. Cardinality(s) \in Nat /\ (Cardinality(s) = 0 <=> s = {})
        BY <4>1, FinitePart
      <4> QED
        BY <4>1, <4>2
    <3>2. Partial(f, S, 0, it)
      BY <3>1 DEF Partial
    <3> QED
      BY <2>1, <2>2, <3>2
  <2>3. CASE n # 0
    <3>1. n - 1 \in Nat /\ n - 1 \notin T
      BY <2>1, <2>3
    <3>2. PICK it : Partial(f, S, n - 1, it)
      BY <3>1
    <3>3. \E next : Partial(f, S, (n - 1) + 1, next)
      BY <3>1, <3>2, PartialNext
    <3>4. (n - 1) + 1 = n
      BY <2>1
    <3> QED
      BY <2>1, <3>3, <3>4
  <2> QED
    BY <2>2, <2>3
<1> QED
  BY <1>1

LEMMA IterIs ==
  ASSUME NEW f, NEW S, IsFiniteSet(S)
  PROVE  Iter(f, S) = Body(f, S, Iter(f, S))
<1>1. Cardinality(S) \in Nat
  BY FS_CardinalityType
<1>2. PICK it : Partial(f, S, Cardinality(S), it)
  BY <1>1, PartialExists
<1>3. UpTo(S, Cardinality(S)) = SUBSET S
  BY FS_Subset DEF UpTo
<1>4. it = Body(f, S, it)
  BY <1>2, <1>3 DEF Partial, Body
<1> QED
  BY <1>4, Zenon DEF Iter

-----------------------------------------------------------------------------
(* What it computes.                                                       *)

LEMMA IterEmpty ==
  ASSUME NEW f, NEW S, IsFiniteSet(S)
  PROVE  Iter(f, S)[{}] = 0
<1> DEFINE it == Iter(f, S)
<1>1. it = Body(f, S, it)
  BY IterIs
<1> HIDE DEF it
<1>2. Body(f, S, it)[{}] = 0
  BY DEF Body
<1> QED
  BY <1>1, <1>2 DEF it

LEMMA IterStep ==
  ASSUME NEW f, NEW S, IsFiniteSet(S)
  PROVE  \A s \in SUBSET S :
           s # {} => Iter(f, S)[s] = f[Pick(s)] + Iter(f, S)[s \ {Pick(s)}]
<1> DEFINE it == Iter(f, S)
<1>1. it = Body(f, S, it)
  BY IterIs
<1> HIDE DEF it
<1>2. ASSUME NEW s \in SUBSET S, s # {}
      PROVE  Body(f, S, it)[s] = f[Pick(s)] + it[s \ {Pick(s)}]
  BY <1>2 DEF Body
<1>3. \A s \in SUBSET S : s # {} => it[s] = f[Pick(s)] + it[s \ {Pick(s)}]
  BY <1>1, <1>2
<1> QED
  BY <1>3 DEF it

LEMMA IterType ==
  ASSUME NEW S, IsFiniteSet(S), NEW f, \A x \in S : f[x] \in Nat
  PROVE  \A s \in SUBSET S : Iter(f, S)[s] \in Nat
<1> DEFINE it == Iter(f, S)
           B  == {s \in SUBSET S : it[s] \notin Nat}
<1>1. ASSUME B # {}
      PROVE  FALSE
  <2>1. PICK s \in B : \A x \in s : s \ {x} \notin B
    BY <1>1, SmallestSubset
  <2>2. s # {}
    <3>1. it[{}] \in Nat
      BY IterEmpty
    <3> QED
      BY <2>1, <3>1
  <2>3. Pick(s) \in s
    BY <2>2, PickIn
  <2>4. it[s \ {Pick(s)}] \in Nat
    BY <2>1, <2>3
  <2>5. f[Pick(s)] \in Nat
    BY <2>1, <2>3
  <2>6. it[s] = f[Pick(s)] + it[s \ {Pick(s)}]
    BY <2>1, <2>2, IterStep
  <2> QED
    BY <2>1, <2>4, <2>5, <2>6
<1> QED
  BY <1>1

\* Any element may be the first to be taken away.
LEMMA IterAny ==
  ASSUME NEW S, IsFiniteSet(S), NEW f, \A x \in S : f[x] \in Nat
  PROVE  \A s \in SUBSET S : \A x \in s : Iter(f, S)[s] = f[x] + Iter(f, S)[s \ {x}]
<1> DEFINE it == Iter(f, S)
           B  == {s \in SUBSET S : \E x \in s : it[s] # f[x] + it[s \ {x}]}
<1>1. \A s \in SUBSET S : it[s] \in Nat
  BY IterType
<1>2. \A s \in SUBSET S : s # {} => it[s] = f[Pick(s)] + it[s \ {Pick(s)}]
  BY IterStep
<1> HIDE DEF it
<1>3. ASSUME B # {}
      PROVE  FALSE
  <2>1. PICK s \in B : \A x \in s : s \ {x} \notin B
    BY <1>3, SmallestSubset
  <2>2. PICK x \in s : it[s] # f[x] + it[s \ {x}]
    BY <2>1
  <2> DEFINE c == Pick(s)
  <2>3. c \in s /\ it[s] = f[c] + it[s \ {c}]
    BY <1>2, <2>1, <2>2, PickIn
  <2> HIDE DEF c
  <2>4. c # x
    BY <2>2, <2>3
  <2>5. s \ {c} \in SUBSET S /\ s \ {x} \in SUBSET S
    BY <2>1
  <2>6. it[s \ {c}] = f[x] + it[(s \ {c}) \ {x}]
    BY <2>1, <2>2, <2>3, <2>4, <2>5
  <2>7. it[s \ {x}] = f[c] + it[(s \ {x}) \ {c}]
    BY <2>1, <2>2, <2>3, <2>4, <2>5
  <2> DEFINE rest == it[(s \ {x}) \ {c}]
  <2>8. it[s \ {x}] = f[c] + rest
    BY <2>7
  <2>9. it[s \ {c}] = f[x] + rest
    <3>1. (s \ {c}) \ {x} = (s \ {x}) \ {c}
      OBVIOUS
    <3> QED
      BY <2>6, <3>1
  <2>10. f[x] \in Nat /\ f[c] \in Nat /\ rest \in Nat
    <3>1. (s \ {x}) \ {c} \in SUBSET S /\ x \in S /\ c \in S
      BY <2>1, <2>2, <2>3
    <3> QED
      BY <1>1, <3>1
  <2> HIDE DEF rest, B
  <2>11. it[s] = f[c] + (f[x] + rest)
    BY <2>3, <2>9
  <2>12. it[s] = f[x] + (f[c] + rest)
    BY <2>10, <2>11
  <2> QED
    BY <2>2, <2>8, <2>12
<1> QED
  BY <1>3 DEF it

\* Functions that agree on a set have the same sum over it.
LEMMA IterAgrees ==
  ASSUME NEW S, IsFiniteSet(S), NEW f, NEW g, \A x \in S : f[x] \in Nat /\ g[x] \in Nat
  PROVE  \A s \in SUBSET S : (\A x \in s : f[x] = g[x]) => Iter(f, S)[s] = Iter(g, S)[s]
<1> DEFINE B == {s \in SUBSET S : /\ \A x \in s : f[x] = g[x]
                                  /\ Iter(f, S)[s] # Iter(g, S)[s]}
<1>1. ASSUME B # {}
      PROVE  FALSE
  <2>1. PICK s \in B : \A x \in s : s \ {x} \notin B
    BY <1>1, SmallestSubset
  <2>2. s # {}
    BY <2>1, IterEmpty
  <2>3. Pick(s) \in s
    BY <2>2, PickIn
  <2>4. Iter(f, S)[s \ {Pick(s)}] = Iter(g, S)[s \ {Pick(s)}]
    BY <2>1, <2>3
  <2>5. /\ Iter(f, S)[s] = f[Pick(s)] + Iter(f, S)[s \ {Pick(s)}]
        /\ Iter(g, S)[s] = g[Pick(s)] + Iter(g, S)[s \ {Pick(s)}]
    BY <2>1, <2>2, IterStep
  <2> QED
    BY <2>1, <2>3, <2>4, <2>5
<1> QED
  BY <1>1

-----------------------------------------------------------------------------
(* Sums.                                                                   *)

LEMMA TotalType ==
  ASSUME NEW S, IsFiniteSet(S), NEW f \in [S -> Nat]
  PROVE  Total(f) \in Nat
<1>1. DOMAIN f = S
  OBVIOUS
<1> QED
  BY <1>1, TotalIs, IterType

\* The sum of zeroes.
LEMMA TotalZero ==
  ASSUME NEW S, IsFiniteSet(S), NEW f \in [S -> Nat], \A x \in S : f[x] = 0
  PROVE  Total(f) = 0
<1> DEFINE B == {s \in SUBSET S : Iter(f, S)[s] # 0}
<1>1. ASSUME B # {}
      PROVE  FALSE
  <2>1. PICK s \in B : \A x \in s : s \ {x} \notin B
    BY <1>1, SmallestSubset
  <2>2. s # {}
    BY <2>1, IterEmpty
  <2>3. Pick(s) \in s
    BY <2>2, PickIn
  <2>4. Iter(f, S)[s \ {Pick(s)}] = 0
    BY <2>1, <2>3
  <2>5. Iter(f, S)[s] = f[Pick(s)] + Iter(f, S)[s \ {Pick(s)}]
    BY <2>1, <2>2, IterStep
  <2> QED
    BY <2>1, <2>3, <2>4, <2>5
<1>2. DOMAIN f = S
  OBVIOUS
<1> QED
  BY <1>1, <1>2, TotalIs

\* When one element changes, the sum changes by as much.
LEMMA TotalChange ==
  ASSUME NEW S, IsFiniteSet(S), NEW f \in [S -> Nat], NEW g \in [S -> Nat],
         NEW x \in S, \A y \in S \ {x} : g[y] = f[y]
  PROVE  Total(g) = Total(f) - f[x] + g[x]
<1> DEFINE rest == Iter(f, S)[S \ {x}]
<1>1. DOMAIN f = S /\ DOMAIN g = S /\ S \in SUBSET S /\ S \ {x} \in SUBSET S
  OBVIOUS
<1>2. rest \in Nat
  BY <1>1, IterType
<1>3. Iter(g, S)[S \ {x}] = rest
  BY <1>1, IterAgrees
<1>4. Iter(f, S)[S] = f[x] + rest
  BY <1>1, IterAny
<1>5. Iter(g, S)[S] = g[x] + rest
  BY <1>1, <1>3, IterAny
<1>6. Total(f) = Iter(f, S)[S] /\ Total(g) = Iter(g, S)[S]
  BY <1>1, TotalIs
<1> HIDE DEF rest
<1> QED
  BY <1>2, <1>4, <1>5, <1>6
=============================================================================
