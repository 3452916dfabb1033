-------------------------- MODULE ContainerProofs --------------------------
(***************************************************************************)
(* What the operations of Vectors and PriorityQueue return, for vectors    *)
(* and heaps of any length over any set: the lemmas that the proofs about  *)
(* queues, sleepers and children share.  Push adds one element and pop     *)
(* removes the top one, whatever the keys are and however they have        *)
(* changed; while the keys stay what they are the heap is ordered and its  *)
(* top is the least.                                                       *)
(***************************************************************************)
EXTENDS PriorityQueue, Vectors, Functions, SequenceTheorems, FiniteSetTheorems,
        WellFoundedInduction, TLAPS

----------------------------------------------------------------------------
LEMMA LeastNatural ==
    ASSUME NEW T, T \subseteq Nat, T # {}
    PROVE  \E x \in T : \A y \in T : x <= y
<1>1. \E x \in T : \A y \in T : ~ (<<y, x>> \in OpToRel(<, Nat))
  BY NatLessThanWellFounded, WFMin
<1>2. \A x, y \in Nat : y < x => <<y, x>> \in OpToRel(<, Nat)
  BY DEF OpToRel
<1>3. PICK x \in T : \A y \in T : ~ (y < x)
  BY <1>1, <1>2
<1> QED BY <1>3

\* A function on 0..n that starts at 0 and never grows by more than one takes
\* every value up to its last one, and takes it first where it has just grown.
LEMMA ValuesAreReached ==
    ASSUME NEW n \in Nat, NEW f \in [0..n -> Nat], f[0] = 0,
           \A i \in 1..n : f[i] = f[i - 1] \/ f[i] = f[i - 1] + 1,
           NEW j \in 1..f[n]
    PROVE  \E i \in 1..n : f[i] = j /\ f[i - 1] # j
<1> DEFINE Enough == {i \in 0..n : f[i] >= j}
<1>1. Enough \subseteq Nat /\ n \in Enough
  OBVIOUS
<1>2. PICK i \in Enough : \A y \in Enough : i <= y
  <2> HIDE DEF Enough
  <2> QED BY <1>1, LeastNatural
<1>3. i \in 1..n /\ f[i] >= j
  BY <1>2
<1>4. i - 1 \in 0..n /\ i - 1 \notin Enough
  BY <1>2, <1>3
<1>5. f[i - 1] < j
  BY <1>4
<1>6. f[i] = f[i - 1] \/ f[i] = f[i - 1] + 1
  BY <1>3
<1> QED BY <1>3, <1>4, <1>5, <1>6

LEMMA PositionsAreFinite ==
    ASSUME NEW n \in Nat, NEW K \in SUBSET (1..n)
    PROVE  IsFiniteSet(K) /\ Cardinality(K) \in Nat
<1>1. IsFiniteSet(1..n)
  BY 1 \in Int, n \in Int, FS_Interval
<1>2. IsFiniteSet(K)
  BY <1>1, FS_Subset, Zenon
<1> QED BY <1>2, FS_CardinalityType

\* Among the elements of K every rank up to their number is taken.
LEMMA RanksAreReached ==
    ASSUME NEW n \in Nat, NEW K \in SUBSET (1..n), NEW j \in 1..Cardinality(K)
    PROVE  \E i \in K : Cardinality({m \in K : m <= i}) = j
<1> DEFINE UpTo(i) == {m \in K : m <= i}
           f == [i \in 0..n |-> Cardinality(UpTo(i))]
<1>1. IsFiniteSet(K)
  BY PositionsAreFinite
<1>2. \A i \in 0..n : IsFiniteSet(UpTo(i)) /\ Cardinality(UpTo(i)) \in Nat
  <2> TAKE i \in 0..n
  <2>1. UpTo(i) \in SUBSET K
    OBVIOUS
  <2> QED BY <1>1, <2>1, FS_Subset, FS_CardinalityType
<1>3. UpTo(0) = {} /\ UpTo(n) = K
  <2>1. \A m \in K : m \in 1..n
    OBVIOUS
  <2>2. \A m \in K : m <= n /\ ~ (m <= 0)
    BY <2>1
  <2> QED BY <2>2
<1>4. \A i \in 1..n : /\ i - 1 \in 0..n /\ i \notin UpTo(i - 1)
                      /\ i \in K => UpTo(i) = UpTo(i - 1) \cup {i}
                      /\ i \notin K => UpTo(i) = UpTo(i - 1)
  <2> TAKE i \in 1..n
  <2>1. \A m \in K : m \in 1..n
    OBVIOUS
  <2>2. \A m \in K : m <= i <=> m <= i - 1 \/ m = i
    BY <2>1
  <2>3. i - 1 \in 0..n /\ ~ (i <= i - 1) /\ i <= i
    OBVIOUS
  <2> QED BY <2>2, <2>3
<1> HIDE DEF UpTo
<1>5. f[0] = 0 /\ f[n] = Cardinality(K) /\ f \in [0..n -> Nat]
  BY <1>2, <1>3, FS_EmptySet
<1>6. \A i \in 1..n : f[i] = IF i \in K THEN f[i - 1] + 1 ELSE f[i - 1]
  <2> TAKE i \in 1..n
  <2>1. IsFiniteSet(UpTo(i - 1)) /\ f[i - 1] = Cardinality(UpTo(i - 1)) /\ f[i] = Cardinality(UpTo(i))
    BY <1>2, <1>4
  <2>2. Cardinality(UpTo(i - 1) \cup {i}) = Cardinality(UpTo(i - 1)) + 1
    BY <1>4, <2>1, FS_AddElement
  <2> QED BY <1>4, <2>1, <2>2
<1>7. PICK i \in 1..n : f[i] = j /\ f[i - 1] # j
  <2> HIDE DEF f
  <2>1. \A i \in 1..n : f[i] = f[i - 1] \/ f[i] = f[i - 1] + 1
    BY <1>6
  <2> QED BY <1>5, <2>1, ValuesAreReached
<1>8. i \in K /\ Cardinality(UpTo(i)) = j
  BY <1>6, <1>7
<1> QED BY <1>8 DEF UpTo

\* No two elements of K have the same rank.
LEMMA RanksDiffer ==
    ASSUME NEW n \in Nat, NEW K \in SUBSET (1..n), NEW i \in K, NEW k \in K,
           Cardinality({m \in K : m <= i}) = Cardinality({m \in K : m <= k})
    PROVE  i = k
<1> DEFINE UpTo(x) == {m \in K : m <= x}
<1>1. ASSUME NEW x \in K, NEW y \in K, x < y
      PROVE  Cardinality(UpTo(x)) < Cardinality(UpTo(y))
  <2>1. UpTo(x) \in SUBSET (1..n) /\ UpTo(y) \in SUBSET (1..n)
    OBVIOUS
  <2>2. \A m \in K : m \in 1..n
    OBVIOUS
  <2>3. y \notin UpTo(x) /\ UpTo(x) \cup {y} \subseteq UpTo(y)
    <3>1. \A m \in K : m <= x => m <= y
      BY <1>1, <2>2
    <3>2. ~ (y <= x) /\ y <= y
      BY <1>1, <2>2
    <3> QED BY <3>1, <3>2
  <2> HIDE DEF UpTo
  <2>4. /\ IsFiniteSet(UpTo(x)) /\ Cardinality(UpTo(x)) \in Nat
        /\ IsFiniteSet(UpTo(y)) /\ Cardinality(UpTo(y)) \in Nat
    BY <2>1, PositionsAreFinite
  <2>5. Cardinality(UpTo(x) \cup {y}) = Cardinality(UpTo(x)) + 1
    BY <2>3, <2>4, FS_AddElement
  <2>6. Cardinality(UpTo(x) \cup {y}) <= Cardinality(UpTo(y))
    BY <2>3, <2>4, FS_Subset
  <2> QED BY <2>4, <2>5, <2>6
<1>2. /\ Cardinality(UpTo(i)) = Cardinality(UpTo(k))
      /\ Cardinality(UpTo(i)) \in Nat /\ Cardinality(UpTo(k)) \in Nat
  BY PositionsAreFinite
<1>3. i \in Nat /\ k \in Nat
  OBVIOUS
<1> HIDE DEF UpTo
<1>4. ~ (i < k) /\ ~ (k < i)
  BY <1>1, <1>2
<1> QED BY <1>3, <1>4

\* What Only keeps: the elements in S, no others, and none twice that was there once.
LEMMA OnlyExact ==
    ASSUME NEW U, NEW q \in Seq(U), NEW S
    PROVE  /\ Only(q, S) \in Seq(U)
           /\ Range(Only(q, S)) = Range(q) \cap S
           /\ IsInjective(q) => IsInjective(Only(q, S))
<1> DEFINE kept == {i \in 1..Len(q) : q[i] \in S}
           rank(i) == Cardinality({m \in kept : m <= i})
           Nth(j) == CHOOSE i \in kept : rank(i) = j
           out == [j \in 1..Cardinality(kept) |-> q[Nth(j)]]
<1>1. Len(q) \in Nat /\ kept \in SUBSET (1..Len(q)) /\ DOMAIN q = 1..Len(q)
  OBVIOUS
<1>2. IsFiniteSet(kept) /\ Cardinality(kept) \in Nat
  BY <1>1, PositionsAreFinite
<1>3. \A i \in kept : q[i] \in U /\ q[i] \in S /\ i \in DOMAIN q
  BY <1>1, ElementOfSeq
<1>4. Only(q, S) = IF kept = 1..Len(q) THEN q ELSE out
  BY DEF Only
<1>5. CASE kept = 1..Len(q)
  <2>1. Only(q, S) = q
    BY <1>4, <1>5
  <2>2. Range(q) \subseteq S
    BY <1>1, <1>3, <1>5 DEF Range
  <2> QED BY <2>1, <2>2
<1>6. CASE kept # 1..Len(q)
  <2>1. \A j \in 1..Cardinality(kept) : Nth(j) \in kept /\ rank(Nth(j)) = j
    <3> TAKE j \in 1..Cardinality(kept)
    <3>1. \E i \in kept : rank(i) = j
      BY <1>1, RanksAreReached
    <3> HIDE DEF kept, rank
    <3> QED BY <3>1
  <2>2. \A i \in kept : rank(i) \in 1..Cardinality(kept)
    <3> TAKE i \in kept
    <3> DEFINE upTo == {m \in kept : m <= i}
    <3>1. upTo \subseteq kept /\ i \in upTo
      BY <1>1
    <3> HIDE DEF upTo
    <3>2. IsFiniteSet(upTo) /\ Cardinality(upTo) \in Nat /\ Cardinality(upTo) <= Cardinality(kept)
      BY <1>2, <3>1, FS_Subset, FS_CardinalityType
    <3>3. Cardinality(upTo) # 0
      BY <3>1, <3>2, FS_EmptySet
    <3> QED BY <1>2, <3>2, <3>3 DEF upTo
  <2>3. \A i \in kept : Nth(rank(i)) = i
    <3> TAKE i \in kept
    <3>1. Nth(rank(i)) \in kept /\ rank(Nth(rank(i))) = rank(i)
      BY <2>1, <2>2
    <3> QED BY <1>1, <3>1, RanksDiffer
  <2> HIDE DEF kept, rank, Nth
  <2>4. DOMAIN out = 1..Cardinality(kept) /\ \A j \in 1..Cardinality(kept) : out[j] = q[Nth(j)]
    OBVIOUS
  <2>5. \A j \in 1..Cardinality(kept) : q[Nth(j)] \in U
    BY <1>3, <2>1
  <2>6. out \in Seq(U)
    BY <1>2, <2>5
  <2> HIDE DEF out
  <2>7. Range(out) = Range(q) \cap S
    <3>1. Range(out) \subseteq Range(q) \cap S
      BY <1>3, <2>1, <2>4 DEF Range
    <3>2. ASSUME NEW i \in DOMAIN q, q[i] \in S PROVE q[i] \in Range(out)
      <4>1. i \in kept
        BY <1>1, <3>2 DEF kept
      <4> QED BY <2>2, <2>3, <2>4, <4>1 DEF Range
    <3> QED BY <3>1, <3>2 DEF Range
  <2>8. ASSUME IsInjective(q) PROVE IsInjective(out)
    <3> SUFFICES ASSUME NEW j \in DOMAIN out, NEW k \in DOMAIN out, out[j] = out[k]
                 PROVE  j = k
      BY DEF IsInjective
    <3>1. Nth(j) = Nth(k)
      BY <1>3, <2>1, <2>4, <2>8 DEF IsInjective
    <3> QED BY <2>1, <2>4, <3>1
  <2> QED BY <1>4, <1>6, <2>6, <2>7, <2>8
<1> QED BY <1>5, <1>6

\* What erase(remove(...)) leaves: everything but the element removed.
LEMMA WithoutExact ==
    ASSUME NEW U, NEW q \in Seq(U), NEW c
    PROVE  /\ Without(q, c) \in Seq(U)
           /\ Range(Without(q, c)) = Range(q) \ {c}
           /\ IsInjective(q) => IsInjective(Without(q, c))
BY OnlyExact DEF Without

LEMMA WithoutKeeps ==
    ASSUME NEW U, NEW q \in Seq(U), NEW c
    PROVE  /\ Without(q, c) \in Seq(U)
           /\ \A j \in 1..Len(Without(q, c)) : Without(q, c)[j] # c
<1>1. Without(q, c) \in Seq(U) /\ Range(Without(q, c)) = Range(q) \ {c}
  BY WithoutExact
<1>2. \A j \in 1..Len(Without(q, c)) : Without(q, c)[j] \in Range(Without(q, c))
  BY <1>1 DEF Range
<1> QED BY <1>1, <1>2

LEMMA AppendExact ==
    ASSUME NEW U, NEW q \in Seq(U), NEW x \in U
    PROVE  /\ Append(q, x) \in Seq(U)
           /\ Range(Append(q, x)) = Range(q) \cup {x}
           /\ IsInjective(q) /\ x \notin Range(q) => IsInjective(Append(q, x))
<1> DEFINE out == Append(q, x)
<1>1. /\ out \in Seq(U) /\ Len(q) \in Nat /\ DOMAIN q = 1..Len(q)
      /\ DOMAIN out = 1 .. Len(q) + 1
      /\ \A k \in 1..Len(q) : out[k] = q[k]
      /\ out[Len(q) + 1] = x
  OBVIOUS
<1>2. \A k \in 1 .. Len(q) + 1 : k \in 1..Len(q) \/ k = Len(q) + 1
  BY <1>1
<1>3. 1..Len(q) \subseteq 1 .. Len(q) + 1 /\ Len(q) + 1 \in 1 .. Len(q) + 1
  BY <1>1
<1> HIDE DEF out
<1>4. Range(out) = Range(q) \cup {x}
  BY <1>1, <1>2, <1>3 DEF Range
<1>5. ASSUME IsInjective(q), x \notin Range(q) PROVE IsInjective(out)
  BY <1>1, <1>2, <1>5 DEF Range, IsInjective
<1> QED BY <1>1, <1>4, <1>5 DEF out

----------------------------------------------------------------------------
\* The heap.  Its operations only move elements, whatever the keys are.

LEMMA SiftUpKeeps ==
    ASSUME NEW S, NEW h \in Seq(S), NEW p, NEW v \in S, NEW key
    PROVE  SiftUp(h, p, v, key) \in Seq(S) /\ Len(SiftUp(h, p, v, key)) = Len(h)
<1> DEFINE path    == PathUp[p]
           blocked == {q \in path \ {p} : ~ Later(h[q], v, key)}
           stop    == IF blocked = {} THEN 0 ELSE Max(blocked)
           dest    == Min({q \in path : q > stop})
           val(r)  == IF r = dest THEN v
                      ELSE IF r \in path \ {1} /\ r > dest THEN h[r \div 2] ELSE h[r]
<1>1. SiftUp(h, p, v, key) = [r \in 1..Len(h) |-> val(r)]
  BY DEF SiftUp
<1>2. \A r \in 1..Len(h) : r # 1 => r \div 2 \in 1..Len(h)
  OBVIOUS
<1> HIDE DEF path, dest
<1>3. \A r \in 1..Len(h) : val(r) \in S
  BY <1>2, ElementOfSeq
<1> HIDE DEF val
<1> QED BY <1>1, <1>3

LEMMA PushKeeps ==
    ASSUME NEW S, NEW h \in Seq(S), NEW v \in S, NEW key
    PROVE  Push(h, v, key) \in Seq(S)
BY SiftUpKeeps, AppendProperties DEF Push

LEMMA PopKeeps ==
    ASSUME NEW S, NEW h \in Seq(S), h # << >>, NEW key
    PROVE  Pop(h, key) \in Seq(S)
<1> DEFINE m == Len(h) - 1
           path == HolePath(h, m, key)
           val(r) == IF 2 * r \in path THEN h[2 * r]
                     ELSE IF 2 * r + 1 \in path THEN h[2 * r + 1] ELSE h[r]
           sunk == [r \in 1..m |-> val(r)]
<1>1. m \in Nat /\ m < Len(h) /\ Len(h) \in 1..Len(h)
  BY EmptySeq
<1>2. path \subseteq 1..Len(h)
  BY <1>1 DEF HolePath
<1>3. h[Len(h)] \in S
  BY <1>1, ElementOfSeq
<1>4. Pop(h, key) = IF m = 0 THEN << >> ELSE SiftUp(sunk, Max(path), h[Len(h)], key)
  BY DEF Pop
<1>5. \A r \in 1..m : r \in 1..Len(h)
  BY <1>1
<1> HIDE DEF path
<1>6. \A r \in 1..m : val(r) \in S
  BY <1>2, <1>5, ElementOfSeq
<1> HIDE DEF val
<1>7. sunk \in Seq(S)
  BY <1>1, <1>6
<1> HIDE DEF sunk
<1> QED BY <1>3, <1>4, <1>7, SiftUpKeeps

----------------------------------------------------------------------------
\* Which positions a sift runs along.

\* PathUp obeys its recursion: on every 0..n there is one function that does.
PathsTo(n, g) == \A p \in 0..n : g[p] = IF p = 0 THEN {} ELSE {p} \cup g[p \div 2]

LEMMA Halves == \A p \in Nat \ {0} : p \div 2 \in Nat /\ p \div 2 < p
OBVIOUS

LEMMA PathsExist == \A n \in Nat : \E g : PathsTo(n, g)
<1> DEFINE T == {n \in Nat : ~ \E g : PathsTo(n, g)}
<1> SUFFICES ASSUME T # {} PROVE FALSE
  OBVIOUS
<1>1. PICK n \in T : \A m \in T : n <= m
  <2>1. T \subseteq Nat
    OBVIOUS
  <2> HIDE DEF T
  <2> QED BY <2>1, LeastNatural
<1>2. n # 0
  <2>1. PathsTo(0, [p \in 0..0 |-> {}])
    BY DEF PathsTo
  <2> QED BY <1>1, <2>1
<1>3. n - 1 \in Nat /\ n \in Nat /\ n - 1 \notin T
  BY <1>1, <1>2
<1>4. PICK g : PathsTo(n - 1, g)
  BY <1>3
<1> DEFINE h == [p \in 0..n |-> IF p = n THEN {n} \cup g[n \div 2] ELSE g[p]]
<1>5. \A p \in 0..n : h[p] = IF p = 0 THEN {} ELSE {p} \cup h[p \div 2]
  <2> TAKE p \in 0..n
  <2>1. p # n => p \in 0 .. n - 1
    BY <1>3
  <2>3. p # n => g[p] = IF p = 0 THEN {} ELSE {p} \cup g[p \div 2]
    BY <1>4, <2>1, Zenon DEF PathsTo
  <2>2. p # 0 => p \div 2 \in 0..n /\ p \div 2 # n
    BY <1>3, Halves
  <2> QED BY <1>2, <2>1, <2>2, <2>3
<1>6. PathsTo(n, h)
  BY <1>5 DEF PathsTo
<1> QED BY <1>1, <1>6

LEMMA PathsAgree ==
    ASSUME NEW n \in Nat, NEW m \in Nat, NEW g, NEW h, PathsTo(n, g), PathsTo(m, h),
           NEW p \in Nat, p <= n, p <= m
    PROVE  g[p] = h[p]
<1> DEFINE T == {q \in Nat : q <= n /\ q <= m /\ g[q] # h[q]}
<1> SUFFICES ASSUME T # {} PROVE FALSE
  OBVIOUS
<1>1. PICK q \in T : \A x \in T : q <= x
  <2>1. T \subseteq Nat
    OBVIOUS
  <2> HIDE DEF T
  <2> QED BY <2>1, LeastNatural
<1>2. /\ g[q] = IF q = 0 THEN {} ELSE {q} \cup g[q \div 2]
      /\ h[q] = IF q = 0 THEN {} ELSE {q} \cup h[q \div 2]
  <2>1. q \in 0..n /\ q \in 0..m
    OBVIOUS
  <2> QED BY <2>1, Zenon DEF PathsTo
<1>3. q # 0 => g[q \div 2] = h[q \div 2]
  BY <1>1, Halves
<1> QED BY <1>1, <1>2, <1>3

LEMMA PathUpRecursion ==
    \A p \in Nat : PathUp[p] = IF p = 0 THEN {} ELSE {p} \cup PathUp[p \div 2]
<1> DEFINE G(n) == CHOOSE g : PathsTo(n, g)
           f == [p \in Nat |-> G(p)[p]]
<1>1. \A n \in Nat : PathsTo(n, G(n))
  BY PathsExist
<1> HIDE DEF G
<1>2. \A p \in Nat : f[p] = IF p = 0 THEN {} ELSE {p} \cup f[p \div 2]
  <2> TAKE p \in Nat
  <2>1. p \in 0..p
    OBVIOUS
  <2>2. G(p)[p] = IF p = 0 THEN {} ELSE {p} \cup G(p)[p \div 2]
    BY <1>1, <2>1 DEF PathsTo
  <2>3. ASSUME p # 0 PROVE f[p \div 2] = G(p)[p \div 2]
    <3>1. p \div 2 \in Nat /\ p \div 2 <= p
      BY <2>3, Halves
    <3>2. PathsTo(p \div 2, G(p \div 2)) /\ PathsTo(p, G(p))
      BY <1>1, <3>1
    <3>3. G(p \div 2)[p \div 2] = G(p)[p \div 2]
      BY <3>1, <3>2, PathsAgree
    <3> QED BY <3>1, <3>3
  <2> QED BY <2>2, <2>3
<1>3. f = [p \in Nat |-> IF p = 0 THEN {} ELSE {p} \cup f[p \div 2]]
  BY <1>2
<1> HIDE DEF f
<1>4. PathUp = CHOOSE u : u = [p \in Nat |-> IF p = 0 THEN {} ELSE {p} \cup u[p \div 2]]
  BY DEF PathUp
<1>5. PathUp = [p \in Nat |-> IF p = 0 THEN {} ELSE {p} \cup PathUp[p \div 2]]
  BY <1>3, <1>4
<1> QED BY <1>5, Zenon

LEMMA GreatestNatural ==
    ASSUME NEW n \in Nat, NEW S \in SUBSET (0..n), S # {}
    PROVE  \E x \in S : \A y \in S : y <= x
<1> DEFINE T == {d \in 0..n : n - d \in S}
<1>1. \A y \in S : y \in 0..n
  OBVIOUS
<1>2. \A y \in S : n - y \in T
  <2> TAKE y \in S
  <2>1. n - y \in 0..n /\ n - (n - y) = y
    BY <1>1
  <2> QED BY <2>1
<1>3. T \subseteq Nat /\ T # {}
  <2>1. PICK y \in S : TRUE
    OBVIOUS
  <2>2. n - y \in T
    BY <1>2, <2>1
  <2>3. \A d \in T : d \in Nat
    OBVIOUS
  <2> HIDE DEF T
  <2> QED BY <2>2, <2>3
<1>4. PICK d \in T : \A e \in T : d <= e
  <2> HIDE DEF T
  <2> QED BY <1>3, LeastNatural
<1>5. n - d \in S /\ d \in Nat
  BY <1>4
<1>6. \A y \in S : d <= n - y
  BY <1>2, <1>4
<1>7. \A y \in S : y <= n - d
  BY <1>1, <1>5, <1>6
<1> QED BY <1>5, <1>7

\* The path from p to the root: it is closed under parents, every position on it
\* but p has a child on it, and of two the higher is at or above the lower's parent.
PathOK(p) ==
    /\ PathUp[p] \subseteq 1..p /\ p \in PathUp[p] /\ 1 \in PathUp[p]
    /\ \A r \in PathUp[p] : r # 1 => r \div 2 \in PathUp[p]
    /\ \A r \in PathUp[p] : r # p => \E c \in PathUp[p] : c > r /\ c \div 2 = r
    /\ \A r, s \in PathUp[p] : r < s => r <= s \div 2
    /\ \A r \in PathUp[p] : PathUp[r] \subseteq PathUp[p]

LEMMA PathFacts == \A p \in Nat \ {0} : PathOK(p)
<1> DEFINE T == {p \in Nat \ {0} : ~ PathOK(p)}
<1> SUFFICES ASSUME T # {} PROVE FALSE
  OBVIOUS
<1>1. PICK p \in T : \A x \in T : p <= x
  <2>1. T \subseteq Nat
    OBVIOUS
  <2> HIDE DEF T
  <2> QED BY <2>1, LeastNatural
<1> DEFINE h == p \div 2
<1>2. p \in Nat /\ p # 0 /\ PathUp[p] = {p} \cup PathUp[h] /\ h \in Nat /\ h < p
  BY <1>1, PathUpRecursion, Halves
<1>3. CASE p = 1
  <2>1. PathUp[0] = {}
    BY PathUpRecursion
  <2>2. PathUp[p] = {1}
    <3>1. h = 0
      BY <1>3
    <3> QED BY <1>2, <1>3, <2>1, <3>1
  <2>3. PathOK(p)
    BY <1>3, <2>2 DEF PathOK
  <2> QED BY <1>1, <2>3
<1>4. CASE p # 1
  <2>1. h # 0
    BY <1>2, <1>4
  <2>2. PathOK(h)
    BY <1>1, <1>2, <2>1
  <2> DEFINE U == PathUp[h]
  <2>3. /\ U \subseteq 1..h /\ h \in U /\ 1 \in U
        /\ \A r \in U : r # 1 => r \div 2 \in U
        /\ \A r \in U : r # h => \E c \in U : c > r /\ c \div 2 = r
        /\ \A r, s \in U : r < s => r <= s \div 2
        /\ \A r \in U : PathUp[r] \subseteq U
    BY <2>2, Zenon DEF PathOK
  <2>4. PathUp[p] = {p} \cup U
    BY <1>2
  <2>5. p > h /\ p \div 2 = h /\ h \in Nat /\ p \in Nat
    BY <1>2
  <2> HIDE DEF U, h
  <2>6. PathUp[p] \subseteq 1..p /\ p \in PathUp[p] /\ 1 \in PathUp[p]
    BY <2>3, <2>4, <2>5
  <2>7. \A r \in PathUp[p] : r # 1 => r \div 2 \in PathUp[p]
    BY <2>3, <2>4, <2>5
  <2>8. \A r \in PathUp[p] : r # p => \E c \in PathUp[p] : c > r /\ c \div 2 = r
    BY <2>3, <2>4, <2>5
  <2>9. \A r, s \in PathUp[p] : r < s => r <= s \div 2
    <3> TAKE r, s \in PathUp[p]
    <3>1. U \subseteq 1..h /\ h < p
      BY <2>3, <2>5
    <3>2. CASE s = p
      <4>1. r < s => r \in U
        BY <2>4, <3>2, <2>5
      <4>2. r < s => r <= h
        <5> SUFFICES ASSUME r < s PROVE r <= h
          OBVIOUS
        <5>1. r \in U
          BY <4>1
        <5>2. r \in 1..h
          BY <3>1, <5>1
        <5> QED BY <2>5, <5>2
      <4>3. s \div 2 = h
        BY <2>5, <3>2
      <4> QED BY <4>2, <4>3
    <3>3. CASE s \in U
      <4>1. r < s => r \in U
        BY <2>4, <2>5, <3>1, <3>3
      <4> QED BY <2>3, <3>3, <4>1
    <3> QED BY <2>4, <3>2, <3>3
  <2>10. \A r \in PathUp[p] : PathUp[r] \subseteq PathUp[p]
    BY <2>3, <2>4, <2>5
  <2>11. PathOK(p)
    BY <2>6, <2>7, <2>8, <2>9, <2>10 DEF PathOK
  <2> QED BY <1>1, <2>11
<1> QED BY <1>3, <1>4

\* What stands in h at other positions than p.
OthersIn(h, p) == {h[q] : q \in (1..Len(h)) \ {p}}

\* SiftUp puts v at p and moves nothing in or out.
LEMMA SiftUpExact ==
    ASSUME NEW S, NEW h \in Seq(S), NEW p \in 1..Len(h), NEW v \in S, NEW key
    PROVE  /\ Range(SiftUp(h, p, v, key)) = OthersIn(h, p) \cup {v}
           /\ (\A q, r \in (1..Len(h)) \ {p} : h[q] = h[r] => q = r) /\ v \notin OthersIn(h, p)
                => IsInjective(SiftUp(h, p, v, key))
<1> DEFINE path    == PathUp[p]
           blocked == {q \in path \ {p} : ~ Later(h[q], v, key)}
           stop    == IF blocked = {} THEN 0 ELSE Max(blocked)
           above   == {q \in path : q > stop}
           dest    == Min(above)
           val(r)  == IF r = dest THEN v
                      ELSE IF r \in path \ {1} /\ r > dest THEN h[r \div 2] ELSE h[r]
           n       == Len(h)
           src(r)  == IF r \in path /\ r > dest THEN r \div 2 ELSE r
           out     == SiftUp(h, p, v, key)
<1>1. out = [r \in 1..n |-> val(r)]
  BY DEF SiftUp
<1>2. n \in Nat /\ p \in Nat \ {0} /\ p \in 1..n
  OBVIOUS
<1>3. /\ path \subseteq 1..p /\ p \in path
      /\ \A r \in path : r # 1 => r \div 2 \in path
      /\ \A r \in path : r # p => \E c \in path : c > r /\ c \div 2 = r
      /\ \A r, s \in path : r < s => r <= s \div 2
  <2>1. PathOK(p)
    BY <1>2, PathFacts
  <2> QED BY <2>1, Zenon DEF PathOK
<1>4. dest \in path
  <2>1. stop \in 0 .. p - 1
    <3>1. blocked \in SUBSET (0 .. p - 1) /\ p - 1 \in Nat
      BY <1>2, <1>3
    <3>2. CASE blocked # {}
      <4> HIDE DEF blocked
      <4>1. \E x \in blocked : \A y \in blocked : x >= y
        <5>1. PICK x \in blocked : \A y \in blocked : y <= x
          BY <3>1, <3>2, GreatestNatural
        <5> QED BY <3>1, <5>1
      <4>2. Max(blocked) \in blocked
        BY <4>1 DEF Max
      <4> QED BY <3>1, <3>2, <4>2
    <3>3. CASE blocked = {}
      BY <3>1, <3>3
    <3> QED BY <3>2, <3>3
  <2>2. p \in above /\ above \subseteq path /\ above \subseteq Nat
    <3>1. \A q \in path : q \in Nat
      BY <1>3
    <3>2. p > stop
      BY <1>2, <2>1
    <3> HIDE DEF stop, path
    <3>3. p \in above /\ above \subseteq path
      BY <1>3, <3>2
    <3> HIDE DEF above
    <3> QED BY <3>1, <3>3
  <2> HIDE DEF above
  <2>3. PICK x \in above : \A y \in above : x <= y
    BY <2>2, LeastNatural
  <2>4. Min(above) \in above
    BY <2>3 DEF Min
  <2> QED BY <2>2, <2>4
<1> HIDE DEF path, dest
<1>5. dest \in 1..n /\ path \subseteq 1..n /\ \A r \in path : r \in Nat /\ r >= 1 /\ r <= p
  BY <1>2, <1>3, <1>4
<1>6. \A r \in 1..n : out[r] = IF r = dest THEN v ELSE h[src(r)]
  BY <1>1, <1>5
<1>7. DOMAIN out = 1..n
  BY <1>1
<1> HIDE DEF out, val
<1>8. \A r \in (1..n) \ {dest} : src(r) \in (1..n) \ {p}
  <2> TAKE r \in (1..n) \ {dest}
  <2>1. CASE r \in path /\ r > dest
    <3>1. r \div 2 \in path /\ r \in Nat /\ r # 0
      BY <1>2, <1>3, <1>5, <2>1
    <3>2. r \div 2 < r /\ r <= p
      BY <1>5, <2>1, <3>1, Halves
    <3> QED BY <1>2, <1>5, <2>1, <3>1, <3>2
  <2>2. CASE ~ (r \in path /\ r > dest)
    <3>1. r = p => r \in path /\ r > dest
      BY <1>2, <1>3, <1>4, <1>5
    <3> QED BY <2>2, <3>1
  <2> QED BY <2>1, <2>2
<1>9. \A r, s \in (1..n) \ {dest} : src(r) = src(s) => r = s
  <2>1. ASSUME NEW r \in path, NEW s \in path, r < s, r \div 2 = s \div 2, r > dest PROVE FALSE
    <3>1. r <= s \div 2
      BY <1>3, <2>1
    <3>2. r \in Nat \ {0} /\ r \div 2 < r /\ r \div 2 \in Nat
      BY <1>5, Halves
    <3> QED BY <2>1, <3>1, <3>2
  <2>2. ASSUME NEW r \in path, r > dest, NEW s \in 1..n, s = r \div 2, ~ (s \in path /\ s > dest), s # dest
        PROVE  FALSE
    <3>1. s \in path
      BY <1>3, <1>5, <1>4, <2>2
    <3>2. s < dest
      BY <1>5, <2>2, <3>1
    <3>3. dest <= r \div 2
      BY <1>3, <1>4, <2>2
    <3> QED BY <1>5, <2>2, <3>2, <3>3
  <2> SUFFICES ASSUME NEW r \in (1..n) \ {dest}, NEW s \in (1..n) \ {dest}, src(r) = src(s), r # s
               PROVE  FALSE
    OBVIOUS
  <2>3. CASE (r \in path /\ r > dest) /\ (s \in path /\ s > dest)
    <3>1. r < s \/ s < r
      OBVIOUS
    <3> QED BY <2>1, <2>3, <3>1
  <2>4. CASE (r \in path /\ r > dest) /\ ~ (s \in path /\ s > dest)
    <3>1. s = r \div 2
      BY <2>4
    <3> QED BY <2>2, <2>4, <3>1
  <2>5. CASE ~ (r \in path /\ r > dest) /\ (s \in path /\ s > dest)
    <3>1. r = s \div 2
      BY <2>5
    <3> QED BY <2>2, <2>5, <3>1
  <2>6. CASE ~ (r \in path /\ r > dest) /\ ~ (s \in path /\ s > dest)
    BY <2>6
  <2> QED BY <2>3, <2>4, <2>5, <2>6
<1>10. \A q \in (1..n) \ {p} : \E r \in (1..n) \ {dest} : src(r) = q
  <2> TAKE q \in (1..n) \ {p}
  <2>1. CASE q \in path /\ q >= dest
    <3>1. PICK c \in path : c > q /\ c \div 2 = q
      BY <1>3, <2>1
    <3>2. c \in (1..n) \ {dest} /\ c > dest
      BY <1>5, <2>1, <3>1
    <3>3. src(c) = q
      BY <3>1, <3>2
    <3> HIDE DEF src
    <3> QED BY <3>2, <3>3
  <2>2. CASE ~ (q \in path /\ q >= dest)
    <3>1. q # dest /\ ~ (q \in path /\ q > dest)
      BY <1>4, <1>5, <2>2
    <3>2. src(q) = q
      BY <3>1
    <3> HIDE DEF src
    <3> QED BY <3>1, <3>2
  <2> QED BY <2>1, <2>2
<1> HIDE DEF src
<1>11. Range(out) = OthersIn(h, p) \cup {v}
  <2>1. ASSUME NEW r \in 1..n PROVE out[r] \in OthersIn(h, p) \cup {v}
    BY <1>6, <1>8 DEF OthersIn
  <2>2. v \in Range(out)
    BY <1>5, <1>6, <1>7 DEF Range
  <2>3. ASSUME NEW q \in (1..n) \ {p} PROVE h[q] \in Range(out)
    <3>1. PICK r \in (1..n) \ {dest} : src(r) = q
      BY <1>10
    <3>2. out[r] = h[q]
      BY <1>6, <3>1
    <3> QED BY <1>7, <3>1, <3>2 DEF Range
  <2> QED BY <1>7, <2>1, <2>2, <2>3 DEF Range, OthersIn
<1>12. ASSUME \A q, r \in (1..n) \ {p} : h[q] = h[r] => q = r, v \notin OthersIn(h, p)
       PROVE  IsInjective(out)
  <2> SUFFICES ASSUME NEW r \in 1..n, NEW s \in 1..n, out[r] = out[s] PROVE r = s
    BY <1>7 DEF IsInjective
  <2>1. \A x \in (1..n) \ {dest} : out[x] \in OthersIn(h, p)
    BY <1>6, <1>8 DEF OthersIn
  <2>2. out[dest] = v
    BY <1>5, <1>6
  <2>3. CASE r # dest /\ s # dest
    BY <1>6, <1>8, <1>9, <1>12, <2>3
  <2> QED BY <1>12, <2>1, <2>2, <2>3
<1> QED BY <1>11, <1>12 DEF out

\* The hole's way down: from the root, over one child at a time, to its end.
LEMMA HolePathFacts ==
    ASSUME NEW S, NEW h \in Seq(S), NEW m \in Nat \ {0}, NEW key,
           NEW H, H = HolePath(h, m, key)
    PROVE  /\ H \subseteq 1..m /\ 1 \in H /\ Max(H) \in H
           /\ \A r \in H : r <= Max(H)
           /\ \A r \in H : r # 1 => r \div 2 \in H
           /\ \A r \in H : ~ (2 * r \in H /\ 2 * r + 1 \in H)
           /\ \A r \in H : r # Max(H) => 2 * r \in H \/ 2 * r + 1 \in H
<1> DEFINE Good(q) == Preferred(h, m, q, key)
<1>1. H = {r \in 1..m : \A q \in PathUp[r] \ {1} : Good(q)}
  BY DEF HolePath
<1>2. \A q \in Nat \ {0} : PathUp[q] \subseteq 1..q /\ q \in PathUp[q]
                           /\ \A r \in PathUp[q] : PathUp[r] \subseteq PathUp[q]
  BY PathFacts DEF PathOK
<1>3. \A q \in Nat \ {0} : \A r \in PathUp[q] : r # 1 => r \div 2 \in PathUp[q]
  BY PathFacts DEF PathOK
<1>4. \A r \in Nat : 2 * r \in 1..m /\ 2 * r + 1 \in 1..m => ~ (Good(2 * r) /\ Good(2 * r + 1))
  <2> SUFFICES ASSUME NEW r \in Nat, 2 * r \in 1..m, 2 * r + 1 \in 1..m
               PROVE  ~ (Good(2 * r) /\ Good(2 * r + 1))
    OBVIOUS
  <2>1. 2 * r # m /\ (2 * r) % 2 = 0 /\ (2 * r + 1) % 2 = 1 /\ (2 * r + 1) - 1 = 2 * r
    OBVIOUS
  <2>2. Good(2 * r) <=> Later(h[2 * r + 1], h[2 * r], key)
    BY <2>1 DEF Preferred
  <2>3. Good(2 * r + 1) <=> ~ Later(h[2 * r + 1], h[2 * r], key)
    BY <2>1 DEF Preferred
  <2> QED BY <2>2, <2>3
<1> HIDE DEF Good
<1>5. H \subseteq 1..m /\ 1 \in H
  <2>1. PathUp[1] \subseteq 1..1
    BY <1>2
  <2>2. PathUp[1] \ {1} = {}
    BY <2>1
  <2> QED BY <1>1, <2>2
<1>6. \A r \in H : PathUp[r] \subseteq H
  <2> SUFFICES ASSUME NEW r \in H, NEW q \in PathUp[r] PROVE q \in H
    OBVIOUS
  <2>1. r \in Nat \ {0} /\ r <= m
    BY <1>5
  <2>2. q \in 1..r /\ PathUp[q] \subseteq PathUp[r]
    BY <1>2, <2>1
  <2>3. q \in 1..m
    BY <2>1, <2>2
  <2> QED BY <1>1, <2>2, <2>3
<1>7. \A r \in H : r # 1 => r \div 2 \in H
  <2> SUFFICES ASSUME NEW r \in H, r # 1 PROVE r \div 2 \in H
    OBVIOUS
  <2>1. r \in Nat \ {0}
    BY <1>5
  <2> QED BY <1>2, <1>3, <1>6, <2>1
<1>8. \A r \in H : r # 1 => Good(r)
  <2> SUFFICES ASSUME NEW r \in H, r # 1 PROVE Good(r)
    OBVIOUS
  <2>1. r \in Nat \ {0}
    BY <1>5
  <2> QED BY <1>1, <1>2, <2>1
<1>9. \A r \in H : ~ (2 * r \in H /\ 2 * r + 1 \in H)
  <2> SUFFICES ASSUME NEW r \in H, 2 * r \in H, 2 * r + 1 \in H PROVE FALSE
    OBVIOUS
  <2>1. r \in Nat \ {0}
    BY <1>5
  <2>2. 2 * r # 1 /\ 2 * r + 1 # 1
    BY <2>1
  <2> QED BY <1>4, <1>5, <1>8, <2>1, <2>2
<1>10. Max(H) \in H /\ \A r \in H : r <= Max(H)
  <2>1. H \in SUBSET (0..m) /\ H # {} /\ \A r \in H : r \in Nat
    BY <1>5
  <2>2. PICK x \in H : \A y \in H : y <= x
    BY <2>1, GreatestNatural
  <2>3. \A y \in H : x >= y
    BY <2>1, <2>2
  <2>4. Max(H) \in H /\ \A y \in H : Max(H) >= y
    BY <2>3 DEF Max
  <2> QED BY <2>1, <2>4
<1> DEFINE M == Max(H)
<1> HIDE DEF M
<1>11. M \in H /\ M \in Nat \ {0} /\ (\A r \in H : r <= M) /\ \A r \in H : r \in Nat \ {0}
  BY <1>5, <1>10 DEF M
<1>12. \A r \in Nat, c \in Nat : c \div 2 = r => c = 2 * r \/ c = 2 * r + 1
  OBVIOUS
<1>13. H \subseteq PathUp[M]
  <2> DEFINE D == H \ PathUp[M]
  <2> SUFFICES ASSUME D # {} PROVE FALSE
    OBVIOUS
  <2>1. D \subseteq Nat
    BY <1>11
  <2>2. PICK d \in D : \A x \in D : d <= x
    <3> HIDE DEF D
    <3> QED BY <2>1, LeastNatural
  <2>3. PathOK(M)
    BY <1>11, PathFacts
  <2>4. d # 1 /\ d \in Nat \ {0} /\ d \in H /\ d <= M
    BY <1>11, <2>2, <2>3 DEF PathOK
  <2> DEFINE e == d \div 2
  <2>5. e \in H /\ e \in Nat /\ e < d /\ e \in PathUp[M]
    <3>1. e \in H
      BY <1>7, <2>4
    <3>2. e \in Nat /\ e < d
      BY <2>4, Halves
    <3> QED BY <2>2, <2>4, <3>1, <3>2
  <2>6. e # M
    BY <2>4, <2>5
  <2>7. PICK c \in PathUp[M] : c > e /\ c \div 2 = e
    BY <2>3, <2>5, <2>6 DEF PathOK
  <2>8. c \in H /\ c \in Nat
    BY <1>6, <1>11, <2>7
  <2>9. (c = 2 * e \/ c = 2 * e + 1) /\ (d = 2 * e \/ d = 2 * e + 1)
    <3>1. d \div 2 = e
      OBVIOUS
    <3> HIDE DEF e
    <3> QED BY <1>12, <2>4, <2>5, <2>7, <2>8, <3>1
  <2>10. c # d
    BY <2>2, <2>7
  <2> HIDE DEF e
  <2> QED BY <1>9, <2>4, <2>5, <2>8, <2>9, <2>10
<1>14. \A r \in H : r # M => 2 * r \in H \/ 2 * r + 1 \in H
  <2> SUFFICES ASSUME NEW r \in H, r # M PROVE 2 * r \in H \/ 2 * r + 1 \in H
    OBVIOUS
  <2>1. PathOK(M)
    BY <1>11, PathFacts
  <2>2. PICK c \in PathUp[M] : c > r /\ c \div 2 = r
    BY <1>13, <2>1 DEF PathOK
  <2>3. c \in H /\ c \in Nat /\ r \in Nat
    BY <1>6, <1>11, <2>2
  <2> QED BY <1>12, <2>2, <2>3
<1> QED BY <1>5, <1>7, <1>9, <1>10, <1>14 DEF M

\* Pop takes the top and nothing else.
LEMMA PopExact ==
    ASSUME NEW S, NEW h \in Seq(S), h # << >>, NEW key
    PROVE  /\ Range(Pop(h, key)) = OthersIn(h, 1)
           /\ IsInjective(h) => IsInjective(Pop(h, key))
<1> DEFINE m == Len(h) - 1
           H == HolePath(h, m, key)
           val(r) == IF 2 * r \in H THEN h[2 * r]
                     ELSE IF 2 * r + 1 \in H THEN h[2 * r + 1] ELSE h[r]
           src(r) == IF 2 * r \in H THEN 2 * r ELSE IF 2 * r + 1 \in H THEN 2 * r + 1 ELSE r
           sunk == [r \in 1..m |-> val(r)]
           M == Max(H)
<1>1. m \in Nat /\ Len(h) = m + 1
  BY EmptySeq
<1>2. Pop(h, key) = IF m = 0 THEN << >> ELSE SiftUp(sunk, M, h[Len(h)], key)
  BY DEF Pop
<1>3. DOMAIN h = 1..Len(h) /\ \A k \in 1..Len(h) : h[k] \in S
  OBVIOUS
<1>4. \A k : k \in 1..Len(h) <=> k \in 1..m \/ k = m + 1
  <2> HIDE DEF m
  <2> QED BY <1>1
<1>5. CASE m = 0
  <2>1. Pop(h, key) = << >>
    BY <1>2, <1>5
  <2>2. (1..Len(h)) \ {1} = {}
    <3>1. Len(h) = 1
      <4> HIDE DEF m
      <4> QED BY <1>1, <1>5
    <3> QED BY <3>1
  <2> QED BY <2>1, <2>2 DEF OthersIn, Range, IsInjective
<1>6. CASE m # 0
  <2>1. /\ H \subseteq 1..m /\ 1 \in H /\ M \in H
        /\ \A r \in H : r <= M
        /\ \A r \in H : r # 1 => r \div 2 \in H
        /\ \A r \in H : ~ (2 * r \in H /\ 2 * r + 1 \in H)
        /\ \A r \in H : r # M => 2 * r \in H \/ 2 * r + 1 \in H
    <3>1. m \in Nat \ {0}
      BY <1>1, <1>6
    <3> HIDE DEF m
    <3> QED BY <3>1, HolePathFacts
  <2> HIDE DEF H, M
  <2>2. M \in 1..m /\ \A r \in H : r \in 1..m
    BY <2>1
  <2>3. \A r \in 1..m : val(r) = h[src(r)]
    OBVIOUS
  <2> HIDE DEF m
  <2>4. \A r \in (1..m) \ {M} : src(r) \in 2..m
    <3> TAKE r \in (1..m) \ {M}
    <3>1. r \in Nat /\ r >= 1 /\ r <= m
      BY <1>1
    <3>2. CASE 2 * r \in H \/ 2 * r + 1 \in H
      BY <1>1, <2>2, <3>1, <3>2
    <3>3. CASE ~ (2 * r \in H \/ 2 * r + 1 \in H)
      <4>1. r # 1
        BY <2>1, <3>3
      <4> QED BY <1>1, <3>1, <3>3, <4>1
    <3> QED BY <3>2, <3>3
  <2>5. \A r, s \in (1..m) \ {M} : src(r) = src(s) => r = s
    <3> SUFFICES ASSUME NEW r \in (1..m) \ {M}, NEW s \in (1..m) \ {M}, src(r) = src(s)
                 PROVE  r = s
      OBVIOUS
    <3>1. r \in Nat /\ s \in Nat
      BY <1>1
    <3>2. \A x \in (1..m) \ {M} : x \in Nat =>
             \/ src(x) = 2 * x /\ src(x) \in H
             \/ src(x) = 2 * x + 1 /\ src(x) \in H
             \/ src(x) = x /\ x \notin H
      BY <2>1
    <3>3. \/ src(r) = 2 * r /\ src(r) \in H
          \/ src(r) = 2 * r + 1 /\ src(r) \in H
          \/ src(r) = r /\ r \notin H
      BY <3>1, <3>2
    <3>4. \/ src(s) = 2 * s /\ src(s) \in H
          \/ src(s) = 2 * s + 1 /\ src(s) \in H
          \/ src(s) = s /\ s \notin H
      BY <3>1, <3>2
    <3> HIDE DEF src
    <3>5. CASE src(r) \in H
      <4>1. src(r) = 2 * r \/ src(r) = 2 * r + 1
        BY <3>3, <3>5
      <4>2. src(s) = 2 * s \/ src(s) = 2 * s + 1
        BY <3>4, <3>5
      <4> QED BY <3>1, <4>1, <4>2
    <3>6. CASE src(r) \notin H
      <4>1. src(r) = r
        BY <3>3, <3>6
      <4>2. src(s) = s
        BY <3>4, <3>6
      <4> QED BY <4>1, <4>2
    <3> QED BY <3>5, <3>6
  <2>6. \A q \in 2..m : \E r \in (1..m) \ {M} : src(r) = q
    <3> TAKE q \in 2..m
    <3>0. q \in Nat /\ q >= 2 /\ q <= m
      BY <1>1
    <3>1. CASE q \in H
      <4> DEFINE r == q \div 2
      <4>1. r \in H /\ r \in Nat /\ r < q /\ q <= M
        BY <2>1, <3>0, <3>1
      <4>2. r \in (1..m) \ {M}
        BY <2>2, <4>1
      <4>3. q = 2 * r \/ q = 2 * r + 1
        BY <3>0
      <4> HIDE DEF r
      <4>4. src(r) = q
        BY <2>1, <3>1, <4>1, <4>3
      <4> HIDE DEF src
      <4> QED BY <4>2, <4>4
    <3>2. CASE q \notin H
      <4>1. q # M /\ q \in 1..m
        BY <1>1, <2>1, <3>0, <3>2
      <4>2. ~ (2 * q \in H) /\ ~ (2 * q + 1 \in H)
        <5>1. (2 * q) \div 2 = q /\ (2 * q + 1) \div 2 = q /\ 2 * q # 1 /\ 2 * q + 1 # 1
          BY <3>0
        <5> QED BY <2>1, <3>2, <5>1
      <4>3. src(q) = q
        BY <4>2
      <4> HIDE DEF src
      <4> QED BY <4>1, <4>3
    <3> QED BY <3>1, <3>2
  <2> HIDE DEF src
  <2>7. \A r \in (1..m) \ {M} : sunk[r] = h[src(r)]
    BY <2>3
  <2>8. sunk \in Seq(S) /\ Len(sunk) = m
    <3>1. \A r \in 1..m : src(r) \in 1..Len(h)
      <4> TAKE r \in 1..m
      <4>1. src(r) \in 1..m
        BY <2>1, <1>1, <2>2 DEF src
      <4> QED BY <1>4, <4>1
    <3>2. \A r \in 1..m : val(r) \in S
      <4> HIDE DEF val
      <4> QED BY <1>3, <2>3, <3>1
    <3> HIDE DEF val
    <3>3. sunk \in [1..m -> S]
      BY <3>2
    <3> QED BY <1>1, <3>3
  <2> DEFINE v == h[Len(h)]
  <2>9. v \in S
    BY <1>1, <1>3, <1>4
  <2> HIDE DEF sunk
  <2>10. /\ Range(SiftUp(sunk, M, v, key)) = OthersIn(sunk, M) \cup {v}
         /\ (\A q, r \in (1..Len(sunk)) \ {M} : sunk[q] = sunk[r] => q = r) /\ v \notin OthersIn(sunk, M)
              => IsInjective(SiftUp(sunk, M, v, key))
    <3>1. M \in 1..Len(sunk)
      BY <2>2, <2>8
    <3> HIDE DEF v
    <3> QED BY <2>8, <2>9, <3>1, SiftUpExact
  <2>11. OthersIn(sunk, M) = {h[q] : q \in 2..m}
    <3>1. ASSUME NEW r \in (1..m) \ {M} PROVE sunk[r] \in {h[q] : q \in 2..m}
      <4>1. src(r) \in 2..m /\ sunk[r] = h[src(r)]
        BY <2>4, <2>7
      <4> QED BY <4>1
    <3>2. ASSUME NEW q \in 2..m PROVE h[q] \in {sunk[r] : r \in (1..m) \ {M}}
      <4>1. PICK r \in (1..m) \ {M} : src(r) = q
        BY <2>6
      <4>2. sunk[r] = h[q]
        BY <2>7, <4>1
      <4> QED BY <4>2
    <3>3. OthersIn(sunk, M) = {sunk[r] : r \in (1..m) \ {M}}
      BY <2>8 DEF OthersIn
    <3> QED BY <3>1, <3>2, <3>3
  <2>12. \A q : q \in (1..Len(h)) \ {1} <=> q \in 2..m \/ q = Len(h)
    BY <1>1, <1>6
  <2>13. \A q \in 2..m : q # Len(h)
    BY <1>1
  <2>14. OthersIn(h, 1) = {h[q] : q \in 2..m} \cup {v}
    BY <2>12 DEF OthersIn
  <2>15. ASSUME IsInjective(h) PROVE IsInjective(SiftUp(sunk, M, v, key))
    <3>1. \A q, r \in 1..Len(h) : h[q] = h[r] => q = r
      BY <1>3, <2>15 DEF IsInjective
    <3>2. \A q \in 2..m : q \in 1..Len(h)
      BY <2>12
    <3>3. \A q, r \in (1..m) \ {M} : sunk[q] = sunk[r] => q = r
      <4> TAKE q, r \in (1..m) \ {M}
      <4>1. src(q) \in 1..Len(h) /\ src(r) \in 1..Len(h)
        BY <2>4, <3>2
      <4>2. sunk[q] = sunk[r] => src(q) = src(r)
        BY <2>7, <3>1, <4>1
      <4> QED BY <2>5, <4>2
    <3>4. v \notin OthersIn(sunk, M)
      <4>1. Len(h) \in 1..Len(h)
        BY <2>12
      <4> QED BY <2>11, <2>13, <3>1, <3>2, <4>1
    <3> QED BY <2>8, <2>10, <3>3, <3>4
  <2>16. Pop(h, key) = SiftUp(sunk, M, v, key)
    BY <1>2, <1>6
  <2> QED BY <2>10, <2>11, <2>14, <2>15, <2>16
<1> QED BY <1>5, <1>6

LEMMA PushExact ==
    ASSUME NEW S, NEW h \in Seq(S), NEW v \in S, NEW key
    PROVE  /\ Range(Push(h, v, key)) = Range(h) \cup {v}
           /\ IsInjective(h) /\ v \notin Range(h) => IsInjective(Push(h, v, key))
<1> DEFINE g == Append(h, v)
           p == Len(h) + 1
<1>1. /\ g \in Seq(S) /\ Len(g) = p /\ p \in 1..p /\ Len(h) \in Nat /\ DOMAIN h = 1..Len(h)
      /\ \A k \in 1..Len(h) : g[k] = h[k]
  OBVIOUS
<1>2. Push(h, v, key) = SiftUp(g, p, v, key)
  BY DEF Push
<1>3. (1..Len(g)) \ {p} = 1..Len(h)
  BY <1>1
<1> HIDE DEF g, p
<1>4. OthersIn(g, p) = Range(h)
  BY <1>1, <1>3 DEF OthersIn, Range
<1>5. /\ Range(SiftUp(g, p, v, key)) = OthersIn(g, p) \cup {v}
      /\ (\A q, r \in (1..Len(g)) \ {p} : g[q] = g[r] => q = r) /\ v \notin OthersIn(g, p)
           => IsInjective(SiftUp(g, p, v, key))
  BY <1>1, SiftUpExact
<1>6. ASSUME IsInjective(h) PROVE \A q, r \in (1..Len(g)) \ {p} : g[q] = g[r] => q = r
  BY <1>1, <1>3, <1>6 DEF IsInjective
<1> QED BY <1>2, <1>4, <1>5, <1>6

----------------------------------------------------------------------------
\* The order of a heap of finite keys.
HeapOrdered(h, key) == \A q \in 2..Len(h) : key[h[q \div 2]] <= key[h[q]]

\* v, put at p, has climbed to dest over what is later than it.
ClimbsTo(dest, h, p, v, key) ==
    /\ \A r \in 1..Len(h) :
         SiftUp(h, p, v, key)[r] =
           IF r = dest THEN v
           ELSE IF r \in PathUp[p] \ {1} /\ r > dest THEN h[r \div 2] ELSE h[r]
    /\ \A q \in PathUp[p] \ {p} : q >= dest => Later(h[q], v, key)
    /\ dest # 1 => ~ Later(h[dest \div 2], v, key)

LEMMA SiftUpPlaces ==
    ASSUME NEW S, NEW h \in Seq(S), NEW p \in 1..Len(h), NEW v \in S, NEW key
    PROVE  \E dest \in PathUp[p] : ClimbsTo(dest, h, p, v, key)
<1> DEFINE path    == PathUp[p]
           blocked == {q \in path \ {p} : ~ Later(h[q], v, key)}
           stop    == IF blocked = {} THEN 0 ELSE Max(blocked)
           above   == {q \in path : q > stop}
           dest    == Min(above)
           val(r)  == IF r = dest THEN v
                      ELSE IF r \in path \ {1} /\ r > dest THEN h[r \div 2] ELSE h[r]
<1>1. SiftUp(h, p, v, key) = [r \in 1..Len(h) |-> val(r)]
  BY DEF SiftUp
<1>2. p \in Nat \ {0}
  OBVIOUS
<1>3. /\ path \subseteq 1..p /\ p \in path
      /\ \A r \in path : r # 1 => r \div 2 \in path
      /\ \A r, s \in path : r < s => r <= s \div 2
  <2>1. PathOK(p)
    BY <1>2, PathFacts
  <2> QED BY <2>1, Zenon DEF PathOK
<1>4. \A q \in path : q \in Nat \ {0} /\ q <= p
  BY <1>2, <1>3
<1>5. /\ stop \in 0 .. p - 1
      /\ \A q \in blocked : q <= stop
      /\ stop # 0 => stop \in blocked
  <2>1. blocked \in SUBSET (0 .. p - 1) /\ p - 1 \in Nat /\ \A q \in blocked : q \in Nat
    BY <1>2, <1>3
  <2>2. CASE blocked # {}
    <3> HIDE DEF blocked
    <3>1. \E x \in blocked : \A y \in blocked : x >= y
      <4>1. PICK x \in blocked : \A y \in blocked : y <= x
        BY <2>1, <2>2, GreatestNatural
      <4> QED BY <2>1, <4>1
    <3>2. Max(blocked) \in blocked /\ \A y \in blocked : Max(blocked) >= y
      BY <3>1 DEF Max
    <3> QED BY <2>1, <2>2, <3>2
  <2>3. CASE blocked = {}
    BY <2>1, <2>3
  <2> QED BY <2>2, <2>3
<1> HIDE DEF stop
<1>6. dest \in above /\ \A q \in above : dest <= q
  <2>1. p \in above /\ above \subseteq Nat
    BY <1>2, <1>3, <1>4, <1>5
  <2> HIDE DEF above
  <2>2. \E x \in above : \A y \in above : x <= y
    BY <2>1, LeastNatural
  <2> QED BY <2>2 DEF Min
<1> HIDE DEF dest
<1>7. dest \in path /\ dest > stop /\ dest \in Nat \ {0}
  BY <1>4, <1>6
<1>8. \A q \in path \ {p} : q >= dest => Later(h[q], v, key)
  BY <1>4, <1>5, <1>7
<1>9. ASSUME dest # 1 PROVE ~ Later(h[dest \div 2], v, key)
  <2> DEFINE a == dest \div 2
  <2>1. a \in path /\ a \in Nat \ {0} /\ a < dest
    BY <1>3, <1>4, <1>7, <1>9, Halves
  <2>2. a <= stop /\ stop # 0
    BY <1>5, <1>6, <1>7, <2>1
  <2>3. stop \in blocked /\ stop <= a
    BY <1>3, <1>5, <1>7, <2>2
  <2>4. a = stop
    BY <1>5, <2>1, <2>2, <2>3
  <2> QED BY <2>3, <2>4
<1> QED BY <1>1, <1>7, <1>8, <1>9 DEF ClimbsTo

\* An element climbs from a leaf of a heap that is ordered everywhere else.
LEMMA SiftUpOrders ==
    ASSUME NEW S, NEW h \in Seq(S), NEW p \in 1..Len(h), NEW v \in S, NEW key \in [S -> Nat],
           \A q \in 1..Len(h) : q \div 2 # p,
           \A q \in (2..Len(h)) \ {p} : key[h[q \div 2]] <= key[h[q]]
    PROVE  HeapOrdered(SiftUp(h, p, v, key), key)
<1> DEFINE out  == SiftUp(h, p, v, key)
           path == PathUp[p]
           n    == Len(h)
<1>0. PICK dest \in path : ClimbsTo(dest, h, p, v, key)
  BY SiftUpPlaces
<1>1. /\ \A r \in 1..n :
           out[r] = IF r = dest THEN v
                    ELSE IF r \in path \ {1} /\ r > dest THEN h[r \div 2] ELSE h[r]
      /\ \A q \in path \ {p} : q >= dest => Later(h[q], v, key)
      /\ dest # 1 => ~ Later(h[dest \div 2], v, key)
  BY <1>0, Zenon DEF ClimbsTo
<1>2. n \in Nat /\ p \in Nat \ {0} /\ p <= n /\ Len(out) = n
  BY SiftUpKeeps
<1>3. /\ path \subseteq 1..p /\ p \in path
      /\ \A r \in path : r # 1 => r \div 2 \in path
      /\ \A r, s \in path : r < s => r <= s \div 2
  <2>1. PathOK(p)
    BY <1>2, PathFacts
  <2> QED BY <2>1, Zenon DEF PathOK
<1>4. \A q \in path : q \in Nat \ {0} /\ q <= p
  BY <1>2, <1>3
<1>5. \A r \in 1..n : key[h[r]] \in Nat
  OBVIOUS
<1>6. key[v] \in Nat
  OBVIOUS
<1>7. \A q \in path \ {p} : q >= dest => key[v] < key[h[q]]
  BY <1>1, <1>2, <1>4, <1>5, <1>6 DEF Later
<1>8. dest # 1 => key[h[dest \div 2]] <= key[v]
  <2> SUFFICES ASSUME dest # 1 PROVE key[h[dest \div 2]] <= key[v]
    OBVIOUS
  <2>1. dest \div 2 \in 1..n
    BY <1>2, <1>3, <1>4
  <2> QED BY <1>1, <1>5, <1>6, <2>1 DEF Later
<1> HIDE DEF out, path
<1>9. SUFFICES ASSUME NEW q \in 2..n, NEW a, a = q \div 2 PROVE key[out[a]] <= key[out[q]]
  BY <1>2 DEF HeapOrdered, out
<1>10. a \in 1..n /\ q \in 1..n /\ a < q /\ a # p /\ q \in Nat /\ a \in Nat /\ q # 1
  BY <1>2, <1>9, Halves
<1>11. q # p => key[h[a]] <= key[h[q]]
  BY <1>2, <1>9
<1>12. a # 1 => a \div 2 \in 1..n /\ key[h[a \div 2]] <= key[h[a]]
  BY <1>2, <1>10
<1>13. CASE q \notin path
  <2>1. out[q] = h[q] /\ q # p
    BY <1>1, <1>3, <1>10, <1>13
  <2>2. CASE a \notin path \/ a < dest
    <3>1. a # dest /\ ~ (a \in path /\ a > dest)
      BY <1>4, <1>10, <2>2
    <3>2. out[a] = h[a]
      BY <1>1, <1>10, <3>1
    <3> QED BY <1>11, <2>1, <3>2
  <2>3. CASE a \in path /\ a = dest
    <3>1. out[a] = v /\ key[v] < key[h[a]]
      BY <1>1, <1>4, <1>7, <1>10, <2>3
    <3> QED BY <1>5, <1>6, <1>10, <1>11, <2>1, <3>1
  <2>4. CASE a \in path /\ a > dest
    <3>1. a # 1 /\ out[a] = h[a \div 2]
      <4>1. a # 1 /\ a # dest
        BY <1>4, <1>10, <2>4
      <4> QED BY <1>1, <1>10, <2>4, <4>1
    <3> QED BY <1>5, <1>10, <1>11, <1>12, <2>1, <3>1
  <2> QED BY <1>4, <1>10, <2>2, <2>3, <2>4
<1>14. CASE q \in path
  <2>1. a \in path /\ q <= p /\ a < p
    BY <1>2, <1>3, <1>4, <1>9, <1>10, <1>14
  <2>2. CASE q < dest
    <3>1. out[q] = h[q] /\ out[a] = h[a] /\ q # p
      BY <1>1, <1>4, <1>10, <2>1, <2>2
    <3> QED BY <1>11, <3>1
  <2>3. CASE q = dest
    <3>1. out[q] = v /\ out[a] = h[a]
      BY <1>1, <1>4, <1>10, <2>1, <2>3
    <3> QED BY <1>8, <1>9, <1>10, <2>3, <3>1
  <2>4. CASE q > dest
    <3>1. out[q] = h[a] /\ a >= dest
      <4>1. dest <= q \div 2
        BY <1>3, <1>14, <2>4
      <4> QED BY <1>1, <1>9, <1>10, <1>14, <2>4, <4>1
    <3>2. CASE a = dest
      <4>1. out[a] = v /\ key[v] < key[h[a]]
        BY <1>1, <1>4, <1>7, <1>10, <2>1, <3>2
      <4> QED BY <1>5, <1>6, <1>10, <3>1, <4>1
    <3>3. CASE a > dest
      <4>1. a # 1 /\ out[a] = h[a \div 2]
        <5>1. a # 1 /\ a # dest
          BY <1>4, <1>10, <3>3
        <5> QED BY <1>1, <1>10, <2>1, <3>3, <5>1
      <4> QED BY <1>12, <3>1, <4>1
    <3> QED BY <1>4, <1>10, <3>1, <3>2, <3>3
  <2> QED BY <1>4, <1>10, <2>2, <2>3, <2>4
<1> QED BY <1>13, <1>14


\* The hole prefers every position it sinks to, and it sinks to the bottom.
LEMMA HolePathEnds ==
    ASSUME NEW S, NEW h \in Seq(S), NEW m \in Nat \ {0}, NEW key,
           NEW H, H = HolePath(h, m, key)
    PROVE  /\ \A r \in H : r # 1 => Preferred(h, m, r, key)
           /\ \A q \in 1..m : q \div 2 # Max(H)
<1> DEFINE Good(q) == Preferred(h, m, q, key)
           M == Max(H)
<1>1. H = {r \in 1..m : \A q \in PathUp[r] \ {1} : Good(q)}
  BY DEF HolePath
<1>2. H \subseteq 1..m /\ M \in H /\ \A r \in H : r <= M
  BY HolePathFacts
<1>3. \A r \in Nat : 2 * r \in 1..m => Good(2 * r) \/ (2 * r + 1 \in 1..m /\ Good(2 * r + 1))
  <2> SUFFICES ASSUME NEW r \in Nat, 2 * r \in 1..m, ~ Good(2 * r)
               PROVE  2 * r + 1 \in 1..m /\ Good(2 * r + 1)
    OBVIOUS
  <2>1. (2 * r) % 2 = 0 /\ (2 * r + 1) % 2 = 1 /\ (2 * r + 1) - 1 = 2 * r
    OBVIOUS
  <2>2. 2 * r # m /\ ~ Later(h[2 * r + 1], h[2 * r], key)
    BY <2>1 DEF Preferred
  <2>3. Good(2 * r + 1)
    BY <2>1, <2>2 DEF Preferred
  <2> QED BY <2>2, <2>3
<1> HIDE DEF Good, M
<1>4. \A r \in H : r # 1 => Good(r)
  <2> SUFFICES ASSUME NEW r \in H, r # 1 PROVE Good(r)
    OBVIOUS
  <2>1. PathOK(r)
    BY <1>2, PathFacts
  <2> QED BY <1>1, <2>1 DEF PathOK
<1>5. ASSUME NEW q \in 1..m, q \div 2 = M PROVE FALSE
  <2>1. M \in Nat \ {0} /\ 2 * M \in 1..m
    BY <1>2, <1>5
  <2>2. PICK c \in {2 * M, 2 * M + 1} : c \in 1..m /\ Good(c)
    BY <1>3, <2>1
  <2>3. c \in Nat /\ c # 0 /\ c \div 2 = M /\ c > M
    BY <2>1, <2>2
  <2>4. PathUp[c] = {c} \cup PathUp[M]
    BY <2>3, PathUpRecursion
  <2>5. c \in H
    BY <1>1, <1>2, <2>2, <2>4
  <2> QED BY <1>2, <2>1, <2>3, <2>5
<1> QED BY <1>4, <1>5 DEF Good, M

\* What the hole leaves behind is ordered but for the leaf it ends at.
Sunk(h, m, H) ==
    [r \in 1..m |-> IF 2 * r \in H THEN h[2 * r]
                    ELSE IF 2 * r + 1 \in H THEN h[2 * r + 1] ELSE h[r]]

LEMMA SunkOrders ==
    ASSUME NEW S, NEW h \in Seq(S), NEW m \in Nat \ {0}, Len(h) = m + 1, NEW key \in [S -> Nat],
           HeapOrdered(h, key),
           NEW H, H = HolePath(h, m, key)
    PROVE  \A q \in (2..m) \ {Max(H)} : key[Sunk(h, m, H)[q \div 2]] <= key[Sunk(h, m, H)[q]]
<1> DEFINE M == Max(H)
           sunk == Sunk(h, m, H)
<1>1. /\ H \subseteq 1..m /\ 1 \in H /\ M \in H
      /\ \A r \in H : r <= M
      /\ \A r \in H : r # 1 => r \div 2 \in H
      /\ \A r \in H : ~ (2 * r \in H /\ 2 * r + 1 \in H)
      /\ \A r \in H : r # M => 2 * r \in H \/ 2 * r + 1 \in H
  BY HolePathFacts
<1>2. /\ \A r \in H : r # 1 => Preferred(h, m, r, key)
      /\ \A q \in 1..m : q \div 2 # M
  BY HolePathEnds
<1>3. \A r \in 1 .. m + 1 : key[h[r]] \in Nat
  OBVIOUS
<1>4. \A r \in 2 .. m + 1 : key[h[r \div 2]] <= key[h[r]]
  BY DEF HeapOrdered
<1>5. \A r \in 1..m : sunk[r] = IF 2 * r \in H THEN h[2 * r]
                                ELSE IF 2 * r + 1 \in H THEN h[2 * r + 1] ELSE h[r]
  BY DEF Sunk
<1> HIDE DEF M, sunk
<1>6. \A r \in 1..m : r \notin H => 2 * r \notin H /\ 2 * r + 1 \notin H
  <2> TAKE r \in 1..m
  <2>1. (2 * r) \div 2 = r /\ (2 * r + 1) \div 2 = r /\ 2 * r # 1 /\ 2 * r + 1 # 1
    OBVIOUS
  <2> QED BY <1>1, <2>1
<1> SUFFICES ASSUME NEW q \in (2..m) \ {M}, NEW a, a = q \div 2 PROVE key[sunk[a]] <= key[sunk[q]]
  BY DEF M, sunk
<1>7. /\ a \in 1..m /\ q \in 1..m /\ a # M /\ (q = 2 * a \/ q = 2 * a + 1) /\ q # 1
      /\ key[h[a]] <= key[h[q]]
  BY <1>2, <1>4
<1>8. CASE a \notin H
  <2>1. q \notin H
    BY <1>1, <1>7, <1>8
  <2>2. sunk[a] = h[a] /\ sunk[q] = h[q]
    BY <1>5, <1>6, <1>7, <1>8, <2>1
  <2> QED BY <1>7, <2>2
<1>9. CASE a \in H /\ q \in H
  <2>1. sunk[a] = h[q]
    <3>1. CASE q = 2 * a
      BY <1>5, <1>7, <1>9, <3>1
    <3>2. CASE q = 2 * a + 1
      <4>1. 2 * a \notin H
        BY <1>1, <1>9, <3>2
      <4> QED BY <1>5, <1>7, <1>9, <3>2, <4>1
    <3> QED BY <1>7, <3>1, <3>2
  <2>2. PICK c \in H : c = 2 * q \/ c = 2 * q + 1
    BY <1>1, <1>9
  <2>3. sunk[q] = h[c]
    <3>1. CASE c = 2 * q
      BY <1>5, <1>7, <2>2, <3>1
    <3>2. CASE c = 2 * q + 1
      <4>1. 2 * q \notin H
        BY <1>1, <1>9, <2>2, <3>2
      <4> QED BY <1>5, <1>7, <2>2, <3>2, <4>1
    <3> QED BY <2>2, <3>1, <3>2
  <2>4. c \in 2 .. m + 1 /\ c \div 2 = q
    BY <1>1, <1>7, <2>2
  <2> QED BY <1>4, <2>1, <2>3, <2>4
<1>10. CASE a \in H /\ q \notin H
  <2>1. sunk[q] = h[q]
    BY <1>5, <1>6, <1>7, <1>10
  <2>2. CASE q = 2 * a
    <3> DEFINE c == 2 * a + 1
    <3>1. c \in H
      BY <1>1, <1>7, <1>10, <2>2
    <3>2. sunk[a] = h[c]
      BY <1>5, <1>7, <1>10, <2>2, <3>1
    <3>3. c % 2 = 1 /\ c - 1 = q /\ c # 1
      BY <1>7, <2>2
    <3>4. ~ Later(h[c], h[c - 1], key)
      <4> HIDE DEF c
      <4> QED BY <1>2, <3>1, <3>3 DEF Preferred
    <3>5. c \in 1 .. m + 1 /\ q \in 1 .. m + 1
      BY <1>1, <1>7, <3>1
    <3> HIDE DEF c
    <3>6. key[h[c]] \in Nat /\ key[h[q]] \in Nat
      BY <1>3, <3>5
    <3>7. key[h[c]] <= key[h[q]]
      BY <3>3, <3>4, <3>6 DEF Later
    <3> QED BY <2>1, <3>2, <3>7
  <2>3. CASE q = 2 * a + 1
    <3> DEFINE c == 2 * a
    <3>1. c \in H
      BY <1>1, <1>7, <1>10, <2>3
    <3>2. sunk[a] = h[c]
      BY <1>5, <1>7, <1>10, <2>3, <3>1
    <3>3. c % 2 = 0 /\ c + 1 = q /\ c # 1 /\ c # m
      BY <1>7, <2>3
    <3>4. Later(h[c + 1], h[c], key)
      <4> HIDE DEF c
      <4> QED BY <1>2, <3>1, <3>3 DEF Preferred
    <3>5. c \in 1 .. m + 1 /\ q \in 1 .. m + 1
      BY <1>1, <1>7, <3>1
    <3> HIDE DEF c
    <3>6. key[h[c]] \in Nat /\ key[h[q]] \in Nat
      BY <1>3, <3>5
    <3>7. key[h[c]] <= key[h[q]]
      <4>1. Later(h[q], h[c], key)
        BY <3>3, <3>4, Zenon
      <4> QED BY <3>6, <4>1 DEF Later
    <3> QED BY <2>1, <3>2, <3>7
  <2> QED BY <1>7, <2>2, <2>3
<1> QED BY <1>8, <1>9, <1>10

\* Push and pop keep the order of a heap whose keys are fixed.
LEMMA PushOrders ==
    ASSUME NEW S, NEW h \in Seq(S), NEW v \in S, NEW key \in [S -> Nat], HeapOrdered(h, key)
    PROVE  HeapOrdered(Push(h, v, key), key)
<1> DEFINE g == Append(h, v)
           p == Len(h) + 1
<1>1. /\ g \in Seq(S) /\ Len(g) = p /\ p \in 1..p /\ Len(h) \in Nat /\ p \in Nat
      /\ \A k \in 1..Len(h) : g[k] = h[k]
  OBVIOUS
<1>2. \A q \in 1..p : q \div 2 # p
  BY <1>1
<1>3. \A q \in (2..p) \ {p} : key[g[q \div 2]] <= key[g[q]]
  <2> TAKE q \in (2..p) \ {p}
  <2>1. q \in 2..Len(h) /\ q \in 1..Len(h) /\ q \div 2 \in 1..Len(h)
    BY <1>1
  <2> QED BY <1>1, <2>1 DEF HeapOrdered
<1>4. Push(h, v, key) = SiftUp(g, p, v, key)
  BY DEF Push
<1> HIDE DEF g, p
<1>5. p \in 1..Len(g) /\ (\A q \in 1..Len(g) : q \div 2 # p)
      /\ \A q \in (2..Len(g)) \ {p} : key[g[q \div 2]] <= key[g[q]]
  BY <1>1, <1>2, <1>3
<1>6. HeapOrdered(SiftUp(g, p, v, key), key)
  BY <1>1, <1>5, SiftUpOrders
<1> QED BY <1>4, <1>6

LEMMA PopOrders ==
    ASSUME NEW S, NEW h \in Seq(S), h # << >>, NEW key \in [S -> Nat], HeapOrdered(h, key)
    PROVE  HeapOrdered(Pop(h, key), key)
<1> DEFINE m == Len(h) - 1
           H == HolePath(h, m, key)
           sunk == Sunk(h, m, H)
           M == Max(H)
           v == h[Len(h)]
<1>1. m \in Nat /\ Len(h) = m + 1 /\ v \in S
  BY EmptySeq
<1>2. Pop(h, key) = IF m = 0 THEN << >> ELSE SiftUp(sunk, M, v, key)
  BY DEF Pop, Sunk
<1>3. CASE m = 0
  <2>1. Pop(h, key) = << >>
    BY <1>2, <1>3
  <2> QED BY <2>1 DEF HeapOrdered
<1>4. CASE m # 0
  <2> HIDE DEF v
  <2>1. m \in Nat \ {0}
    BY <1>1, <1>4
  <2>2. H \subseteq 1..m /\ M \in H
    <3> HIDE DEF m
    <3> QED BY <2>1, HolePathFacts
  <2>3. \A q \in 1..m : q \div 2 # M
    <3> HIDE DEF m
    <3> QED BY <2>1, HolePathEnds
  <2>4. \A q \in (2..m) \ {M} : key[sunk[q \div 2]] <= key[sunk[q]]
    <3> HIDE DEF m
    <3> QED BY <1>1, <2>1, SunkOrders
  <2>5. sunk \in Seq(S) /\ Len(sunk) = m
    <3> DEFINE val(r) == IF 2 * r \in H THEN h[2 * r]
                         ELSE IF 2 * r + 1 \in H THEN h[2 * r + 1] ELSE h[r]
    <3>1. \A r \in 1..m : val(r) \in S
      <4> HIDE DEF H
      <4> QED BY <1>1, <2>2
    <3> HIDE DEF val
    <3>2. [r \in 1..m |-> val(r)] \in Seq(S) /\ Len([r \in 1..m |-> val(r)]) = m
      BY <1>1, <3>1
    <3>3. sunk = [r \in 1..m |-> val(r)]
      BY DEF val, Sunk
    <3> QED BY <3>2, <3>3
  <2> HIDE DEF m, M, H, sunk
  <2>6. M \in 1..Len(sunk)
    BY <2>2, <2>5
  <2>7. HeapOrdered(SiftUp(sunk, M, v, key), key)
    BY <1>1, <2>3, <2>4, <2>5, <2>6, SiftUpOrders
  <2> QED BY <1>2, <1>4, <2>7
<1> QED BY <1>3, <1>4

\* No element of a heap has a smaller key than its top.
LEMMA TopLeast ==
    ASSUME NEW S, NEW h \in Seq(S), NEW key \in [S -> Nat], HeapOrdered(h, key)
    PROVE  \A q \in 1..Len(h) : key[h[1]] <= key[h[q]]
<1> DEFINE T == {q \in 1..Len(h) : ~ (key[h[1]] <= key[h[q]])}
<1> SUFFICES ASSUME T # {} PROVE FALSE
  OBVIOUS
<1>1. PICK q \in T : \A r \in T : q <= r
  <2>1. T \subseteq Nat
    OBVIOUS
  <2> HIDE DEF T
  <2> QED BY <2>1, LeastNatural
<1>2. \A r \in 1..Len(h) : key[h[r]] \in Nat
  OBVIOUS
<1>3. q # 1 /\ q \in 2..Len(h) /\ 1 \in 1..Len(h)
  BY <1>1, <1>2
<1> DEFINE a == q \div 2
<1>4. a \in 1..Len(h) /\ a < q /\ key[h[a]] <= key[h[q]] /\ a \in Nat
  BY <1>3 DEF HeapOrdered
<1> HIDE DEF a
<1>5. a \notin T
  BY <1>1, <1>3, <1>4
<1> QED BY <1>1, <1>2, <1>3, <1>4, <1>5

\* The order depends only on the keys of what is in the heap.
LEMMA OrderKept ==
    ASSUME NEW S, NEW h \in Seq(S), NEW key, NEW new, HeapOrdered(h, key),
           \A c \in Range(h) : new[c] = key[c]
    PROVE  HeapOrdered(h, new)
<1>1. \A q \in 1..Len(h) : new[h[q]] = key[h[q]]
  BY DEF Range
<1>2. \A q \in 2..Len(h) : q \in 1..Len(h) /\ q \div 2 \in 1..Len(h)
  OBVIOUS
<1> QED BY <1>1, <1>2 DEF HeapOrdered

=============================================================================
