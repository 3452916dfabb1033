-------------------------- MODULE RandomIntProofs --------------------------
(***************************************************************************)
(* Proofs about RandomInt, for words of any even number of values and      *)
(* tables of any length: NextInteger stays in its range and draws all of   *)
(* it alike, and Shuffle permutes, each permutation by one sequence of     *)
(* picks.                                                                  *)
(***************************************************************************)
EXTENDS RandomInt, ContainerProofs, FunctionTheorems, TLAPS

----------------------------------------------------------------------------
\* Arithmetic modulo m of numbers near 0 .. m-1.

LEMMA ModSmall == ASSUME NEW m \in Nat \ {0}, NEW x \in 0 .. m - 1 PROVE x % m = x
OBVIOUS

LEMMA ModNeg == ASSUME NEW m \in Nat \ {0}, NEW x \in -m .. -1 PROVE x % m = x + m
OBVIOUS

LEMMA ModOver == ASSUME NEW m \in Nat \ {0}, NEW x \in m .. 2 * m - 1 PROVE x % m = x - m
OBVIOUS

LEMMA ModRange == ASSUME NEW m \in Nat \ {0}, NEW x \in Int PROVE x % m \in 0 .. m - 1
OBVIOUS

\* A number is a multiple of m and a remainder in one way only.
LEMMA DivMod ==
    ASSUME NEW m \in Nat \ {0}, NEW x \in Nat
    PROVE  x \div m \in Nat /\ x % m \in 0 .. m - 1 /\ x = (x \div m) * m + (x % m)
OBVIOUS

LEMMA ModUnique ==
    ASSUME NEW m \in Nat \ {0}, NEW k \in Nat, NEW d \in 0 .. m - 1
    PROVE  (k * m + d) % m = d /\ (k * m + d) \div m = k
<1> DEFINE x == k * m + d
           q == x \div m
           r == x % m
<1>1. x \in Nat
  OBVIOUS
<1>2. q \in Nat /\ r \in 0 .. m - 1 /\ x = q * m + r
  BY <1>1, DivMod
<1> HIDE DEF q, r
<1>3. (k - q) * m = r - d
  BY <1>2
<1>4. \A n \in Nat \ {0} : n * m >= m
  OBVIOUS
<1>5. ~ (k - q >= 1)
  <2>1. SUFFICES ASSUME k - q >= 1 PROVE FALSE
    OBVIOUS
  <2>2. k - q \in Nat \ {0}
    BY <1>2, <2>1
  <2>3. (k - q) * m >= m
    BY <1>4, <2>2
  <2> QED BY <1>2, <1>3, <2>3
<1>6. ~ (q - k >= 1)
  <2>1. SUFFICES ASSUME q - k >= 1 PROVE FALSE
    OBVIOUS
  <2>2. q - k \in Nat \ {0}
    BY <1>2, <2>1
  <2>3. (q - k) * m >= m
    BY <1>4, <2>2
  <2>4. (q - k) * m = d - r
    BY <1>2
  <2> QED BY <1>2, <2>3, <2>4
<1>7. q = k
  BY <1>2, <1>5, <1>6
<1>8. r = d
  BY <1>2, <1>3, <1>7
<1> QED BY <1>7, <1>8 DEF q, r

\* Below q * m every residue modulo m occurs q times.
LEMMA ResidueClass ==
    ASSUME NEW m \in Nat \ {0}, NEW q \in Nat, NEW d \in 0 .. m - 1
    PROVE  /\ q * m \in Nat
           /\ IsFiniteSet({x \in 0 .. q * m - 1 : x % m = d})
           /\ Cardinality({x \in 0 .. q * m - 1 : x % m = d}) = q
<1> DEFINE C == {x \in 0 .. q * m - 1 : x % m = d}
           f == [k \in 0 .. q - 1 |-> k * m + d]
<1>0. q * m \in Nat
  OBVIOUS
<1>1. ASSUME NEW k \in 0 .. q - 1 PROVE k * m + d \in C
  <2>1. (k * m + d) % m = d
    BY ModUnique
  <2>2. k * m + d \in Nat
    OBVIOUS
  <2>3. (q - k) * m >= m
    <3>1. q - k \in Nat \ {0}
      OBVIOUS
    <3> QED BY <3>1
  <2>4. k * m + d < q * m
    BY <2>3
  <2> QED BY <1>0, <2>1, <2>2, <2>4
<1>2. f \in [0 .. q - 1 -> C]
  <2> HIDE DEF C
  <2> QED BY <1>1
<1>3. \A k, l \in 0 .. q - 1 : k * m + d = l * m + d => k = l
  <2>1. \A k \in 0 .. q - 1 : (k * m + d) \div m = k
    BY ModUnique
  <2> QED BY <2>1
<1>4. \A x \in C : \E k \in 0 .. q - 1 : k * m + d = x
  <2> TAKE x \in C
  <2>1. x \in Nat /\ x < q * m /\ x % m = d
    BY <1>0
  <2>2. x \div m \in Nat /\ x = (x \div m) * m + d
    BY <2>1, DivMod
  <2>3. x \div m < q
    <3>1. SUFFICES ASSUME x \div m >= q PROVE FALSE
      BY <2>2
    <3>2. \A a \in Nat : a >= q => a * m >= q * m
      OBVIOUS
    <3> QED BY <2>1, <2>2, <3>1, <3>2
  <2> WITNESS x \div m \in 0 .. q - 1
  <2> QED BY <2>2
<1>5. f \in Bijection(0 .. q - 1, C)
  <2> HIDE DEF C
  <2> QED BY <1>2, <1>3, <1>4, Fun_IsBij
<1>6. IsFiniteSet(0 .. q - 1) /\ Cardinality(0 .. q - 1) = q
  BY FS_Interval
<1> HIDE DEF C, f
<1>7. ExistsBijection(0 .. q - 1, C)
  BY <1>5 DEF ExistsBijection
<1> QED BY <1>0, <1>6, <1>7, FS_Bijection DEF C

----------------------------------------------------------------------------
\* The size of the range survives the wrapping subtraction, but for the full one.
LEMMA SpanSize ==
    ASSUME NEW a \in Int64, NEW b \in Int64, a <= b
    PROVE  Span(a, b) = IF b - a + 1 = Modulus THEN 0 ELSE b - a + 1
<1>1. /\ Modulus \in Nat \ {0} /\ Half \in Nat \ {0} /\ Modulus = 2 * Half
      /\ a \in -Half .. Half - 1 /\ b \in -Half .. Half - 1
  BY RandomAssumption DEF Int64, Modulus
<1>2. ASSUME NEW x \in Int64 PROVE Unsigned(x) = IF x < 0 THEN x + Modulus ELSE x
  BY <1>1, <1>2, ModSmall, ModNeg DEF Unsigned, Int64
<1>3. CASE a < 0 /\ b >= 0
  <2>1. Unsigned(b) - Unsigned(a) + 1 = b - a + 1 - Modulus
    BY <1>1, <1>2, <1>3
  <2>2. b - a + 1 - Modulus \in -Modulus .. 0
    BY <1>1, <1>3
  <2> QED BY <1>1, <2>1, <2>2, ModSmall, ModNeg DEF Span
<1>4. CASE ~ (a < 0 /\ b >= 0)
  <2>1. Unsigned(b) - Unsigned(a) + 1 = b - a + 1
    BY <1>1, <1>2, <1>4
  <2>2. b - a + 1 \in 0 .. Modulus - 1
    BY <1>1, <1>4
  <2> QED BY <1>1, <2>1, <2>2, ModSmall DEF Span
<1> QED BY <1>3, <1>4

\* Unless the range is the full one, the value is the first argument plus what
\* is left of the word modulo the size of the range.
LEMMA ValueOffset ==
    ASSUME NEW a \in Int64, NEW b \in Int64, a <= b, b - a + 1 # Modulus, NEW r \in UInt64
    PROVE  /\ b - a + 1 \in 1 .. Top /\ Span(a, b) = b - a + 1
           /\ r % (b - a + 1) \in 0 .. b - a
           /\ Value(a, b, r) = a + (r % (b - a + 1))
<1>1. /\ Modulus \in Nat \ {0} /\ Half \in Nat \ {0} /\ Modulus = 2 * Half
      /\ a \in -Half .. Half - 1 /\ b \in -Half .. Half - 1 /\ r \in 0 .. Modulus - 1
  BY RandomAssumption DEF Int64, Modulus, UInt64
<1> DEFINE k == r % Span(a, b)
<1>2. Span(a, b) = b - a + 1 /\ b - a + 1 \in Nat \ {0}
  BY <1>1, SpanSize
<1>3. k \in 0 .. b - a
  BY <1>1, <1>2, ModRange
<1> HIDE DEF k
<1>4. Signed((Unsigned(a) + k) % Modulus) = a + k
  <2>1. CASE a >= 0
    <3>1. Unsigned(a) = a
      BY <1>1, <2>1, ModSmall DEF Unsigned
    <3>2. a + k \in 0 .. Modulus - 1 /\ a + k < Half
      BY <1>1, <1>3, <2>1
    <3> QED BY <1>1, <3>1, <3>2, ModSmall DEF Signed
  <2>2. CASE a < 0
    <3>1. Unsigned(a) = a + Modulus
      <4>1. a \in -Modulus .. -1
        BY <1>1, <2>2
      <4> QED BY <1>1, <4>1, ModNeg DEF Unsigned
    <3>2. CASE a + k < 0
      <4>1. a + Modulus + k \in 0 .. Modulus - 1 /\ ~ (a + Modulus + k < Half)
        BY <1>1, <1>3, <2>2, <3>2
      <4> QED BY <1>1, <1>3, <3>1, <4>1, ModSmall DEF Signed
    <3>3. CASE a + k >= 0
      <4> DEFINE x == a + Modulus + k
      <4>1. /\ x \in Modulus .. 2 * Modulus - 1
            /\ x - Modulus = a + k /\ a + k < Half
        BY <1>1, <1>3, <2>2, <3>3
      <4>2. Unsigned(a) + k = x
        BY <3>1
      <4> HIDE DEF x
      <4>3. x % Modulus = x - Modulus
        BY <1>1, <4>1, ModOver
      <4> QED BY <4>1, <4>2, <4>3 DEF Signed
    <3> QED BY <1>1, <1>3, <3>2, <3>3
  <2> QED BY <1>1, <2>1, <2>2
<1>5. Value(a, b, r) = a + k
  BY <1>2, <1>4 DEF Value, k
<1>6. b - a + 1 \in 1 .. Top
  BY <1>1 DEF Top
<1> QED BY <1>2, <1>3, <1>5, <1>6 DEF k

\* Whatever word is drawn, the value lies between the arguments.
LEMMA ValueInRange ==
    ASSUME NEW a \in Int64, NEW b \in Int64, a <= b, NEW r \in UInt64
    PROVE  Value(a, b, r) \in a .. b
<1>1. /\ Modulus \in Nat \ {0} /\ Half \in Nat \ {0} /\ Modulus = 2 * Half
      /\ a \in -Half .. Half - 1 /\ b \in -Half .. Half - 1 /\ r \in 0 .. Modulus - 1
  BY RandomAssumption DEF Int64, Modulus, UInt64
<1>2. CASE b - a + 1 = Modulus
  <2>1. a = -Half /\ b = Half - 1 /\ Span(a, b) = 0
    BY <1>1, <1>2, SpanSize
  <2> QED BY <1>1, <2>1 DEF Value, Signed
<1>3. CASE b - a + 1 # Modulus
  <2> DEFINE k == r % (b - a + 1)
  <2>1. k \in 0 .. b - a /\ Value(a, b, r) = a + k
    BY <1>3, ValueOffset
  <2> HIDE DEF k
  <2> QED BY <1>1, <2>1
<1> QED BY <1>2, <1>3

\* The words the loop accepts for arguments a and b.
AcceptedWords(a, b) == {r \in UInt64 : Accepted(a, b, r)}

\* Over the full range every word is accepted and every value comes from one.
LEMMA FullRangeUniform ==
    ASSUME NEW a \in Int64, NEW b \in Int64, a <= b, b - a + 1 = Modulus, NEW v \in a .. b
    PROVE  /\ 2 * Cardinality(AcceptedWords(a, b)) > Top
           /\ Cardinality({r \in AcceptedWords(a, b) : Value(a, b, r) = v}) * (b - a + 1)
                = Cardinality(AcceptedWords(a, b))
<1>1. /\ Modulus \in Nat \ {0} /\ Half \in Nat \ {0} /\ Modulus = 2 * Half
      /\ a \in -Half .. Half - 1 /\ b \in -Half .. Half - 1
  BY RandomAssumption DEF Int64, Modulus
<1>2. a = -Half /\ b = Half - 1 /\ Span(a, b) = 0
  BY <1>1, SpanSize
<1>3. AcceptedWords(a, b) = 0 .. Modulus - 1
  BY <1>2 DEF AcceptedWords, Accepted, UInt64
<1>4. Cardinality(AcceptedWords(a, b)) = Modulus
  <2>1. 0 \in Int /\ Modulus - 1 \in Int /\ ~ (0 > Modulus - 1) /\ Modulus - 1 - 0 + 1 = Modulus
    BY <1>1
  <2> QED BY <1>3, <2>1, FS_Interval
<1>5. {r \in AcceptedWords(a, b) : Value(a, b, r) = v} = {IF v < 0 THEN v + Modulus ELSE v}
  BY <1>1, <1>2, <1>3 DEF Value, Signed
<1>6. Cardinality({r \in AcceptedWords(a, b) : Value(a, b, r) = v}) = 1
  BY <1>5, FS_Singleton
<1> QED BY <1>1, <1>4, <1>6 DEF Top

\* A limit that is a multiple of the range's size, and the largest below the
\* largest word.
LEMMA LimitFacts ==
    ASSUME NEW span \in 1 .. Top
    PROVE  \E q \in Nat : Limit(span) = q * span /\ q * span \in 1 .. Top /\ 2 * (q * span) > Top
<1>1. Top \in Nat
  BY RandomAssumption DEF Top, Modulus
<1>2. PICK q \in Nat : q = Top \div span /\ Top % span \in 0 .. span - 1 /\ Top = q * span + (Top % span)
  <2>1. span \in Nat \ {0}
    BY <1>1
  <2>2. Top \div span \in Nat /\ Top % span \in 0 .. span - 1 /\ Top = (Top \div span) * span + (Top % span)
    BY <1>1, <2>1, DivMod
  <2> QED BY <2>2
<1>3. Limit(span) = q * span
  BY <1>1, <1>2 DEF Limit
<1>4. q # 0
  BY <1>1, <1>2
<1>5. q * span >= span
  BY <1>4
<1>6. q * span \in 1 .. Top /\ 2 * (q * span) > Top
  BY <1>1, <1>2, <1>5
<1> QED BY <1>3, <1>6

\* Over any other range the accepted words are a whole number of rounds through
\* its values.
LEMMA PartRangeUniform ==
    ASSUME NEW a \in Int64, NEW b \in Int64, a <= b, b - a + 1 # Modulus, NEW v \in a .. b
    PROVE  /\ 2 * Cardinality(AcceptedWords(a, b)) > Top
           /\ Cardinality({r \in AcceptedWords(a, b) : Value(a, b, r) = v}) * (b - a + 1)
                = Cardinality(AcceptedWords(a, b))
<1> DEFINE span == b - a + 1
           d    == v - a
<1>1. a \in Int /\ b \in Int /\ v \in Int /\ Top \in Nat /\ UInt64 = 0 .. Top /\ 0 \in UInt64
  BY RandomAssumption DEF Int64, Top, UInt64, Modulus
<1>2. span \in 1 .. Top /\ Span(a, b) = span /\ d \in 0 .. span - 1
  BY <1>1, ValueOffset
<1>3. \A r \in UInt64 : Value(a, b, r) = v <=> r % span = d
  <2> TAKE r \in UInt64
  <2>1. r % span \in 0 .. b - a /\ Value(a, b, r) = a + (r % span)
    BY ValueOffset
  <2> HIDE DEF span
  <2> QED BY <1>1, <2>1
<1> HIDE DEF span, d
<1>4. PICK q \in Nat : Limit(span) = q * span /\ q * span \in 1 .. Top /\ 2 * (q * span) > Top
  BY <1>2, LimitFacts
<1>5. PICK L \in 1 .. Top : L = q * span
  BY <1>4
<1>6. AcceptedWords(a, b) = 0 .. L - 1
  BY <1>1, <1>2, <1>4, <1>5 DEF AcceptedWords, Accepted
<1>7. Cardinality(AcceptedWords(a, b)) = L
  <2>1. 0 \in Int /\ L - 1 \in Int /\ ~ (0 > L - 1) /\ L - 1 - 0 + 1 = L
    BY <1>1, <1>5
  <2> QED BY <1>6, <2>1, FS_Interval
<1>8. {r \in AcceptedWords(a, b) : Value(a, b, r) = v} = {r \in 0 .. L - 1 : r % span = d}
  BY <1>1, <1>3, <1>6
<1>9. Cardinality({r \in 0 .. L - 1 : r % span = d}) = q
  <2>1. span \in Nat \ {0}
    BY <1>1, <1>2
  <2> QED BY <1>2, <1>5, <2>1, ResidueClass
<1> QED BY <1>4, <1>5, <1>7, <1>8, <1>9 DEF span

----------------------------------------------------------------------------
\* Exchanging two values of an injective function leaves its domain and its
\* range, and it injective.
LEMMA SwapPermutes ==
    ASSUME NEW f, IsInjective(f), NEW k \in DOMAIN f, NEW j \in DOMAIN f,
           f = [x \in DOMAIN f |-> f[x]]
    PROVE  LET g == Swapped(f, k, j)
           IN  /\ g = [x \in DOMAIN g |-> g[x]] /\ DOMAIN g = DOMAIN f
               /\ IsInjective(g) /\ Range(g) = Range(f)
<1> DEFINE g == Swapped(f, k, j)
<1>1. g = [x \in DOMAIN f |-> IF x = j THEN f[k] ELSE IF x = k THEN f[j] ELSE f[x]]
  BY DEF Swapped
<1> HIDE DEF g
<1>2. DOMAIN g = DOMAIN f /\ g = [x \in DOMAIN g |-> g[x]]
  BY <1>1
<1>3. \A x \in DOMAIN f : g[x] = IF x = j THEN f[k] ELSE IF x = k THEN f[j] ELSE f[x]
  BY <1>1
<1>4. IsInjective(g)
  BY <1>2, <1>3 DEF IsInjective
<1>5. Range(g) = Range(f)
  <2>1. ASSUME NEW y \in Range(g) PROVE y \in Range(f)
    BY <1>2, <1>3, <2>1 DEF Range
  <2>2. ASSUME NEW x \in DOMAIN f PROVE f[x] \in Range(g)
    <3>1. CASE x = k
      BY <1>2, <1>3, <3>1 DEF Range
    <3>2. CASE x = j
      BY <1>2, <1>3, <3>2 DEF Range
    <3>3. CASE x # k /\ x # j
      BY <1>2, <1>3, <3>3 DEF Range
    <3> QED BY <3>1, <3>2, <3>3
  <2> QED BY <2>1, <2>2 DEF Range
<1> QED BY <1>2, <1>4, <1>5 DEF g

----------------------------------------------------------------------------
\* The arguments of NextInteger are in order, and during a Shuffle they are 1
\* and an index of the array.
CallOK ==
    /\ drawing \in BOOLEAN /\ min \in Int64 /\ max \in Int64 /\ min <= max
    /\ i \in 0..N
    /\ i # 0 => min = 1 /\ max = i /\ 1..i \subseteq DOMAIN table

TableOK == table = [k \in DOMAIN table |-> table[k]] /\ ShufflePermutes

IInv == CallOK /\ InRange /\ TableOK

LEMMA InitInv == Init => IInv
<1> SUFFICES ASSUME Init PROVE IInv
  OBVIOUS
<1>1. CallOK /\ InRange
  <2>1. drawing = FALSE /\ min = 0 /\ max = 0 /\ result = 0 /\ i = 0
    BY DEF Init
  <2>2. 0 \in Int64 /\ 0 \in 0..N
    BY RandomAssumption DEF Int64
  <2>3. drawing \in BOOLEAN
    BY <2>1
  <2>4. result \in min .. max /\ min <= max
    BY <2>1
  <2> QED BY <2>1, <2>2, <2>3, <2>4 DEF CallOK, InRange
<1>2. TableOK
  BY DEF Init, TableOK, ShufflePermutes, IsInjective
<1> QED BY <1>1, <1>2 DEF IInv

\* What GoOn leaves: an index the array has, or none.
LEMMA GoOnKeeps ==
    ASSUME NEW k \in 0..N, GoOn(k), CallOK, ~ drawing, InRange, result' = result,
           1..k \subseteq DOMAIN table, DOMAIN table' = DOMAIN table
    PROVE  CallOK' /\ InRange'
<1>1. CASE k >= 2
  BY <1>1, RandomAssumption DEF GoOn, CallOK, InRange, PickBound, Int64
<1>2. CASE ~ (k >= 2)
  <2>1. i' = 0 /\ drawing' = drawing /\ min' = min /\ max' = max
    BY <1>2 DEF GoOn, interval
  <2>2. 0 \in 0..N
    BY RandomAssumption
  <2> QED BY <2>1, <2>2 DEF CallOK, InRange
<1> QED BY <1>1, <1>2

LEMMA NextInv == IInv /\ [Next]_vars => IInv'
<1> SUFFICES ASSUME IInv, [Next]_vars PROVE IInv'
  OBVIOUS
<1> USE DEF IInv
<1>1. ASSUME NEW a \in Int64, NEW b \in Int64, NextInteger(a, b) PROVE IInv'
  BY <1>1 DEF NextInteger, CallOK, InRange, TableOK, ShufflePermutes, shuffle
<1>2. ASSUME NEW r \in UInt64, Draw(r) PROVE IInv'
  <2>1. Value(min, max, r) \in min .. max
    BY ValueInRange DEF CallOK
  <2> QED BY <1>2, <2>1 DEF Draw, CallOK, InRange, TableOK, ShufflePermutes, shuffle, interval
<1>3. ASSUME NEW n \in 0..N, Shuffle(n) PROVE IInv'
  <2>1. CallOK' /\ InRange'
    BY <1>3, GoOnKeeps DEF Shuffle
  <2>2. TableOK'
    BY <1>3 DEF Shuffle, TableOK, ShufflePermutes
  <2> QED BY <2>1, <2>2
<1>4. ASSUME Swap PROVE IInv'
  <2>1. /\ i \in DOMAIN table /\ result \in DOMAIN table
        /\ i - 1 \in 0..N /\ 1 .. i - 1 \subseteq DOMAIN table
    BY <1>4, RandomAssumption DEF Swap, CallOK, InRange, Int64
  <2>2. /\ table' = [k \in DOMAIN table' |-> table'[k]] /\ DOMAIN table' = DOMAIN table
        /\ IsInjective(table') /\ Range(table') = Range(table)
    BY <1>4, <2>1, SwapPermutes DEF Swap, TableOK, ShufflePermutes
  <2>3. CallOK' /\ InRange'
    BY <1>4, <2>1, <2>2, GoOnKeeps DEF Swap
  <2>4. TableOK'
    BY <1>4, <2>2 DEF Swap, TableOK, ShufflePermutes
  <2> QED BY <2>3, <2>4
<1>5. ASSUME UNCHANGED vars PROVE IInv'
  BY <1>5 DEF vars, CallOK, InRange, TableOK, ShufflePermutes, shuffle, interval
<1> QED BY <1>1, <1>2, <1>3, <1>4, <1>5 DEF Next

\* NextInteger returns an integer between its arguments, for words of any size
\* and every word drawn.
THEOREM RangeCorrect == Spec => []InRange
<1>1. IInv => InRange
  BY DEF IInv
<1> QED BY <1>1, InitInv, NextInv, PTL DEF Spec

\* NextInteger draws all integers between its arguments alike, and accepts more
\* than half of all words, for words of any size and all arguments.
THEOREM DrawsUniformly == Spec => []DrawsUniform
<1>1. IInv => DrawsUniform
  <2> SUFFICES ASSUME IInv, drawing,
                      NEW accepted, accepted = {r \in UInt64 : Accepted(min, max, r)}
               PROVE  /\ 2 * Cardinality(accepted) > Top
                      /\ \A v \in min..max :
                           Cardinality({r \in accepted : Value(min, max, r) = v}) * (max - min + 1)
                             = Cardinality(accepted)
    BY DEF DrawsUniform
  <2>1. accepted = AcceptedWords(min, max)
    BY DEF AcceptedWords
  <2>2. min \in Int64 /\ max \in Int64 /\ min <= max /\ min \in min..max
    BY DEF IInv, CallOK, Int64
  <2>3. ASSUME NEW v \in min..max
        PROVE  /\ 2 * Cardinality(accepted) > Top
               /\ Cardinality({r \in accepted : Value(min, max, r) = v}) * (max - min + 1)
                    = Cardinality(accepted)
    <3>1. CASE max - min + 1 = Modulus
      BY <2>1, <2>2, <3>1, FullRangeUniform
    <3>2. CASE max - min + 1 # Modulus
      BY <2>1, <2>2, <3>2, PartRangeUniform
    <3> QED BY <3>1, <3>2
  <2> QED BY <2>2, <2>3
<1> QED BY <1>1, InitInv, NextInv, PTL DEF Spec

\* A Shuffle holds every value once, at every point of its loop, for arrays of
\* any length.
THEOREM ShuffleCorrect == Spec => []ShufflePermutes
<1>1. IInv => ShufflePermutes
  BY DEF IInv, TableOK
<1> QED BY <1>1, InitInv, NextInv, PTL DEF Spec

----------------------------------------------------------------------------
\* One stage of Decode's recursion, over what the stage below it yields.
Stage(from, to, below, k) ==
    [t \in [DOMAIN from -> Range(from)] |->
        IF k < 2 THEN << >>
        ELSE LET j == CHOOSE m \in DOMAIN t : t[m] = to[k]
             IN  <<j>> \o below[Swapped(t, k, j)]]

Stages(from, to) == CHOOSE g : g = [k \in 0..N |-> Stage(from, to, g[k - 1], k)]

LEMMA DecodeStages ==
    ASSUME NEW from, NEW to
    PROVE  Decode(from, to) = Stages(from, to)[Cardinality(DOMAIN from)][from]
BY Zenon DEF Decode, Stages, Stage

\* The recursion has a solution: what Decode reads is defined.
StagesUpTo(from, to, n, g) == \A k \in 0..n : g[k] = Stage(from, to, g[k - 1], k)

LEMMA StagesExist ==
    ASSUME NEW from, NEW to
    PROVE  \A n \in Nat : \E g : StagesUpTo(from, to, n, g)
<1> DEFINE T == {n \in Nat : ~ \E g : StagesUpTo(from, to, n, g)}
<1> SUFFICES ASSUME T # {} PROVE FALSE
  OBVIOUS
<1>1. PICK n \in T : \A m \in T : n <= m
  <2>1. T \subseteq Nat
    OBVIOUS
  <2> HIDE DEF T
  <2> QED BY <2>1, LeastNatural
<1>2. ASSUME NEW g, NEW h
      PROVE  Stage(from, to, g, 0) = Stage(from, to, h, 0)
  BY DEF Stage
<1>3. n # 0
  <2>1. SUFFICES StagesUpTo(from, to, 0, [k \in 0..0 |-> Stage(from, to, << >>, 0)])
    BY <1>1
  <2> QED BY <1>2 DEF StagesUpTo
<1>4. n - 1 \in Nat /\ n \in Nat /\ n - 1 \notin T
  BY <1>1, <1>3
<1>5. PICK g : StagesUpTo(from, to, n - 1, g)
  BY <1>4
<1> DEFINE h == [k \in 0..n |-> IF k = n THEN Stage(from, to, g[n - 1], n) ELSE g[k]]
<1>6. ASSUME NEW k \in 0..n PROVE h[k] = Stage(from, to, h[k - 1], k)
  <2>1. CASE k = 0
    <3>1. 0 \in 0 .. n - 1 /\ h[0] = g[0]
      BY <1>3, <1>4
    <3>2. g[0] = Stage(from, to, g[0 - 1], 0)
      BY <1>5, <3>1 DEF StagesUpTo
    <3> QED BY <1>2, <2>1, <3>1, <3>2
  <2>2. CASE k = n
    <3>1. h[n - 1] = g[n - 1] /\ h[n] = Stage(from, to, g[n - 1], n)
      BY <1>3, <1>4
    <3> QED BY <2>2, <3>1
  <2>3. CASE k # 0 /\ k # n
    <3>1. k \in 0 .. n - 1 /\ h[k] = g[k] /\ h[k - 1] = g[k - 1]
      BY <1>4, <2>3
    <3> QED BY <1>5, <3>1 DEF StagesUpTo
  <2> QED BY <2>1, <2>2, <2>3
<1>7. StagesUpTo(from, to, n, h)
  BY <1>6 DEF StagesUpTo
<1> QED BY <1>1, <1>7

\* Decode obeys its recursion.
LEMMA StagesRecursion ==
    ASSUME NEW from, NEW to, NEW k \in 0..N
    PROVE  Stages(from, to)[k] = Stage(from, to, Stages(from, to)[k - 1], k)
<1>1. PICK g : StagesUpTo(from, to, N, g)
  BY StagesExist, RandomAssumption
<1> DEFINE f == [m \in 0..N |-> g[m]]
<1>2. ASSUME NEW m \in 0..N PROVE f[m] = Stage(from, to, f[m - 1], m)
  <2>1. g[m] = Stage(from, to, g[m - 1], m)
    BY <1>1 DEF StagesUpTo
  <2>2. CASE m = 0
    BY <2>1, <2>2 DEF Stage
  <2>3. CASE m # 0
    <3>1. m - 1 \in 0..N
      BY <2>3, RandomAssumption
    <3> QED BY <2>1, <3>1
  <2> QED BY <2>2, <2>3
<1>3. f = [m \in 0..N |-> Stage(from, to, f[m - 1], m)]
  BY <1>2
<1> HIDE DEF f
<1>4. \E u : u = [m \in 0..N |-> Stage(from, to, u[m - 1], m)]
  BY <1>3
<1>5. Stages(from, to) = [m \in 0..N |-> Stage(from, to, Stages(from, to)[m - 1], m)]
  BY <1>4, Zenon DEF Stages
<1> QED BY <1>5, Zenon

----------------------------------------------------------------------------
\* Every array that agrees with the table above Shuffle's index decodes to the
\* picks so far and then what the rest of the decoding makes of the table.
Decodes(to, s) ==
    (\A k \in DOMAIN before : k > i => to[k] = table[k]) /\ s = Stages(before, to)[i][table]
      => Decode(before, to) = picks \o s

PicksInv ==
    /\ picks \in Seq(Nat) /\ i # 1 /\ DOMAIN before \subseteq Int
    /\ i # 0 \/ picks # << >> =>
         \A to \in [DOMAIN before -> Range(before)], s \in Seq(Nat) : Decodes(to, s)

\* Below the second index there is nothing to decode.
LEMMA NoStage ==
    ASSUME NEW from, NEW to, NEW t \in [DOMAIN from -> Range(from)], NEW k \in 0..N, k < 2
    PROVE  Stages(from, to)[k][t] = << >>
<1>1. Stages(from, to)[k] = Stage(from, to, Stages(from, to)[k - 1], k)
  BY StagesRecursion
<1> QED BY <1>1, Zenon DEF Stage

\* The value that goes to Shuffle's index is decoded as the index it is at.
LEMMA OneStage ==
    ASSUME NEW to, table \in [DOMAIN before -> Range(before)], i \in 0..N, i >= 2,
           IsInjective(table), result \in DOMAIN table, table[result] = to[i]
    PROVE  Stages(before, to)[i][table]
             = <<result>> \o Stages(before, to)[i - 1][Swapped(table, i, result)]
<1>1. (CHOOSE m \in DOMAIN table : table[m] = to[i]) = result
  BY DEF IsInjective
<1>2. Stages(before, to)[i] = Stage(before, to, Stages(before, to)[i - 1], i)
  BY StagesRecursion
<1>3. ~ (i < 2)
  OBVIOUS
<1> QED BY <1>1, <1>2, <1>3, Zenon DEF Stage

LEMMA TableIsArrangement ==
    ASSUME TableOK PROVE table \in [DOMAIN before -> Range(before)]
BY DEF TableOK, ShufflePermutes, Range

\* At its beginning Shuffle has picked nothing, and all is left to decode.
LEMMA ShuffleBegins ==
    ASSUME IInv, NEW n \in 0..N, Shuffle(n) PROVE PicksInv'
<1>1. picks' = << >> /\ before' = table' /\ DOMAIN before' = 1..n
  BY DEF Shuffle
<1>2. ASSUME i' # 0, NEW to, NEW s \in Seq(Nat) PROVE Decodes(to, s)'
  <2>1. i' = n
    BY <1>2 DEF Shuffle, GoOn
  <2>2. Cardinality(1..n) = n
    <3>1. 1 \in Int /\ n \in Int /\ n - 1 + 1 = n /\ (1 > n => n = 0)
      BY RandomAssumption
    <3> QED BY <3>1, FS_Interval
  <2>3. Decode(before', to) = Stages(before', to)[n][before']
    BY <1>1, <2>2, DecodeStages
  <2> QED BY <1>1, <2>1, <2>3 DEF Decodes
<1>3. i' # 1 /\ DOMAIN before' \subseteq Int
  BY <1>1 DEF Shuffle, GoOn
<1>4. picks' \in Seq(Nat)
  BY <1>1
<1>5. picks' = << >>
  BY <1>1
<1> QED BY <1>2, <1>3, <1>4, <1>5 DEF PicksInv

LEMMA AppendThenConcat ==
    ASSUME NEW p \in Seq(Nat), NEW x \in Nat, NEW s \in Seq(Nat)
    PROVE  p \o (<<x>> \o s) = Append(p, x) \o s
OBVIOUS

\* A swap takes one pick off what is left to decode.
LEMMA SwapDecodes ==
    ASSUME IInv, PicksInv, Swap PROVE PicksInv'
<1>1. /\ i \in 1..N /\ i - 1 \in 0..N /\ result \in 1..i /\ 1..i \subseteq DOMAIN table /\ before' = before
      /\ picks' = Append(picks, result) /\ table' = Swapped(table, i, result) /\ GoOn(i - 1)
  BY RandomAssumption DEF IInv, CallOK, InRange, Swap
<1>2. picks \in Seq(Nat) /\ result \in Nat /\ picks' \in Seq(Nat)
  BY <1>1 DEF PicksInv
<1>3. i >= 2 /\ DOMAIN before \subseteq Int
  BY <1>1 DEF PicksInv
<1>4. table \in [DOMAIN before -> Range(before)] /\ IsInjective(table) /\ DOMAIN table = DOMAIN before
  BY TableIsArrangement DEF IInv, TableOK, ShufflePermutes
<1>5. table' \in [DOMAIN before -> Range(before)]
  <2>1. TableOK'
    BY NextInv DEF Next, IInv
  <2>2. /\ DOMAIN table' = DOMAIN before /\ Range(table') = Range(before)
        /\ table' = [k \in DOMAIN table' |-> table'[k]]
    BY <1>1, <2>1 DEF TableOK, ShufflePermutes
  <2>3. \A k \in DOMAIN table' : table'[k] \in Range(table')
    BY DEF Range
  <2> QED BY <2>2, <2>3
<1>6. /\ DOMAIN table' = DOMAIN table /\ table'[i] = table[result]
      /\ \A k \in DOMAIN table : k > i => table'[k] = table[k]
  BY <1>1, <1>4 DEF Swapped
<1>7. ASSUME NEW to \in [DOMAIN before -> Range(before)], NEW s \in Seq(Nat),
             \A k \in DOMAIN before : k > i' => to[k] = table'[k],
             s = Stages(before, to)[i'][table']
      PROVE  Decode(before, to) = picks' \o s
  <2>1. i' \in 0..N /\ i' < i
    BY <1>1, RandomAssumption DEF GoOn
  <2>2. s = Stages(before, to)[i - 1][table']
    <3>1. CASE i - 1 >= 2
      BY <1>1, <1>7, <3>1 DEF GoOn
    <3>2. CASE i - 1 < 2
      <4>1. i' = 0 /\ 0 \in 0..N
        BY <1>1, <3>2, RandomAssumption DEF GoOn
      <4>2. Stages(before, to)[i - 1][table'] = << >>
        BY <1>1, <1>5, <3>2, NoStage
      <4>3. Stages(before, to)[0][table'] = << >>
        BY <1>5, <4>1, NoStage
      <4> QED BY <1>7, <4>1, <4>2, <4>3
    <3> QED BY <1>1, <3>1, <3>2
  <2>3. to[i] = table[result] /\ result \in DOMAIN table
    BY <1>1, <1>4, <1>6, <1>7, <2>1
  <2>4. \A k \in DOMAIN before : k > i => to[k] = table[k]
    <3>1. ASSUME NEW k \in DOMAIN before, k > i PROVE k > i'
      BY <1>1, <1>3, <2>1, <3>1
    <3> QED BY <1>4, <1>6, <1>7, <3>1
  <2>5. Stages(before, to)[i][table] = <<result>> \o s
    <3>1. i \in 0..N
      BY <1>1, RandomAssumption
    <3>2. Stages(before, to)[i][table] = <<result>> \o Stages(before, to)[i - 1][Swapped(table, i, result)]
      <4>1. table[result] = to[i] /\ i >= 2 /\ result \in DOMAIN table
        BY <1>3, <2>3
      <4>2. table \in [DOMAIN before -> Range(before)] /\ IsInjective(table)
        BY <1>4
      <4> QED BY <3>1, <4>1, <4>2, OneStage
    <3> QED BY <1>1, <2>2, <3>2
  <2>6. <<result>> \o s \in Seq(Nat)
    BY <1>2
  <2>7. Decode(before, to) = picks \o (<<result>> \o s)
    <3>1. Decodes(to, <<result>> \o s)
      <4>1. i # 0
        BY <1>1
      <4> QED BY <2>6, <4>1, Zenon DEF PicksInv
    <3> QED BY <2>4, <2>5, <3>1 DEF Decodes
  <2>8. picks \o (<<result>> \o s) = Append(picks, result) \o s
    BY <1>2, AppendThenConcat
  <2> QED BY <1>1, <2>7, <2>8, Zenon
<1>8. i' # 1 /\ DOMAIN before' \subseteq Int
  BY <1>1, <1>3 DEF GoOn
<1> QED BY <1>1, <1>2, <1>7, <1>8 DEF PicksInv, Decodes

LEMMA InitPicks == Init => PicksInv
BY DEF Init, PicksInv

LEMMA NextPicks == IInv /\ PicksInv /\ [Next]_vars => PicksInv'
<1> SUFFICES ASSUME IInv, PicksInv, [Next]_vars PROVE PicksInv'
  OBVIOUS
<1>1. ASSUME UNCHANGED shuffle PROVE PicksInv'
  BY <1>1 DEF shuffle, PicksInv, Decodes
<1>2. ASSUME NEW a \in Int64, NEW b \in Int64, NextInteger(a, b) PROVE PicksInv'
  BY <1>1, <1>2 DEF NextInteger
<1>3. ASSUME NEW r \in UInt64, Draw(r) PROVE PicksInv'
  BY <1>1, <1>3 DEF Draw
<1>4. ASSUME NEW n \in 0..N, Shuffle(n) PROVE PicksInv'
  BY <1>4, ShuffleBegins
<1>5. ASSUME Swap PROVE PicksInv'
  BY <1>5, SwapDecodes
<1>6. ASSUME UNCHANGED vars PROVE PicksInv'
  BY <1>1, <1>6 DEF vars
<1> QED BY <1>2, <1>3, <1>4, <1>5, <1>6 DEF Next

\* The picks of a Shuffle can be read off the array it leaves, for arrays of any
\* length: no two sequences of picks end in the same array.
THEOREM ShuffleUnbiased == Spec => []ShuffleUniform
<1>1. IInv /\ PicksInv => ShuffleUniform
  <2> SUFFICES ASSUME IInv, PicksInv, i = 0, picks # << >> PROVE picks = Decode(before, table)
    BY DEF ShuffleUniform
  <2>1. table \in [DOMAIN before -> Range(before)] /\ 0 \in 0..N
    BY TableIsArrangement, RandomAssumption DEF IInv
  <2>2. Stages(before, table)[i][table] = << >>
    BY <2>1, NoStage
  <2>3. Decode(before, table) = picks \o << >> /\ picks \in Seq(Nat)
    <3>1. Decodes(table, << >>) /\ picks \in Seq(Nat)
      <4>1. << >> \in Seq(Nat)
        OBVIOUS
      <4> QED BY <2>1, <4>1, Zenon DEF PicksInv
    <3> QED BY <2>2, <3>1 DEF Decodes
  <2> QED BY <2>3
<1> QED BY <1>1, InitInv, NextInv, InitPicks, NextPicks, PTL DEF Spec

=============================================================================
