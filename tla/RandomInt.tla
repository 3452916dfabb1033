----------------------------- MODULE RandomInt -----------------------------
(***************************************************************************)
(* The integers of src/librebox/core/datatypes/Random.cpp: NextInteger     *)
(* draws machine words until one falls below a limit and takes it modulo   *)
(* the size of the range, all in unsigned arithmetic that wraps; Shuffle   *)
(* is the algorithm of Fisher and Yates on a Lua array.                    *)
(*                                                                         *)
(* The generator below (pcg64) may yield any word.  Words have 2 * Half    *)
(* values where the code has 2^64.                                         *)
(***************************************************************************)
EXTENDS Integers, Sequences, FiniteSets, Functions

CONSTANTS
    Half,   \* int64_t is -Half .. Half-1, uint64_t is 0 .. 2*Half-1
    N       \* largest key of a table

ASSUME RandomAssumption == Half \in Nat \ {0} /\ N \in Nat /\ N < Half

VARIABLES
    drawing,    \* NextInteger is in its loop
    min, max,   \* its arguments in this call or the last
    result,     \* what the last call returned
    table,      \* a Lua table whose values are, at first, its keys
    i,          \* Shuffle's index, 0 outside
    picks,      \* history: what NextInteger returned to this Shuffle or the last
    before      \* history: the table when it began

interval == <<min, max>>
shuffle  == <<table, i, picks, before>>
vars     == <<drawing, interval, result, shuffle>>

Int64  == -Half .. Half - 1
Modulus == 2 * Half
UInt64 == 0 .. Modulus - 1
Top    == Modulus - 1

\* Conversions between int64_t and uint64_t.
Unsigned(x) == x % Modulus
Signed(u)   == IF u < Half THEN u ELSE u - Modulus

\* 0 stands for the full range.
Span(a, b) == (Unsigned(b) - Unsigned(a) + 1) % Modulus

\* Mutant: no word is rejected but the last.
LimitTop(span) == Top

Limit(span) == Top - (Top % span)

Accepted(a, b, r) == Span(a, b) # 0 => r < Limit(Span(a, b))

\* Mutant: the range is one too large.
ValueInclusive(a, b, r) == Signed((Unsigned(a) + (r % (Span(a, b) + 1))) % Modulus)

Value(a, b, r) ==
    IF Span(a, b) = 0 THEN Signed(r)
    ELSE Signed((Unsigned(a) + (r % Span(a, b))) % Modulus)

\* Mutant: every pick is from the whole array.
PickFromAll(k) == Cardinality(DOMAIN table)

\* The pick for index k is from 1 .. k.
PickBound(k) == k

\* Mutant: the second write is missing.
SwappedHalf(t, k, j) == [t EXCEPT ![k] = t[j]]

Swapped(t, k, j) == [t EXCEPT ![k] = t[j], ![j] = t[k]]

----------------------------------------------------------------------------
Init ==
    /\ drawing = FALSE /\ min = 0 /\ max = 0 /\ result = 0
    /\ \E keys \in SUBSET (1..N) : table = [k \in keys |-> k]
    /\ i = 0 /\ picks = << >> /\ before = table

\* With min > max the call throws.
NextInteger(a, b) ==
    /\ ~ drawing /\ i = 0 /\ a <= b
    /\ drawing' = TRUE /\ min' = a /\ max' = b
    /\ UNCHANGED <<result, shuffle>>

\* One iteration of the loop that accepts its word; another leaves no trace.
Draw(r) ==
    /\ drawing /\ Accepted(min, max, r)
    /\ result' = Value(min, max, r) /\ drawing' = FALSE
    /\ UNCHANGED <<interval, shuffle>>

\* Shuffle goes on to index k, with the call of NextInteger, or returns.
GoOn(k) ==
    IF k >= 2 THEN i' = k /\ drawing' = TRUE /\ min' = 1 /\ max' = PickBound(k)
    ELSE i' = 0 /\ UNCHANGED <<drawing, interval>>

\* n is the largest key; a table that has not all keys below it is an error.
Shuffle(n) ==
    /\ ~ drawing /\ i = 0 /\ DOMAIN table = 1..n
    /\ GoOn(n)
    /\ picks' = << >> /\ before' = table
    /\ UNCHANGED <<result, table>>

Swap ==
    /\ ~ drawing /\ i # 0
    /\ table' = Swapped(table, i, result)
    /\ picks' = Append(picks, result)
    /\ GoOn(i - 1)
    /\ UNCHANGED <<result, before>>

Next ==
    \/ \E a, b \in Int64 : NextInteger(a, b)
    \/ \E r \in UInt64 : Draw(r)
    \/ \E n \in 0..N : Shuffle(n)
    \/ Swap

Spec == Init /\ [][Next]_vars

----------------------------------------------------------------------------
\* What NextInteger returns lies between its arguments, also when their distance
\* does not fit a signed word, when they are the ends of the type, and whatever
\* word was accepted.
InRange == ~ drawing => result \in min .. max

\* Every integer of the range comes from equally many of the words the loop
\* accepts, and it accepts at least half of all words, so that it ends.
DrawsUniform ==
    drawing =>
      LET accepted == {r \in UInt64 : Accepted(min, max, r)}
      IN  /\ 2 * Cardinality(accepted) > Top
          /\ \A v \in min..max :
               Cardinality({r \in accepted : Value(min, max, r) = v}) * (max - min + 1)
                 = Cardinality(accepted)

\* A shuffle loses no value and doubles none, at no point of its loop.
ShufflePermutes == DOMAIN table = DOMAIN before /\ IsInjective(table) /\ Range(table) = Range(before)

\* The picks that turn one array into another: each takes the value that ends up
\* at the index from where it is at that time.
Decode(from, to) ==
    LET rest[k \in 0..N] ==
            [t \in [DOMAIN from -> Range(from)] |->
                IF k < 2 THEN << >>
                ELSE LET j == CHOOSE m \in DOMAIN t : t[m] = to[k]
                     IN  <<j>> \o rest[k - 1][Swapped(t, k, j)]]
    IN  rest[Cardinality(DOMAIN from)][from]

\* Different picks end in different arrays: the picks can be read off the array.
\* As there are as many of them as arrays, all arrays are equally likely.
ShuffleUniform == i = 0 /\ picks # << >> => picks = Decode(before, table)

=============================================================================
