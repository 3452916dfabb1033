------------------------------ MODULE Vectors ------------------------------
(* What the C++ code does to a std::vector or std::deque of pointers.      *)
EXTENDS Integers, Sequences, FiniteSets, Functions

\* The elements of q that are in S, in their order.
Only(q, S) ==
    LET kept == {i \in 1..Len(q) : q[i] \in S}
        Nth(j) == CHOOSE i \in kept : Cardinality({m \in kept : m <= i}) = j
    IN  IF kept = 1..Len(q) THEN q ELSE [j \in 1..Cardinality(kept) |-> q[Nth(j)]]

\* erase(remove(q.begin(), q.end(), c), q.end()): every c leaves.
Without(q, c) == Only(q, Range(q) \ {c})

=============================================================================
