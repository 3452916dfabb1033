--------------------------- MODULE PriorityQueue ---------------------------
(***************************************************************************)
(* std::priority_queue as LuaScheduler uses it (LuaScheduler.h:110-147): a *)
(* binary heap in a vector whose comparator looks the key of an element up *)
(* at every comparison instead of storing it.  The operators follow        *)
(* libstdc++ move by move (push_heap, pop_heap with __adjust_heap), because *)
(* what the heap does once a stored element's key has changed under it     *)
(* depends on those moves; they take the keys of the moment as a function. *)
(* Positions are 1-based: the parent of p is p \div 2.                     *)
(* There is no recursion: a sift is a shift along a path of the tree, and  *)
(* the path is the set of ancestors of its lowest position.                *)
(***************************************************************************)
EXTENDS Integers, Sequences, FiniteSetsExt

\* The positions from p up to the root, p included.
PathUp[p \in Nat] == IF p = 0 THEN {} ELSE {p} \cup PathUp[p \div 2]

\* Mutant: the comparison is turned round, which makes it a max-heap.
LaterReversed(a, b, key) == key[a] < key[b]

\* The comparator asks whether a sorts after b.
Later(a, b, key) == key[a] > key[b]

\* __push_heap: v climbs from position p of h while its parent sorts after it.
SiftUp(h, p, v, key) ==
    LET path    == PathUp[p]
        blocked == {q \in path \ {p} : ~ Later(h[q], v, key)}
        stop    == IF blocked = {} THEN 0 ELSE Max(blocked)
        dest    == Min({q \in path : q > stop})
    IN  [r \in 1..Len(h) |->
            IF r = dest THEN v
            ELSE IF r \in path \ {1} /\ r > dest THEN h[r \div 2]
            ELSE h[r]]

\* priority_queue::push
Push(h, v, key) == SiftUp(Append(h, v), Len(h) + 1, v, key)

\* __adjust_heap prefers the right child unless it sorts after the left one;
\* an only child is always on the left.
Preferred(h, m, r, key) ==
    IF r % 2 = 0 THEN r = m \/ Later(h[r + 1], h[r], key)
                 ELSE ~ Later(h[r], h[r - 1], key)

\* The positions the hole left by the top visits on its way to a leaf, in a
\* heap whose first m elements remain.
HolePath(h, m, key) ==
    {r \in 1..m : \A q \in PathUp[r] \ {1} : Preferred(h, m, q, key)}

\* priority_queue::pop: the hole sinks to a leaf, then the element that was
\* last climbs from there.
Pop(h, key) ==
    LET m == Len(h) - 1
        v == h[Len(h)]
        path == HolePath(h, m, key)
        sunk == [r \in 1..m |-> IF 2 * r \in path THEN h[2 * r]
                                ELSE IF 2 * r + 1 \in path THEN h[2 * r + 1] ELSE h[r]]
    IN  IF m = 0 THEN << >> ELSE SiftUp(sunk, Max(path), v, key)

=============================================================================
