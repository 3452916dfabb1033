------------------------- MODULE InstanceTreeProofs -------------------------
(***************************************************************************)
(* Proofs about InstanceTree, for any instances and names: Children and    *)
(* Parent agree, and the index by name is sound, whatever is moved,        *)
(* renamed, cloned and destroyed, and in the middle of every Destroy; no   *)
(* cycle of parents ever closes; the Workspace's caches, which hold what   *)
(* its callbacks are told one instance at a time, are exact; and what      *)
(* follows Children downwards finds what follows Parent upwards.           *)
(***************************************************************************)
EXTENDS InstanceTree, ContainerProofs

TreeType ==
    /\ alive \subseteq born /\ born \subseteq Nodes
    /\ name \in [Nodes -> Names]
    /\ parent \in [Nodes -> Nodes \cup {Nil}]
    /\ children \in [Nodes -> Seq(Nodes)]
    /\ byName \in [Nodes -> [Names -> Nodes \cup {Nil}]]

\* What has not been made yet is empty, and nothing refers to it.
Unborn ==
    /\ \A x \in Nodes : parent[x] \in born \cup {Nil}
    /\ \A x \in Nodes \ born : parent[x] = Nil /\ children[x] = << >> /\ byName[x] = NoIndex

TreeInv == TreeType /\ Unborn /\ ChildrenMatchParents /\ IndexSound

\* A call of Destroy has killed the instance whose children it walks; a call of
\* ClearAllChildren has those of its copy behind it that it has killed, and the
\* instance has no other children than the copy lists.
FrameOK(f, kids, live) ==
    /\ f.at \in Nodes /\ f.kids \in Seq(Nodes) /\ f.i \in Nat \ {0}
    /\ IF f.copied
       THEN /\ Range(kids[f.at]) \subseteq Range(f.kids)
            /\ \A m \in DOMAIN f.kids : m < f.i => f.kids[m] \notin live
       ELSE f.at \notin live

CallsInv ==
    /\ \E F : frames \in Seq(F)
    /\ \A k \in 1..Len(frames) : FrameOK(frames[k], children, alive)

IInv == TreeInv /\ CallsInv

----------------------------------------------------------------------------
\* Taking an instance out of its parent's Children takes it out of all of them,
\* and likewise for the index.

LEMMA DetachedFromAll ==
    ASSUME TreeInv, NEW c \in Nodes
    PROVE  LET D == DetachedChildren(c)
           IN  /\ D \in [Nodes -> Seq(Nodes)]
               /\ \A p \in Nodes : /\ Range(D[p]) = Range(children[p]) \ {c}
                                   /\ p \in born => IsInjective(D[p])
                                   /\ p \notin born => D[p] = << >>
<1> DEFINE D == DetachedChildren(c)
<1>1. /\ children \in [Nodes -> Seq(Nodes)] /\ parent \in [Nodes -> Nodes \cup {Nil}]
      /\ \A p \in Nodes : children[p] \in Seq(Nodes)
  BY DEF TreeInv, TreeType
<1>2. \A p \in born : p \in Nodes /\ IsInjective(children[p]) /\ \A x \in Range(children[p]) : parent[x] = p
  BY DEF TreeInv, TreeType, ChildrenMatchParents
<1>3. \A p \in Nodes \ born : children[p] = << >> /\ parent[c] # p
  BY TreeAssumption DEF TreeInv, Unborn
<1>4. ASSUME NEW p \in Nodes, p # parent[c] PROVE c \notin Range(children[p])
  <2>1. CASE p \in born
    BY <1>2, <1>4, <2>1
  <2>2. CASE p \notin born
    BY <1>3, <2>2 DEF Range
  <2> QED BY <2>1, <2>2
<1>5. CASE parent[c] = Nil
  <2>1. D = children
    BY <1>5 DEF DetachedChildren
  <2>2. \A p \in Nodes : p # parent[c]
    BY <1>5, TreeAssumption DEF Nodes
  <2> QED BY <1>1, <1>2, <1>3, <1>4, <2>1, <2>2
<1>6. CASE parent[c] # Nil
  <2> DEFINE old == parent[c]
             w   == Without(children[old], c)
  <2>1. old \in Nodes
    BY <1>1, <1>6
  <2>2. D = [children EXCEPT ![old] = w]
    BY <1>6 DEF DetachedChildren, ChildRemoved
  <2>3. /\ w \in Seq(Nodes) /\ Range(w) = Range(children[old]) \ {c}
        /\ IsInjective(children[old]) => IsInjective(w)
    BY <1>1, <2>1, WithoutExact
  <2> HIDE DEF w
  <2>4. D \in [Nodes -> Seq(Nodes)] /\ \A p \in Nodes : D[p] = IF p = old THEN w ELSE children[p]
    BY <1>1, <2>1, <2>2, <2>3
  <2> HIDE DEF D
  <2> QED BY <1>2, <1>3, <1>4, <2>3, <2>4 DEF D
<1> QED BY <1>5, <1>6

LEMMA UnindexedFromAll ==
    ASSUME TreeInv, NEW c \in Nodes
    PROVE  LET X == DetachedIndex(c)
           IN  /\ X \in [Nodes -> [Names -> Nodes \cup {Nil}]]
               /\ \A p \in Nodes, n \in Names : X[p][n] \in {byName[p][n], Nil}
               /\ \A p \in alive, n \in Names : X[p][n] # c
               /\ \A p \in Nodes \ born : X[p] = byName[p]
<1> DEFINE X == DetachedIndex(c)
<1>1. /\ byName \in [Nodes -> [Names -> Nodes \cup {Nil}]]
      /\ parent \in [Nodes -> Nodes \cup {Nil}] /\ name \in [Nodes -> Names]
      /\ alive \subseteq born /\ born \subseteq Nodes /\ Nil \notin Nodes
  BY TreeAssumption DEF TreeInv, TreeType
<1>2. \A p \in alive, n \in Names : byName[p][n] = c => parent[c] = p /\ name[c] = n
  BY <1>1 DEF TreeInv, IndexSound, ChildrenMatchParents
<1>3. \A p \in Nodes \ born : parent[c] # p
  BY <1>1 DEF TreeInv, Unborn
<1>4. CASE parent[c] = Nil
  <2>1. X = byName
    BY <1>4 DEF DetachedIndex
  <2>2. \A p \in alive : p # Nil
    BY <1>1
  <2> QED BY <1>1, <1>2, <1>4, <2>1, <2>2
<1>5. CASE parent[c] # Nil
  <2> DEFINE old == parent[c]
             u   == Unindexed(byName[old], c)
  <2>1. old \in Nodes
    BY <1>1, <1>5
  <2>2. X = [byName EXCEPT ![old] = u]
    BY <1>5 DEF DetachedIndex
  <2>3. /\ u \in [Names -> Nodes \cup {Nil}]
        /\ \A n \in Names : u[n] = IF n = name[c] /\ byName[old][n] = c THEN Nil ELSE byName[old][n]
    BY <1>1, <2>1 DEF Unindexed
  <2> HIDE DEF u
  <2>4. /\ X \in [Nodes -> [Names -> Nodes \cup {Nil}]]
        /\ \A p \in Nodes : X[p] = IF p = old THEN u ELSE byName[p]
    BY <1>1, <2>1, <2>2, <2>3
  <2> HIDE DEF X
  <2>5. \A p \in alive, n \in Names : X[p][n] # c
    BY <1>1, <1>2, <2>3, <2>4
  <2> QED BY <1>3, <2>3, <2>4, <2>5 DEF X
<1> QED BY <1>4, <1>5

----------------------------------------------------------------------------
\* What every operation of a running program keeps of the tree.

LEMMA NewKeeps ==
    ASSUME IInv, NEW i \in Nodes, New(i)
    PROVE  TreeInv'
<1>1. PICK n \in Names : name' = [name EXCEPT ![i] = n]
  BY DEF New
<1>2. /\ i \notin born /\ born' = born \cup {i} /\ alive' = alive \cup {i}
      /\ parent' = parent /\ children' = children /\ byName' = byName
  BY DEF New
<1>3. TreeType /\ Unborn /\ ChildrenMatchParents /\ IndexSound /\ Nil \notin Nodes
  BY TreeAssumption DEF IInv, TreeInv
<1>4. TreeType' /\ Unborn'
  BY <1>1, <1>2, <1>3 DEF TreeType, Unborn
<1>5. parent[i] = Nil /\ children[i] = << >> /\ byName[i] = NoIndex /\ (\A x \in Nodes : parent[x] # i)
  BY <1>2, <1>3 DEF Unborn
<1>6. ChildrenMatchParents'
  <2> SUFFICES ASSUME NEW p \in born'
               PROVE  /\ IsInjective(children[p])
                      /\ \A c \in Range(children[p]) : c \in alive' /\ parent[c] = p
                      /\ p \in alive' => \A c \in born' : parent[c] = p => c \in Range(children[p])
    BY <1>2 DEF ChildrenMatchParents
  <2>1. CASE p = i
    <3>1. IsInjective(<< >>) /\ Range(<< >>) = {}
      BY DEF IsInjective, Range
    <3> QED BY <1>2, <1>3, <1>5, <2>1, <3>1 DEF TreeType
  <2>2. CASE p # i
    BY <1>2, <1>3, <1>5, <2>2 DEF ChildrenMatchParents, TreeType
  <2> QED BY <2>1, <2>2
<1>7. IndexSound'
  <2> SUFFICES ASSUME NEW p \in alive', NEW n1 \in Names, byName[p][n1] # Nil
               PROVE  byName[p][n1] \in Range(children[p]) /\ name'[byName[p][n1]] = n1
    BY <1>2 DEF IndexSound
  <2>1. p # i
    BY <1>5 DEF NoIndex
  <2>2. byName[p][n1] \in Range(children[p]) /\ name[byName[p][n1]] = n1 /\ p \in born
    BY <1>2, <1>3, <2>1 DEF IndexSound, TreeType
  <2>3. byName[p][n1] \in born
    BY <1>3, <2>2 DEF ChildrenMatchParents, TreeType
  <2> QED BY <1>1, <1>2, <1>3, <2>2, <2>3 DEF TreeType
<1> QED BY <1>4, <1>6, <1>7 DEF TreeInv

LEMMA SetParentKeeps ==
    ASSUME IInv, NEW i \in Nodes, NEW p \in Nodes \cup {Nil}, SetParent(i, p)
    PROVE  TreeInv'
<1> DEFINE D == DetachedChildren(i)
           X == DetachedIndex(i)
<1>1. /\ i \in alive /\ p \in born \cup {Nil}
      /\ parent' = [parent EXCEPT ![i] = p]
      /\ children' = IF p = Nil THEN D ELSE [D EXCEPT ![p] = Append(@, i)]
      /\ byName' = IF p = Nil THEN X ELSE [X EXCEPT ![p][name[i]] = i]
      /\ born' = born /\ alive' = alive /\ name' = name
  BY DEF SetParent
<1>2. TreeInv /\ TreeType /\ Unborn /\ ChildrenMatchParents /\ IndexSound /\ Nil \notin Nodes
  BY TreeAssumption DEF IInv, TreeInv
<1>3. /\ D \in [Nodes -> Seq(Nodes)]
      /\ \A q \in Nodes : /\ Range(D[q]) = Range(children[q]) \ {i}
                          /\ q \in born => IsInjective(D[q])
                          /\ q \notin born => D[q] = << >>
  BY <1>2, DetachedFromAll
<1>4. /\ X \in [Nodes -> [Names -> Nodes \cup {Nil}]]
      /\ \A q \in Nodes, n \in Names : X[q][n] \in {byName[q][n], Nil}
      /\ \A q \in alive, n \in Names : X[q][n] # i
      /\ \A q \in Nodes \ born : X[q] = byName[q]
  BY <1>2, UnindexedFromAll
<1> HIDE DEF D, X
<1>5. \A q \in born : i \notin Range(D[q]) /\ D[q] \in Seq(Nodes)
  BY <1>2, <1>3 DEF TreeType
<1>6. \A q \in born : /\ Append(D[q], i) \in Seq(Nodes)
                      /\ Range(Append(D[q], i)) = Range(D[q]) \cup {i}
                      /\ IsInjective(Append(D[q], i))
  <2> TAKE q \in born
  <2>1. D[q] \in Seq(Nodes) /\ i \notin Range(D[q]) /\ IsInjective(D[q])
    BY <1>2, <1>3, <1>5 DEF TreeType
  <2> QED BY <2>1, AppendExact
<1>7. /\ children' \in [Nodes -> Seq(Nodes)]
      /\ \A q \in Nodes : children'[q] = IF q = p THEN Append(D[q], i) ELSE D[q]
  BY <1>1, <1>2, <1>3, <1>6
<1>8. /\ parent' \in [Nodes -> Nodes \cup {Nil}]
      /\ \A x \in Nodes : parent'[x] = IF x = i THEN p ELSE parent[x]
  BY <1>1, <1>2 DEF TreeType
<1>9. /\ byName' \in [Nodes -> [Names -> Nodes \cup {Nil}]]
      /\ \A q \in Nodes, n \in Names :
           byName'[q][n] = IF q = p /\ n = name[i] THEN i ELSE X[q][n]
      /\ \A q \in Nodes \ born : byName'[q] = byName[q]
  <2>1. name[i] \in Names
    BY <1>2 DEF TreeType
  <2>2. CASE p = Nil
    BY <1>1, <1>2, <1>4, <2>2
  <2>3. CASE p # Nil
    <3>1. p \in Nodes /\ X[p] \in [Names -> Nodes \cup {Nil}]
      BY <1>4, <2>3
    <3>2. byName' = [X EXCEPT ![p] = [X[p] EXCEPT ![name[i]] = i]]
      BY <1>1, <2>3
    <3> QED BY <1>1, <1>4, <2>1, <2>3, <3>1, <3>2
  <2> QED BY <2>2, <2>3
<1>10. TreeType'
  BY <1>1, <1>2, <1>7, <1>8, <1>9 DEF TreeType
<1>11. Unborn'
  <2>1. \A x \in Nodes : parent'[x] \in born' \cup {Nil}
    BY <1>1, <1>2, <1>8 DEF Unborn
  <2>2. \A x \in Nodes \ born : x # i /\ x # p
    BY <1>1, <1>2 DEF TreeType
  <2>3. \A x \in Nodes \ born' : parent'[x] = Nil /\ children'[x] = << >> /\ byName'[x] = NoIndex
    BY <1>1, <1>2, <1>3, <1>7, <1>8, <1>9, <2>2 DEF Unborn
  <2> QED BY <2>1, <2>3 DEF Unborn, NoIndex
<1>12. ChildrenMatchParents'
  <2> SUFFICES ASSUME NEW q \in born
               PROVE  /\ IsInjective(children'[q])
                      /\ \A c \in Range(children'[q]) : c \in alive /\ parent'[c] = q
                      /\ q \in alive => \A c \in born : parent'[c] = q => c \in Range(children'[q])
    BY <1>1 DEF ChildrenMatchParents
  <2>1. /\ q \in Nodes /\ q # Nil /\ IsInjective(D[q]) /\ Range(D[q]) = Range(children[q]) \ {i}
    BY <1>2, <1>3 DEF TreeType
  <2>2. Range(children'[q]) = IF q = p THEN Range(D[q]) \cup {i} ELSE Range(D[q])
    BY <1>6, <1>7, <2>1
  <2>3. IsInjective(children'[q])
    BY <1>6, <1>7, <2>1
  <2>4. ASSUME NEW c \in Range(children'[q]) PROVE c \in alive /\ parent'[c] = q
    <3>1. CASE c = i
      BY <1>1, <1>8, <2>1, <2>2, <3>1
    <3>2. CASE c # i
      <4>1. c \in Range(children[q])
        BY <2>1, <2>2, <3>2
      <4>2. c \in alive /\ parent[c] = q /\ c \in Nodes
        BY <1>2, <4>1 DEF ChildrenMatchParents, TreeType
      <4> QED BY <1>8, <3>2, <4>2
    <3> QED BY <3>1, <3>2
  <2>5. ASSUME q \in alive, NEW c \in born, parent'[c] = q PROVE c \in Range(children'[q])
    <3>1. CASE c = i
      BY <1>8, <2>1, <2>2, <2>5, <3>1
    <3>2. CASE c # i
      <4>1. parent[c] = q
        BY <1>2, <1>8, <2>5, <3>2 DEF TreeType
      <4> QED BY <1>2, <2>1, <2>2, <2>5, <3>2, <4>1 DEF ChildrenMatchParents
    <3> QED BY <3>1, <3>2
  <2> QED BY <2>3, <2>4, <2>5
<1>13. IndexSound'
  <2> SUFFICES ASSUME NEW q \in alive, NEW n \in Names, byName'[q][n] # Nil
               PROVE  byName'[q][n] \in Range(children'[q]) /\ name[byName'[q][n]] = n
    BY <1>1 DEF IndexSound
  <2>1. q \in Nodes /\ q \in born
    BY <1>2 DEF TreeType
  <2>2. Range(children'[q]) = IF q = p THEN (Range(children[q]) \ {i}) \cup {i} ELSE Range(children[q]) \ {i}
    BY <1>3, <1>6, <1>7, <2>1
  <2>3. CASE q = p /\ n = name[i]
    BY <1>9, <2>1, <2>2, <2>3
  <2>4. CASE ~ (q = p /\ n = name[i])
    <3>1. byName'[q][n] = byName[q][n] /\ byName[q][n] # i /\ byName[q][n] # Nil
      BY <1>4, <1>9, <2>1, <2>4
    <3>2. byName[q][n] \in Range(children[q]) /\ name[byName[q][n]] = n
      BY <1>2, <3>1 DEF IndexSound
    <3> QED BY <2>2, <3>1, <3>2
  <2> QED BY <2>3, <2>4
<1> QED BY <1>10, <1>11, <1>12, <1>13 DEF TreeInv

LEMMA SetNameKeeps ==
    ASSUME IInv, NEW i \in Nodes, NEW n \in Names, SetName(i, n)
    PROVE  TreeInv'
<1> DEFINE X == DetachedIndex(i)
           p == parent[i]
<1>1. /\ i \in alive /\ name' = [name EXCEPT ![i] = n]
      /\ byName' = IF p = Nil THEN byName ELSE [X EXCEPT ![p][n] = i]
      /\ born' = born /\ alive' = alive /\ parent' = parent /\ children' = children
  BY DEF SetName
<1>2. TreeInv /\ TreeType /\ Unborn /\ ChildrenMatchParents /\ IndexSound /\ Nil \notin Nodes
  BY TreeAssumption DEF IInv, TreeInv
<1>3. /\ X \in [Nodes -> [Names -> Nodes \cup {Nil}]]
      /\ \A q \in Nodes, m \in Names : X[q][m] \in {byName[q][m], Nil}
      /\ \A q \in alive, m \in Names : X[q][m] # i
      /\ \A q \in Nodes \ born : X[q] = byName[q]
  BY <1>2, UnindexedFromAll
<1>4. p = Nil => X = byName
  BY DEF DetachedIndex
<1>5. p \in born \cup {Nil} /\ born \subseteq Nodes /\ i \in born
  BY <1>1, <1>2 DEF Unborn, TreeType
<1> HIDE DEF X
<1>6. /\ byName' \in [Nodes -> [Names -> Nodes \cup {Nil}]]
      /\ \A q \in Nodes, m \in Names : byName'[q][m] = IF q = p /\ m = n THEN i ELSE X[q][m]
      /\ \A q \in Nodes \ born : byName'[q] = byName[q]
  <2>1. CASE p = Nil
    BY <1>1, <1>2, <1>3, <1>4, <2>1
  <2>2. CASE p # Nil
    <3>1. p \in Nodes /\ X[p] \in [Names -> Nodes \cup {Nil}]
      BY <1>3, <1>5, <2>2
    <3>2. byName' = [X EXCEPT ![p] = [X[p] EXCEPT ![n] = i]]
      BY <1>1, <2>2
    <3> QED BY <1>3, <1>5, <2>2, <3>1, <3>2
  <2> QED BY <2>1, <2>2
<1>7. name' \in [Nodes -> Names] /\ \A x \in Nodes : name'[x] = IF x = i THEN n ELSE name[x]
  BY <1>1, <1>2 DEF TreeType
<1>8. TreeType' /\ Unborn' /\ ChildrenMatchParents'
  BY <1>1, <1>2, <1>6, <1>7 DEF TreeType, Unborn, ChildrenMatchParents, NoIndex
<1>9. IndexSound'
  <2> SUFFICES ASSUME NEW q \in alive, NEW m \in Names, byName'[q][m] # Nil
               PROVE  byName'[q][m] \in Range(children[q]) /\ name'[byName'[q][m]] = m
    BY <1>1 DEF IndexSound
  <2>1. q \in Nodes /\ q \in born
    BY <1>2 DEF TreeType
  <2>2. CASE q = p /\ m = n
    BY <1>2, <1>5, <1>6, <1>7, <2>1, <2>2 DEF ChildrenMatchParents
  <2>3. CASE ~ (q = p /\ m = n)
    <3>1. byName'[q][m] = byName[q][m] /\ byName[q][m] # i /\ byName[q][m] # Nil
      BY <1>3, <1>6, <2>1, <2>3
    <3>2. byName[q][m] \in Range(children[q]) /\ name[byName[q][m]] = m
      BY <1>2, <3>1 DEF IndexSound
    <3>3. byName[q][m] \in Nodes
      BY <1>2, <2>1, <3>1 DEF TreeType
    <3> QED BY <1>7, <3>1, <3>2, <3>3
  <2> QED BY <2>2, <2>3
<1> QED BY <1>8, <1>9 DEF TreeInv

----------------------------------------------------------------------------
\* Destroy: entering it, its loops, and what it clears when a loop is over.

LEMMA EnterKeeps ==
    ASSUME TreeInv, NEW c \in alive, Enter(c)
    PROVE  /\ TreeInv'
           /\ alive' = alive \ {c} /\ \A p \in Nodes : Range(children'[p]) \subseteq Range(children[p])
<1> DEFINE D == DetachedChildren(c)
           X == DetachedIndex(c)
<1>1. /\ alive' = alive \ {c} /\ children' = D /\ byName' = X
      /\ parent' = [parent EXCEPT ![c] = Nil] /\ born' = born /\ name' = name
  BY DEF Enter
<1>2. TreeType /\ Unborn /\ ChildrenMatchParents /\ IndexSound /\ Nil \notin Nodes /\ c \in Nodes
  BY TreeAssumption DEF TreeInv, TreeType
<1>3. /\ D \in [Nodes -> Seq(Nodes)]
      /\ \A q \in Nodes : /\ Range(D[q]) = Range(children[q]) \ {c}
                          /\ q \in born => IsInjective(D[q])
                          /\ q \notin born => D[q] = << >>
  BY <1>2, DetachedFromAll
<1>4. /\ X \in [Nodes -> [Names -> Nodes \cup {Nil}]]
      /\ \A q \in Nodes, n \in Names : X[q][n] \in {byName[q][n], Nil}
      /\ \A q \in alive, n \in Names : X[q][n] # c
      /\ \A q \in Nodes \ born : X[q] = byName[q]
  BY <1>2, UnindexedFromAll
<1> HIDE DEF D, X
<1>5. /\ parent' \in [Nodes -> Nodes \cup {Nil}]
      /\ \A x \in Nodes : parent'[x] = IF x = c THEN Nil ELSE parent[x]
  BY <1>1, <1>2 DEF TreeType
<1>6. TreeType'
  BY <1>1, <1>2, <1>3, <1>4, <1>5 DEF TreeType
<1>7. Unborn'
  BY <1>1, <1>2, <1>3, <1>4, <1>5 DEF Unborn, NoIndex
<1>8. ChildrenMatchParents'
  <2> SUFFICES ASSUME NEW q \in born
               PROVE  /\ IsInjective(D[q])
                      /\ \A x \in Range(D[q]) : x \in alive \ {c} /\ parent'[x] = q
                      /\ q \in alive => \A x \in born : parent'[x] = q => x \in Range(D[q])
    BY <1>1 DEF ChildrenMatchParents
  <2>1. q \in Nodes /\ q # Nil
    BY <1>2 DEF TreeType
  <2>2. ASSUME NEW x \in Range(D[q]) PROVE x \in alive \ {c} /\ parent'[x] = q
    BY <1>2, <1>3, <1>5, <2>1 DEF ChildrenMatchParents, TreeType
  <2>3. ASSUME q \in alive, NEW x \in born, parent'[x] = q PROVE x \in Range(D[q])
    BY <1>2, <1>3, <1>5, <2>1, <2>3 DEF ChildrenMatchParents, TreeType
  <2> QED BY <1>3, <2>1, <2>2, <2>3
<1>9. IndexSound'
  <2> SUFFICES ASSUME NEW q \in alive, NEW n \in Names, X[q][n] # Nil
               PROVE  X[q][n] \in Range(D[q]) /\ name[X[q][n]] = n
    BY <1>1 DEF IndexSound
  <2>1. q \in Nodes /\ X[q][n] = byName[q][n] /\ X[q][n] # c
    BY <1>2, <1>4 DEF TreeType
  <2>2. byName[q][n] \in Range(children[q]) /\ name[byName[q][n]] = n
    BY <1>2, <2>1 DEF IndexSound
  <2> QED BY <1>3, <2>1, <2>2
<1> QED BY <1>1, <1>3, <1>6, <1>7, <1>8, <1>9 DEF TreeInv

\* What a call knows stays true while instances die and leave their parents.
LEMMA FramesOutliveDeaths ==
    ASSUME NEW f, FrameOK(f, children, alive), alive' \subseteq alive,
           \A p \in Nodes : Range(children'[p]) \subseteq Range(children[p])
    PROVE  FrameOK(f, children', alive')
BY DEF FrameOK

\* The innermost call, and those around it.
LEMMA StackOfCalls ==
    ASSUME CallsInv, ~ Idle
    PROVE  /\ FrameOK(Top, children, alive) /\ Top.i \in Nat /\ Top.kids \in Seq(Nodes) /\ Top.at \in Nodes
           /\ \E F : frames \in Seq(F) /\ Below \in Seq(F) /\ Top \in F
           /\ Len(Below) = Len(frames) - 1
           /\ \A k \in 1..Len(Below) : FrameOK(Below[k], children, alive)
<1>1. PICK F : frames \in Seq(F)
  BY DEF CallsInv
<1>2. Len(frames) \in Nat \ {0}
  BY <1>1 DEF Idle
<1>3. /\ Below \in Seq(F) /\ Len(Below) = Len(frames) - 1
      /\ \A k \in 1..Len(Below) : Below[k] = frames[k]
  <2> DEFINE n == Len(frames) - 1
  <2>1. n \in Nat /\ 1 \in Int /\ n \in Int /\ \A k \in 1..n : frames[k] \in F
    BY <1>1, <1>2
  <2>2. /\ Below \in Seq(F) /\ Len(Below) = IF 1 <= n THEN n - 1 + 1 ELSE 0
        /\ \A k \in 1 .. n - 1 + 1 : Below[k] = frames[1 + k - 1]
    <3>1. Below = SubSeq(frames, 1, n)
      BY DEF Below
    <3> HIDE DEF n
    <3> QED BY <2>1, <3>1, SubSeqProperties
  <2>3. Len(Below) = n /\ n - 1 + 1 = n
    <3> HIDE DEF n
    <3> QED BY <2>1, <2>2
  <2>4. \A k \in 1..n : 1 + k - 1 = k
    OBVIOUS
  <2> QED BY <2>1, <2>2, <2>3, <2>4
<1>4. Top \in F /\ FrameOK(Top, children, alive)
  BY <1>1, <1>2 DEF CallsInv, Top
<1>5. \A k \in 1..Len(Below) : FrameOK(Below[k], children, alive)
  BY <1>2, <1>3 DEF CallsInv
<1>6. Top.i \in Nat /\ Top.kids \in Seq(Nodes) /\ Top.at \in Nodes
  BY <1>4 DEF FrameOK
<1>7. \E G : frames \in Seq(G) /\ Below \in Seq(G) /\ Top \in G
  BY <1>1, <1>3, <1>4
<1> QED BY <1>3, <1>4, <1>5, <1>6, <1>7

LEMMA Stacked ==
    ASSUME NEW F, NEW s \in Seq(F), NEW f
    PROVE  \E G : /\ Append(s, f) \in Seq(G) /\ Len(Append(s, f)) = Len(s) + 1
                  /\ \A k \in 1..Len(s) : Append(s, f)[k] = s[k]
                  /\ Append(s, f)[Len(s) + 1] = f
BY s \in Seq(F \cup {f})

LEMMA OneCall ==
    ASSUME NEW f, frames' = <<f>>, FrameOK(f, children', alive')
    PROVE  CallsInv'
<1>1. frames' \in Seq({f}) /\ Len(frames') = 1 /\ frames'[1] = f
  OBVIOUS
<1>2. \A k \in 1..Len(frames') : FrameOK(frames'[k], children', alive')
  BY <1>1
<1>3. \E F : frames' \in Seq(F)
  BY <1>1
<1> QED BY <1>2, <1>3 DEF CallsInv

LEMMA DestroyKeeps ==
    ASSUME IInv, NEW i \in Nodes, Destroy(i)
    PROVE  IInv'
<1>1. i \in alive /\ Enter(i) /\ frames' = <<Frame(i, FALSE)>>
  BY DEF Destroy
<1>2. TreeInv' /\ alive' = alive \ {i}
  BY <1>1, EnterKeeps DEF IInv
<1>3. FrameOK(Frame(i, FALSE), children', alive')
  BY <1>1, <1>2 DEF FrameOK, Frame, IInv, TreeInv, TreeType
<1>4. CallsInv'
  BY <1>1, <1>3, OneCall
<1> QED BY <1>2, <1>4 DEF IInv

LEMMA ClearAllChildrenKeeps ==
    ASSUME IInv, NEW i \in Nodes, ClearAllChildren(i)
    PROVE  IInv'
<1>1. /\ TreeType /\ Unborn /\ ChildrenMatchParents /\ IndexSound /\ i \in alive
      /\ i \in born
  BY DEF IInv, TreeInv, TreeType, ClearAllChildren
<1>2. CASE UNCHANGED tree /\ frames' = <<Frame(i, TRUE)>>
  <2>1. TreeInv'
    BY <1>2 DEF IInv, TreeInv, TreeType, Unborn, ChildrenMatchParents, IndexSound, tree
  <2>2. FrameOK(Frame(i, TRUE), children', alive')
    BY <1>1, <1>2 DEF FrameOK, Frame, TreeType, tree
  <2>3. CallsInv'
    BY <1>2, <2>2, OneCall
  <2> QED BY <2>1, <2>3 DEF IInv
<1>3. CASE /\ byName' = [byName EXCEPT ![i] = NoIndex]
           /\ UNCHANGED <<born, alive, name, parent, children, calls>>
  <2>1. NoIndex \in [Names -> Nodes \cup {Nil}] /\ \A n \in Names : NoIndex[n] = Nil
    BY DEF NoIndex
  <2>2. TreeType' /\ Unborn' /\ ChildrenMatchParents'
    BY <1>1, <1>3, <2>1 DEF TreeType, Unborn, ChildrenMatchParents, NoIndex
  <2>3. IndexSound'
    BY <1>1, <1>3, <2>1 DEF IndexSound, TreeType
  <2>4. CallsInv'
    BY <1>3 DEF IInv, CallsInv, FrameOK, calls
  <2> QED BY <2>2, <2>3, <2>4 DEF IInv, TreeInv
<1> QED BY <1>2, <1>3 DEF ClearAllChildren

LEMMA DestroyChildKeeps ==
    ASSUME IInv, DestroyChild
    PROVE  IInv'
<1> DEFINE c == Current(Top)
           next == [Top EXCEPT !.i = @ + 1]
<1>1. ~ Idle /\ ~ AtEnd /\ TreeInv /\ CallsInv
  BY DEF IInv, DestroyChild
<1>2. /\ FrameOK(Top, children, alive) /\ Top.i \in Nat /\ Top.kids \in Seq(Nodes) /\ Top.at \in Nodes
      /\ Len(Below) = Len(frames) - 1
      /\ \A k \in 1..Len(Below) : FrameOK(Below[k], children, alive)
  BY <1>1, StackOfCalls
<1>3. PICK F : Below \in Seq(F) /\ Top \in F
  BY <1>1, StackOfCalls
<1>4. /\ TreeInv' /\ alive' \subseteq alive /\ c \notin alive'
      /\ \A p \in Nodes : Range(children'[p]) \subseteq Range(children[p])
      /\ \/ frames' = Append(Advanced, Frame(c, FALSE)) /\ c \in alive
         \/ frames' = Advanced
  <2>1. CASE c \in alive /\ Enter(c) /\ frames' = Append(Advanced, Frame(c, FALSE))
    BY <1>1, <2>1, EnterKeeps
  <2>2. CASE c \notin alive /\ frames' = Advanced /\ UNCHANGED tree
    BY <1>1, <2>2 DEF TreeInv, TreeType, Unborn, ChildrenMatchParents, IndexSound, tree
  <2> QED BY <2>1, <2>2 DEF DestroyChild
<1>5. \A k \in 1..Len(Below) : FrameOK(Below[k], children', alive')
  BY <1>2, <1>4, FramesOutliveDeaths
<1>6. FrameOK(next, children', alive')
  <2>1. Top.copied => c = Top.kids[Top.i]
    BY DEF Current
  <2>2. /\ next.at = Top.at /\ next.kids = Top.kids /\ next.i = Top.i + 1
        /\ next.copied = Top.copied
    OBVIOUS
  <2>3. FrameOK(Top, children', alive')
    BY <1>2, <1>4, FramesOutliveDeaths
  <2> HIDE DEF c, next
  <2> QED BY <1>2, <1>4, <2>1, <2>2, <2>3 DEF FrameOK
<1> HIDE DEF next
<1>7. PICK G : Advanced \in Seq(G) /\ Len(Advanced) = Len(Below) + 1
      /\ (\A k \in 1..Len(Below) : Advanced[k] = Below[k]) /\ Advanced[Len(Below) + 1] = next
  <2>1. Advanced = Append(Below, next)
    BY DEF Advanced, next
  <2> QED BY <1>3, <2>1, Stacked
<1>8. Len(Below) \in Nat
  BY <1>3
<1>9. \A k \in 1..Len(Advanced) : FrameOK(Advanced[k], children', alive')
  <2> TAKE k \in 1..Len(Advanced)
  <2>1. k \in 1..Len(Below) \/ k = Len(Below) + 1
    BY <1>7, <1>8
  <2> QED BY <1>5, <1>6, <1>7, <2>1
<1>10. CASE frames' = Advanced
  <2>1. \E H : frames' \in Seq(H)
    BY <1>7, <1>10
  <2> QED BY <1>4, <1>9, <1>10, <2>1 DEF IInv, CallsInv
<1>11. CASE frames' = Append(Advanced, Frame(c, FALSE)) /\ c \in alive
  <2> DEFINE g == Frame(c, FALSE)
  <2>1. FrameOK(g, children', alive')
    BY <1>1, <1>4, <1>11 DEF FrameOK, Frame, TreeInv, TreeType
  <2> HIDE DEF g
  <2>2. PICK H : frames' \in Seq(H) /\ Len(frames') = Len(Advanced) + 1
        /\ (\A k \in 1..Len(Advanced) : frames'[k] = Advanced[k]) /\ frames'[Len(Advanced) + 1] = g
    <3>1. frames' = Append(Advanced, g)
      BY <1>11 DEF g
    <3> QED BY <1>7, <3>1, Stacked
  <2>3. Len(Advanced) \in Nat
    BY <1>7
  <2>4. \A k \in 1..Len(frames') : FrameOK(frames'[k], children', alive')
    <3> TAKE k \in 1..Len(frames')
    <3>1. k \in 1..Len(Advanced) \/ k = Len(Advanced) + 1
      BY <2>2, <2>3
    <3> QED BY <1>9, <2>1, <2>2, <3>1
  <2>5. \E S : frames' \in Seq(S)
    BY <2>2
  <2> QED BY <1>4, <2>4, <2>5 DEF IInv, CallsInv
<1> QED BY <1>4, <1>10, <1>11

LEMMA ReturnKeeps ==
    ASSUME IInv, Return
    PROVE  IInv'
<1> DEFINE at == Top.at
<1>1. /\ ~ Idle /\ AtEnd /\ frames' = Below
      /\ children' = [children EXCEPT ![at] = << >>] /\ byName' = [byName EXCEPT ![at] = NoIndex]
      /\ born' = born /\ alive' = alive /\ name' = name /\ parent' = parent
  BY DEF Return
<1>2. TreeType /\ Unborn /\ ChildrenMatchParents /\ IndexSound /\ CallsInv
  BY DEF IInv, TreeInv
<1>3. /\ FrameOK(Top, children, alive) /\ Top.i \in Nat /\ Top.kids \in Seq(Nodes) /\ at \in Nodes
      /\ \A k \in 1..Len(Below) : FrameOK(Below[k], children, alive)
  BY <1>1, <1>2, StackOfCalls
<1>4. at \in alive => Range(children[at]) = {}
  <2> SUFFICES ASSUME at \in alive, NEW c \in Range(children[at]) PROVE FALSE
    OBVIOUS
  <2>1. c \in Range(Top.kids) /\ \A m \in DOMAIN Top.kids : m < Top.i => Top.kids[m] \notin alive
    BY <1>3 DEF FrameOK
  <2>2. PICK m \in DOMAIN Top.kids : c = Top.kids[m]
    BY <2>1 DEF Range
  <2>3. m < Top.i
    BY <1>1, <1>3, <2>2 DEF AtEnd
  <2>4. c \in alive
    BY <1>2 DEF ChildrenMatchParents, TreeType
  <2> QED BY <2>1, <2>2, <2>3, <2>4
<1>5. Range(<< >>) = {} /\ IsInjective(<< >>)
  BY DEF Range, IsInjective
<1>6. /\ children' \in [Nodes -> Seq(Nodes)]
      /\ \A p \in Nodes : /\ children'[p] = IF p = at THEN << >> ELSE children[p]
                          /\ Range(children'[p]) \subseteq Range(children[p])
  <2>1. /\ children' \in [Nodes -> Seq(Nodes)]
        /\ \A p \in Nodes : children'[p] = IF p = at THEN << >> ELSE children[p]
    <3>1. << >> \in Seq(Nodes) /\ children \in [Nodes -> Seq(Nodes)]
      BY <1>2 DEF TreeType
    <3> HIDE DEF at
    <3> QED BY <1>1, <1>3, <3>1
  <2> QED BY <1>5, <2>1
<1>7. /\ byName' \in [Nodes -> [Names -> Nodes \cup {Nil}]]
      /\ \A p \in Nodes : byName'[p] = IF p = at THEN NoIndex ELSE byName[p]
      /\ \A n \in Names : NoIndex[n] = Nil
  BY <1>1, <1>2 DEF TreeType, NoIndex
<1>8. TreeType' /\ Unborn'
  BY <1>1, <1>2, <1>6, <1>7 DEF TreeType, Unborn, NoIndex
<1>9. ChildrenMatchParents'
  <2> SUFFICES ASSUME NEW p \in born
               PROVE  /\ IsInjective(children'[p])
                      /\ \A c \in Range(children'[p]) : c \in alive /\ parent[c] = p
                      /\ p \in alive => \A c \in born : parent[c] = p => c \in Range(children'[p])
    BY <1>1 DEF ChildrenMatchParents
  <2>1. p \in Nodes
    BY <1>2 DEF TreeType
  <2>2. IsInjective(children'[p])
    BY <1>2, <1>5, <1>6, <2>1 DEF ChildrenMatchParents
  <2>3. \A c \in Range(children'[p]) : c \in alive /\ parent[c] = p
    BY <1>2, <1>6, <2>1 DEF ChildrenMatchParents
  <2>4. ASSUME p \in alive, NEW c \in born, parent[c] = p PROVE c \in Range(children'[p])
    BY <1>2, <1>4, <1>6, <2>1, <2>4 DEF ChildrenMatchParents
  <2> QED BY <2>2, <2>3, <2>4
<1>10. IndexSound'
  BY <1>1, <1>2, <1>3, <1>6, <1>7 DEF IndexSound, TreeType
<1>11. \A k \in 1..Len(frames') : FrameOK(frames'[k], children', alive')
  BY <1>1, <1>3, <1>6, FramesOutliveDeaths
<1>12. \E F : frames' \in Seq(F)
  BY <1>1, <1>2, StackOfCalls
<1> QED BY <1>8, <1>9, <1>10, <1>11, <1>12 DEF IInv, TreeInv, CallsInv

----------------------------------------------------------------------------
\* Clone.

LEMMA LastPosition ==
    ASSUME NEW n \in Nat, NEW K \in SUBSET (1..n), K # {}
    PROVE  \E k \in K : \A m \in K : m <= k
<1> DEFINE T == {n - k : k \in K}
<1>1. \A k \in K : k \in 1..n /\ n - k \in Nat /\ n - k \in T
  OBVIOUS
<1>2. PICK t \in T : \A u \in T : t <= u
  <2>1. T \subseteq Nat /\ T # {}
    BY <1>1
  <2> HIDE DEF T
  <2> QED BY <2>1, LeastNatural
<1>3. PICK k \in K : t = n - k
  BY <1>2
<1>4. \A m \in K : n - k <= n - m
  BY <1>1, <1>2, <1>3
<1> QED BY <1>1, <1>3, <1>4

\* What is cloned is alive, has its children cloned too, and but for i a parent.
LEMMA ClonedClosed ==
    ASSUME TreeInv, NEW i \in alive
    PROVE  /\ i \in Cloned(i) /\ Cloned(i) \subseteq alive
           /\ \A y \in Cloned(i) : Range(children[y]) \cap alive \subseteq Cloned(i)
           /\ \A x \in Cloned(i) \ {i} : \E w \in Cloned(i) : x \in Range(children[w])
<1> DEFINE live == Cloned(i)
           Closed(A) == i \in A /\ \A y \in A : Range(children[y]) \cap alive \subseteq A
<1>1. live = {x \in Nodes : \A A \in SUBSET Nodes : Closed(A) => x \in A}
  BY DEF Cloned
<1>2. alive \subseteq Nodes /\ i \in Nodes
  BY DEF TreeInv, TreeType
<1>3. live \subseteq Nodes /\ \A A \in SUBSET Nodes : Closed(A) => live \subseteq A
  BY <1>1
<1>4. i \in live
  BY <1>1, <1>2
<1>5. live \subseteq alive
  BY <1>2, <1>3
<1>6. ASSUME NEW y \in live, NEW c \in Range(children[y]) \cap alive PROVE c \in live
  <2>1. ASSUME NEW A \in SUBSET Nodes, Closed(A) PROVE c \in A
    BY <1>3, <1>6, <2>1
  <2> QED BY <1>1, <1>2, <2>1
<1>7. ASSUME NEW x \in live \ {i} PROVE \E w \in live : x \in Range(children[w])
  <2> DEFINE A == live \ {x}
  <2> SUFFICES ASSUME \A w \in live : x \notin Range(children[w]) PROVE FALSE
    OBVIOUS
  <2>1. Closed(A)
    BY <1>4, <1>6
  <2>2. A \in SUBSET Nodes
    BY <1>3
  <2> HIDE DEF A, Closed
  <2>3. live \subseteq A
    BY <1>3, <2>1, <2>2
  <2> QED BY <2>3 DEF A
<1> QED BY <1>4, <1>5, <1>6, <1>7

\* What a step adds to the tree: instances whose parents, if they have any, are
\* new too and stand above them as what they are copies of stand.
Grafts(new, of) ==
    /\ new \subseteq Nodes \ born /\ born' = born \cup new /\ alive' = alive \cup new
    /\ \A y \in Nodes \ new : parent'[y] = parent[y]
    /\ \A y \in new :
         /\ of[y] \in Nodes
         /\ parent'[y] # Nil => parent'[y] \in new /\ of[parent'[y]] = parent[of[y]]

\* The index of what is new tells all its children's names and no others.
NewIndexed ==
    \A x \in born' \ born, n \in Names :
      byName'[x][n] # Nil <=> \E c \in Range(children'[x]) : name'[c] = n

LEMMA CloneKeeps ==
    ASSUME IInv, NEW i \in Nodes, Clone(i)
    PROVE  TreeInv' /\ (\E new, of : Grafts(new, of)) /\ NewIndexed
<1> DEFINE live  == Cloned(i)
           Up(x) == CHOOSE w \in live : x \in Range(children[w])
<1>1. /\ i \in alive /\ \A x \in live : i \notin Range(children[x])
      /\ \E copy \in Injection(live, Nodes \ born) :
           LET Of(y)   == CHOOSE x \in live : copy[x] = y
               Kids(y) == Only(children[Of(y)], alive)
               new     == Range(copy)
           IN  /\ born' = born \cup new /\ alive' = alive \cup new
               /\ name' = [y \in Nodes |-> IF y \in new THEN name[Of(y)] ELSE name[y]]
               /\ parent' = [y \in Nodes |->
                      IF y \in new \ {copy[i]} THEN copy[Up(Of(y))] ELSE parent[y]]
               /\ children' = [y \in Nodes |->
                      IF y \in new THEN [k \in DOMAIN Kids(y) |-> copy[Kids(y)[k]]]
                      ELSE children[y]]
               /\ byName' = [y \in Nodes |->
                      IF y \in new THEN CopiedIndex(Kids(y), copy) ELSE byName[y]]
  BY DEF Clone
<1>2. PICK copy \in Injection(live, Nodes \ born) :
           LET Of(y)   == CHOOSE x \in live : copy[x] = y
               Kids(y) == Only(children[Of(y)], alive)
               new     == Range(copy)
           IN  /\ born' = born \cup new /\ alive' = alive \cup new
               /\ name' = [y \in Nodes |-> IF y \in new THEN name[Of(y)] ELSE name[y]]
               /\ parent' = [y \in Nodes |->
                      IF y \in new \ {copy[i]} THEN copy[Up(Of(y))] ELSE parent[y]]
               /\ children' = [y \in Nodes |->
                      IF y \in new THEN [k \in DOMAIN Kids(y) |-> copy[Kids(y)[k]]]
                      ELSE children[y]]
               /\ byName' = [y \in Nodes |->
                      IF y \in new THEN CopiedIndex(Kids(y), copy) ELSE byName[y]]
  BY <1>1
<1> DEFINE Of(y)   == CHOOSE x \in live : copy[x] = y
           Kids(y) == Only(children[Of(y)], alive)
           new     == Range(copy)
           Copied(y) == [k \in DOMAIN Kids(y) |-> copy[Kids(y)[k]]]
<1>3. /\ born' = born \cup new /\ alive' = alive \cup new
      /\ name' = [y \in Nodes |-> IF y \in new THEN name[Of(y)] ELSE name[y]]
      /\ parent' = [y \in Nodes |-> IF y \in new \ {copy[i]} THEN copy[Up(Of(y))] ELSE parent[y]]
      /\ children' = [y \in Nodes |-> IF y \in new THEN Copied(y) ELSE children[y]]
      /\ byName' = [y \in Nodes |-> IF y \in new THEN CopiedIndex(Kids(y), copy) ELSE byName[y]]
  BY <1>2
<1>4. /\ TreeInv /\ TreeType /\ Unborn /\ ChildrenMatchParents /\ IndexSound /\ Nil \notin Nodes
      /\ alive \subseteq born /\ born \subseteq Nodes /\ alive \subseteq Nodes
  BY TreeAssumption DEF IInv, TreeInv, TreeType
<1>5. /\ i \in live /\ live \subseteq alive
      /\ \A y \in live : Range(children[y]) \cap alive \subseteq live
      /\ \A x \in live \ {i} : Up(x) \in live /\ x \in Range(children[Up(x)])
  BY <1>1, <1>4, ClonedClosed
<1>6. /\ copy \in [live -> Nodes \ born]
      /\ \A x, y \in live : copy[x] = copy[y] => x = y
  BY DEF Injection, IsInjective
<1>7. \A x \in live : copy[x] \in new /\ Of(copy[x]) = x
  BY <1>6 DEF Range
<1>8. \A y \in new : Of(y) \in live /\ copy[Of(y)] = y /\ y \in Nodes \ born
  BY <1>6 DEF Range
\* The children of what is cloned are cloned, and have it for their parent.
<1>9. \A x \in live : /\ children[x] \in Seq(Nodes) /\ IsInjective(children[x])
                      /\ Range(children[x]) \subseteq live \ {i}
                      /\ \A c \in Range(children[x]) : Up(c) = x
  <2> TAKE x \in live
  <2>1. x \in born /\ x \in Nodes
    BY <1>4, <1>5
  <2>2. Range(children[x]) \subseteq alive
    BY <1>4, <2>1 DEF ChildrenMatchParents
  <2>3. Range(children[x]) \subseteq live \ {i}
    BY <1>1, <1>5, <2>2
  <2>4. \A c \in Range(children[x]) : Up(c) = x
    <3> TAKE c \in Range(children[x])
    <3>1. Up(c) \in born /\ c \in Range(children[Up(c)])
      BY <1>4, <1>5, <2>3
    <3>2. parent[c] = x /\ parent[c] = Up(c)
      BY <1>4, <2>1, <3>1 DEF ChildrenMatchParents
    <3> QED BY <3>2
  <2> QED BY <1>4, <2>1, <2>3, <2>4 DEF ChildrenMatchParents, TreeType
<1> HIDE DEF live, Up, Of, new
<1>10. \A y \in new : /\ Kids(y) \in Seq(Nodes) /\ IsInjective(Kids(y))
                      /\ Range(Kids(y)) = Range(children[Of(y)])
  <2> TAKE y \in new
  <2> DEFINE q == children[Of(y)]
  <2>1. q \in Seq(Nodes) /\ IsInjective(q) /\ Range(q) \subseteq live
    BY <1>8, <1>9
  <2>2. Range(q) \cap alive = Range(q)
    BY <1>5, <2>1
  <2> HIDE DEF q
  <2>3. /\ Only(q, alive) \in Seq(Nodes) /\ Range(Only(q, alive)) = Range(q)
        /\ IsInjective(Only(q, alive))
    BY <2>1, <2>2, OnlyExact
  <2> QED BY <2>3 DEF q
<1> HIDE DEF Kids
<1>11. \A y \in new : /\ Copied(y) \in Seq(Nodes) /\ IsInjective(Copied(y))
                      /\ Range(Copied(y)) = {copy[c] : c \in Range(children[Of(y)])}
  <2> TAKE y \in new
  <2> DEFINE q == Kids(y)
             out == Copied(y)
  <2>1. /\ q \in Seq(Nodes) /\ DOMAIN q = 1..Len(q) /\ Len(q) \in Nat
        /\ Range(q) = Range(children[Of(y)]) /\ Range(q) \subseteq live
        /\ \A k, m \in 1..Len(q) : q[k] = q[m] => k = m
    BY <1>8, <1>9, <1>10 DEF IsInjective
  <2>2. \A k \in 1..Len(q) : q[k] \in live
    BY <2>1 DEF Range
  <2>3. out = [k \in 1..Len(q) |-> copy[q[k]]]
    BY <2>1
  <2> HIDE DEF q, out
  <2>4. \A k \in 1..Len(q) : copy[q[k]] \in Nodes
    BY <1>6, <2>2
  <2>5. out \in Seq(Nodes) /\ DOMAIN out = 1..Len(q)
    BY <2>1, <2>3, <2>4
  <2>6. IsInjective(out)
    BY <1>6, <2>1, <2>2, <2>3, <2>5 DEF IsInjective
  <2>7. Range(out) = {copy[c] : c \in Range(q)}
    BY <2>1, <2>3, <2>5 DEF Range
  <2> QED BY <2>1, <2>5, <2>6, <2>7 DEF q, out
<1> HIDE DEF Copied
<1>12. \A y \in new : /\ CopiedIndex(Kids(y), copy) \in [Names -> Nodes \cup {Nil}]
                       /\ \A n \in Names :
                            /\ (\E c \in Range(children[Of(y)]) : name[c] = n) =>
                                 CopiedIndex(Kids(y), copy)[n] # Nil
                            /\ CopiedIndex(Kids(y), copy)[n] # Nil =>
                                 \E c \in Range(children[Of(y)]) :
                                   CopiedIndex(Kids(y), copy)[n] = copy[c] /\ name[c] = n
  <2> TAKE y \in new
  <2> DEFINE q == Kids(y)
             index == CopiedIndex(q, copy)
  <2>1. /\ q \in Seq(Nodes) /\ DOMAIN q = 1..Len(q) /\ Len(q) \in Nat
        /\ Range(q) = Range(children[Of(y)]) /\ Range(q) \subseteq live
    BY <1>8, <1>9, <1>10
  <2>2. \A k \in 1..Len(q) : q[k] \in Range(q) /\ copy[q[k]] \in Nodes
    BY <1>6, <2>1 DEF Range
  <2> HIDE DEF q
  <2>3. ASSUME NEW n \in Names
        PROVE  /\ index[n] \in Nodes \cup {Nil}
               /\ index[n] # Nil => \E c \in Range(q) : index[n] = copy[c] /\ name[c] = n
               /\ (\E c \in Range(q) : name[c] = n) => index[n] # Nil
    <3> DEFINE at == {k \in DOMAIN q : name[q[k]] = n}
               last == CHOOSE k \in at : \A m \in at : m <= k
    <3>1. index[n] = IF at = {} THEN Nil ELSE copy[q[last]]
      BY DEF CopiedIndex
    <3>2. at \in SUBSET (1..Len(q)) /\ \A k \in at : name[q[k]] = n
      BY <2>1
    <3>3. at # {} => last \in at
      <4> HIDE DEF at
      <4> QED BY <2>1, <3>2, LastPosition
    <3>4. (\E c \in Range(q) : name[c] = n) => at # {}
      BY <2>1 DEF Range
    <3> HIDE DEF at, last
    <3> QED BY <1>4, <2>2, <3>1, <3>2, <3>3, <3>4
  <2>4. index \in [Names -> Nodes \cup {Nil}]
    <3> DEFINE At(n) == {k \in DOMAIN q : name[q[k]] = n}
               Entry(n) == IF At(n) = {} THEN Nil
                           ELSE copy[q[CHOOSE k \in At(n) : \A m \in At(n) : m <= k]]
    <3>1. index = [n \in Names |-> Entry(n)]
      BY DEF CopiedIndex
    <3>2. \A n \in Names : Entry(n) = index[n]
      BY <3>1
    <3> HIDE DEF index, Entry
    <3>3. \A n \in Names : Entry(n) \in Nodes \cup {Nil}
      BY <2>3, <3>2
    <3> QED BY <3>1, <3>3
  <2> HIDE DEF index
  <2> QED BY <2>1, <2>3, <2>4 DEF index, q
\* The variables of what is new, and of what was there.
<1>13. /\ new \subseteq Nodes \ born /\ born' \subseteq Nodes
       /\ \A y \in Nodes : y \notin new =>
            /\ name'[y] = name[y] /\ parent'[y] = parent[y]
            /\ children'[y] = children[y] /\ byName'[y] = byName[y]
       /\ \A y \in new :
            /\ name'[y] = name[Of(y)] /\ children'[y] = Copied(y)
            /\ byName'[y] = CopiedIndex(Kids(y), copy)
            /\ parent'[y] = IF y = copy[i] THEN Nil ELSE copy[Up(Of(y))]
  <2>1. new \subseteq Nodes \ born /\ born' \subseteq Nodes
    BY <1>3, <1>4, <1>8
  <2>2. \A y \in new : parent[y] = Nil
    BY <1>4, <1>8 DEF Unborn
  <2> QED BY <1>3, <2>1, <2>2
<1>14. \A y \in new : y # copy[i] => /\ Of(y) \in live \ {i} /\ Up(Of(y)) \in live
                                     /\ Of(y) \in Range(children[Up(Of(y))])
                                     /\ copy[Up(Of(y))] \in new
  BY <1>5, <1>7, <1>8
<1>15. TreeType'
  <2>1. name' \in [Nodes -> Names]
    BY <1>3, <1>4, <1>5, <1>8 DEF TreeType
  <2>2. parent' \in [Nodes -> Nodes \cup {Nil}]
    <3>1. \A y \in Nodes : parent'[y] \in Nodes \cup {Nil}
      BY <1>4, <1>13, <1>14 DEF TreeType
    <3> QED BY <1>3, <3>1
  <2>3. children' \in [Nodes -> Seq(Nodes)]
    <3>1. \A y \in Nodes : children'[y] \in Seq(Nodes)
      <4> TAKE y \in Nodes
      <4>1. CASE y \in new
        BY <1>11, <1>13, <4>1
      <4>2. CASE y \notin new
        BY <1>4, <1>13, <4>2 DEF TreeType
      <4> QED BY <4>1, <4>2
    <3> QED BY <1>3, <3>1
  <2>4. byName' \in [Nodes -> [Names -> Nodes \cup {Nil}]]
    <3>1. \A y \in Nodes : byName'[y] \in [Names -> Nodes \cup {Nil}]
      <4> TAKE y \in Nodes
      <4>1. CASE y \in new
        BY <1>12, <1>13, <4>1
      <4>2. CASE y \notin new
        BY <1>4, <1>13, <4>2 DEF TreeType
      <4> QED BY <4>1, <4>2
    <3> QED BY <1>3, <3>1
  <2> QED BY <1>3, <1>4, <1>13, <2>1, <2>2, <2>3, <2>4 DEF TreeType
<1>16. Unborn'
  <2>1. \A x \in Nodes : parent'[x] \in born' \cup {Nil}
    BY <1>3, <1>4, <1>13, <1>14 DEF Unborn
  <2>2. \A x \in Nodes \ born' : parent'[x] = Nil /\ children'[x] = << >> /\ byName'[x] = NoIndex
    BY <1>3, <1>4, <1>13 DEF Unborn
  <2> QED BY <2>1, <2>2 DEF Unborn, NoIndex
<1>17. ChildrenMatchParents'
  <2> SUFFICES ASSUME NEW p \in born'
               PROVE  /\ IsInjective(children'[p])
                      /\ \A c \in Range(children'[p]) : c \in alive' /\ parent'[c] = p
                      /\ p \in alive' => \A c \in born' : parent'[c] = p => c \in Range(children'[p])
    BY DEF ChildrenMatchParents
  <2>1. p \in Nodes /\ p # Nil
    BY <1>4, <1>13
  <2>2. CASE p \notin new
    <3>1. p \in born /\ children'[p] = children[p]
      BY <1>3, <1>13, <2>1, <2>2
    <3>2. \A c \in Range(children[p]) : c \in alive' /\ parent'[c] = p
      <4> TAKE c \in Range(children[p])
      <4>1. c \in alive /\ parent[c] = p
        BY <1>4, <3>1 DEF ChildrenMatchParents
      <4>2. c \in Nodes /\ c \notin new
        BY <1>4, <1>13, <4>1
      <4> QED BY <1>3, <1>13, <4>1, <4>2
    <3>3. ASSUME p \in alive', NEW c \in born', parent'[c] = p PROVE c \in Range(children[p])
      <4>1. c \notin new
        BY <1>13, <1>14, <2>1, <2>2, <3>3
      <4>2. c \in born /\ parent[c] = p /\ p \in alive
        BY <1>3, <1>4, <1>13, <2>2, <3>3, <4>1
      <4> QED BY <1>4, <3>1, <4>2 DEF ChildrenMatchParents
    <3> QED BY <1>4, <3>1, <3>2, <3>3 DEF ChildrenMatchParents
  <2>3. CASE p \in new
    <3> DEFINE o == Of(p)
    <3>1. /\ o \in live /\ copy[o] = p /\ IsInjective(children'[p])
          /\ Range(children'[p]) = {copy[c] : c \in Range(children[o])}
      BY <1>8, <1>11, <1>13, <2>3
    <3>2. ASSUME NEW c \in Range(children[o]) PROVE copy[c] \in alive' /\ parent'[copy[c]] = p
      <4>1. c \in live \ {i} /\ Up(c) = o
        BY <1>9, <3>1
      <4>2. copy[c] \in new /\ Of(copy[c]) = c /\ copy[c] # copy[i]
        BY <1>5, <1>6, <1>7, <4>1
      <4> QED BY <1>3, <1>13, <3>1, <4>1, <4>2
    <3>3. ASSUME NEW y \in born', parent'[y] = p PROVE y \in {copy[c] : c \in Range(children[o])}
      <4>1. y \in new
        BY <1>3, <1>4, <1>13, <2>1, <2>3, <3>3 DEF Unborn
      <4>2. y # copy[i] /\ copy[Up(Of(y))] = p
        BY <1>13, <2>1, <3>3, <4>1
      <4>3. Up(Of(y)) = o
        BY <1>6, <1>14, <3>1, <4>1, <4>2
      <4>4. Of(y) \in Range(children[o]) /\ copy[Of(y)] = y
        BY <1>8, <1>14, <4>1, <4>2, <4>3
      <4> QED BY <4>4
    <3> QED BY <3>1, <3>2, <3>3
  <2> QED BY <2>2, <2>3
<1>18. IndexSound'
  <2> SUFFICES ASSUME NEW p \in alive', NEW n \in Names, byName'[p][n] # Nil
               PROVE  byName'[p][n] \in Range(children'[p]) /\ name'[byName'[p][n]] = n
    BY DEF IndexSound
  <2>1. CASE p \notin new
    <3>1. p \in alive /\ p \in Nodes /\ byName'[p] = byName[p] /\ children'[p] = children[p]
      BY <1>3, <1>4, <1>13, <2>1
    <3>2. byName[p][n] \in Range(children[p]) /\ name[byName[p][n]] = n
      BY <1>4, <3>1 DEF IndexSound
    <3>3. byName[p][n] \in Nodes /\ byName[p][n] \notin new
      BY <1>4, <1>13, <3>1, <3>2 DEF ChildrenMatchParents
    <3> QED BY <1>13, <3>1, <3>2, <3>3
  <2>2. CASE p \in new
    <3>1. PICK c \in Range(children[Of(p)]) : byName'[p][n] = copy[c] /\ name[c] = n
      BY <1>12, <1>13, <2>2
    <3>2. c \in live
      BY <1>8, <1>9, <2>2
    <3> QED BY <1>7, <1>11, <1>13, <2>2, <3>1, <3>2
  <2> QED BY <2>1, <2>2
<1>19. \E fresh, of : Grafts(fresh, of)
  <2> DEFINE of == [y \in new |-> Of(y)]
  <2>1. ASSUME NEW y \in new, parent'[y] # Nil
        PROVE  parent'[y] \in new /\ of[parent'[y]] = parent[of[y]]
    <3>1. y # copy[i] /\ parent'[y] = copy[Up(Of(y))]
      BY <1>13, <2>1
    <3>2. Up(Of(y)) \in live /\ Of(y) \in Range(children[Up(Of(y))]) /\ Up(Of(y)) \in born
      BY <1>4, <1>5, <1>14, <3>1
    <3>3. parent'[y] \in new /\ Of(parent'[y]) = Up(Of(y))
      BY <1>7, <3>1, <3>2
    <3>4. parent[Of(y)] = Up(Of(y))
      BY <1>4, <3>2 DEF ChildrenMatchParents
    <3> QED BY <3>3, <3>4
  <2>2. \A y \in new : of[y] \in Nodes
    BY <1>4, <1>5, <1>8
  <2> HIDE DEF of
  <2>3. Grafts(new, of)
    BY <1>3, <1>13, <2>1, <2>2 DEF Grafts
  <2> QED BY <2>3
<1>20. NewIndexed
  <2> SUFFICES ASSUME NEW y \in new, NEW n \in Names
               PROVE  byName'[y][n] # Nil <=> \E c \in Range(children'[y]) : name'[c] = n
    BY <1>3, <1>4, <1>13 DEF NewIndexed
  <2>1. /\ byName'[y] = CopiedIndex(Kids(y), copy)
        /\ Range(children'[y]) = {copy[c] : c \in Range(children[Of(y)])}
    BY <1>11, <1>13
  <2>2. \A c \in Range(children[Of(y)]) : c \in live /\ name'[copy[c]] = name[c]
    BY <1>7, <1>8, <1>9, <1>13
  <2>3. ASSUME byName'[y][n] # Nil PROVE \E c \in Range(children'[y]) : name'[c] = n
    <3>1. PICK c \in Range(children[Of(y)]) : name[c] = n
      BY <1>12, <2>1, <2>3
    <3> QED BY <2>1, <2>2, <3>1
  <2>4. ASSUME NEW e \in Range(children'[y]), name'[e] = n PROVE byName'[y][n] # Nil
    <3>1. PICK c \in Range(children[Of(y)]) : e = copy[c]
      BY <2>1
    <3>2. name[c] = n
      BY <2>2, <2>4, <3>1
    <3>3. CopiedIndex(Kids(y), copy)[n] # Nil
      <4> HIDE DEF new, Of, Kids
      <4> QED BY <1>12, <3>2
    <3> QED BY <2>1, <3>3
  <2> QED BY <2>3, <2>4
<1> QED BY <1>15, <1>16, <1>17, <1>18, <1>19, <1>20 DEF TreeInv

----------------------------------------------------------------------------
\* The invariant is inductive.

LEMMA InitOK == Init => IInv
<1> SUFFICES ASSUME Init PROVE IInv
  OBVIOUS
<1>1. PICK first \in Cameras, n \in Names :
        /\ born = {workspace, first} /\ alive = born
        /\ name = [x \in Nodes |-> n]
        /\ parent = [x \in Nodes |-> IF x = first THEN workspace ELSE Nil]
        /\ children = [x \in Nodes |-> IF x = workspace THEN <<first>> ELSE << >>]
        /\ byName = [x \in Nodes |-> IF x = workspace THEN [NoIndex EXCEPT ![n] = first]
                                     ELSE NoIndex]
        /\ frames = << >>
  BY DEF Init
<1>2. name[workspace] = n
  BY <1>1 DEF Nodes
<1>3. workspace \in Nodes /\ first \in Nodes /\ first # workspace /\ Nil \notin Nodes
  BY TreeAssumption DEF Nodes
<1>4. /\ NoIndex \in [Names -> Nodes \cup {Nil}] /\ \A m \in Names : NoIndex[m] = Nil
      /\ name \in [Nodes -> Names] /\ name[first] = n
  BY <1>1, <1>3 DEF NoIndex
<1>5. /\ <<first>> \in Seq(Nodes) /\ << >> \in Seq(Nodes)
      /\ Range(<<first>>) = {first} /\ Range(<< >>) = {}
      /\ IsInjective(<<first>>) /\ IsInjective(<< >>)
  BY <1>3 DEF Range, IsInjective
<1>6. TreeType
  BY <1>1, <1>3, <1>4, <1>5 DEF TreeType
<1>7. Unborn
  BY <1>1, <1>3 DEF Unborn
<1>8. ChildrenMatchParents
  BY <1>1, <1>3, <1>5 DEF ChildrenMatchParents
<1>9. IndexSound
  BY <1>1, <1>3, <1>4, <1>5 DEF IndexSound
<1>10. CallsInv
  BY <1>1 DEF CallsInv
<1> QED BY <1>6, <1>7, <1>8, <1>9, <1>10 DEF IInv, TreeInv

LEMMA NextKeeps == IInv /\ [Next]_vars => IInv'
<1> SUFFICES ASSUME IInv, [Next]_vars PROVE IInv'
  OBVIOUS
<1>1. Idle /\ UNCHANGED calls => CallsInv'
  BY DEF IInv, CallsInv, calls, Idle
<1>2. ASSUME NEW i \in Nodes, New(i) PROVE IInv'
  BY <1>1, <1>2, NewKeeps DEF New, IInv
<1>3. ASSUME NEW i \in Nodes, NEW p \in Nodes \cup {Nil}, SetParent(i, p) PROVE IInv'
  BY <1>1, <1>3, SetParentKeeps DEF SetParent, IInv
<1>4. ASSUME NEW i \in Nodes, NEW n \in Names, SetName(i, n) PROVE IInv'
  BY <1>1, <1>4, SetNameKeeps DEF SetName, IInv
<1>5. ASSUME NEW i \in Nodes, Clone(i) PROVE IInv'
  <2>1. Idle /\ UNCHANGED calls
    BY <1>5 DEF Clone
  <2> QED BY <1>1, <1>5, <2>1, CloneKeeps DEF IInv
<1>6. ASSUME NEW i \in Nodes, Destroy(i) PROVE IInv'
  BY <1>6, DestroyKeeps
<1>7. ASSUME NEW i \in Nodes, ClearAllChildren(i) PROVE IInv'
  BY <1>7, ClearAllChildrenKeeps
<1>8. CASE DestroyChild
  BY <1>8, DestroyChildKeeps
<1>9. CASE Return
  BY <1>9, ReturnKeeps
<1>10. CASE UNCHANGED vars
  BY <1>10 DEF IInv, TreeInv, TreeType, Unborn, ChildrenMatchParents, IndexSound, CallsInv,
               FrameOK, vars, tree, calls
<1> QED BY <1>2, <1>3, <1>4, <1>5, <1>6, <1>7, <1>8, <1>9, <1>10 DEF Next

LEMMA InvariantHolds == Spec => []IInv
BY InitOK, NextKeeps, PTL DEF Spec

\* Children and Parent are one tree seen from two sides, in every state of every
\* program, the middle of a Destroy included (Instance.cpp:60-124, :131-187).
THEOREM ChildrenAndParentsAgree == Spec => []ChildrenMatchParents
<1>1. IInv => ChildrenMatchParents
  BY DEF IInv, TreeInv
<1> QED BY <1>1, InvariantHolds, PTL

\* What the index by name yields is a child of that name, whatever was renamed,
\* moved, cloned or destroyed (Instance.cpp:71-90, ScriptingAPI.cpp:513-527).
THEOREM IndexCorrect == Spec => []IndexSound
<1>1. IInv => IndexSound
  BY DEF IInv, TreeInv
<1> QED BY <1>1, InvariantHolds, PTL

----------------------------------------------------------------------------
\* FlattenSeq, which forEachDesc is built from: what it returns, from what it
\* has put together after each of the sequences.

\* Induction on the numbers up to n.
LEMMA UpToInduction ==
    ASSUME NEW n \in Nat, NEW T, 0 \in T, \A k \in 1..n : k - 1 \in T => k \in T
    PROVE  \A k \in 0..n : k \in T
<1> DEFINE Bad == {k \in Nat : k <= n /\ k \notin T}
<1> SUFFICES ASSUME Bad # {} PROVE FALSE
  OBVIOUS
<1>1. PICK k \in Bad : \A m \in Bad : k <= m
  <2>1. Bad \subseteq Nat
    OBVIOUS
  <2> HIDE DEF Bad
  <2> QED BY <2>1, LeastNatural
<1>2. k \in 1..n /\ k - 1 \notin Bad
  BY <1>1
<1> QED BY <1>2

\* What FlattenSeq has put together after each of the n sequences in g.
Joined(n, g, p) == p[0] = << >> /\ \A k \in 1..n : p[k] = p[k - 1] \o g[k]

SeqsUpTo(n, g, U) == \A k \in 1..n : g[k] \in Seq(U)

LEMMA JoinedExists ==
    ASSUME NEW U, NEW n \in Nat, NEW g, SeqsUpTo(n, g, U)
    PROVE  \E p : Joined(n, g, p)
<1> DEFINE T == {k \in 0..n : \E p : Joined(k, g, p)}
<1>1. 0 \in T
  <2>1. Joined(0, g, [k \in 0..0 |-> << >>])
    BY DEF Joined
  <2> QED BY <2>1
<1>2. ASSUME NEW k \in 1..n, k - 1 \in T PROVE k \in T
  <2>1. PICK p : Joined(k - 1, g, p)
    BY <1>2
  <2> DEFINE q == [m \in 0..k |-> IF m = k THEN p[k - 1] \o g[k] ELSE p[m]]
  <2>2. q[0] = << >>
    BY <2>1 DEF Joined
  <2>3. ASSUME NEW m \in 1..k PROVE q[m] = q[m - 1] \o g[m]
    <3>1. CASE m = k
      <4>1. q[m] = p[k - 1] \o g[k] /\ q[m - 1] = p[k - 1]
        BY <3>1
      <4> HIDE DEF q
      <4> QED BY <3>1, <4>1
    <3>2. CASE m # k
      <4>1. m \in 1 .. k - 1 /\ q[m] = p[m] /\ q[m - 1] = p[m - 1]
        BY <3>2
      <4> HIDE DEF q
      <4> QED BY <2>1, <4>1 DEF Joined
    <3> QED BY <3>1, <3>2
  <2>4. Joined(k, g, q)
    <3> HIDE DEF q
    <3> QED BY <2>2, <2>3 DEF Joined
  <2> QED BY <2>4
<1> HIDE DEF T
<1>3. n \in T
  BY <1>1, <1>2, UpToInduction
<1> QED BY <1>3 DEF T

JoinOK(U, g, p, k) ==
    /\ p[k] \in Seq(U)
    /\ \A x : x \in Range(p[k]) <=> \E m \in 1..k : x \in Range(g[m])

LEMMA JoinedExact ==
    ASSUME NEW U, NEW n \in Nat, NEW g, SeqsUpTo(n, g, U), NEW p, Joined(n, g, p)
    PROVE  \A k \in 0..n : JoinOK(U, g, p, k)
<1> DEFINE OK(k) == JoinOK(U, g, p, k)
           T == {k \in 0..n : OK(k)}
<1> USE DEF JoinOK
<1>1. OK(0)
  <2>1. p[0] = << >>
    BY DEF Joined
  <2> QED BY <2>1 DEF Range
<1>2. ASSUME NEW k \in 1..n, OK(k - 1) PROVE OK(k)
  <2>1. p[k] = p[k - 1] \o g[k] /\ g[k] \in Seq(U) /\ p[k - 1] \in Seq(U)
    BY <1>2 DEF Joined, SeqsUpTo
  <2>2. p[k] \in Seq(U)
    BY <2>1
  <2>3. Range(p[k]) = Range(p[k - 1]) \cup Range(g[k])
    BY <2>1, RangeConcatenation
  <2>4. \A x : (\E m \in 1..k : x \in Range(g[m]))
                 <=> (\E m \in 1 .. k - 1 : x \in Range(g[m])) \/ x \in Range(g[k])
    OBVIOUS
  <2> QED BY <1>2, <2>2, <2>3, <2>4
<1> HIDE DEF OK
<1>3. 0 \in T /\ \A k \in 1..n : k - 1 \in T => k \in T
  BY <1>1, <1>2
<1>4. \A k \in 0..n : k \in T
  <2> HIDE DEF T
  <2> QED BY <1>3, UpToInduction
<1> QED BY <1>4 DEF OK

LEMMA FlattenJoined ==
    ASSUME NEW U, NEW n \in Nat, NEW s, Len(s) = n, n = 0 => s = << >>, SeqsUpTo(n, s, U),
           NEW p, Joined(n, s, p)
    PROVE  FlattenSeq(s) = p[n]
<1>1. CASE n = 0
  <2>1. s = << >> /\ p[0] = << >>
    BY <1>1 DEF Joined
  <2> QED BY <1>1, <2>1 DEF FlattenSeq
<1>2. CASE n # 0
  <2> DEFINE f == [k \in 1..n |-> p[k]]
             Solves(g) == g = [k \in 1..n |-> IF k = 1 THEN s[k] ELSE g[k - 1] \o s[k]]
             flatten == CHOOSE g : Solves(g)
  <2>1. \A k \in 1..n : f[k] = IF k = 1 THEN s[k] ELSE f[k - 1] \o s[k]
    <3> TAKE k \in 1..n
    <3>1. p[k] = p[k - 1] \o s[k] /\ p[0] = << >> /\ s[k] \in Seq(U)
      BY DEF Joined, SeqsUpTo
    <3>2. CASE k = 1
      <4>1. p[k - 1] = << >> /\ << >> \o s[k] = s[k]
        BY <3>1, <3>2
      <4> QED BY <3>1, <3>2, <4>1
    <3>3. CASE k # 1
      <4>1. k - 1 \in 1..n
        BY <3>3
      <4> QED BY <3>1, <3>3, <4>1
    <3> QED BY <3>2, <3>3
  <2>2. Solves(f)
    BY <2>1
  <2>3. Solves(flatten)
    <3> HIDE DEF Solves, f
    <3> QED BY <2>2
  <2>4. \A k \in 1..n : flatten[k] = IF k = 1 THEN s[k] ELSE flatten[k - 1] \o s[k]
    <3> HIDE DEF flatten
    <3> QED BY <2>3, Zenon
  <2>5. FlattenSeq(s) = flatten[n]
    BY <1>2 DEF FlattenSeq
  <2> HIDE DEF f, flatten, Solves
  <2> DEFINE T == {k \in 0..n : k = 0 \/ flatten[k] = f[k]}
  <2>6. 0 \in T /\ \A k \in 1..n : k - 1 \in T => k \in T
    BY <2>1, <2>4
  <2>7. n \in T
    <3> HIDE DEF T
    <3> QED BY <2>6, UpToInduction
  <2>8. f[n] = p[n]
    BY <1>2 DEF f
  <2> QED BY <1>2, <2>5, <2>7, <2>8
<1> QED BY <1>1, <1>2

LEMMA SeqOfSeqs ==
    ASSUME NEW U, NEW s \in Seq(Seq(U))
    PROVE  Len(s) \in Nat /\ (Len(s) = 0 => s = << >>) /\ SeqsUpTo(Len(s), s, U)
BY DEF SeqsUpTo

LEMMA FlattenUpTo ==
    ASSUME NEW U, NEW n \in Nat, NEW s, Len(s) = n, n = 0 => s = << >>, SeqsUpTo(n, s, U)
    PROVE  /\ FlattenSeq(s) \in Seq(U)
           /\ \A x : x \in Range(FlattenSeq(s)) <=> \E k \in 1..n : x \in Range(s[k])
<1>1. PICK p : Joined(n, s, p)
  BY JoinedExists
<1>2. FlattenSeq(s) = p[n]
  BY <1>1, FlattenJoined
<1>3. n \in 0..n
  OBVIOUS
<1>4. JoinOK(U, s, p, n)
  BY <1>1, <1>3, JoinedExact
<1> QED BY <1>2, <1>4 DEF JoinOK

LEMMA FlattenExact ==
    ASSUME NEW U, NEW s \in Seq(Seq(U))
    PROVE  /\ FlattenSeq(s) \in Seq(U)
           /\ \A x : x \in Range(FlattenSeq(s)) <=> \E k \in 1..Len(s) : x \in Range(s[k])
BY SeqOfSeqs, FlattenUpTo, Zenon

\* e holds the n sequences of g and then the m of h.
Concatenated(U, n, m, g, h, e) ==
    /\ SeqsUpTo(n, g, U) /\ SeqsUpTo(m, h, U)
    /\ \A k \in 1..n : e[k] = g[k]
    /\ \A k \in n + 1 .. n + m : e[k] = h[k - n]

BothJoined(n, m, l, g, h, p, q) ==
    /\ l = n + m
    /\ Joined(n, g, p) /\ Joined(m, h, q)

EndsWithBoth(n, m, l, p, q, r) == r[l] = p[n] \o q[m]

LEMMA JoinedConcat ==
    ASSUME NEW U, NEW n \in Nat, NEW m \in Nat, NEW l \in Nat, NEW g, NEW h, NEW e, NEW p, NEW q,
           Concatenated(U, n, m, g, h, e), BothJoined(n, m, l, g, h, p, q)
    PROVE  \E r : Joined(l, e, r) /\ EndsWithBoth(n, m, l, p, q, r)
<1>1. /\ SeqsUpTo(n, g, U) /\ SeqsUpTo(m, h, U)
      /\ \A k \in 1..n : e[k] = g[k]
      /\ \A k \in n + 1 .. n + m : e[k] = h[k - n]
      /\ Joined(n, g, p) /\ Joined(m, h, q) /\ l = n + m
  BY DEF Concatenated, BothJoined
<1>2. /\ \A k \in 0..n : p[k] \in Seq(U)
      /\ \A k \in 0..m : q[k] \in Seq(U)
  BY <1>1, JoinedExact DEF JoinOK
<1>3. p[n] \in Seq(U) /\ q[0] = << >> /\ p[0] = << >> /\ p[n] \o << >> = p[n]
  <2>1. p[n] \in Seq(U)
    BY <1>2
  <2> QED BY <1>1, <2>1 DEF Joined
<1> DEFINE r == [k \in 0 .. n + m |-> IF k <= n THEN p[k] ELSE p[n] \o q[k - n]]
<1>4. \A k \in 0..n : r[k] = p[k]
  OBVIOUS
<1>5. ASSUME NEW k \in n .. n + m PROVE r[k] = p[n] \o q[k - n]
  <2>1. CASE k = n
    <3>1. r[k] = p[n] /\ k - n = 0
      BY <2>1
    <3> HIDE DEF r
    <3> QED BY <1>3, <3>1
  <2>2. CASE k # n
    BY <2>2
  <2> QED BY <2>1, <2>2
<1> HIDE DEF r
<1>6. r[0] = << >>
  BY <1>3, <1>4
<1>7. ASSUME NEW k \in 1..n PROVE r[k] = r[k - 1] \o e[k]
  <2>1. r[k] = p[k] /\ r[k - 1] = p[k - 1]
    BY <1>4
  <2> QED BY <1>1, <2>1 DEF Joined
<1>8. ASSUME NEW k \in n + 1 .. n + m PROVE r[k] = r[k - 1] \o e[k]
  <2>1. r[k] = p[n] \o q[k - n]
    <3>1. k \in n .. n + m
      OBVIOUS
    <3> QED BY <1>5, <3>1, Zenon
  <2>2. PICK j \in 1..m : j = k - n
    OBVIOUS
  <2>3. r[k - 1] = p[n] \o q[j - 1]
    <3>1. k - 1 \in n .. n + m /\ k - 1 - n = j - 1
      BY <2>2
    <3>2. r[k - 1] = p[n] \o q[k - 1 - n]
      BY <1>5, <3>1
    <3> QED BY <3>1, <3>2
  <2>4. q[j] = q[j - 1] \o h[j] /\ h[j] \in Seq(U)
    BY <1>1 DEF Joined, SeqsUpTo
  <2>5. q[j - 1] \in Seq(U)
    BY <1>2
  <2>6. (p[n] \o q[j - 1]) \o h[j] = p[n] \o (q[j - 1] \o h[j])
    <3>1. PICK a \in Seq(U), b \in Seq(U), c \in Seq(U) : a = p[n] /\ b = q[j - 1] /\ c = h[j]
      BY <1>3, <2>4, <2>5
    <3>2. (a \o b) \o c = a \o (b \o c)
      OBVIOUS
    <3> QED BY <3>1, <3>2
  <2>7. e[k] = h[j]
    BY <1>1, <2>2
  <2> QED BY <2>1, <2>2, <2>3, <2>4, <2>6, <2>7
<1>9. Joined(n + m, e, r)
  <2>1. ASSUME NEW k \in 1 .. n + m PROVE r[k] = r[k - 1] \o e[k]
    <3>1. k \in 1..n \/ k \in n + 1 .. n + m
      OBVIOUS
    <3> QED BY <1>7, <1>8, <3>1
  <2> QED BY <1>6, <2>1 DEF Joined
<1>10. r[n + m] = p[n] \o q[m]
  <2>1. PICK k \in n .. n + m : k = n + m /\ k - n = m
    OBVIOUS
  <2>2. r[k] = p[n] \o q[k - n]
    BY <1>5
  <2> QED BY <2>1, <2>2
<1> QED BY <1>1, <1>9, <1>10 DEF EndsWithBoth

LEMMA FlattenConcat ==
    ASSUME NEW U, NEW s \in Seq(Seq(U)), NEW t \in Seq(Seq(U))
    PROVE  FlattenSeq(s \o t) = FlattenSeq(s) \o FlattenSeq(t)
<1>1. PICK n \in Nat, m \in Nat, l \in Nat :
        n = Len(s) /\ m = Len(t) /\ l = Len(s \o t) /\ l = n + m
  OBVIOUS
<1>2. PICK a, b, e : a = s /\ b = t /\ e = s \o t
  OBVIOUS
<1>3. /\ Len(a) = n /\ (n = 0 => a = << >>) /\ SeqsUpTo(n, a, U)
      /\ Len(b) = m /\ (m = 0 => b = << >>) /\ SeqsUpTo(m, b, U)
      /\ Concatenated(U, n, m, a, b, e)
  BY <1>1, <1>2 DEF SeqsUpTo, Concatenated
<1>4. Len(e) = l /\ (l = 0 => e = << >>) /\ SeqsUpTo(l, e, U)
  <2>1. PICK S : S = Seq(U)
    OBVIOUS
  <2>2. s \in Seq(S) /\ t \in Seq(S)
    BY <2>1
  <2>3. s \o t \in Seq(S)
    BY <2>2
  <2> QED BY <1>1, <1>2, <2>1, <2>3 DEF SeqsUpTo
<1>5. PICK p : Joined(n, a, p)
  BY <1>3, JoinedExists
<1>6. PICK q : Joined(m, b, q)
  BY <1>3, JoinedExists
<1>7. BothJoined(n, m, l, a, b, p, q)
  BY <1>1, <1>5, <1>6 DEF BothJoined
<1>8. PICK r : Joined(l, e, r) /\ EndsWithBoth(n, m, l, p, q, r)
  BY <1>3, <1>7, JoinedConcat
<1>9. FlattenSeq(a) = p[n] /\ FlattenSeq(b) = q[m]
  BY <1>3, <1>5, <1>6, FlattenJoined
<1>10. FlattenSeq(e) = r[l]
  BY <1>4, <1>8, FlattenJoined
<1> QED BY <1>2, <1>8, <1>9, <1>10 DEF EndsWithBoth

LEMMA FlattenOne ==
    ASSUME NEW U, NEW s \in Seq(U) PROVE FlattenSeq(<<s>>) = s
<1> DEFINE p == [k \in 0..1 |-> IF k = 0 THEN << >> ELSE s]
<1>1. << >> \o s = s
  OBVIOUS
<1>2. Joined(1, <<s>>, p)
  BY <1>1 DEF Joined
<1>3. Len(<<s>>) = 1 /\ SeqsUpTo(1, <<s>>, U) /\ 1 # 0 /\ 1 \in Nat
  BY DEF SeqsUpTo
<1>4. FlattenSeq(<<s>>) = p[1]
  <2> HIDE DEF p
  <2> QED BY <1>2, <1>3, FlattenJoined
<1> QED BY <1>4

----------------------------------------------------------------------------
\* Reachability.  par stands for Parent and kids for Children, before or after
\* a step; d gives each instance a depth below that of its parent, at most M.

IsParent(par) == par \in [Nodes -> Nodes \cup {Nil}]

Ranked(par, d) ==
    /\ IsParent(par) /\ d \in [Nodes -> Nat]
    /\ \A x \in Nodes : par[x] # Nil => d[par[x]] < d[x]

Forest(par, kids, d, M) ==
    /\ Ranked(par, d) /\ M \in Nat /\ \A x \in Nodes : d[x] <= M
    /\ kids \in [Nodes -> Seq(Nodes)]
    /\ \A x \in Nodes : \A c \in Range(kids[x]) : par[c] = x

\* The recursive functions of Upwards and forEachDesc.
UpFn(par) ==
    CHOOSE u : u = [x \in Nodes \cup {Nil} |-> IF x = Nil THEN {} ELSE {x} \cup u[par[x]]]

Listed(kids, f, x) == <<x>> \o FlattenSeq([k \in DOMAIN kids[x] |-> f[kids[x][k]]])

DescFn(kids) == CHOOSE f : f = [x \in Nodes |-> Listed(kids, f, x)]

LEMMA RecursionsNamed ==
    /\ \A i : Upwards(i) = UpFn(parent)[i]
    /\ \A i : forEachDesc(i) = DescFn(children)[i]
BY Zenon DEF Upwards, UpFn, forEachDesc, DescFn, Listed

LEMMA RankInduction ==
    ASSUME NEW par, NEW d, Ranked(par, d), NEW T,
           \A x \in Nodes : (par[x] # Nil => par[x] \in T) => x \in T
    PROVE  \A x \in Nodes : x \in T
<1> DEFINE Bad == {d[x] : x \in Nodes \ T}
<1> SUFFICES ASSUME NEW x \in Nodes, x \notin T PROVE FALSE
  OBVIOUS
<1>1. d[x] \in Bad /\ Bad \subseteq Nat
  BY DEF Ranked
<1>2. PICK n \in Bad : \A m \in Bad : n <= m
  <2> HIDE DEF Bad
  <2> QED BY <1>1, LeastNatural
<1>3. PICK y \in Nodes \ T : n = d[y]
  BY <1>2
<1>4. par[y] \in Nodes /\ par[y] \notin T /\ d[par[y]] < d[y]
  BY <1>3 DEF Ranked, IsParent
<1>5. d[par[y]] \in Bad /\ d[y] \in Nat /\ d[par[y]] \in Nat
  BY <1>3, <1>4 DEF Ranked
<1> HIDE DEF Bad
<1>6. d[y] <= d[par[y]]
  BY <1>2, <1>3, <1>5
<1> QED BY <1>4, <1>5, <1>6

LEMMA HeightInduction ==
    ASSUME NEW par, NEW kids, NEW d, NEW M, Forest(par, kids, d, M), NEW T,
           \A x \in Nodes : (\A c \in Range(kids[x]) : c \in T) => x \in T
    PROVE  \A x \in Nodes : x \in T
<1> DEFINE Bad == {M - d[x] : x \in Nodes \ T}
<1> SUFFICES ASSUME NEW x \in Nodes, x \notin T PROVE FALSE
  OBVIOUS
<1>1. \A y \in Nodes : d[y] \in Nat /\ M \in Nat /\ d[y] <= M
  BY DEF Forest, Ranked
<1>2. M - d[x] \in Bad /\ Bad \subseteq Nat
  BY <1>1
<1>3. PICK n \in Bad : \A m \in Bad : n <= m
  <2> HIDE DEF Bad
  <2> QED BY <1>2, LeastNatural
<1>4. PICK y \in Nodes \ T : n = M - d[y]
  BY <1>3
<1>5. PICK c \in Range(kids[y]) : c \notin T
  BY <1>4
<1>6. c \in Nodes /\ par[c] = y
  <2>1. kids[y] \in Seq(Nodes)
    BY DEF Forest
  <2>2. Range(kids[y]) \subseteq Nodes
    BY <2>1 DEF Range
  <2> QED BY <1>5, <2>2 DEF Forest
<1>7. d[y] < d[c]
  BY <1>6, TreeAssumption DEF Forest, Ranked
<1>8. M - d[c] \in Bad
  BY <1>5, <1>6
<1> HIDE DEF Bad
<1>9. M - d[y] <= M - d[c]
  BY <1>3, <1>4, <1>8
<1> QED BY <1>1, <1>6, <1>7, <1>9

\* The ancestors, by their recursion.
LEMMA UpRecursion ==
    ASSUME NEW par, IsParent(par)
    PROVE  /\ UpFn(par)[Nil] = {}
           /\ \A x \in Nodes : UpFn(par)[x] = {x} \cup UpFn(par)[par[x]]
<1> DEFINE Closed(A) == \A z \in A : par[z] # Nil => par[z] \in A
           Anc(x) == {y \in Nodes : \A A \in SUBSET Nodes : x \in A /\ Closed(A) => y \in A}
           f == [x \in Nodes \cup {Nil} |-> IF x = Nil THEN {} ELSE Anc(x)]
<1>1. Nil \notin Nodes /\ \A x \in Nodes : par[x] \in Nodes \cup {Nil}
  BY TreeAssumption DEF IsParent
<1>2. ASSUME NEW x \in Nodes PROVE x \in Anc(x) /\ Closed(Anc(x)) /\ Anc(x) \subseteq Nodes
  <2>1. x \in Anc(x) /\ Anc(x) \subseteq Nodes
    OBVIOUS
  <2>2. ASSUME NEW z \in Anc(x), par[z] # Nil PROVE par[z] \in Anc(x)
    <3>1. par[z] \in Nodes
      BY <1>1, <2>1, <2>2
    <3>2. ASSUME NEW A \in SUBSET Nodes, x \in A, Closed(A) PROVE par[z] \in A
      BY <2>2, <3>2
    <3> QED BY <3>1, <3>2
  <2> QED BY <2>1, <2>2
<1>3. ASSUME NEW x \in Nodes, NEW A \in SUBSET Nodes, x \in A, Closed(A) PROVE Anc(x) \subseteq A
  BY <1>3
<1> HIDE DEF Anc
<1>4. ASSUME NEW x \in Nodes PROVE f[x] = {x} \cup f[par[x]]
  <2>1. CASE par[x] = Nil
    <3>1. Closed({x}) /\ {x} \in SUBSET Nodes
      BY <2>1
    <3>2. Anc(x) = {x}
      BY <1>2, <1>3, <3>1
    <3> QED BY <1>1, <2>1, <3>2
  <2>2. CASE par[x] # Nil
    <3>1. par[x] \in Nodes
      BY <1>1, <2>2
    <3> DEFINE A == {x} \cup Anc(par[x])
    <3>2. Closed(A) /\ A \in SUBSET Nodes
      BY <1>2, <3>1
    <3>3. Anc(x) \subseteq A
      <4> HIDE DEF A, Closed
      <4>1. x \in A
        BY DEF A
      <4> QED BY <1>3, <3>2, <4>1
    <3>4. Anc(par[x]) \subseteq Anc(x)
      <4>1. par[x] \in Anc(x) /\ Closed(Anc(x)) /\ Anc(x) \in SUBSET Nodes
        BY <1>2, <2>2
      <4> HIDE DEF Closed
      <4> QED BY <1>3, <3>1, <4>1
    <3>5. Anc(x) = A
      BY <1>2, <3>3, <3>4
    <3> QED BY <1>1, <3>1, <3>5
  <2> QED BY <2>1, <2>2
<1>5. f = [x \in Nodes \cup {Nil} |-> IF x = Nil THEN {} ELSE {x} \cup f[par[x]]]
  BY <1>1, <1>4
<1> HIDE DEF f
<1>6. \E u : u = [x \in Nodes \cup {Nil} |-> IF x = Nil THEN {} ELSE {x} \cup u[par[x]]]
  BY <1>5
<1>7. UpFn(par) = [x \in Nodes \cup {Nil} |-> IF x = Nil THEN {} ELSE {x} \cup UpFn(par)[par[x]]]
  BY <1>6, Zenon DEF UpFn
<1>8. ASSUME NEW u, u = UpFn(par) PROVE u[Nil] = {} /\ \A x \in Nodes : u[x] = {x} \cup u[par[x]]
  <2>1. u = [x \in Nodes \cup {Nil} |-> IF x = Nil THEN {} ELSE {x} \cup u[par[x]]]
    BY <1>7, <1>8, Zenon
  <2> QED BY <1>1, <2>1
<1> QED BY <1>8

\* Ancestors stay those of a set that is closed under Parent.
LEMMA UpWithin ==
    ASSUME NEW par, NEW d, Ranked(par, d), NEW S,
           \A x \in S : par[x] # Nil => par[x] \in S
    PROVE  \A x \in Nodes : x \in S => UpFn(par)[x] \subseteq S
<1> DEFINE T == {x \in Nodes : x \in S => UpFn(par)[x] \subseteq S}
<1>1. IsParent(par) /\ UpFn(par)[Nil] = {} /\ \A x \in Nodes : UpFn(par)[x] = {x} \cup UpFn(par)[par[x]]
  BY UpRecursion DEF Ranked
<1>2. \A x \in Nodes : (par[x] # Nil => par[x] \in T) => x \in T
  BY <1>1
<1>3. \A x \in Nodes : x \in T
  <2> HIDE DEF T
  <2> QED BY <1>2, RankInduction
<1> QED BY <1>3

SameWithin(S, par, par2) ==
    /\ IsParent(par2)
    /\ \A x \in S : par2[x] = par[x] /\ (par[x] # Nil => par[x] \in S)

LEMMA UpSame ==
    ASSUME NEW par, NEW d, Ranked(par, d), NEW par2, NEW S, SameWithin(S, par, par2)
    PROVE  \A x \in Nodes : x \in S => UpFn(par2)[x] = UpFn(par)[x]
<1> DEFINE T == {x \in Nodes : x \in S => UpFn(par2)[x] = UpFn(par)[x]}
<1>1. /\ UpFn(par)[Nil] = {} /\ \A x \in Nodes : UpFn(par)[x] = {x} \cup UpFn(par)[par[x]]
      /\ UpFn(par2)[Nil] = {} /\ \A x \in Nodes : UpFn(par2)[x] = {x} \cup UpFn(par2)[par2[x]]
  BY UpRecursion DEF Ranked, SameWithin
<1>2. \A x \in Nodes : (par[x] # Nil => par[x] \in T) => x \in T
  BY <1>1 DEF SameWithin
<1>3. \A x \in Nodes : x \in T
  <2> HIDE DEF T
  <2> QED BY <1>2, RankInduction
<1> QED BY <1>3

\* What is above an ancestor is above.
LEMMA UpThrough ==
    ASSUME NEW par, NEW d, Ranked(par, d), NEW i \in Nodes
    PROVE  \A x \in Nodes : i \in UpFn(par)[x] => UpFn(par)[i] \subseteq UpFn(par)[x]
<1> DEFINE T == {x \in Nodes : i \in UpFn(par)[x] => UpFn(par)[i] \subseteq UpFn(par)[x]}
<1>1. UpFn(par)[Nil] = {} /\ \A x \in Nodes : UpFn(par)[x] = {x} \cup UpFn(par)[par[x]]
  BY UpRecursion DEF Ranked
<1>2. \A x \in Nodes : (par[x] # Nil => par[x] \in T) => x \in T
  BY <1>1
<1>3. \A x \in Nodes : x \in T
  <2> HIDE DEF T
  <2> QED BY <1>2, RankInduction
<1> QED BY <1>3

\* What an instance's list depends on: the lists of its children.
LEMMA ListedSame ==
    ASSUME NEW kids, NEW x, NEW f, NEW g, \A c \in Range(kids[x]) : f[c] = g[c]
    PROVE  Listed(kids, f, x) = Listed(kids, g, x)
<1>1. \A k \in DOMAIN kids[x] : f[kids[x][k]] = g[kids[x][k]]
  BY DEF Range
<1>2. [k \in DOMAIN kids[x] |-> f[kids[x][k]]] = [k \in DOMAIN kids[x] |-> g[kids[x][k]]]
  BY <1>1
<1> QED BY <1>2, Zenon DEF Listed

LEMMA KidsBelow ==
    ASSUME NEW par, NEW kids, NEW d, NEW M, Forest(par, kids, d, M), NEW x \in Nodes
    PROVE  /\ kids[x] \in Seq(Nodes) /\ d[x] \in 0..M
           /\ \A c \in Range(kids[x]) : c \in Nodes /\ par[c] = x /\ d[c] \in 0..M /\ d[x] < d[c]
<1>1. \A y \in Nodes : d[y] \in 0..M
  BY DEF Forest, Ranked
<1>2. kids[x] \in Seq(Nodes)
  BY DEF Forest
<1>3. Range(kids[x]) \subseteq Nodes
  BY <1>2 DEF Range
<1>4. \A c \in Range(kids[x]) : par[c] = x /\ par[c] # Nil
  BY TreeAssumption DEF Forest
<1>5. \A c \in Range(kids[x]) : d[x] < d[c]
  BY <1>3, <1>4 DEF Forest, Ranked
<1> QED BY <1>1, <1>2, <1>3, <1>4, <1>5

\* The lists of the instances in the lowest n levels.
ListedFrom(kids, d, M, n, f) ==
    DOMAIN f = Nodes /\ \A x \in Nodes : M - d[x] < n => f[x] = Listed(kids, f, x)

LEMMA DescExists ==
    ASSUME NEW par, NEW kids, NEW d, NEW M, Forest(par, kids, d, M)
    PROVE  \E f : f = [x \in Nodes |-> Listed(kids, f, x)]
<1> DEFINE T == {n \in 0 .. M + 1 : \E f : ListedFrom(kids, d, M, n, f)}
<1>1. M \in Nat /\ \A x \in Nodes : d[x] \in 0..M
  <2>1. M \in Nat
    BY DEF Forest
  <2>2. \A x \in Nodes : d[x] \in 0..M
    BY KidsBelow
  <2> QED BY <2>1, <2>2
<1>2. 0 \in T
  <2>1. ListedFrom(kids, d, M, 0, [x \in Nodes |-> << >>])
    BY <1>1 DEF ListedFrom
  <2> QED BY <1>1, <2>1
<1>3. ASSUME NEW n \in 1 .. M + 1, n - 1 \in T PROVE n \in T
  <2>1. PICK f : ListedFrom(kids, d, M, n - 1, f)
    BY <1>3
  <2> DEFINE g == [x \in Nodes |-> IF M - d[x] = n - 1 THEN Listed(kids, f, x) ELSE f[x]]
  <2>2. DOMAIN g = Nodes /\ \A x \in Nodes : g[x] = IF M - d[x] = n - 1 THEN Listed(kids, f, x) ELSE f[x]
    OBVIOUS
  <2> HIDE DEF g
  <2>3. ASSUME NEW x \in Nodes, M - d[x] < n PROVE g[x] = Listed(kids, g, x)
    <3>1. ASSUME NEW c \in Range(kids[x]) PROVE g[c] = f[c]
      <4>1. c \in Nodes /\ d[c] \in 0..M /\ d[x] \in 0..M /\ d[x] < d[c]
        BY KidsBelow
      <4>2. M - d[c] # n - 1
        BY <1>1, <2>3, <4>1
      <4> QED BY <2>2, <4>1, <4>2
    <3>2. Listed(kids, g, x) = Listed(kids, f, x)
      BY <3>1, ListedSame
    <3>3. CASE M - d[x] = n - 1
      BY <2>2, <3>2, <3>3
    <3>4. CASE M - d[x] # n - 1
      <4>1. M - d[x] < n - 1
        BY <1>1, <2>3, <3>4
      <4>2. f[x] = Listed(kids, f, x)
        BY <2>1, <4>1 DEF ListedFrom
      <4> QED BY <2>2, <3>2, <3>4, <4>2
    <3> QED BY <3>3, <3>4
  <2>4. ListedFrom(kids, d, M, n, g)
    BY <2>2, <2>3 DEF ListedFrom
  <2> QED BY <1>1, <2>4
<1> HIDE DEF T
<1>4. M + 1 \in T
  <2>1. PICK m \in Nat : m = M + 1
    BY <1>1
  <2>2. \A k \in 1..m : k - 1 \in T => k \in T
    BY <1>3, <2>1
  <2>3. m \in T
    BY <1>2, <2>2, UpToInduction
  <2> QED BY <2>1, <2>3
<1>5. PICK f : ListedFrom(kids, d, M, M + 1, f)
  BY <1>4 DEF T
<1>6. \A x \in Nodes : M - d[x] < M + 1
  BY <1>1
<1>7. DOMAIN f = Nodes /\ \A x \in Nodes : f[x] = Listed(kids, f, x)
  BY <1>5, <1>6 DEF ListedFrom
<1>8. ListedFrom(kids, d, M, M + 1, [x \in Nodes |-> Listed(kids, f, x)])
      /\ \A x \in Nodes : [y \in Nodes |-> Listed(kids, f, y)][x] = f[x]
  <2> DEFINE g == [x \in Nodes |-> Listed(kids, f, x)]
  <2>1. DOMAIN g = Nodes /\ \A x \in Nodes : g[x] = f[x] /\ g[x] = Listed(kids, f, x)
    BY <1>7
  <2> HIDE DEF g
  <2>2. \A x \in Nodes : \A c \in Range(kids[x]) : g[c] = f[c]
    BY <2>1, KidsBelow
  <2>3. \A x \in Nodes : Listed(kids, g, x) = Listed(kids, f, x)
    BY <2>2, ListedSame
  <2>4. ListedFrom(kids, d, M, M + 1, g)
    BY <2>1, <2>3 DEF ListedFrom
  <2> QED BY <2>1, <2>4 DEF g
<1> DEFINE h == [x \in Nodes |-> Listed(kids, f, x)]
<1>9. \A x \in Nodes : h[x] = Listed(kids, h, x)
  <2> HIDE DEF h
  <2>1. ListedFrom(kids, d, M, M + 1, h)
    BY <1>8, Zenon DEF h
  <2> QED BY <1>6, <2>1 DEF ListedFrom
<1>10. h = [x \in Nodes |-> Listed(kids, h, x)]
  <2>1. h = [x \in Nodes |-> h[x]]
    OBVIOUS
  <2> HIDE DEF h
  <2> QED BY <1>9, <2>1
<1> HIDE DEF h
<1> QED BY <1>10

LEMMA DescRecursion ==
    ASSUME NEW par, NEW kids, NEW d, NEW M, Forest(par, kids, d, M)
    PROVE  \A x \in Nodes : DescFn(kids)[x] = Listed(kids, DescFn(kids), x)
<1>1. \E f : f = [x \in Nodes |-> Listed(kids, f, x)]
  BY DescExists
<1>2. DescFn(kids) = [x \in Nodes |-> Listed(kids, DescFn(kids), x)]
  BY <1>1, Zenon DEF DescFn
<1> QED BY <1>2, Zenon

\* What is listed: the instance, and what the lists of its children hold.
LEMMA ListedExact ==
    ASSUME NEW kids, NEW f, NEW x \in Nodes, kids[x] \in Seq(Nodes),
           \A c \in Range(kids[x]) : f[c] \in Seq(Nodes)
    PROVE  /\ Listed(kids, f, x) \in Seq(Nodes)
           /\ \A y : y \in Range(Listed(kids, f, x))
                       <=> y = x \/ \E c \in Range(kids[x]) : y \in Range(f[c])
<1> DEFINE s == [k \in DOMAIN kids[x] |-> f[kids[x][k]]]
<1>1. PICK n \in Nat : DOMAIN kids[x] = 1..n
  OBVIOUS
<1>2. \A k \in 1..n : kids[x][k] \in Range(kids[x])
  BY <1>1 DEF Range
<1>3. \A k \in 1..n : f[kids[x][k]] \in Seq(Nodes)
  BY <1>2
<1>4. s \in Seq(Seq(Nodes)) /\ Len(s) = n /\ \A k \in 1..n : s[k] = f[kids[x][k]]
  <2>1. s = [k \in 1..n |-> f[kids[x][k]]]
    BY <1>1
  <2> QED BY <1>3, <2>1
<1>5. Listed(kids, f, x) = <<x>> \o FlattenSeq(s)
  BY DEF Listed
<1> HIDE DEF s
<1>6. /\ FlattenSeq(s) \in Seq(Nodes)
      /\ \A y : y \in Range(FlattenSeq(s)) <=> \E k \in 1..n : y \in Range(s[k])
  BY <1>4, FlattenExact
<1>7. <<x>> \in Seq(Nodes) /\ Range(<<x>>) = {x}
  BY DEF Range
<1>8. /\ <<x>> \o FlattenSeq(s) \in Seq(Nodes)
      /\ Range(<<x>> \o FlattenSeq(s)) = {x} \cup Range(FlattenSeq(s))
  <2>1. PICK a \in Seq(Nodes), b \in Seq(Nodes) : a = <<x>> /\ b = FlattenSeq(s)
    BY <1>6, <1>7
  <2>2. Range(a \o b) = Range(a) \cup Range(b) /\ a \o b \in Seq(Nodes)
    BY RangeConcatenation
  <2> QED BY <1>7, <2>1, <2>2
<1>9. \A y : y \in Range(FlattenSeq(s)) <=> \E c \in Range(kids[x]) : y \in Range(f[c])
  <2> TAKE y
  <2>1. ASSUME NEW k \in 1..n, y \in Range(s[k]) PROVE \E c \in Range(kids[x]) : y \in Range(f[c])
    BY <1>2, <1>4, <2>1
  <2>2. ASSUME NEW c \in Range(kids[x]), y \in Range(f[c]) PROVE \E k \in 1..n : y \in Range(s[k])
    <3>1. PICK k \in 1..n : c = kids[x][k]
      BY <1>1 DEF Range
    <3> QED BY <1>4, <2>2, <3>1
  <2> QED BY <1>6, <2>1, <2>2
<1> QED BY <1>5, <1>8, <1>9

LEMMA DescExact ==
    ASSUME NEW par, NEW kids, NEW d, NEW M, Forest(par, kids, d, M)
    PROVE  \A x \in Nodes :
             /\ DescFn(kids)[x] \in Seq(Nodes)
             /\ \A y : y \in Range(DescFn(kids)[x])
                         <=> y = x \/ \E c \in Range(kids[x]) : y \in Range(DescFn(kids)[c])
<1> DEFINE T == {x \in Nodes : DescFn(kids)[x] \in Seq(Nodes)}
<1>1. \A x \in Nodes : DescFn(kids)[x] = Listed(kids, DescFn(kids), x) /\ kids[x] \in Seq(Nodes)
  BY DescRecursion, KidsBelow
<1>2. ASSUME NEW x \in Nodes, \A c \in Range(kids[x]) : DescFn(kids)[c] \in Seq(Nodes)
      PROVE  /\ DescFn(kids)[x] \in Seq(Nodes)
             /\ \A y : y \in Range(DescFn(kids)[x])
                         <=> y = x \/ \E c \in Range(kids[x]) : y \in Range(DescFn(kids)[c])
  BY <1>1, <1>2, ListedExact
<1>3. \A x \in Nodes : x \in T
  <2>1. ASSUME NEW x \in Nodes, \A c \in Range(kids[x]) : c \in T PROVE x \in T
    BY <1>2, <2>1
  <2> HIDE DEF T
  <2> QED BY <2>1, HeightInduction
<1>4. \A x \in Nodes : \A c \in Range(kids[x]) : DescFn(kids)[c] \in Seq(Nodes)
  BY <1>3, KidsBelow
<1> QED BY <1>2, <1>4

\* The list of an instance in live holds what has it for an ancestor.
Listing(par, kids, live) ==
    /\ live \subseteq Nodes
    /\ \A x \in Nodes : Range(kids[x]) \subseteq live
    /\ \A j \in Nodes : par[j] \in live => j \in Range(kids[par[j]])

LEMMA DescIsUp ==
    ASSUME NEW par, NEW kids, NEW d, NEW M, Forest(par, kids, d, M),
           NEW live, Listing(par, kids, live)
    PROVE  \A x \in live, j \in Nodes : j \in Range(DescFn(kids)[x]) <=> x \in UpFn(par)[j]
<1> DEFINE R(x) == Range(DescFn(kids)[x])
           U == UpFn(par)
<1>1. \A x \in Nodes : \A y : y \in R(x) <=> y = x \/ \E c \in Range(kids[x]) : y \in R(c)
  BY DescExact
<1>2. \A x \in Nodes : \A c \in Range(kids[x]) : c \in Nodes /\ par[c] = x
  BY KidsBelow
<1>3. Ranked(par, d) /\ IsParent(par) /\ live \subseteq Nodes
  BY DEF Forest, Ranked, Listing
<1>4. U[Nil] = {} /\ \A x \in Nodes : U[x] = {x} \cup U[par[x]]
  BY <1>3, UpRecursion
<1>5. \A i, x \in Nodes : i \in U[x] => U[i] \subseteq U[x]
  BY <1>3, UpThrough
<1> HIDE DEF R, U
<1>6. \A x \in Nodes : \A q \in R(x) : q \in Nodes => Range(kids[q]) \subseteq R(x)
  <2> DEFINE T == {x \in Nodes : \A q \in R(x) : q \in Nodes => Range(kids[q]) \subseteq R(x)}
  <2>1. ASSUME NEW x \in Nodes, \A c \in Range(kids[x]) : c \in T PROVE x \in T
    BY <1>1, <1>2, <2>1
  <2>2. \A x \in Nodes : x \in T
    <3> HIDE DEF T
    <3> QED BY <2>1, HeightInduction
  <2> QED BY <2>2
<1>7. \A x \in Nodes : \A q \in R(x) : q = x \/ q \in live
  <2> DEFINE T == {x \in Nodes : \A q \in R(x) : q = x \/ q \in live}
  <2>1. ASSUME NEW x \in Nodes, \A c \in Range(kids[x]) : c \in T PROVE x \in T
    BY <1>1, <1>2, <2>1 DEF Listing
  <2>2. \A x \in Nodes : x \in T
    <3> HIDE DEF T
    <3> QED BY <2>1, HeightInduction
  <2> QED BY <2>2
<1>8. \A x \in Nodes : \A j \in R(x) : j \in Nodes => x \in U[j]
  <2> DEFINE T == {x \in Nodes : \A j \in R(x) : j \in Nodes => x \in U[j]}
  <2>1. ASSUME NEW x \in Nodes, \A c \in Range(kids[x]) : c \in T PROVE x \in T
    <3> SUFFICES ASSUME NEW j \in R(x), j \in Nodes PROVE x \in U[j]
      OBVIOUS
    <3>1. CASE j = x
      BY <1>4, <3>1
    <3>2. CASE j # x
      <4>1. PICK c \in Range(kids[x]) : j \in R(c)
        BY <1>1, <3>2
      <4>2. c \in Nodes /\ par[c] = x /\ c \in U[j]
        BY <1>2, <2>1, <4>1
      <4>3. x \in U[c]
        BY <1>4, <4>2
      <4> QED BY <1>5, <4>2, <4>3
    <3> QED BY <3>1, <3>2
  <2>2. \A x \in Nodes : x \in T
    <3> HIDE DEF T
    <3> QED BY <2>1, HeightInduction
  <2> QED BY <2>2
<1>9. ASSUME NEW x \in live PROVE \A j \in Nodes : x \in U[j] => j \in R(x)
  <2> DEFINE T == {j \in Nodes : x \in U[j] => j \in R(x)}
  <2>1. ASSUME NEW j \in Nodes, par[j] # Nil => par[j] \in T PROVE j \in T
    <3> SUFFICES ASSUME x \in U[j] PROVE j \in R(x)
      OBVIOUS
    <3>1. CASE x = j
      BY <1>1, <3>1
    <3>2. CASE x # j
      <4>1. x \in U[par[j]]
        BY <1>4, <3>2
      <4>2. par[j] # Nil /\ par[j] \in R(x) /\ par[j] \in Nodes
        BY <1>4, <2>1, <4>1
      <4>3. par[j] \in live
        BY <1>3, <1>7, <4>2
      <4>4. j \in Range(kids[par[j]])
        BY <4>3 DEF Listing
      <4> QED BY <1>3, <1>6, <4>2, <4>4
    <3> QED BY <3>1, <3>2
  <2>2. \A j \in Nodes : j \in T
    <3> HIDE DEF T
    <3> QED BY <1>3, <2>1, RankInduction
  <2> QED BY <2>2
<1> QED BY <1>3, <1>8, <1>9 DEF R, U

----------------------------------------------------------------------------
\* What a change of parent does to who is below whom.

Moves(i, p, par, par2) ==
    /\ i \in Nodes /\ p \in Nodes \cup {Nil} /\ i \notin UpFn(par)[p]
    /\ par2 = [par EXCEPT ![i] = p]

LEMMA MovedUp ==
    ASSUME NEW par, NEW d, Ranked(par, d), NEW i, NEW p, NEW par2, Moves(i, p, par, par2),
           NEW w \in Nodes \ {i}, par[w] = Nil
    PROVE  /\ IsParent(par2)
           /\ \A j \in Nodes : i \in UpFn(par)[j] =>
                /\ w \in UpFn(par2)[j] <=> w \in UpFn(par)[p]
                /\ w \in UpFn(par)[j] <=> w \in UpFn(par)[par[i]]
           /\ \A j \in Nodes : i \notin UpFn(par)[j] => UpFn(par2)[j] = UpFn(par)[j]
<1>1. /\ IsParent(par) /\ IsParent(par2)
      /\ \A x \in Nodes : par2[x] = IF x = i THEN p ELSE par[x]
      /\ i \in Nodes /\ p \in Nodes \cup {Nil} /\ i \notin UpFn(par)[p]
  BY DEF Ranked, IsParent, Moves
<1> DEFINE U == UpFn(par)
           V == UpFn(par2)
<1>2. /\ U[Nil] = {} /\ \A x \in Nodes : U[x] = {x} \cup U[par[x]]
      /\ V[Nil] = {} /\ \A x \in Nodes : V[x] = {x} \cup V[par2[x]]
  BY <1>1, UpRecursion
<1>3. \A x \in Nodes : i \notin U[x] => V[x] = U[x]
  <2> DEFINE S == {x \in Nodes : i \notin U[x]}
  <2>1. SameWithin(S, par, par2)
    BY <1>1, <1>2 DEF IsParent, SameWithin
  <2>2. \A x \in Nodes : x \in S => UpFn(par2)[x] = UpFn(par)[x]
    <3> HIDE DEF S
    <3> QED BY <2>1, UpSame
  <2> QED BY <2>2
<1>4. V[p] = U[p]
  BY <1>1, <1>2, <1>3
<1> HIDE DEF U, V
<1> DEFINE T == {j \in Nodes : i \in U[j] => /\ w \in V[j] <=> w \in U[p]
                                             /\ w \in U[j] <=> w \in U[par[i]]}
<1>5. ASSUME NEW j \in Nodes, par[j] # Nil => par[j] \in T PROVE j \in T
  <2> SUFFICES ASSUME i \in U[j]
               PROVE  (w \in V[j] <=> w \in U[p]) /\ (w \in U[j] <=> w \in U[par[i]])
    OBVIOUS
  <2>1. CASE j = i
    BY <1>1, <1>2, <1>4, <2>1
  <2>2. CASE j # i
    <3>1. i \in U[par[j]] /\ par2[j] = par[j]
      BY <1>1, <1>2, <2>2
    <3>2. par[j] # Nil /\ par[j] \in T
      BY <1>2, <1>5, <3>1
    <3>3. j # w
      BY <3>2
    <3> QED BY <1>2, <3>1, <3>2, <3>3
  <2> QED BY <2>1, <2>2
<1>6. \A j \in Nodes : j \in T
  <2> HIDE DEF T
  <2> QED BY <1>5, RankInduction
<1> QED BY <1>1, <1>3, <1>6 DEF U, V

Depths(par) == \E M \in Nat, d \in [Nodes -> Nat] : Ranked(par, d) /\ \A x \in Nodes : d[x] <= M

\* What moves below p takes everything below it to a greater depth.
LEMMA MovedDepths ==
    ASSUME NEW par, Depths(par), NEW i, NEW p, NEW par2, Moves(i, p, par, par2)
    PROVE  Depths(par2)
<1>1. PICK M \in Nat, d \in [Nodes -> Nat] : Ranked(par, d) /\ \A x \in Nodes : d[x] <= M
  BY DEF Depths
<1>2. /\ IsParent(par) /\ IsParent(par2) /\ Nil \notin Nodes
      /\ \A x \in Nodes : par2[x] = IF x = i THEN p ELSE par[x]
      /\ i \in Nodes /\ p \in Nodes \cup {Nil} /\ i \notin UpFn(par)[p]
  BY <1>1, TreeAssumption DEF Ranked, IsParent, Moves
<1> DEFINE U == UpFn(par)
<1>3. U[Nil] = {} /\ \A x \in Nodes : U[x] = {x} \cup U[par[x]]
  BY <1>2, UpRecursion
<1> HIDE DEF U
<1>4. PICK n \in Nat : n <= M + 1 /\ (p # Nil => n = d[p] + 1)
  <2>1. CASE p = Nil
    BY <1>1, <2>1
  <2>2. CASE p # Nil
    <3>1. p \in Nodes /\ d[p] \in Nat /\ d[p] <= M
      BY <1>1, <1>2, <2>2
    <3> QED BY <1>1, <3>1
  <2> QED BY <2>1, <2>2
<1> DEFINE e == [x \in Nodes |-> IF i \in U[x] THEN d[x] + n ELSE d[x]]
<1>5. /\ e \in [Nodes -> Nat]
      /\ \A x \in Nodes : /\ e[x] = IF i \in U[x] THEN d[x] + n ELSE d[x]
                          /\ d[x] \in Nat /\ e[x] \in Nat
  BY <1>1, <1>4
<1> HIDE DEF e
<1>6. \A x \in Nodes : e[x] <= 2 * M + 1
  BY <1>1, <1>4, <1>5
<1>7. ASSUME NEW x \in Nodes, par2[x] # Nil PROVE e[par2[x]] < e[x]
  <2>1. CASE x = i
    <3>1. par2[x] = p /\ p \in Nodes /\ n = d[p] + 1
      BY <1>2, <1>4, <1>7, <2>1
    <3>2. e[p] = d[p] /\ i \in U[x] /\ e[x] = d[x] + n
      BY <1>2, <1>3, <1>5, <2>1, <3>1 DEF U
    <3> QED BY <1>5, <3>1, <3>2
  <2>2. CASE x # i
    <3>1. par2[x] = par[x] /\ par[x] \in Nodes /\ d[par[x]] < d[x]
      BY <1>1, <1>2, <1>7, <2>2 DEF Ranked, IsParent
    <3>2. i \in U[x] <=> i \in U[par[x]]
      BY <1>3, <2>2
    <3> QED BY <1>4, <1>5, <3>1, <3>2
  <2> QED BY <2>1, <2>2
<1>8. Ranked(par2, e)
  BY <1>2, <1>5, <1>7 DEF Ranked
<1>9. 2 * M + 1 \in Nat
  BY <1>1
<1> QED BY <1>5, <1>6, <1>8, <1>9 DEF Depths

----------------------------------------------------------------------------
\* The Workspace's caches.  That the tree has no cycles is what makes "below"
\* mean anything; the rest says in terms of Parent what CachesExact says in
\* terms of Children.

CachesUp ==
    workspace \in alive =>
      /\ \A q \in Parts : parts[q] = IF workspace \in UpFn(parent)[q] THEN 1 ELSE 0
      /\ camera # Nil => workspace \in UpFn(parent)[camera]

CacheInv ==
    /\ Depths(parent)
    /\ workspace \in born /\ parent[workspace] = Nil
    /\ parts \in [Parts -> Nat] /\ camera \in Cameras \cup {Nil}
    /\ CachesUp

\* The tree as the lemmas above want it.
LEMMA TreeIsForest ==
    ASSUME TreeInv, Depths(parent)
    PROVE  /\ \E d, M : Forest(parent, children, d, M) /\ Ranked(parent, d)
           /\ Listing(parent, children, alive)
           /\ IsParent(parent)
<1>1. /\ TreeType /\ Unborn /\ ChildrenMatchParents /\ Nil \notin Nodes
      /\ alive \subseteq born /\ born \subseteq Nodes
  BY TreeAssumption DEF TreeInv, TreeType
<1>2. IsParent(parent)
  BY <1>1 DEF IsParent, TreeType
<1>3. \A x \in Nodes : \A c \in Range(children[x]) : c \in alive /\ parent[c] = x
  <2> TAKE x \in Nodes
  <2>1. CASE x \in born
    BY <1>1, <2>1 DEF ChildrenMatchParents
  <2>2. CASE x \notin born
    BY <1>1, <2>2 DEF Unborn, Range
  <2> QED BY <2>1, <2>2
<1>4. \A j \in Nodes : parent[j] \in alive => j \in Range(children[parent[j]])
  <2> SUFFICES ASSUME NEW j \in Nodes, parent[j] \in alive PROVE j \in Range(children[parent[j]])
    OBVIOUS
  <2>1. j \in born /\ parent[j] \in born
    BY <1>1 DEF Unborn
  <2> QED BY <1>1, <2>1 DEF ChildrenMatchParents
<1>5. PICK M \in Nat, d \in [Nodes -> Nat] : Ranked(parent, d) /\ \A x \in Nodes : d[x] <= M
  BY DEF Depths
<1>6. Forest(parent, children, d, M)
  BY <1>1, <1>3, <1>5 DEF Forest, TreeType
<1>7. Listing(parent, children, alive)
  BY <1>1, <1>3, <1>4 DEF Listing
<1> QED BY <1>2, <1>5, <1>6, <1>7

\* Who is told of a move: what is at and below the instance that moves.
LEMMA NotifiedExact ==
    ASSUME TreeInv, Depths(parent)
    PROVE  /\ \A i \in Nodes : forEachDesc(i) \in Seq(Nodes)
           /\ \A i \in alive, j \in Nodes : j \in Range(forEachDesc(i)) <=> i \in UpFn(parent)[j]
<1>1. PICK d, M : Forest(parent, children, d, M)
  BY TreeIsForest
<1>2. Listing(parent, children, alive)
  BY TreeIsForest
<1>3. \A i \in Nodes : DescFn(children)[i] \in Seq(Nodes)
  BY <1>1, DescExact
<1>4. \A i \in alive, j \in Nodes :
        j \in Range(DescFn(children)[i]) <=> i \in UpFn(parent)[j]
  BY <1>1, <1>2, DescIsUp
<1> QED BY <1>3, <1>4, RecursionsNamed

\* What detaching an instance does to the caches.
LEMMA CachesLeft ==
    ASSUME TreeInv, CacheInv, NEW i \in alive,
           NEW ps, ps = IF InWorkspace(parent[i]) THEN PartsWithout(i) ELSE parts,
           NEW cam, cam = IF InWorkspace(parent[i]) THEN CameraWithout(i) ELSE camera
    PROVE  /\ ps \in [Parts -> Nat] /\ cam \in Cameras \cup {Nil}
           /\ workspace \in alive \ {i} =>
                /\ \A q \in Parts : ps[q] = IF /\ workspace \in UpFn(parent)[q]
                                               /\ i \notin UpFn(parent)[q]
                                            THEN 1 ELSE 0
                /\ cam # Nil => workspace \in UpFn(parent)[cam] /\ i \notin UpFn(parent)[cam]
<1> DEFINE U == UpFn(parent)
           told == Range(forEachDesc(i))
<1>1. /\ alive \subseteq Nodes /\ Parts \subseteq Nodes /\ Cameras \subseteq Nodes
      /\ workspace \in Nodes /\ Nil \notin Nodes
  BY TreeAssumption DEF TreeInv, TreeType, Nodes
<1>2. \A j \in Nodes : j \in told <=> i \in U[j]
  BY NotifiedExact DEF CacheInv
<1>3. InWorkspace(parent[i]) <=> workspace \in U[parent[i]]
  BY RecursionsNamed DEF InWorkspace
<1>4. /\ parts \in [Parts -> Nat] /\ camera \in Cameras \cup {Nil} /\ parent[workspace] = Nil
  BY DEF CacheInv
<1> HIDE DEF U, told
<1>5. ps \in [Parts -> Nat] /\ \A q \in Parts :
        ps[q] = IF InWorkspace(parent[i]) /\ q \in told /\ parts[q] > 0 THEN parts[q] - 1 ELSE parts[q]
  <2>1. CASE InWorkspace(parent[i])
    <3>1. ps = [q \in Parts |-> IF q \in told /\ parts[q] > 0 THEN parts[q] - 1 ELSE parts[q]]
      BY <2>1 DEF PartsWithout, Notified, told
    <3> QED BY <1>4, <2>1, <3>1
  <2>2. CASE ~ InWorkspace(parent[i])
    BY <1>4, <2>2
  <2> QED BY <2>1, <2>2
<1>6. cam = IF InWorkspace(parent[i]) /\ camera \in told THEN Nil ELSE camera
  BY DEF CameraWithout, Notified, told
<1>7. ASSUME workspace \in alive \ {i}, NEW j \in Nodes, i \in U[j]
      PROVE  workspace \in U[j] <=> workspace \in U[parent[i]]
  <2>1. PICK d : Ranked(parent, d)
    BY TreeIsForest DEF CacheInv
  <2>2. U[Nil] = {}
    BY UpRecursion, TreeIsForest DEF CacheInv, U
  <2>3. PICK par : par = [parent EXCEPT ![i] = Nil]
    OBVIOUS
  <2>4. Moves(i, Nil, parent, par)
    BY <1>1, <2>2, <2>3 DEF Moves, U
  <2>5. workspace \in Nodes \ {i}
    BY <1>1, <1>7
  <2> QED BY <1>4, <1>7, <2>1, <2>4, <2>5, MovedUp DEF U
<1>8. ASSUME workspace \in alive \ {i}
      PROVE  /\ \A q \in Parts : ps[q] = IF workspace \in U[q] /\ i \notin U[q] THEN 1 ELSE 0
             /\ cam # Nil => workspace \in U[cam] /\ i \notin U[cam]
  <2>1. /\ \A q \in Parts : parts[q] = IF workspace \in U[q] THEN 1 ELSE 0
        /\ camera # Nil => workspace \in U[camera]
    BY <1>8 DEF CacheInv, CachesUp, U
  <2>2. \A q \in Parts : ps[q] = IF workspace \in U[q] /\ i \notin U[q] THEN 1 ELSE 0
    BY <1>1, <1>2, <1>3, <1>5, <1>7, <1>8, <2>1
  <2>3. cam # Nil => workspace \in U[cam] /\ i \notin U[cam]
    BY <1>1, <1>2, <1>3, <1>4, <1>6, <1>7, <1>8, <2>1
  <2> QED BY <2>2, <2>3
<1> QED BY <1>4, <1>5, <1>6, <1>8 DEF U

LEMMA CacheEnter ==
    ASSUME TreeInv, CacheInv, NEW i \in alive, Enter(i)
    PROVE  CacheInv'
<1> DEFINE U == UpFn(parent)
           V == UpFn(parent')
<1>1. /\ alive' = alive \ {i} /\ born' = born
      /\ parts' = IF InWorkspace(parent[i]) THEN PartsWithout(i) ELSE parts
      /\ camera' = IF InWorkspace(parent[i]) THEN CameraWithout(i) ELSE camera
      /\ parent' = [parent EXCEPT ![i] = Nil]
  BY DEF Enter
<1>2. /\ alive \subseteq Nodes /\ Parts \subseteq Nodes /\ Cameras \subseteq Nodes
      /\ workspace \in Nodes /\ Nil \notin Nodes
      /\ parent \in [Nodes -> Nodes \cup {Nil}]
  BY TreeAssumption DEF TreeInv, TreeType, Nodes
<1>3. /\ parts' \in [Parts -> Nat] /\ camera' \in Cameras \cup {Nil}
      /\ workspace \in alive \ {i} =>
           /\ \A q \in Parts : parts'[q] = IF workspace \in U[q] /\ i \notin U[q] THEN 1 ELSE 0
           /\ camera' # Nil => workspace \in U[camera'] /\ i \notin U[camera']
  BY <1>1, CachesLeft
<1>4. U[Nil] = {}
  BY UpRecursion, TreeIsForest DEF CacheInv
<1>5. Moves(i, Nil, parent, parent')
  BY <1>1, <1>2, <1>4 DEF Moves
<1>6. Depths(parent')
  BY <1>5, MovedDepths DEF CacheInv
<1>7. parent[workspace] = Nil /\ parent'[workspace] = Nil /\ workspace \in born
  BY <1>1, <1>2 DEF CacheInv
<1>8. ASSUME workspace \in alive \ {i}, NEW j \in Nodes
      PROVE  workspace \in V[j] <=> workspace \in U[j] /\ i \notin U[j]
  <2>1. PICK d : Ranked(parent, d)
    BY TreeIsForest DEF CacheInv
  <2>2. /\ i \in U[j] => (workspace \in V[j] <=> workspace \in U[Nil])
        /\ i \notin U[j] => V[j] = U[j]
    <3>1. workspace \in Nodes \ {i}
      BY <1>2, <1>8
    <3> QED BY <1>5, <1>7, <2>1, <3>1, MovedUp
  <2> QED BY <1>4, <2>2
<1> HIDE DEF U, V
<1>9. CachesUp'
  <2> SUFFICES ASSUME workspace \in alive \ {i}
               PROVE  /\ \A q \in Parts : parts'[q] = IF workspace \in V[q] THEN 1 ELSE 0
                      /\ camera' # Nil => workspace \in V[camera']
    BY <1>1 DEF CachesUp, V
  <2> QED BY <1>2, <1>3, <1>8
<1> QED BY <1>1, <1>3, <1>6, <1>7, <1>9 DEF CacheInv

\* What attaching it does.
LEMMA CachesJoined ==
    ASSUME TreeInv, Depths(parent), NEW i \in alive,
           NEW ps \in [Parts -> Nat], NEW cam \in Cameras \cup {Nil}
    PROVE  /\ PartsWith(ps, i) \in [Parts -> Nat]
           /\ \A q \in Parts : PartsWith(ps, i)[q] = IF i \in UpFn(parent)[q] THEN ps[q] + 1 ELSE ps[q]
           /\ CameraWith(cam, i) \in Cameras \cup {Nil}
           /\ CameraWith(cam, i) # cam => i \in UpFn(parent)[CameraWith(cam, i)]
<1> DEFINE told == Range(forEachDesc(i))
<1>1. Parts \subseteq Nodes /\ Cameras \subseteq Nodes /\ i \in Nodes
  BY TreeAssumption DEF TreeInv, TreeType, Nodes
<1>2. forEachDesc(i) \in Seq(Nodes) /\ \A j \in Nodes : j \in told <=> i \in UpFn(parent)[j]
  BY <1>1, NotifiedExact
<1>3. PartsWith(ps, i) = [q \in Parts |-> IF q \in told THEN ps[q] + 1 ELSE ps[q]]
  BY DEF PartsWith, Notified
<1> DEFINE cams == Only(forEachDesc(i), Cameras)
<1>4. CameraWith(cam, i) = IF cam = Nil /\ cams # << >> THEN Head(cams) ELSE cam
  BY DEF CameraWith, Notified
<1>5. cams \in Seq(Nodes) /\ Range(cams) = told \cap Cameras
  BY <1>2, OnlyExact
<1> HIDE DEF cams, told
<1>6. cams # << >> => Head(cams) \in Cameras /\ Head(cams) \in told
  <2> SUFFICES ASSUME cams # << >> PROVE Head(cams) \in Range(cams)
    BY <1>5
  <2>1. 1 \in DOMAIN cams /\ Head(cams) = cams[1]
    BY <1>5
  <2> QED BY <2>1 DEF Range
<1> QED BY <1>1, <1>2, <1>3, <1>4, <1>6

LEMMA CacheSetParent ==
    ASSUME TreeInv, CacheInv, NEW i \in Nodes, NEW p \in Nodes \cup {Nil}, SetParent(i, p)
    PROVE  CacheInv'
<1> DEFINE U == UpFn(parent)
           V == UpFn(parent')
           ps  == IF InWorkspace(parent[i]) THEN PartsWithout(i) ELSE parts
           cam == IF InWorkspace(parent[i]) THEN CameraWithout(i) ELSE camera
<1>1. /\ i \in alive /\ i # workspace /\ i \notin Upwards(p)
      /\ alive' = alive /\ born' = born
      /\ parts' = IF InWorkspace(p) THEN PartsWith(ps, i) ELSE ps
      /\ camera' = IF InWorkspace(p) THEN CameraWith(cam, i) ELSE cam
      /\ parent' = [parent EXCEPT ![i] = p]
  BY DEF SetParent
<1>2. /\ alive \subseteq Nodes /\ Parts \subseteq Nodes /\ Cameras \subseteq Nodes
      /\ workspace \in Nodes /\ Nil \notin Nodes
      /\ parent \in [Nodes -> Nodes \cup {Nil}]
  BY TreeAssumption DEF TreeInv, TreeType, Nodes
<1>3. /\ ps \in [Parts -> Nat] /\ cam \in Cameras \cup {Nil}
      /\ workspace \in alive \ {i} =>
           /\ \A q \in Parts : ps[q] = IF workspace \in U[q] /\ i \notin U[q] THEN 1 ELSE 0
           /\ cam # Nil => workspace \in U[cam] /\ i \notin U[cam]
  BY <1>1, CachesLeft
<1>4. i \notin U[p] /\ (InWorkspace(p) <=> workspace \in U[p])
  BY <1>1, RecursionsNamed DEF InWorkspace
<1>5. Moves(i, p, parent, parent')
  BY <1>1, <1>2, <1>4 DEF Moves
<1>6. Depths(parent')
  BY <1>5, MovedDepths DEF CacheInv
<1>7. parent[workspace] = Nil /\ parent'[workspace] = Nil /\ workspace \in born
  BY <1>1, <1>2 DEF CacheInv
<1>8. ASSUME NEW j \in Nodes
      PROVE  workspace \in V[j] <=> IF i \in U[j] THEN workspace \in U[p] ELSE workspace \in U[j]
  <2>1. PICK d : Ranked(parent, d)
    BY TreeIsForest DEF CacheInv
  <2>2. /\ i \in U[j] => (workspace \in V[j] <=> workspace \in U[p])
        /\ i \notin U[j] => V[j] = U[j]
    <3>1. workspace \in Nodes \ {i}
      BY <1>1, <1>2
    <3> QED BY <1>5, <1>7, <2>1, <3>1, MovedUp
  <2> QED BY <2>2
<1> HIDE DEF ps, cam
<1>9. /\ PartsWith(ps, i) \in [Parts -> Nat]
      /\ \A q \in Parts : PartsWith(ps, i)[q] = IF i \in U[q] THEN ps[q] + 1 ELSE ps[q]
      /\ CameraWith(cam, i) \in Cameras \cup {Nil}
      /\ CameraWith(cam, i) # cam => i \in U[CameraWith(cam, i)]
  BY <1>1, <1>3, CachesJoined DEF CacheInv
<1> HIDE DEF U, V
<1>10. parts' \in [Parts -> Nat] /\ camera' \in Cameras \cup {Nil}
  BY <1>1, <1>3, <1>9
<1>11. CachesUp'
  <2> SUFFICES ASSUME workspace \in alive \ {i}
               PROVE  /\ \A q \in Parts : parts'[q] = IF workspace \in V[q] THEN 1 ELSE 0
                      /\ camera' # Nil => workspace \in V[camera']
    BY <1>1 DEF CachesUp, V
  <2>1. CASE InWorkspace(p)
    <3>1. parts' = PartsWith(ps, i) /\ camera' = CameraWith(cam, i) /\ workspace \in U[p]
      BY <1>1, <1>4, <2>1
    <3>2. \A q \in Parts : parts'[q] = IF workspace \in V[q] THEN 1 ELSE 0
      BY <1>2, <1>3, <1>8, <1>9, <3>1
    <3>3. ASSUME camera' # Nil PROVE workspace \in V[camera']
      <4>1. camera' \in Nodes
        BY <1>2, <1>10, <3>3
      <4>2. CASE camera' = cam
        BY <1>3, <1>8, <3>3, <4>1, <4>2
      <4>3. CASE camera' # cam
        BY <1>8, <1>9, <3>1, <4>1, <4>3
      <4> QED BY <4>2, <4>3
    <3> QED BY <3>2, <3>3
  <2>2. CASE ~ InWorkspace(p)
    <3>1. parts' = ps /\ camera' = cam /\ workspace \notin U[p]
      BY <1>1, <1>4, <2>2
    <3> QED BY <1>2, <1>3, <1>8, <3>1
  <2> QED BY <2>1, <2>2
<1> QED BY <1>1, <1>6, <1>7, <1>10, <1>11 DEF CacheInv

\* What is new is not below the Workspace: Clone tells nobody, and need not.
LEMMA CacheGrafts ==
    ASSUME TreeInv, TreeInv', CacheInv, NEW new, NEW of, Grafts(new, of), UNCHANGED cache
    PROVE  CacheInv'
<1> DEFINE U == UpFn(parent)
           V == UpFn(parent')
<1>1. /\ new \subseteq Nodes \ born /\ born' = born \cup new /\ alive' = alive \cup new
      /\ \A y \in Nodes \ new : parent'[y] = parent[y]
      /\ \A y \in new :
           /\ of[y] \in Nodes
           /\ parent'[y] # Nil => parent'[y] \in new /\ of[parent'[y]] = parent[of[y]]
      /\ parts' = parts /\ camera' = camera
  BY DEF Grafts, cache
<1>2. /\ born \subseteq Nodes /\ Parts \subseteq Nodes /\ Cameras \subseteq Nodes
      /\ workspace \in Nodes /\ Nil \notin Nodes /\ workspace \in born /\ parent[workspace] = Nil
      /\ IsParent(parent) /\ IsParent(parent')
      /\ \A x \in Nodes : parent[x] \in born \cup {Nil}
      /\ \A x \in Nodes \ born : parent[x] = Nil
  BY TreeAssumption DEF TreeInv, TreeType, Nodes, CacheInv, IsParent, Unborn
<1>3. PICK M \in Nat, d \in [Nodes -> Nat] : Ranked(parent, d) /\ \A x \in Nodes : d[x] <= M
  BY DEF CacheInv, Depths
<1> DEFINE e == [x \in Nodes |-> IF x \in new THEN d[of[x]] ELSE d[x]]
<1>4. e \in [Nodes -> Nat] /\ \A x \in Nodes : e[x] = IF x \in new THEN d[of[x]] ELSE d[x]
  BY <1>1
<1> HIDE DEF e
<1>5. \A x \in Nodes : e[x] <= M
  BY <1>1, <1>3, <1>4
<1>6. ASSUME NEW x \in Nodes, parent'[x] # Nil PROVE e[parent'[x]] < e[x]
  <2>1. CASE x \in new
    <3>1. parent'[x] \in new /\ of[parent'[x]] = parent[of[x]] /\ of[x] \in Nodes
      BY <1>1, <1>6, <2>1
    <3>2. e[x] = d[of[x]] /\ e[parent'[x]] = d[parent[of[x]]] /\ parent[of[x]] \in Nodes
      BY <1>1, <1>2, <1>4, <2>1, <3>1
    <3> QED BY <1>2, <1>3, <3>1, <3>2 DEF Ranked
  <2>2. CASE x \notin new
    <3>1. parent'[x] = parent[x] /\ parent[x] \in Nodes /\ parent[x] \notin new
      BY <1>1, <1>2, <1>6, <2>2
    <3> QED BY <1>2, <1>3, <1>4, <2>2, <3>1 DEF Ranked
  <2> QED BY <2>1, <2>2
<1>7. Ranked(parent', e)
  BY <1>2, <1>4, <1>6 DEF Ranked
<1>8. Depths(parent')
  BY <1>4, <1>5, <1>7 DEF Depths
<1>9. \A x \in Nodes : x \in new => V[x] \subseteq new
  <2>1. \A x \in new : parent'[x] # Nil => parent'[x] \in new
    BY <1>1
  <2> QED BY <1>7, <2>1, UpWithin
<1>10. \A x \in Nodes : x \in Nodes \ new => V[x] = U[x]
  <2>1. SameWithin(Nodes \ new, parent, parent')
    BY <1>1, <1>2 DEF SameWithin
  <2> QED BY <1>3, <2>1, UpSame
<1>11. \A x \in Nodes : x \in new => U[x] = {x}
  <2>1. U[Nil] = {} /\ \A x \in Nodes : U[x] = {x} \cup U[parent[x]]
    BY <1>2, UpRecursion
  <2> QED BY <1>1, <1>2, <2>1
<1> HIDE DEF U, V
<1>12. \A x \in Nodes : workspace \in V[x] <=> workspace \in U[x]
  BY <1>1, <1>2, <1>9, <1>10, <1>11
<1>13. workspace \in alive' => workspace \in alive
  BY <1>1, <1>2
<1>14. CachesUp'
  <2> SUFFICES ASSUME workspace \in alive
               PROVE  /\ \A q \in Parts : parts[q] = IF workspace \in V[q] THEN 1 ELSE 0
                      /\ camera # Nil => workspace \in V[camera]
    BY <1>1, <1>13 DEF CachesUp, V
  <2>1. /\ \A q \in Parts : parts[q] = IF workspace \in U[q] THEN 1 ELSE 0
        /\ camera # Nil => workspace \in U[camera] /\ camera \in Nodes
    BY <1>2 DEF CacheInv, CachesUp, U
  <2> QED BY <1>2, <1>12, <2>1
<1> QED BY <1>1, <1>2, <1>8, <1>14 DEF CacheInv

\* What leaves Parent and the caches alone, and gives the Workspace no new life.
LEMMA CacheStays ==
    ASSUME CacheInv, UNCHANGED <<parent, cache>>, born \subseteq born',
           workspace \in alive' => workspace \in alive
    PROVE  CacheInv'
BY DEF CacheInv, CachesUp, cache

----------------------------------------------------------------------------
\* The types that TreeInv leaves out.

FrameType == [at : Nodes, copied : BOOLEAN, kids : Seq(Nodes), i : Nat]

CallsType == doomed \subseteq Nodes /\ frames \in Seq(FrameType)

LEMMA FrameTyped ==
    ASSUME TreeType, NEW at \in Nodes, NEW copied \in BOOLEAN
    PROVE  Frame(at, copied) \in FrameType
BY DEF TreeType, Frame, FrameType

LEMMA CallsStep ==
    ASSUME IInv, CacheInv, CallsType, [Next]_vars
    PROVE  CallsType'
<1>1. TreeType /\ TreeInv /\ alive \subseteq Nodes /\ Depths(parent) /\ frames \in Seq(FrameType)
      /\ doomed \subseteq Nodes
  BY DEF IInv, TreeInv, TreeType, CacheInv, CallsType
<1>2. UNCHANGED calls => CallsType'
  BY DEF CallsType, calls
<1>3. ASSUME NEW i \in alive PROVE Range(forEachDesc(i)) \subseteq Nodes
  <2>1. forEachDesc(i) \in Seq(Nodes)
    BY <1>1, NotifiedExact
  <2> QED BY <2>1 DEF Range
<1>4. ASSUME NEW i \in alive, NEW copied \in BOOLEAN, frames' = <<Frame(i, copied)>>,
             doomed' \subseteq Range(forEachDesc(i))
      PROVE  CallsType'
  <2>1. Frame(i, copied) \in FrameType
    BY <1>1, FrameTyped
  <2> QED BY <1>3, <1>4, <2>1 DEF CallsType
<1>5. ASSUME ~ Idle PROVE Below \in Seq(FrameType) /\ Top \in FrameType
  <2>1. Len(frames) \in Nat \ {0} /\ frames \in Seq(FrameType)
    BY <1>1, <1>5 DEF Idle
  <2> QED BY <2>1 DEF Below, Top
<1>6. ASSUME ~ Idle PROVE Advanced \in Seq(FrameType)
  <2>1. PICK f \in FrameType : f = Top
    BY <1>5, <1>6
  <2>2. [f EXCEPT !.i = f.i + 1] \in FrameType
    BY DEF FrameType
  <2>3. [Top EXCEPT !.i = @ + 1] \in FrameType
    BY <2>1, <2>2
  <2> QED BY <1>5, <1>6, <2>3 DEF Advanced
<1>7. ASSUME NEW i \in Nodes, Destroy(i) PROVE CallsType'
  BY <1>4, <1>7 DEF Destroy
<1>8. ASSUME NEW i \in Nodes, ClearAllChildren(i) PROVE CallsType'
  BY <1>2, <1>4, <1>8 DEF ClearAllChildren
<1>9. CASE DestroyChild
  <2>1. ~ Idle /\ doomed' = doomed
    BY <1>9 DEF DestroyChild
  <2>2. PICK c : frames' = Advanced \/ (c \in alive /\ frames' = Append(Advanced, Frame(c, FALSE)))
    BY <1>9 DEF DestroyChild
  <2>3. c \in alive => Frame(c, FALSE) \in FrameType
    BY <1>1, FrameTyped
  <2>4. PICK moved \in Seq(FrameType) : moved = Advanced
    BY <1>6, <2>1
  <2>5. ASSUME c \in alive PROVE Append(moved, Frame(c, FALSE)) \in Seq(FrameType)
    <3>1. PICK f \in FrameType : f = Frame(c, FALSE)
      BY <2>3, <2>5
    <3>2. Append(moved, f) \in Seq(FrameType)
      OBVIOUS
    <3> QED BY <3>1, <3>2
  <2>6. frames' \in Seq(FrameType)
    BY <2>2, <2>4, <2>5
  <2> QED BY <1>1, <2>1, <2>6 DEF CallsType
<1>10. CASE Return
  BY <1>1, <1>5, <1>10 DEF Return, CallsType
<1> QED BY <1>2, <1>7, <1>8, <1>9, <1>10 DEF Next, New, SetParent, SetName, Clone, vars

----------------------------------------------------------------------------
LEMMA CacheInit == Init => CacheInv /\ CallsType
<1> SUFFICES ASSUME Init PROVE CacheInv /\ CallsType
  OBVIOUS
<1>1. PICK first \in Cameras :
        /\ born = {workspace, first}
        /\ parent = [x \in Nodes |-> IF x = first THEN workspace ELSE Nil]
        /\ parts = [q \in Parts |-> 0] /\ camera = first
        /\ frames = << >> /\ doomed = {}
  BY DEF Init
<1>2. /\ workspace \in Nodes /\ first \in Nodes /\ first # workspace /\ Nil \notin Nodes
      /\ Parts \subseteq Nodes /\ first \notin Parts /\ workspace \notin Parts
  BY TreeAssumption DEF Nodes
<1>3. IsParent(parent)
  BY <1>1, <1>2 DEF IsParent
<1> DEFINE d == [x \in Nodes |-> IF x = first THEN 1 ELSE 0]
<1>4. Depths(parent)
  <2>1. d \in [Nodes -> Nat] /\ (\A x \in Nodes : d[x] <= 1) /\ Ranked(parent, d)
    BY <1>1, <1>2, <1>3 DEF Ranked
  <2> QED BY <2>1 DEF Depths
<1> HIDE DEF d
<1>5. UpFn(parent)[Nil] = {} /\ \A x \in Nodes : UpFn(parent)[x] = {x} \cup UpFn(parent)[parent[x]]
  BY <1>3, UpRecursion
<1>6. CachesUp
  <2>1. \A q \in Parts : parent[q] = Nil /\ q \in Nodes /\ q # workspace
    BY <1>1, <1>2
  <2>2. parent[first] = workspace
    BY <1>1, <1>2
  <2>3. \A q \in Parts : workspace \notin UpFn(parent)[q]
    BY <1>5, <2>1
  <2>4. workspace \in UpFn(parent)[first]
    BY <1>2, <1>5, <2>2
  <2> QED BY <1>1, <2>3, <2>4 DEF CachesUp
<1>7. CallsType
  BY <1>1 DEF CallsType
<1> QED BY <1>1, <1>2, <1>4, <1>6, <1>7 DEF CacheInv

LEMMA CacheStep ==
    ASSUME IInv, IInv', CacheInv, [Next]_vars
    PROVE  CacheInv'
<1>1. TreeInv /\ TreeInv' /\ alive \subseteq Nodes /\ workspace \in born
  BY DEF IInv, TreeInv, TreeType, CacheInv
<1>2. ASSUME NEW i \in Nodes, New(i) PROVE CacheInv'
  BY <1>1, <1>2, CacheStays DEF New
<1>3. ASSUME NEW i \in Nodes, NEW p \in Nodes \cup {Nil}, SetParent(i, p) PROVE CacheInv'
  BY <1>1, <1>3, CacheSetParent
<1>4. ASSUME NEW i \in Nodes, Clone(i) PROVE CacheInv'
  <2>1. PICK new, of : Grafts(new, of)
    BY <1>4, CloneKeeps
  <2>2. UNCHANGED cache
    BY <1>4 DEF Clone
  <2> QED BY <1>1, <2>1, <2>2, CacheGrafts
<1>5. ASSUME NEW i \in Nodes, Destroy(i) PROVE CacheInv'
  BY <1>1, <1>5, CacheEnter DEF Destroy
<1>6. CASE DestroyChild
  <2>1. CASE UNCHANGED <<tree, cache>>
    BY <2>1, CacheStays DEF tree
  <2>2. CASE \E c \in alive : Enter(c)
    BY <1>1, <2>2, CacheEnter
  <2> QED BY <1>6, <2>1, <2>2 DEF DestroyChild
<1>7. ASSUME UNCHANGED <<born, alive, parent, cache>> PROVE CacheInv'
  BY <1>7, CacheStays
<1>8. ASSUME NEW i \in Nodes, ClearAllChildren(i) PROVE CacheInv'
  BY <1>7, <1>8 DEF ClearAllChildren, tree
<1> QED BY <1>2, <1>3, <1>4, <1>5, <1>6, <1>7, <1>8 DEF Next, SetName, Return, vars, tree

TreeInvariant == IInv /\ CacheInv /\ CallsType

LEMMA TreeInvariantHolds == Spec => []TreeInvariant
<1>1. Init => TreeInvariant
  BY InitOK, CacheInit DEF TreeInvariant
<1>2. TreeInvariant /\ [Next]_vars => TreeInvariant'
  <2> SUFFICES ASSUME TreeInvariant, [Next]_vars PROVE TreeInvariant'
    OBVIOUS
  <2>1. IInv'
    BY NextKeeps DEF TreeInvariant
  <2>2. CacheInv' /\ CallsType'
    BY <2>1, CacheStep, CallsStep DEF TreeInvariant
  <2> QED BY <2>1, <2>2 DEF TreeInvariant
<1> QED BY <1>1, <1>2, PTL DEF Spec

\* Every variable keeps its type, the frames of the calls of Destroy and
\* ClearAllChildren included: the vectors they walk hold instances and nothing
\* else while they change (Instance.cpp:99-124, :303-312).
THEOREM TypeCorrect == Spec => []TypeOK
<1>1. TreeInvariant => TypeOK
  <2> SUFFICES ASSUME TreeInvariant PROVE TypeOK
    OBVIOUS
  <2>1. frames \in Seq(FrameType)
    BY DEF TreeInvariant, CallsType
  <2>2. \A k \in DOMAIN frames : frames[k] \in FrameType
    BY <2>1
  <2> QED BY <2>2 DEF TreeInvariant, IInv, TreeInv, TreeType, CacheInv, CallsType, FrameType, TypeOK
<1> QED BY <1>1, TreeInvariantHolds, PTL

\* The parts that the renderer draws are those below the Workspace, each once,
\* and its camera is one below it: for the callbacks (Workspace.cpp:8-21) are
\* told of everything that enters and leaves, once, whichever call moves it and
\* however deep it stands (Instance.cpp:60-124).
THEOREM CachesCorrect == Spec => []CachesExact
<1>1. TreeInvariant => CachesExact
  <2> SUFFICES ASSUME TreeInvariant, workspace \in alive
               PROVE  LET below == Range(forEachDesc(workspace))
                      IN  /\ \A q \in Parts : parts[q] = IF q \in below THEN 1 ELSE 0
                          /\ camera # Nil => camera \in below
    BY DEF CachesExact
  <2>1. \A j \in Nodes : j \in Range(forEachDesc(workspace)) <=> workspace \in UpFn(parent)[j]
    BY NotifiedExact DEF TreeInvariant, IInv, CacheInv
  <2>2. Parts \subseteq Nodes /\ Cameras \subseteq Nodes
    BY DEF Nodes
  <2> QED BY <2>1, <2>2 DEF TreeInvariant, CacheInv, CachesUp
<1> QED BY <1>1, TreeInvariantHolds, PTL

\* A clone finds a child under a name exactly when one of its children has it,
\* although FindFirstChild trusts the index alone and Clone copies the children
\* of an instance whose index may have lost some (Instance.cpp:131-187): the
\* copies enter the new index one by one, in the order of Children.
THEOREM ClonesAreIndexed == Spec => ClonesIndexed
<1> USE DEF NewIndexed
<1>1. IInv /\ [Next]_vars => [NewIndexed]_vars
  <2> SUFFICES ASSUME IInv, Next PROVE NewIndexed
    OBVIOUS
  <2>1. ASSUME born' = born PROVE NewIndexed
    BY <2>1
  <2>2. ASSUME NEW i \in Nodes, New(i) PROVE NewIndexed
    <3>1. born' \ born = {i} /\ children' = children /\ byName' = byName
      BY <2>2 DEF New
    <3>2. i \in Nodes \ born /\ Unborn
      BY <2>2 DEF New, IInv, TreeInv
    <3>3. children[i] = << >> /\ byName[i] = NoIndex /\ Range(<< >>) = {}
      BY <3>2 DEF Unborn, Range
    <3> QED BY <3>1, <3>3 DEF NoIndex
  <2>3. ASSUME NEW i \in Nodes, Clone(i) PROVE NewIndexed
    BY <2>3, CloneKeeps
  <2> QED BY <2>1, <2>2, <2>3 DEF Next, SetParent, SetName, Destroy, ClearAllChildren,
                                  DestroyChild, Return, Enter, tree
<1>2. Spec => []IInv
  <2>1. TreeInvariant => IInv
    BY DEF TreeInvariant
  <2> QED BY <2>1, TreeInvariantHolds, PTL
<1> QED BY <1>1, <1>2, PTL DEF Spec, ClonesIndexed

----------------------------------------------------------------------------
\* No instance is listed twice.

LEMMA ConcatInjective ==
    ASSUME NEW U, NEW a \in Seq(U), NEW b \in Seq(U), IsInjective(a), IsInjective(b),
           Range(a) \cap Range(b) = {}
    PROVE  IsInjective(a \o b)
<1>1. PICK n \in Nat, m \in Nat : n = Len(a) /\ m = Len(b)
  OBVIOUS
<1>2. \A k \in 1..n : (a \o b)[k] = a[k]
  BY <1>1
<1>3. \A k \in 1..m : (a \o b)[n + k] = b[k]
  BY <1>1
<1>4. DOMAIN (a \o b) = 1 .. n + m
  BY <1>1
<1>5. PICK f, g, e : f = a /\ g = b /\ e = a \o b
  OBVIOUS
<1>6. /\ \A k \in 1..n : e[k] = f[k] /\ f[k] \in Range(f)
      /\ \A k \in 1..m : e[n + k] = g[k] /\ g[k] \in Range(g)
      /\ \A j, k \in 1..n : f[j] = f[k] => j = k
      /\ \A j, k \in 1..m : g[j] = g[k] => j = k
      /\ Range(f) \cap Range(g) = {} /\ DOMAIN e = 1 .. n + m
  <2>1. DOMAIN a = 1..n /\ DOMAIN b = 1..m
    BY <1>1
  <2>2. /\ DOMAIN f = 1..n /\ DOMAIN g = 1..m /\ DOMAIN e = 1 .. n + m
        /\ IsInjective(f) /\ IsInjective(g) /\ Range(f) \cap Range(g) = {}
    BY <1>4, <1>5, <2>1
  <2>3. /\ \A k \in 1..n : e[k] = f[k]
        /\ \A k \in 1..m : e[n + k] = g[k]
    BY <1>2, <1>3, <1>5
  <2> QED BY <2>2, <2>3 DEF Range, IsInjective
<1>7. \A k \in 1 .. n + m : k \in 1..n \/ \E i \in 1..m : k = n + i
  <2> SUFFICES ASSUME NEW k \in 1 .. n + m, k \notin 1..n PROVE \E i \in 1..m : k = n + i
    OBVIOUS
  <2>1. k - n \in 1..m /\ k = n + (k - n)
    OBVIOUS
  <2> QED BY <2>1
<1>8. ASSUME NEW j \in 1 .. n + m, NEW k \in 1 .. n + m, e[j] = e[k] PROVE j = k
  <2>1. CASE j \in 1..n /\ k \in 1..n
    BY <1>6, <1>8, <2>1
  <2>2. CASE j \in 1..n /\ \E i \in 1..m : k = n + i
    BY <1>6, <1>8, <2>2
  <2>3. CASE k \in 1..n /\ \E i \in 1..m : j = n + i
    BY <1>6, <1>8, <2>3
  <2>4. CASE (\E i \in 1..m : j = n + i) /\ \E i \in 1..m : k = n + i
    <3>1. PICK i \in 1..m, h \in 1..m : j = n + i /\ k = n + h
      BY <2>4
    <3>2. g[i] = g[h]
      BY <1>6, <1>8, <3>1
    <3> QED BY <1>6, <3>1, <3>2
  <2> QED BY <1>7, <2>1, <2>2, <2>3, <2>4
<1> QED BY <1>5, <1>6, <1>8 DEF IsInjective

\* The n sequences of g list nothing twice, nor one what another does.
Apart(n, g) ==
    /\ \A k \in 1..n : IsInjective(g[k])
    /\ \A j, k \in 1..n : j # k => Range(g[j]) \cap Range(g[k]) = {}

LEMMA FlattenInjective ==
    ASSUME NEW U, NEW n \in Nat, NEW s, Len(s) = n, n = 0 => s = << >>, SeqsUpTo(n, s, U),
           Apart(n, s)
    PROVE  IsInjective(FlattenSeq(s))
<1>1. PICK p : Joined(n, s, p)
  BY JoinedExists
<1>2. FlattenSeq(s) = p[n]
  BY <1>1, FlattenJoined
<1>3. \A k \in 0..n : JoinOK(U, s, p, k)
  BY <1>1, JoinedExact
<1> DEFINE T == {k \in 0..n : IsInjective(p[k])}
<1>4. 0 \in T
  BY <1>1 DEF Joined, IsInjective
<1>5. ASSUME NEW k \in 1..n, k - 1 \in T PROVE k \in T
  <2>1. PICK j \in 0..n : j = k - 1
    OBVIOUS
  <2>2. p[k] = p[j] \o s[k] /\ s[k] \in Seq(U)
    BY <1>1, <2>1 DEF Joined, SeqsUpTo
  <2>3. p[j] \in Seq(U) /\ \A x : x \in Range(p[j]) => \E m \in 1..j : x \in Range(s[m])
    BY <1>3 DEF JoinOK
  <2>4. Range(p[j]) \cap Range(s[k]) = {}
    <3>1. \A m \in 1..j : m \in 1..n /\ m # k
      BY <2>1
    <3> QED BY <2>3, <3>1 DEF Apart
  <2>5. IsInjective(p[j]) /\ IsInjective(s[k])
    BY <1>5, <2>1 DEF Apart
  <2>6. PICK a, b : a = p[j] /\ b = s[k]
    OBVIOUS
  <2>7. IsInjective(a \o b)
    BY <2>2, <2>3, <2>4, <2>5, <2>6, ConcatInjective
  <2>8. IsInjective(p[k])
    BY <2>2, <2>6, <2>7
  <2> QED BY <2>8
<1>6. n \in T
  <2> HIDE DEF T
  <2> QED BY <1>4, <1>5, UpToInduction
<1> QED BY <1>2, <1>6

LEMMA UpDepth ==
    ASSUME NEW par, NEW d, Ranked(par, d)
    PROVE  \A x \in Nodes : \A z \in UpFn(par)[x] : z \in Nodes /\ d[z] <= d[x]
<1> DEFINE U == UpFn(par)
           T == {x \in Nodes : \A z \in U[x] : z \in Nodes /\ d[z] <= d[x]}
<1>1. /\ IsParent(par) /\ d \in [Nodes -> Nat] /\ U[Nil] = {}
      /\ \A x \in Nodes : U[x] = {x} \cup U[par[x]]
  BY UpRecursion DEF Ranked
<1> HIDE DEF U
<1>2. ASSUME NEW x \in Nodes, par[x] # Nil => par[x] \in T PROVE x \in T
  <2>1. CASE par[x] = Nil
    BY <1>1, <2>1
  <2>2. CASE par[x] # Nil
    <3>1. par[x] \in Nodes /\ d[par[x]] < d[x] /\ d[x] \in Nat /\ d[par[x]] \in Nat
      BY <1>1, <2>2 DEF Ranked, IsParent
    <3> QED BY <1>1, <1>2, <2>2, <3>1
  <2> QED BY <2>1, <2>2
<1>3. \A x \in Nodes : x \in T
  <2> HIDE DEF T
  <2> QED BY <1>2, RankInduction
<1> QED BY <1>3 DEF U

\* Two ancestors of an instance are one above the other.
LEMMA UpLine ==
    ASSUME NEW par, NEW d, Ranked(par, d)
    PROVE  \A x \in Nodes : \A b, c \in UpFn(par)[x] : b \in UpFn(par)[c] \/ c \in UpFn(par)[b]
<1> DEFINE U == UpFn(par)
           T == {x \in Nodes : \A b, c \in U[x] : b \in U[c] \/ c \in U[b]}
<1>1. /\ IsParent(par) /\ U[Nil] = {}
      /\ \A x \in Nodes : U[x] = {x} \cup U[par[x]]
  BY UpRecursion DEF Ranked
<1> HIDE DEF U
<1>2. ASSUME NEW x \in Nodes, par[x] # Nil => par[x] \in T PROVE x \in T
  BY <1>1, <1>2
<1>3. \A x \in Nodes : x \in T
  <2> HIDE DEF T
  <2> QED BY <1>2, RankInduction
<1> QED BY <1>3 DEF U

\* Nothing is below two children of one instance.
LEMMA SiblingsApart ==
    ASSUME NEW par, NEW d, Ranked(par, d), NEW b \in Nodes, NEW c \in Nodes,
           par[b] # Nil, par[b] = par[c], NEW y \in Nodes, b \in UpFn(par)[y], c \in UpFn(par)[y]
    PROVE  b = c
<1>1. /\ par[b] \in Nodes /\ d[par[b]] < d[b] /\ d[par[b]] < d[c]
      /\ d[b] \in Nat /\ d[c] \in Nat /\ d[par[b]] \in Nat
  BY DEF Ranked, IsParent
<1>2. \A x \in Nodes : UpFn(par)[x] = {x} \cup UpFn(par)[par[x]]
  BY UpRecursion DEF Ranked
<1>3. \A z \in UpFn(par)[par[b]] : d[z] <= d[par[b]]
  BY <1>1, UpDepth
<1>4. b \in UpFn(par)[c] \/ c \in UpFn(par)[b]
  BY UpLine
<1> QED BY <1>1, <1>2, <1>3, <1>4

LEMMA DescInjective ==
    ASSUME NEW par, NEW kids, NEW d, NEW M, Forest(par, kids, d, M),
           NEW live, Listing(par, kids, live), \A x \in Nodes : IsInjective(kids[x])
    PROVE  \A x \in Nodes : IsInjective(DescFn(kids)[x])
<1> DEFINE D == DescFn(kids)
           T == {x \in Nodes : IsInjective(D[x])}
<1>1. /\ Ranked(par, d) /\ kids \in [Nodes -> Seq(Nodes)] /\ d \in [Nodes -> Nat]
      /\ live \subseteq Nodes /\ Nil \notin Nodes
      /\ \A x \in Nodes : \A c \in Range(kids[x]) : par[c] = x /\ c \in live /\ d[x] < d[c]
  BY KidsBelow, TreeAssumption DEF Forest, Ranked, Listing
<1>2. /\ \A x \in Nodes : D[x] = Listed(kids, D, x)
      /\ \A x \in Nodes : D[x] \in Seq(Nodes)
      /\ \A x \in live, j \in Nodes : j \in Range(D[x]) <=> x \in UpFn(par)[j]
  BY DescRecursion, DescExact, DescIsUp
<1> HIDE DEF D
<1>3. \A x \in Nodes : \A y \in Range(D[x]) : y \in Nodes
  BY <1>2 DEF Range
<1>4. ASSUME NEW x \in Nodes, \A c \in Range(kids[x]) : c \in T PROVE x \in T
  <2> DEFINE s == [k \in DOMAIN kids[x] |-> D[kids[x][k]]]
  <2>1. PICK n \in Nat : DOMAIN kids[x] = 1..n
    BY <1>1
  <2>2. \A k \in 1..n : kids[x][k] \in Range(kids[x])
    BY <2>1 DEF Range
  <2>3. /\ Len(s) = n /\ (n = 0 => s = << >>) /\ s \in Seq(Seq(Nodes))
        /\ \A k \in 1..n : s[k] = D[kids[x][k]]
    <3>1. s = [k \in 1..n |-> D[kids[x][k]]]
      BY <2>1
    <3> QED BY <1>1, <1>2, <2>2, <3>1
  <2>4. D[x] = <<x>> \o FlattenSeq(s)
    BY <1>2 DEF Listed
  <2> HIDE DEF s
  <2>5. SeqsUpTo(n, s, Nodes)
    BY <1>1, <1>2, <2>2, <2>3 DEF SeqsUpTo
  <2>6. Apart(n, s)
    <3>1. \A k \in 1..n : IsInjective(s[k])
      BY <1>4, <2>2, <2>3
    <3>2. ASSUME NEW j \in 1..n, NEW k \in 1..n, j # k, NEW y, y \in Range(s[j]), y \in Range(s[k])
          PROVE  FALSE
      <4>1. PICK b, c : b = kids[x][j] /\ c = kids[x][k]
        OBVIOUS
      <4>2. b # c
        BY <2>1, <3>2, <4>1 DEF IsInjective
      <4>3. b \in live /\ c \in live /\ par[b] = x /\ par[c] = x /\ y \in Nodes
        BY <1>1, <1>3, <2>2, <2>3, <3>2, <4>1
      <4>4. b \in UpFn(par)[y] /\ c \in UpFn(par)[y]
        BY <1>2, <2>3, <3>2, <4>1, <4>3
      <4> QED BY <1>1, <4>2, <4>3, <4>4, SiblingsApart
    <3> QED BY <3>1, <3>2 DEF Apart
  <2>7. IsInjective(FlattenSeq(s))
    BY <2>3, <2>5, <2>6, FlattenInjective
  <2>8. /\ FlattenSeq(s) \in Seq(Nodes)
        /\ \A y : y \in Range(FlattenSeq(s)) => \E k \in 1..n : y \in Range(s[k])
    BY <2>3, <2>5, FlattenUpTo
  <2>9. x \notin Range(FlattenSeq(s))
    <3> SUFFICES ASSUME NEW k \in 1..n, x \in Range(s[k]) PROVE FALSE
      BY <2>8
    <3>1. PICK c \in Range(kids[x]) : c = kids[x][k]
      BY <2>2
    <3>2. c \in live /\ c \in Nodes /\ d[x] < d[c] /\ c \in UpFn(par)[x]
      BY <1>1, <1>2, <2>3, <3>1
    <3>3. d[c] <= d[x]
      BY <1>1, <3>2, UpDepth
    <3> QED BY <1>1, <3>2, <3>3
  <2>10. IsInjective(<<x>> \o FlattenSeq(s))
    <3>1. PICK a, b : a = <<x>> /\ b = FlattenSeq(s)
      OBVIOUS
    <3>2. IsInjective(a) /\ Range(a) = {x} /\ a \in Seq(Nodes) /\ b \in Seq(Nodes)
      BY <2>8, <3>1 DEF IsInjective, Range
    <3>3. IsInjective(a \o b)
      BY <2>7, <2>9, <3>1, <3>2, ConcatInjective
    <3> QED BY <3>1, <3>3
  <2> QED BY <2>4, <2>10
<1>5. \A x \in Nodes : x \in T
  <2> HIDE DEF T
  <2> QED BY <1>4, HeightInduction
<1> QED BY <1>5 DEF D

----------------------------------------------------------------------------
\* GetDescendants.  Its stack holds the lists still to be written out, the next
\* one on top: with D the list of each instance that takes the children from the
\* last to the first, what remains to come is the lists of the stack, reversed.

\* When a sequence is the concatenation of two.
LEMMA ConcatIs ==
    ASSUME NEW U, NEW s \in Seq(U), NEW t \in Seq(U), NEW f \in Seq(U),
           Len(f) = Len(s) + Len(t), \A k \in 1..Len(s) : f[k] = s[k],
           \A k \in 1..Len(t) : f[Len(s) + k] = t[k]
    PROVE  f = s \o t
<1>1. PICK n \in Nat, m \in Nat : n = Len(s) /\ m = Len(t)
  OBVIOUS
<1>2. /\ s \o t \in Seq(U) /\ Len(s \o t) = n + m /\ Len(f) = n + m
      /\ \A k \in 1..n : f[k] = (s \o t)[k]
  BY <1>1
<1>3. \A k \in 1..m : f[n + k] = (s \o t)[n + k]
  BY <1>1
<1>4. \A k \in 1 .. n + m : k \in 1..n \/ \E i \in 1..m : k = n + i
  <2> SUFFICES ASSUME NEW k \in 1 .. n + m, k \notin 1..n PROVE \E i \in 1..m : k = n + i
    OBVIOUS
  <2>1. k - n \in 1..m /\ k = n + (k - n)
    OBVIOUS
  <2> QED BY <2>1
<1>5. PICK e, g : e = s \o t /\ g = f
  OBVIOUS
<1>6. \A k \in 1 .. n + m : g[k] = e[k]
  <2>1. (\A k \in 1..n : g[k] = e[k]) /\ \A k \in 1..m : g[n + k] = e[n + k]
    BY <1>2, <1>3, <1>5
  <2> QED BY <1>4, <2>1
<1>7. \A k \in 1..Len(f) : f[k] = (s \o t)[k]
  BY <1>2, <1>5, <1>6
<1> QED BY <1>2, <1>7, SeqEqual

\* The lists in D of the members of q, one after the other.
Poured(D, q) == FlattenSeq([k \in DOMAIN q |-> D[q[k]]])

ListsNodes(D) == \A x \in Nodes : D[x] \in Seq(Nodes)

LEMMA PouredTyped ==
    ASSUME NEW D, ListsNodes(D), NEW q \in Seq(Nodes)
    PROVE  /\ [k \in DOMAIN q |-> D[q[k]]] \in Seq(Seq(Nodes))
           /\ Poured(D, q) \in Seq(Nodes)
<1>1. PICK n \in Nat : DOMAIN q = 1..n /\ \A k \in 1..n : q[k] \in Nodes
  OBVIOUS
<1>2. [k \in DOMAIN q |-> D[q[k]]] = [k \in 1..n |-> D[q[k]]]
  BY <1>1
<1>3. [k \in DOMAIN q |-> D[q[k]]] \in Seq(Seq(Nodes))
  BY <1>1, <1>2 DEF ListsNodes
<1> QED BY <1>3, FlattenExact DEF Poured

LEMMA PouredConcat ==
    ASSUME NEW D, ListsNodes(D), NEW a \in Seq(Nodes), NEW b \in Seq(Nodes)
    PROVE  Poured(D, a \o b) = Poured(D, a) \o Poured(D, b)
<1> DEFINE Map(q) == [k \in DOMAIN q |-> D[q[k]]]
<1>1. PICK n \in Nat, m \in Nat : n = Len(a) /\ m = Len(b)
  OBVIOUS
<1>2. /\ DOMAIN (a \o b) = 1 .. n + m /\ DOMAIN a = 1..n /\ DOMAIN b = 1..m
      /\ \A k \in 1..n : (a \o b)[k] = a[k]
      /\ \A k \in 1..m : (a \o b)[n + k] = b[k]
  <2>1. \A k \in 1..m : (a \o b)[n + k] = b[k]
    BY <1>1
  <2> QED BY <1>1, <2>1
<1>3. /\ Map(a) \in Seq(Seq(Nodes)) /\ Map(b) \in Seq(Seq(Nodes))
      /\ Map(a \o b) \in Seq(Seq(Nodes))
  BY PouredTyped
<1>4. PICK S : S = Seq(Nodes)
  OBVIOUS
<1>5. PICK f, g, e : f = a /\ g = b /\ e = a \o b
  OBVIOUS
<1>6. /\ Map(e) = [k \in 1 .. n + m |-> D[e[k]]]
      /\ Map(f) = [k \in 1..n |-> D[f[k]]] /\ Map(g) = [k \in 1..m |-> D[g[k]]]
      /\ \A k \in 1..n : e[k] = f[k]
      /\ \A k \in 1..m : e[n + k] = g[k]
  BY <1>2, <1>5
<1>7. \A k \in 1..m : n + k \in 1 .. n + m
  OBVIOUS
<1>8. \A k \in 1..n : k \in 1 .. n + m
  OBVIOUS
<1>9. PICK s, t, u : s = Map(f) /\ t = Map(g) /\ u = Map(e)
  OBVIOUS
<1>10. /\ DOMAIN s = 1..n /\ DOMAIN t = 1..m /\ DOMAIN u = 1 .. n + m
       /\ (\A k \in 1..n : u[k] = s[k]) /\ \A k \in 1..m : u[n + k] = t[k]
  BY <1>6, <1>7, <1>8, <1>9
<1> HIDE DEF Map
<1>11. s \in Seq(S) /\ t \in Seq(S) /\ u \in Seq(S)
  BY <1>3, <1>4, <1>5, <1>9
<1>12. Len(s) = n /\ Len(t) = m /\ Len(u) = n + m
  BY <1>10, <1>11
<1>13. u = s \o t
  BY <1>10, <1>11, <1>12, ConcatIs
<1>14. FlattenSeq(s \o t) = FlattenSeq(s) \o FlattenSeq(t)
  <2>1. s \in Seq(Seq(Nodes)) /\ t \in Seq(Seq(Nodes))
    BY <1>4, <1>11
  <2> QED BY <2>1, FlattenConcat, Zenon
<1> QED BY <1>5, <1>9, <1>13, <1>14 DEF Poured, Map

LEMMA PouredOne ==
    ASSUME NEW D, ListsNodes(D), NEW x \in Nodes
    PROVE  Poured(D, <<x>>) = D[x]
<1>1. D[x] \in Seq(Nodes)
  BY DEF ListsNodes
<1>2. [k \in DOMAIN <<x>> |-> D[<<x>>[k]]] = <<D[x]>>
  OBVIOUS
<1> QED BY <1>1, <1>2, FlattenOne DEF Poured

LEMMA ReverseTyped ==
    ASSUME NEW U, NEW a \in Seq(U)
    PROVE  Reverse(a) \in Seq(U) /\ Len(Reverse(a)) = Len(a)
<1>1. PICK n \in Nat : n = Len(a)
  OBVIOUS
<1>2. Reverse(a) = [k \in 1..n |-> a[n - k + 1]]
  BY <1>1 DEF Reverse
<1>3. \A k \in 1..n : a[n - k + 1] \in U
  BY <1>1
<1> QED BY <1>1, <1>2, <1>3

LEMMA Reversed ==
    ASSUME NEW U, NEW a \in Seq(U), NEW b \in Seq(U)
    PROVE  /\ Reverse(a) \in Seq(U) /\ Range(Reverse(a)) = Range(a)
           /\ IsInjective(a) => IsInjective(Reverse(a))
           /\ Reverse(a \o b) = Reverse(b) \o Reverse(a)
<1>1. PICK n \in Nat, m \in Nat : n = Len(a) /\ m = Len(b)
  OBVIOUS
<1>2. Reverse(a) = [k \in 1..n |-> a[n - k + 1]] /\ DOMAIN a = 1..n
  BY <1>1 DEF Reverse
<1>3. \A k \in 1..n : n - k + 1 \in 1..n /\ n - (n - k + 1) + 1 = k /\ a[k] \in U
  BY <1>1
<1>4. Reverse(a) \in Seq(U) /\ Len(Reverse(a)) = n
  BY <1>2, <1>3
<1>5. Range(Reverse(a)) = Range(a)
  <2>1. PICK f, g : f = a /\ g = Reverse(a)
    OBVIOUS
  <2>2. /\ DOMAIN f = 1..n /\ DOMAIN g = 1..n
        /\ \A k \in 1..n : g[k] = f[n - k + 1] /\ f[k] = g[n - k + 1]
    BY <1>2, <1>3, <2>1
  <2>3. \A k \in 1..n : n - k + 1 \in 1..n
    BY <1>3
  <2>4. Range(g) = Range(f)
    BY <2>2, <2>3 DEF Range
  <2> QED BY <2>1, <2>4
<1>6. IsInjective(a) => IsInjective(Reverse(a))
  <2>1. PICK f, g : f = a /\ g = Reverse(a)
    OBVIOUS
  <2>2. /\ DOMAIN f = 1..n /\ DOMAIN g = 1..n
        /\ \A k \in 1..n : g[k] = f[n - k + 1]
    BY <1>2, <2>1
  <2>3. \A j, k \in 1..n : n - j + 1 = n - k + 1 => j = k
    OBVIOUS
  <2> QED BY <1>3, <2>1, <2>2, <2>3 DEF IsInjective
<1>7. Reverse(a \o b) = Reverse(b) \o Reverse(a)
  <2>1. Reverse(a \o b) = [k \in 1 .. n + m |-> (a \o b)[n + m - k + 1]]
    BY <1>1 DEF Reverse
  <2>2. Reverse(b) = [k \in 1..m |-> b[m - k + 1]] /\ Reverse(b) \in Seq(U) /\ Len(Reverse(b)) = m
    <3>1. Reverse(b) = [k \in 1..m |-> b[m - k + 1]]
      BY <1>1 DEF Reverse
    <3>2. \A k \in 1..m : b[m - k + 1] \in U
      BY <1>1
    <3> QED BY <3>1, <3>2
  <2>3. PICK s \in Seq(U), t \in Seq(U) : s = Reverse(b) /\ t = Reverse(a)
    BY <1>4, <2>2
  <2>4. \A k \in 1..m : Reverse(a \o b)[k] = s[k]
    <3> TAKE k \in 1..m
    <3>1. (a \o b)[n + (m - k + 1)] = b[m - k + 1]
      BY <1>1
    <3>2. n + (m - k + 1) = n + m - k + 1 /\ k \in 1 .. n + m
      OBVIOUS
    <3>3. s[k] = b[m - k + 1]
      BY <2>2, <2>3
    <3> QED BY <2>1, <3>1, <3>2, <3>3
  <2>5. \A i \in 1..n : Reverse(a \o b)[m + i] = t[i]
    <3> TAKE i \in 1..n
    <3>1. n + m - (m + i) + 1 = n - i + 1 /\ n - i + 1 \in 1..n /\ m + i \in 1 .. n + m
      OBVIOUS
    <3>2. (a \o b)[n - i + 1] = a[n - i + 1]
      BY <1>1, <3>1
    <3>3. t[i] = a[n - i + 1]
      BY <1>2, <2>3
    <3> QED BY <2>1, <3>1, <3>2, <3>3
  <2>6. Reverse(a \o b) \in Seq(U) /\ Len(Reverse(a \o b)) = n + m
    <3>1. a \o b \in Seq(U) /\ Len(a \o b) = n + m
      BY <1>1
    <3> QED BY <3>1, ReverseTyped
  <2>7. Len(s) = m /\ Len(t) = n
    BY <1>4, <2>2, <2>3
  <2>8. PICK r : r = Reverse(a \o b)
    OBVIOUS
  <2>9. /\ r \in Seq(U) /\ Len(r) = Len(s) + Len(t)
        /\ \A k \in 1..Len(s) : r[k] = s[k]
        /\ \A k \in 1..Len(t) : r[Len(s) + k] = t[k]
    BY <2>4, <2>5, <2>6, <2>7, <2>8
  <2>10. r = s \o t
    BY <2>9, ConcatIs
  <2> QED BY <2>3, <2>8, <2>10
<1> QED BY <1>4, <1>5, <1>6, <1>7
\* The recursive function of GetDescendants.
Popped ==
    CHOOSE out : out = [stack \in Seq(Nodes) |->
        IF stack = << >> THEN << >>
        ELSE LET n == stack[Len(stack)]
             IN  <<n>> \o out[SubSeq(stack, 1, Len(stack) - 1) \o GetChildren(n)]]

LEMMA DescendantsPopped == \A i : GetDescendants(i) = Popped[GetChildren(i)]
BY Zenon DEF GetDescendants, Popped

\* The live children, the last one first.
LastFirst == [x \in Nodes |-> Reverse(GetChildren(x))]

LEMMA LastFirstForest ==
    ASSUME TreeInv, Depths(parent)
    PROVE  /\ \E d, M : Forest(parent, LastFirst, d, M) /\ Ranked(parent, d)
           /\ Listing(parent, LastFirst, alive)
           /\ \A x \in Nodes : /\ GetChildren(x) \in Seq(Nodes)
                               /\ Range(GetChildren(x)) = Range(children[x])
                               /\ IsInjective(LastFirst[x])
                               /\ LastFirst[x] = Reverse(GetChildren(x))
<1>1. PICK d, M : Forest(parent, children, d, M) /\ Ranked(parent, d)
  BY TreeIsForest
<1>2. Listing(parent, children, alive)
  BY TreeIsForest
<1>3. /\ children \in [Nodes -> Seq(Nodes)] /\ alive \subseteq Nodes
      /\ \A x \in Nodes : children[x] \in Seq(Nodes) /\ Range(children[x]) \subseteq alive
  BY <1>1, <1>2 DEF Forest, Listing
<1>4. \A x \in Nodes : IsInjective(children[x])
  <2> TAKE x \in Nodes
  <2>1. CASE x \in born
    BY <2>1 DEF TreeInv, ChildrenMatchParents
  <2>2. CASE x \notin born
    BY <2>2 DEF TreeInv, Unborn, IsInjective
  <2> QED BY <2>1, <2>2
<1>5. ASSUME NEW x \in Nodes
      PROVE  /\ GetChildren(x) \in Seq(Nodes) /\ Range(GetChildren(x)) = Range(children[x])
             /\ LastFirst[x] = Reverse(GetChildren(x))
             /\ LastFirst[x] \in Seq(Nodes) /\ Range(LastFirst[x]) = Range(children[x])
             /\ IsInjective(LastFirst[x])
  <2>1. PICK q : q = GetChildren(x)
    OBVIOUS
  <2>2. q \in Seq(Nodes) /\ Range(q) = Range(children[x]) /\ IsInjective(q)
    <3>1. PICK v \in Seq(Nodes) : v = children[x]
      BY <1>3
    <3>2. /\ Only(v, alive) \in Seq(Nodes) /\ Range(Only(v, alive)) = Range(v) \cap alive
          /\ IsInjective(v) => IsInjective(Only(v, alive))
      BY OnlyExact
    <3> QED BY <1>3, <1>4, <2>1, <3>1, <3>2 DEF GetChildren
  <2>3. Reverse(q) \in Seq(Nodes) /\ Range(Reverse(q)) = Range(q) /\ IsInjective(Reverse(q))
    BY <2>2, Reversed
  <2>4. LastFirst[x] = Reverse(q)
    BY <2>1 DEF LastFirst
  <2> QED BY <2>1, <2>2, <2>3, <2>4
<1>6. LastFirst \in [Nodes -> Seq(Nodes)]
  <2>1. LastFirst = [x \in Nodes |-> LastFirst[x]]
    BY DEF LastFirst
  <2> QED BY <1>5, <2>1
<1>7. Forest(parent, LastFirst, d, M)
  BY <1>1, <1>5, <1>6 DEF Forest
<1>8. Listing(parent, LastFirst, alive)
  BY <1>2, <1>5, TreeIsForest DEF Listing, IsParent
<1> QED BY <1>1, <1>5, <1>7, <1>8

\* D gives each instance the list of what is at and below it, the last child first.
ListsLastFirst(D) ==
    /\ ListsNodes(D)
    /\ \A x \in Nodes : /\ GetChildren(x) \in Seq(Nodes)
                        /\ D[x] = <<x>> \o Poured(D, Reverse(GetChildren(x)))

\* What a stack with x on top stands for: x, and what the next stack stands for.
LEMMA PopStep ==
    ASSUME NEW D, ListsLastFirst(D), NEW front \in Seq(Nodes), NEW x \in Nodes
    PROVE  /\ front \o GetChildren(x) \in Seq(Nodes)
           /\ Poured(D, Reverse(front \o GetChildren(x))) \in Seq(Nodes)
           /\ Poured(D, Reverse(Append(front, x)))
                = <<x>> \o Poured(D, Reverse(front \o GetChildren(x)))
<1>1. PICK gc \in Seq(Nodes) : gc = GetChildren(x)
  BY DEF ListsLastFirst
<1>2. ListsNodes(D) /\ D[x] = <<x>> \o Poured(D, Reverse(gc))
  BY <1>1 DEF ListsLastFirst
<1>3. /\ Reverse(gc) \in Seq(Nodes) /\ Reverse(front) \in Seq(Nodes)
      /\ front \o gc \in Seq(Nodes) /\ Reverse(front \o gc) \in Seq(Nodes)
      /\ Reverse(front \o gc) = Reverse(gc) \o Reverse(front)
  <2>1. front \o gc \in Seq(Nodes)
    OBVIOUS
  <2>2. Reverse(front \o gc) = Reverse(gc) \o Reverse(front)
    BY Reversed
  <2> QED BY <2>1, <2>2, ReverseTyped
<1>4. PICK top \in Seq(Nodes) : top = <<x>>
  <2>1. <<x>> \in Seq(Nodes)
    OBVIOUS
  <2> QED BY <2>1
<1>5. Append(front, x) = front \o top /\ Reverse(top) = top
  BY <1>4 DEF Reverse
<1>6. Reverse(front \o top) = top \o Reverse(front)
  <2>1. Reverse(front \o top) = Reverse(top) \o Reverse(front)
    BY Reversed
  <2> QED BY <1>5, <2>1
<1>7. Poured(D, top \o Reverse(front)) = D[x] \o Poured(D, Reverse(front))
  <2>1. PICK r \in Seq(Nodes) : r = Reverse(front)
    BY <1>3
  <2>2. Poured(D, top \o r) = Poured(D, top) \o Poured(D, r)
    BY <1>2, PouredConcat
  <2>3. Poured(D, top) = D[x]
    BY <1>2, <1>4, PouredOne
  <2> QED BY <2>1, <2>2, <2>3
<1>8. Poured(D, Reverse(gc) \o Reverse(front)) = Poured(D, Reverse(gc)) \o Poured(D, Reverse(front))
  <2>1. PICK r \in Seq(Nodes), s \in Seq(Nodes) : r = Reverse(front) /\ s = Reverse(gc)
    BY <1>3
  <2>2. Poured(D, s \o r) = Poured(D, s) \o Poured(D, r)
    BY <1>2, PouredConcat
  <2> QED BY <2>1, <2>2
<1>9. /\ Poured(D, Reverse(gc)) \in Seq(Nodes) /\ Poured(D, Reverse(front)) \in Seq(Nodes)
      /\ Poured(D, Reverse(front \o gc)) \in Seq(Nodes)
  BY <1>2, <1>3, PouredTyped
<1>10. PICK p \in Seq(Nodes), q \in Seq(Nodes) :
         p = Poured(D, Reverse(gc)) /\ q = Poured(D, Reverse(front))
  BY <1>9
<1>11. (top \o p) \o q = top \o (p \o q)
  OBVIOUS
<1> QED BY <1>1, <1>2, <1>3, <1>4, <1>5, <1>6, <1>7, <1>8, <1>9, <1>10, <1>11

\* Popping ends, and what it writes out is what the stack stood for.
LEMMA PoppedExact ==
    ASSUME NEW D, ListsLastFirst(D)
    PROVE  \A stack \in Seq(Nodes) : Popped[stack] = Poured(D, Reverse(stack))
<1> DEFINE G(stack) == Poured(D, Reverse(stack))
           After(stack) == SubSeq(stack, 1, Len(stack) - 1) \o GetChildren(stack[Len(stack)])
           Solves(out) == out = [stack \in Seq(Nodes) |->
               IF stack = << >> THEN << >>
               ELSE LET n == stack[Len(stack)]
                    IN  <<n>> \o out[SubSeq(stack, 1, Len(stack) - 1) \o GetChildren(n)]]
<1>1. G(<< >>) = << >>
  <2>1. Reverse(<< >>) = << >>
    BY DEF Reverse
  <2>2. Poured(D, << >>) = << >>
    BY DEF Poured, FlattenSeq
  <2> QED BY <2>1, <2>2
<1>2. ASSUME NEW stack \in Seq(Nodes), stack # << >>
      PROVE  /\ After(stack) \in Seq(Nodes) /\ G(After(stack)) \in Seq(Nodes)
             /\ G(stack) = <<stack[Len(stack)]>> \o G(After(stack))
             /\ stack[Len(stack)] \in Nodes
  <2>1. SubSeq(stack, 1, Len(stack) - 1) \in Seq(Nodes) /\ stack[Len(stack)] \in Nodes
    BY <1>2
  <2>2. PICK front, x : front = SubSeq(stack, 1, Len(stack) - 1) /\ x = stack[Len(stack)]
    OBVIOUS
  <2>3. stack = Append(front, x)
    BY <1>2, <2>2
  <2>4. front \in Seq(Nodes) /\ x \in Nodes
    BY <2>1, <2>2
  <2>5. /\ front \o GetChildren(x) \in Seq(Nodes)
        /\ Poured(D, Reverse(front \o GetChildren(x))) \in Seq(Nodes)
        /\ Poured(D, Reverse(Append(front, x)))
             = <<x>> \o Poured(D, Reverse(front \o GetChildren(x)))
    BY <2>4, PopStep
  <2> QED BY <2>2, <2>3, <2>4, <2>5
<1>3. \E out : Solves(out)
  <2> DEFINE g == [stack \in Seq(Nodes) |-> G(stack)]
  <2>1. ASSUME NEW stack \in Seq(Nodes)
        PROVE  G(stack) = IF stack = << >> THEN << >>
                          ELSE <<stack[Len(stack)]>> \o g[After(stack)]
    <3> HIDE DEF G, After
    <3> QED BY <1>1, <1>2
  <2>2. Solves(g)
    <3> HIDE DEF G
    <3> QED BY <2>1
  <2> QED BY <2>2
<1>4. Solves(Popped)
  BY <1>3, Zenon DEF Popped
<1>5. \A stack \in Seq(Nodes) :
        Popped[stack] = IF stack = << >> THEN << >>
                        ELSE <<stack[Len(stack)]>> \o Popped[After(stack)]
  BY <1>4, Zenon
<1> HIDE DEF G, After, Solves
<1> DEFINE Bad == {m \in Nat : \E stack \in Seq(Nodes) :
                     Popped[stack] # G(stack) /\ Len(G(stack)) = m}
<1>6. Bad = {}
  <2> SUFFICES ASSUME Bad # {} PROVE FALSE
    OBVIOUS
  <2>1. PICK m \in Bad : \A k \in Bad : m <= k
    <3>1. Bad \subseteq Nat
      OBVIOUS
    <3> HIDE DEF Bad
    <3> QED BY <3>1, LeastNatural
  <2>2. PICK stack \in Seq(Nodes) : Popped[stack] # G(stack) /\ Len(G(stack)) = m
    BY <2>1
  <2>3. stack # << >>
    BY <1>1, <1>5, <2>2
  <2>4. PICK x, next, rest : x = stack[Len(stack)] /\ next = After(stack) /\ rest = G(next)
    OBVIOUS
  <2>5. next \in Seq(Nodes) /\ rest \in Seq(Nodes) /\ G(stack) = <<x>> \o rest /\ x \in Nodes
    BY <1>2, <2>3, <2>4
  <2>6. Len(rest) \in Nat /\ Len(rest) < m
    <3>1. Len(<<x>> \o rest) = 1 + Len(rest) /\ Len(rest) \in Nat
      BY <2>5
    <3> QED BY <2>2, <2>5, <3>1
  <2>7. Len(rest) \notin Bad
    BY <2>1, <2>6
  <2>8. Popped[next] = rest
    BY <2>4, <2>5, <2>6, <2>7
  <2> QED BY <1>5, <2>2, <2>3, <2>4, <2>5, <2>8
<1>7. ASSUME NEW stack \in Seq(Nodes) PROVE Popped[stack] = G(stack)
  <2>1. G(stack) \in Seq(Nodes)
    <3>1. CASE stack = << >>
      BY <1>1, <3>1
    <3>2. CASE stack # << >>
      <4>1. PICK x \in Nodes, rest \in Seq(Nodes) : G(stack) = <<x>> \o rest
        BY <1>2, <3>2
      <4> QED BY <4>1
    <3> QED BY <3>1, <3>2
  <2>2. Len(G(stack)) \in Nat
    BY <2>1
  <2> QED BY <1>6, <2>2
<1> QED BY <1>7 DEF G
\* What GetDescendants returns is the list that visits the last child first,
\* without the instance itself.
LEMMA DescendantsListed ==
    ASSUME TreeInv, Depths(parent), NEW i \in Nodes
    PROVE  /\ GetDescendants(i) \in Seq(Nodes)
           /\ DescFn(LastFirst)[i] = <<i>> \o GetDescendants(i)
<1> DEFINE D == DescFn(LastFirst)
<1>1. PICK d, M : Forest(parent, LastFirst, d, M)
  BY LastFirstForest
<1>2. \A x \in Nodes : D[x] \in Seq(Nodes) /\ D[x] = Listed(LastFirst, D, x)
  BY <1>1, DescExact, DescRecursion
<1>3. \A x \in Nodes : GetChildren(x) \in Seq(Nodes) /\ LastFirst[x] = Reverse(GetChildren(x))
  BY LastFirstForest
<1> HIDE DEF D
<1>4. \A x \in Nodes : Listed(LastFirst, D, x) = <<x>> \o Poured(D, LastFirst[x])
  BY DEF Listed, Poured
<1>5. ListsLastFirst(D)
  BY <1>2, <1>3, <1>4 DEF ListsLastFirst, ListsNodes
<1>6. GetDescendants(i) = Poured(D, Reverse(GetChildren(i)))
  BY <1>3, <1>5, DescendantsPopped, PoppedExact
<1>7. Poured(D, Reverse(GetChildren(i))) \in Seq(Nodes)
  <2>1. Reverse(GetChildren(i)) \in Seq(Nodes)
    BY <1>3, ReverseTyped
  <2> QED BY <1>5, <2>1, PouredTyped DEF ListsLastFirst
<1> QED BY <1>2, <1>3, <1>4, <1>6, <1>7 DEF D

LEMMA DescendantsExact ==
    ASSUME TreeInv, Depths(parent), NEW i \in alive
    PROVE  /\ GetDescendants(i) \in Seq(Nodes)
           /\ IsInjective(GetDescendants(i))
           /\ Range(GetDescendants(i)) = {j \in born : IsDescendantOf(j, i)}
<1>1. PICK d, M : Forest(parent, LastFirst, d, M)
  BY LastFirstForest
<1>2. /\ Listing(parent, LastFirst, alive) /\ \A x \in Nodes : IsInjective(LastFirst[x])
      /\ i \in Nodes
  BY LastFirstForest DEF Listing
<1>3. /\ IsInjective(DescFn(LastFirst)[i])
      /\ \A j \in Nodes : j \in Range(DescFn(LastFirst)[i]) <=> i \in UpFn(parent)[j]
  BY <1>1, <1>2, DescInjective, DescIsUp
<1>4. PICK a \in Seq(Nodes), b \in Seq(Nodes) : a = <<i>> /\ b = GetDescendants(i)
  <2>1. <<i>> \in Seq(Nodes)
    BY <1>2
  <2> QED BY <1>2, <2>1, DescendantsListed
<1>5. /\ Range(a \o b) = {i} \cup Range(b) /\ Range(b) \subseteq Nodes
      /\ IsInjective(a \o b) => IsInjective(b) /\ i \notin Range(b)
  <2>1. PICK n \in Nat : n = Len(b)
    BY <1>4
  <2>2. /\ Range(a \o b) = Range(a) \cup Range(b)
        /\ Range(b) \subseteq Nodes
    <3>1. Range(a \o b) = Range(a) \cup Range(b)
      BY RangeConcatenation
    <3>2. Range(b) \subseteq Nodes
      BY DEF Range
    <3> QED BY <3>1, <3>2
  <2>3. Range(a) = {i}
    BY <1>4 DEF Range
  <2>4. \A k \in 1..n : (a \o b)[1 + k] = b[k] /\ 1 + k \in DOMAIN (a \o b) /\ 1 + k # 1
    BY <1>4, <2>1
  <2>5. (a \o b)[1] = i /\ 1 \in DOMAIN (a \o b) /\ DOMAIN b = 1..n
    BY <1>4, <2>1
  <2>6. PICK e, g : e = a \o b /\ g = b
    OBVIOUS
  <2>7. IsInjective(e) => IsInjective(g) /\ i \notin Range(g)
    <3>1. \A k \in 1..n : e[1 + k] = g[k] /\ 1 + k \in DOMAIN e /\ 1 + k # 1
      BY <2>4, <2>6
    <3>2. e[1] = i /\ 1 \in DOMAIN e /\ DOMAIN g = 1..n
      BY <2>5, <2>6
    <3>3. \A j, k \in 1..n : 1 + j = 1 + k => j = k
      OBVIOUS
    <3> QED BY <3>1, <3>2, <3>3 DEF IsInjective, Range
  <2> QED BY <2>2, <2>3, <2>6, <2>7
<1>6. DescFn(LastFirst)[i] = a \o b
  BY <1>2, <1>4, DescendantsListed
<1>7. \A j \in Nodes : j \in Range(b) <=> j # i /\ i \in UpFn(parent)[j]
  BY <1>3, <1>5, <1>6
<1>8. \A j \in Nodes : j # i /\ i \in UpFn(parent)[j] => j \in born
  <2>1. \A j \in Nodes : UpFn(parent)[j] = {j} \cup UpFn(parent)[parent[j]] /\ UpFn(parent)[Nil] = {}
    BY TreeIsForest, UpRecursion
  <2> QED BY <2>1 DEF TreeInv, Unborn
<1>9. \A j : IsDescendantOf(j, i) <=> j # i /\ i \in UpFn(parent)[j]
  BY RecursionsNamed DEF IsDescendantOf
<1>10. Range(b) = {j \in born : IsDescendantOf(j, i)}
  BY <1>5, <1>7, <1>8, <1>9 DEF TreeInv, TreeType
<1> QED BY <1>3, <1>4, <1>5, <1>6, <1>10

\* GetDescendants (Instance.cpp:243-257), which follows Children, and
\* IsDescendantOf (:289-294), which follows Parent, agree in every state, and
\* the loop over the stack lists no instance twice.
THEOREM DescendantsCorrect == Spec => []DescendantsAgree
<1>1. TreeInvariant => DescendantsAgree
  BY DescendantsExact DEF TreeInvariant, IInv, CacheInv, DescendantsAgree
<1> QED BY <1>1, TreeInvariantHolds, PTL

\* A recursive FindFirstChild finds an instance below exactly when there is one
\* of that name, whatever the index has lost (ScriptingAPI.cpp:377-389).
THEOREM RecursiveFindCorrect == Spec => []RecursiveFindExact
<1>1. TreeInvariant => RecursiveFindExact
  <2> SUFFICES ASSUME TreeInvariant, NEW i \in alive, NEW n \in Names
               PROVE  LET below  == {d \in alive : IsDescendantOf(d, i)}
                          found  == FindFirstChild(i, n, TRUE)
                          called == {d \in below : name[d] = n}
                      IN  IF called = {} THEN found = Nil ELSE found \in called
    BY DEF RecursiveFindExact
  <2> DEFINE called == {d \in {d \in alive : IsDescendantOf(d, i)} : name[d] = n}
             found  == FindFirstChild(i, n, TRUE)
             deep   == Only(GetDescendants(i), {d \in alive : name[d] = n})
  <2>1. /\ TreeInv /\ Depths(parent) /\ alive \subseteq born /\ born \subseteq Nodes
        /\ i \in Nodes /\ Nil \notin Nodes /\ i # Nil
    BY TreeAssumption DEF TreeInvariant, IInv, CacheInv, TreeInv, TreeType
  <2>2. /\ GetDescendants(i) \in Seq(Nodes)
        /\ Range(GetDescendants(i)) = {j \in born : IsDescendantOf(j, i)}
    BY <2>1, DescendantsExact
  <2>3. deep \in Seq(Nodes) /\ Range(deep) = called
    <3>1. PICK q \in Seq(Nodes) : q = GetDescendants(i)
      BY <2>2
    <3>2. /\ Only(q, {d \in alive : name[d] = n}) \in Seq(Nodes)
          /\ Range(Only(q, {d \in alive : name[d] = n})) = Range(q) \cap {d \in alive : name[d] = n}
      BY OnlyExact
    <3> QED BY <2>1, <2>2, <3>1, <3>2
  <2>4. deep = << >> <=> called = {}
    <3>1. PICK q \in Seq(Nodes) : q = deep
      BY <2>3
    <3>2. q # << >> => Head(q) \in Range(q)
      BY DEF Range
    <3>3. Range(<< >>) = {}
      BY DEF Range
    <3> QED BY <2>3, <3>1, <3>2, <3>3
  <2>5. deep # << >> => Head(deep) \in called
    <3>1. PICK q \in Seq(Nodes) : q = deep
      BY <2>3
    <3>2. q # << >> => Head(q) \in Range(q)
      BY DEF Range
    <3> QED BY <2>3, <3>1, <3>2
  <2>6. byName[i][n] # Nil => byName[i][n] \in called
    <3> SUFFICES ASSUME NEW c, c = byName[i][n], c # Nil PROVE c \in called
      OBVIOUS
    <3>1. c \in Range(children[i]) /\ name[c] = n
      BY <2>1 DEF TreeInv, IndexSound
    <3>2. c \in alive /\ parent[c] = i
      BY <2>1, <3>1 DEF TreeInv, ChildrenMatchParents
    <3>3. /\ UpFn(parent)[c] = {c} \cup UpFn(parent)[i] /\ UpFn(parent)[i] = {i} \cup UpFn(parent)[parent[i]]
      BY <2>1, <3>2, TreeIsForest, UpRecursion
    <3>4. c # i
      <4>1. PICK d : Ranked(parent, d)
        BY <2>1, TreeIsForest
      <4>2. d[i] \in Nat /\ d[parent[c]] < d[c]
        BY <2>1, <3>2, <4>1 DEF Ranked
      <4> QED BY <3>2, <4>2
    <3> QED BY <3>1, <3>2, <3>3, <3>4, RecursionsNamed DEF IsDescendantOf
  <2>7. found = IF byName[i][n] # Nil \/ deep = << >> THEN byName[i][n] ELSE Head(deep)
    BY DEF FindFirstChild
  <2> HIDE DEF deep, found, called
  <2>8. IF called = {} THEN found = Nil ELSE found \in called
    BY <2>4, <2>5, <2>6, <2>7
  <2> QED BY <2>8 DEF found, called
<1> QED BY <1>1, TreeInvariantHolds, PTL

=============================================================================
