---------------------------- MODULE InstanceTree ----------------------------
(***************************************************************************)
(* The tree of instances (src/librebox/bootstrap/Instance.cpp) under the   *)
(* Workspace service: child vectors, back-pointers to parents, the index   *)
(* of children by name, and the caches the Workspace keeps of the parts    *)
(* and the camera below it, for the renderer and the main loop.            *)
(*                                                                         *)
(* An operation a Lua program calls is one action, except Destroy and      *)
(* ClearAllChildren: they recurse while the vectors they walk change, so   *)
(* each loop iteration is an action and frames is their call stack.        *)
(*                                                                         *)
(* Instances are model values.  None is freed: Luau never calls the __gc   *)
(* metamethod by which a userdata would give up its pointer                *)
(* (ScriptingAPI.cpp:183), and the programs modelled here hold a userdata  *)
(* of every instance.                                                      *)
(***************************************************************************)
EXTENDS Vectors, SequencesExt

CONSTANTS
    workspace,  \* the Workspace service; its parent, game, is not modelled
    Parts,      \* instances of class Part
    Cameras,    \* instances of class Camera
    Others,     \* instances of the other classes: scripts
    Names,
    Nil

Nodes == {workspace} \cup Parts \cup Cameras \cup Others

ASSUME TreeAssumption ==
    /\ Names # {} /\ Nil \notin Nodes
    /\ workspace \notin Parts \cup Cameras \cup Others
    /\ Parts \cap Cameras = {} /\ Others \cap (Parts \cup Cameras) = {}

VARIABLES
    born,       \* instances in memory
    alive,      \* Alive: not destroyed
    name,       \* Name
    parent,     \* Parent; a weak pointer
    children,   \* Children
    byName,     \* ChildrenByName, Nil for a name that has no entry
    parts,      \* Workspace::parts, as the number of occurrences of each part
    camera,     \* Workspace::camera
    frames,     \* calls of Destroy and ClearAllChildren that are under way
    doomed      \* history: what was below the instance when the first began

tree  == <<born, alive, name, parent, children, byName>>
cache == <<parts, camera>>
calls == <<frames, doomed>>
vars  == <<tree, cache, calls>>

Idle == frames = << >>

----------------------------------------------------------------------------
\* The instances at and below i, in the order in which they are visited.
forEachDesc(i) ==
    LET from[x \in Nodes] ==
            <<x>> \o FlattenSeq([k \in DOMAIN children[x] |-> from[children[x][k]]])
    IN  from[i]

\* i and its ancestors, up the Parent pointers.
Upwards(i) ==
    LET up[x \in Nodes \cup {Nil}] == IF x = Nil THEN {} ELSE {x} \cup up[parent[x]]
    IN  up[i]

InWorkspace(p) == workspace \in Upwards(p)

\* Mutant: only the instance that moves is reported, not what is below it.
NotifiedAlone(i) == <<i>>

\* What the DescendantAdded and DescendantRemoved callbacks are called with.
Notified(i) == forEachDesc(i)

\* Workspace's callback for DescendantRemoved, called for each in turn.
PartsWithout(i) ==
    LET told == Range(Notified(i))
    IN  [q \in Parts |-> IF q \in told /\ parts[q] > 0 THEN parts[q] - 1 ELSE parts[q]]

CameraWithout(i) == IF camera \in Range(Notified(i)) THEN Nil ELSE camera

\* Workspace's callback for DescendantAdded.
PartsWith(ps, i) ==
    LET told == Range(Notified(i))
    IN  [q \in Parts |-> IF q \in told THEN ps[q] + 1 ELSE ps[q]]

\* Mutant: whatever comes last is taken for the camera.
CameraLatest(cam, i) == Notified(i)[Len(Notified(i))]

\* The first camera stays.
CameraWith(cam, i) ==
    LET cams == Only(Notified(i), Cameras)
    IN  IF cam = Nil /\ cams # << >> THEN Head(cams) ELSE cam

\* Mutant: the entry stays when the child leaves or is renamed.
EntryKept(index, i) == index

\* The entry for i under its present name goes, unless it is another child's.
Unindexed(index, i) ==
    IF index[name[i]] = i THEN [index EXCEPT ![name[i]] = Nil] ELSE index

\* Mutant: the child vector of the old parent keeps the child.
ChildKept(kids, i) == kids

ChildRemoved(kids, i) == Without(kids, i)

DetachedChildren(i) ==
    IF parent[i] = Nil THEN children
    ELSE [children EXCEPT ![parent[i]] = ChildRemoved(@, i)]

DetachedIndex(i) ==
    IF parent[i] = Nil THEN byName ELSE [byName EXCEPT ![parent[i]] = Unindexed(@, i)]

----------------------------------------------------------------------------
NoIndex == [n \in Names |-> Nil]

\* After Game::Init: a Workspace with one camera, which has been given its name.
Init ==
    \E first \in Cameras, n \in Names :
      /\ born = {workspace, first} /\ alive = born
      /\ name = [x \in Nodes |-> n]
      /\ parent = [x \in Nodes |-> IF x = first THEN workspace ELSE Nil]
      /\ children = [x \in Nodes |-> IF x = workspace THEN <<first>> ELSE << >>]
      /\ byName = [x \in Nodes |-> IF x = workspace THEN [NoIndex EXCEPT ![n] = first]
                                   ELSE NoIndex]
      /\ parts = [q \in Parts |-> 0] /\ camera = first
      /\ frames = << >> /\ doomed = {}

\* Instance.new
New(i) ==
    /\ Idle /\ i \notin born
    /\ born' = born \cup {i} /\ alive' = alive \cup {i}
    /\ \E n \in Names : name' = [name EXCEPT ![i] = n]
    /\ UNCHANGED <<parent, children, byName, cache, calls>>

\* The call returns only if p is neither i nor below it: it walks up the parents
\* of p until they end.  A service stays where it is.  p may have been
\* destroyed: the setter checks i only.  Remove is SetParent(i, Nil).
SetParent(i, p) ==
    /\ Idle /\ i \in alive \ {workspace}
    /\ p \in born \cup {Nil} /\ i \notin Upwards(p)
    /\ parent' = [parent EXCEPT ![i] = p]
    /\ children' = IF p = Nil THEN DetachedChildren(i)
                   ELSE [DetachedChildren(i) EXCEPT ![p] = Append(@, i)]
    /\ byName' = IF p = Nil THEN DetachedIndex(i)
                 ELSE [DetachedIndex(i) EXCEPT ![p][name[i]] = i]
    /\ LET from == InWorkspace(parent[i])
           ps   == IF from THEN PartsWithout(i) ELSE parts
           cam  == IF from THEN CameraWithout(i) ELSE camera
       IN  /\ parts'  = IF InWorkspace(p) THEN PartsWith(ps, i) ELSE ps
           /\ camera' = IF InWorkspace(p) THEN CameraWith(cam, i) ELSE cam
    /\ UNCHANGED <<born, alive, name, calls>>

\* The write of Name from Lua, which repeats SetName.
SetName(i, n) ==
    /\ Idle /\ i \in alive /\ n # name[i]
    /\ name' = [name EXCEPT ![i] = n]
    /\ byName' = IF parent[i] = Nil THEN byName ELSE [DetachedIndex(i) EXCEPT ![parent[i]][n] = i]
    /\ UNCHANGED <<born, alive, parent, children, cache, calls>>

----------------------------------------------------------------------------
\* Destroy and ClearAllChildren.

\* A loop over the Children of at: over a copy of them, or over the vector
\* itself, whose end was read before the first iteration.
Frame(at, copied) ==
    [at |-> at, copied |-> copied, kids |-> children[at], i |-> 1]

\* The child the loop is at.  Past the end of a vector that has shrunk lies a
\* null pointer: shared_ptr's move assignment nulls what remove() moves from.
Current(f) ==
    IF f.copied THEN f.kids[f.i]
    ELSE IF f.i <= Len(children[f.at]) THEN children[f.at][f.i] ELSE Nil

\* Destroy of a live instance up to its loop: it is detached and its former
\* ancestors are told, then it walks its children.
Enter(i) ==
    /\ alive' = alive \ {i}
    /\ children' = DetachedChildren(i)
    /\ byName' = DetachedIndex(i)
    /\ parts'  = IF InWorkspace(parent[i]) THEN PartsWithout(i) ELSE parts
    /\ camera' = IF InWorkspace(parent[i]) THEN CameraWithout(i) ELSE camera
    /\ parent' = [parent EXCEPT ![i] = Nil]
    /\ UNCHANGED <<born, name>>

\* Of a destroyed instance Destroy does nothing.
Destroy(i) ==
    /\ Idle /\ i \in alive
    /\ Enter(i)
    /\ frames' = <<Frame(i, FALSE)>>
    /\ doomed' = Range(forEachDesc(i))

\* Without children there is only the index to clear.
ClearAllChildren(i) ==
    /\ Idle /\ i \in alive
    /\ \/ /\ children[i] # << >>
          /\ frames' = <<Frame(i, TRUE)>>
          /\ doomed' = Range(forEachDesc(i)) \ {i}
          /\ UNCHANGED tree
       \/ /\ children[i] = << >>
          /\ byName' = [byName EXCEPT ![i] = NoIndex]
          /\ UNCHANGED <<born, alive, name, parent, children, calls>>
    /\ UNCHANGED cache

Top == frames[Len(frames)]
Below == SubSeq(frames, 1, Len(frames) - 1)
Advanced == Append(Below, [Top EXCEPT !.i = @ + 1])
AtEnd == Top.i > Len(Top.kids)

DestroyChild ==
    /\ ~ Idle /\ ~ AtEnd
    /\ LET c == Current(Top)
       IN  \/ /\ c \in alive
              /\ Enter(c)
              /\ frames' = Append(Advanced, Frame(c, FALSE))
           \/ /\ c \notin alive
              /\ frames' = Advanced
              /\ UNCHANGED <<tree, cache>>
    /\ UNCHANGED doomed

Return ==
    /\ ~ Idle /\ AtEnd
    /\ children' = [children EXCEPT ![Top.at] = << >>]
    /\ byName' = [byName EXCEPT ![Top.at] = NoIndex]
    /\ frames' = Below
    /\ doomed' = IF Below = << >> THEN {} ELSE doomed
    /\ UNCHANGED <<born, alive, name, parent, cache>>

----------------------------------------------------------------------------
\* Mutant: the index of the copies is left empty.
CopiedIndexEmpty(kids, copy) == NoIndex

\* The index of a copy: the children enter it in order, the last of a name stays.
CopiedIndex(kids, copy) ==
    [n \in Names |->
        LET at == {k \in DOMAIN kids : name[kids[k]] = n}
        IN  IF at = {} THEN Nil ELSE copy[kids[CHOOSE k \in at : \A m \in at : m <= k]]]

\* What Clone copies: i, and the live children of what it copies.
Cloned(i) ==
    {x \in Nodes : \A A \in SUBSET Nodes :
        i \in A /\ (\A y \in A : Range(children[y]) \cap alive \subseteq A) => x \in A}

\* Clone of an instance that is not a service: each gets a copy of its own, and
\* the copy of i has no parent.  The recursion ends only if i is not below itself.
Clone(i) ==
    /\ Idle /\ i \in alive \ {workspace} /\ born # Nodes
    /\ LET live  == Cloned(i)
           Up(x) == CHOOSE w \in live : x \in Range(children[w])
       IN  /\ \A x \in live : i \notin Range(children[x])
           /\ \E copy \in Injection(live, Nodes \ born) :
                LET Of(y)   == CHOOSE x \in live : copy[x] = y
                    Kids(y) == Only(children[Of(y)], alive)
                    new     == Range(copy)
                IN  /\ \A x \in live, kind \in {Parts, Cameras, Others} :
                         x \in kind <=> copy[x] \in kind
                    /\ born' = born \cup new /\ alive' = alive \cup new
                    /\ name' = [y \in Nodes |-> IF y \in new THEN name[Of(y)] ELSE name[y]]
                    /\ parent' = [y \in Nodes |->
                           IF y \in new \ {copy[i]} THEN copy[Up(Of(y))] ELSE parent[y]]
                    /\ children' = [y \in Nodes |->
                           IF y \in new THEN [k \in DOMAIN Kids(y) |-> copy[Kids(y)[k]]]
                           ELSE children[y]]
                    /\ byName' = [y \in Nodes |->
                           IF y \in new THEN CopiedIndex(Kids(y), copy) ELSE byName[y]]
    /\ UNCHANGED <<cache, calls>>

Next ==
    \/ \E i \in Nodes : \/ New(i) \/ Destroy(i) \/ ClearAllChildren(i) \/ Clone(i)
                        \/ \E p \in Nodes \cup {Nil} : SetParent(i, p)
                        \/ \E n \in Names : SetName(i, n)
    \/ DestroyChild \/ Return

Spec == Init /\ [][Next]_vars

----------------------------------------------------------------------------
\* Queries.

GetChildren(i) == Only(children[i], alive)

\* Mutant: the children of the instances found are not followed.
GetDescendantsOnce(i) == GetChildren(i)

\* The loop pops the last instance of a stack, lists it and pushes its children.
GetDescendants(i) ==
    LET out[stack \in Seq(Nodes)] ==
            IF stack = << >> THEN << >>
            ELSE LET n == stack[Len(stack)]
                 IN  <<n>> \o out[SubSeq(stack, 1, Len(stack) - 1) \o GetChildren(n)]
    IN  out[GetChildren(i)]

IsDescendantOf(i, other) == i # other /\ other \in Upwards(i)

\* The index finds a child; a recursive search then goes through the descendants.
FindFirstChild(i, n, recursive) ==
    LET deep == Only(GetDescendants(i), {d \in alive : name[d] = n})
    IN  IF byName[i][n] # Nil \/ ~ recursive \/ deep = << >> THEN byName[i][n]
        ELSE Head(deep)

----------------------------------------------------------------------------
\* Properties.

\* Every variable holds a value of the type the code gives it.
TypeOK ==
    /\ alive \subseteq born /\ born \subseteq Nodes /\ doomed \subseteq Nodes
    /\ name \in [Nodes -> Names]
    /\ parent \in [Nodes -> Nodes \cup {Nil}]
    /\ children \in [Nodes -> Seq(Nodes)]
    /\ byName \in [Nodes -> [Names -> Nodes \cup {Nil}]]
    /\ parts \in [Parts -> Nat] /\ camera \in Cameras \cup {Nil}
    /\ \A k \in DOMAIN frames :
         frames[k] \in [at : Nodes, copied : BOOLEAN, kids : Seq(Nodes), i : Nat]

\* Children and Parent agree, whatever was destroyed or moved meanwhile: an
\* instance is listed once, by its parent, and only while it is alive; and a
\* live parent lists every instance that names it.
ChildrenMatchParents ==
    \A p \in born :
      /\ IsInjective(children[p])
      /\ \A c \in Range(children[p]) : c \in alive /\ parent[c] = p
      /\ p \in alive => \A c \in born : parent[c] = p => c \in Range(children[p])

\* What FindFirstChild finds is a child that has the name asked for, after any
\* sequence of renames, moves and removals of children that share names.
IndexSound ==
    \A p \in alive, n \in Names :
      byName[p][n] # Nil => byName[p][n] \in Range(children[p]) /\ name[byName[p][n]] = n

\* The Workspace's caches, which only callbacks keep up to date: the parts the
\* renderer draws are those below the Workspace, each of them once, and the
\* camera is one below it.
CachesExact ==
    workspace \in alive =>
      LET below == Range(forEachDesc(workspace))
      IN  /\ \A q \in Parts : parts[q] = IF q \in below THEN 1 ELSE 0
          /\ camera # Nil => camera \in below

\* GetDescendants, which follows Children, and IsDescendantOf, which follows
\* Parent, agree; and none is listed twice.
DescendantsAgree ==
    Idle => \A i \in alive :
      /\ IsInjective(GetDescendants(i))
      /\ Range(GetDescendants(i)) = {j \in born : IsDescendantOf(j, i)}

\* A recursive search finds an instance exactly when one below has the name, and
\* then one that is below and has it, although it trusts an index that forgets
\* children and may be asked after any history of moves, renames and removals.
RecursiveFindExact ==
    Idle => \A i \in alive :
      LET below == {d \in alive : IsDescendantOf(d, i)}
      IN  \A n \in Names :
            LET found  == FindFirstChild(i, n, TRUE)
                called == {d \in below : name[d] = n}
            IN  IF called = {} THEN found = Nil ELSE found \in called

\* A clone finds a child under a name exactly when one of its children has it,
\* even where the index of the original had lost that child.
ClonesIndexed ==
    [][\A x \in born' \ born, n \in Names :
         (byName'[x][n] # Nil) <=> (\E c \in Range(children'[x]) : name'[c] = n)]_vars

\* "recursive by design" (Instance.cpp:307), "destroy children" (:119): when
\* the call returns, everything that was below the instance is destroyed.
DestroyReachesAll == Len(frames) = 1 /\ AtEnd => doomed \cap alive = {}

=============================================================================
