--------------------------- MODULE ServicesProofs ---------------------------
(***************************************************************************)
(* Services, for any services that Lua makes: what GetService yields stays *)
(* the service of start-up and a child of game, and what has listeners     *)
(* outlives the Lua state, all because userdata are never destroyed.       *)
(***************************************************************************)
EXTENDS Services, ContainerProofs

Types ==
    /\ class \in [Instances -> Classes \cup {Nil}]
    /\ name \in [Instances -> Names]
    /\ alive \subseteq Instances /\ placed \subseteq Instances /\ connected \subseteq Instances
    /\ freed \subseteq Instances /\ pushed \subseteq Instances
    /\ kids \in Seq(Instances)
    /\ gameAlive \in BOOLEAN /\ open \in BOOLEAN
    /\ registry \in [Names -> Instances \cup {Nil}]

LEMMA TypesAgree == TypeOK <=> Types
BY DEF TypeOK, Types

\* The registry is that of start-up while the state is open.  Everything Lua has
\* made was pushed to it by the call that made it, and so was what it listens to.
HoldInv ==
    /\ open => \A c \in Classes : registry[c] = c
    /\ \A i \in Extras : class[i] # Nil => i \in pushed
    /\ \A c \in Classes : class[c] = c
    /\ connected \subseteq pushed

\* Under a living game Children and Parent agree, and no service of start-up has
\* left but by its Destroy.
PlaceInv ==
    gameAlive =>
      /\ placed = Range(kids) /\ IsInjective(kids) /\ placed \subseteq alive
      /\ alive \cap Classes \subseteq placed

IInv == Types /\ HoldInv /\ PlaceInv

LEMMA ClassFacts ==
    /\ Classes \subseteq Instances /\ Classes \subseteq Names /\ other \in Names
    /\ Extras \subseteq Instances /\ Nil \notin Instances
    /\ Workspace \in Classes /\ RunService \in Classes /\ Lighting \in Classes
    /\ \A i \in Instances : i \in Classes \/ i \in Extras
    /\ Extras \cap Classes = {}
BY ServicesAssumption DEF Instances, Names, Classes

LEMMA InvAtInit == Init => IInv
<1> SUFFICES ASSUME Init PROVE IInv
  OBVIOUS
<1>1. kids = <<Workspace, RunService, Lighting>>
  BY DEF Init
<1>2. kids \in Seq(Instances) /\ Range(kids) = Classes /\ IsInjective(kids)
  <2>1. kids \in Seq(Instances) /\ Len(kids) = 3 /\ DOMAIN kids = 1..3
    BY <1>1, ClassFacts
  <2>2. kids[1] = Workspace /\ kids[2] = RunService /\ kids[3] = Lighting
    BY <1>1
  <2>3. \A k \in 1..3 : k = 1 \/ k = 2 \/ k = 3
    OBVIOUS
  <2>4. Range(kids) = Classes
    BY <2>1, <2>2, <2>3 DEF Range, Classes
  <2>5. IsInjective(kids)
    BY <2>1, <2>2, <2>3, ServicesAssumption DEF IsInjective
  <2> QED BY <2>1, <2>4, <2>5
<1>3. Types
  BY <1>2, ClassFacts DEF Init, Types
<1>4. HoldInv /\ PlaceInv
  BY <1>2, ClassFacts DEF Init, HoldInv, PlaceInv
<1> QED BY <1>3, <1>4 DEF IInv

\* An instance is pushed.
LEMMA PushedKeeps ==
    ASSUME IInv, NEW i \in Instances \cup {Nil}, pushed' = Pushed(i)
    PROVE  pushed \subseteq pushed' /\ pushed' \subseteq Instances /\ (i # Nil => i \in pushed')
BY DEF IInv, Types, Pushed

\* game is destroyed; what its loop reaches was among the children.
LEMMA GameDestroyed ==
    ASSUME IInv, DestroyGame
    PROVE  /\ alive' \subseteq alive /\ placed' \subseteq placed
           /\ kids' \in Seq(Instances) /\ gameAlive' = FALSE
BY DEF DestroyGame

\* A service dies only after the exit: while the state is open, something holds
\* every service there is.
LEMMA HeldWhileOpen ==
    ASSUME IInv, open, NEW i \in Instances, class[i] # Nil
    PROVE  i \in Held
<1>1. CASE i \in Classes
  <2>1. registry[i] = i /\ i \in DOMAIN registry
    BY <1>1, ClassFacts DEF IInv, HoldInv, Types
  <2> QED BY <2>1 DEF Held, Range
<1>2. CASE i \in Extras
  BY <1>2 DEF IInv, HoldInv, Held
<1> QED BY <1>1, <1>2, ClassFacts

LEMMA MoveKeeps ==
    ASSUME IInv, NEW i \in Instances, NEW toGame \in BOOLEAN, SetParent(i, toGame)
    PROVE  IInv'
<1>1. /\ i \notin placed /\ toGame /\ i \in alive /\ open
      /\ placed' = placed \cup {i} /\ kids' = Append(Without(kids, i), i)
      /\ UNCHANGED <<class, name, alive, gameAlive, refs, connected, open>>
  BY DEF SetParent, MayMove, Reachable
<1>2. kids \in Seq(Instances) /\ placed \subseteq Instances
  BY DEF IInv, Types
<1> DEFINE w == Without(kids, i)
<1>3. /\ w \in Seq(Instances) /\ Range(w) = Range(kids) \ {i}
      /\ IsInjective(kids) => IsInjective(w)
  BY <1>2, WithoutExact
<1> HIDE DEF w
<1>4. /\ Append(w, i) \in Seq(Instances) /\ Range(Append(w, i)) = Range(w) \cup {i}
      /\ IsInjective(w) => IsInjective(Append(w, i))
  BY <1>3, AppendExact
<1>5. kids' = Append(w, i)
  BY <1>1 DEF w
<1>6. PlaceInv'
  BY <1>1, <1>3, <1>4, <1>5 DEF IInv, PlaceInv
<1>7. Types'
  BY <1>1, <1>2, <1>4, <1>5 DEF IInv, Types, refs
<1>8. HoldInv'
  BY <1>1 DEF IInv, HoldInv, refs
<1> QED BY <1>6, <1>7, <1>8 DEF IInv

LEMMA DestroyKeeps ==
    ASSUME IInv, NEW i \in Instances, Destroy(i)
    PROVE  IInv'
<1>1. /\ alive' = alive \ {i} /\ placed' = placed \ {i} /\ kids' = Without(kids, i)
      /\ UNCHANGED <<class, name, gameAlive, refs, connected, open>>
  BY DEF Destroy
<1>2. /\ kids' \in Seq(Instances) /\ Range(kids') = Range(kids) \ {i}
      /\ IsInjective(kids) => IsInjective(kids')
  BY <1>1, WithoutExact DEF IInv, Types
<1>3. PlaceInv'
  BY <1>1, <1>2 DEF IInv, PlaceInv
<1>4. Types'
  BY <1>1, <1>2 DEF IInv, Types, refs
<1>5. HoldInv'
  BY <1>1 DEF IInv, HoldInv, refs
<1> QED BY <1>3, <1>4, <1>5 DEF IInv

LEMMA InvStep ==
    ASSUME IInv, [Next]_vars
    PROVE  IInv'
<1>0. Types /\ HoldInv /\ PlaceInv
  BY DEF IInv
<1>1. CASE UNCHANGED vars
  BY <1>0, <1>1 DEF vars, tree, refs, IInv, Types, HoldInv, PlaceInv
<1>2. ASSUME NEW n \in Names, FindService(n) PROVE IInv'
  <2>1. registry[n] \in Instances \cup {Nil}
    BY <1>0 DEF Types
  <2>2. pushed \subseteq pushed' /\ pushed' \subseteq Instances
    BY <1>2, <2>1, PushedKeeps DEF FindService
  <2> QED BY <1>0, <1>2, <2>2 DEF FindService, tree, IInv, Types, HoldInv, PlaceInv
<1>3. ASSUME NEW n \in Names, DropEntry(n) PROVE IInv'
  BY <1>0, <1>3 DEF DropEntry, tree, IInv, Types, HoldInv, PlaceInv
<1>4. ASSUME NEW i \in Instances, PushChild(i) PROVE IInv'
  <2>1. pushed \subseteq pushed' /\ pushed' \subseteq Instances
    BY <1>4, PushedKeeps DEF PushChild
  <2> QED BY <1>0, <1>4, <2>1 DEF PushChild, tree, IInv, Types, HoldInv, PlaceInv
<1>5. ASSUME NEW i \in Instances, NEW c \in Classes, New(i, c) PROVE IInv'
  <2>1. pushed \subseteq pushed' /\ pushed' \subseteq Instances /\ i \in pushed'
    BY <1>5, PushedKeeps, ClassFacts DEF New
  <2>2. i \notin Classes
    BY <1>0, <1>5, ClassFacts DEF New, HoldInv
  <2>3. Types'
    BY <1>0, <1>5, <2>1, ClassFacts DEF New, Types
  <2>4. HoldInv'
    BY <1>0, <1>5, <2>1, <2>2, ClassFacts DEF New, HoldInv, Types
  <2>5. PlaceInv'
    BY <1>0, <1>5, <2>2 DEF New, PlaceInv
  <2> QED BY <2>3, <2>4, <2>5 DEF IInv
<1>6. ASSUME NEW i \in Instances, NEW n \in Names, SetName(i, n) PROVE IInv'
  BY <1>0, <1>6 DEF SetName, refs, IInv, Types, HoldInv, PlaceInv
<1>7. ASSUME NEW i \in Instances, Connect(i) PROVE IInv'
  BY <1>0, <1>7 DEF Connect, Reachable, tree, refs, IInv, Types, HoldInv, PlaceInv
<1>8. CASE GameDestroy
  BY <1>0, <1>8, GameDestroyed DEF GameDestroy, refs, IInv, Types, HoldInv, PlaceInv
<1>9. CASE Shutdown
  <2>1. open' = FALSE /\ UNCHANGED <<class, name, refs, connected>>
    BY <1>9 DEF Shutdown
  <2>2. CASE gameAlive
    BY <1>0, <1>9, <2>1, <2>2, GameDestroyed DEF Shutdown, refs, IInv, Types, HoldInv, PlaceInv
  <2>3. CASE ~ gameAlive
    BY <1>0, <1>9, <2>1, <2>3 DEF Shutdown, refs, IInv, Types, HoldInv, PlaceInv
  <2> QED BY <2>2, <2>3
<1>10. ASSUME NEW i \in Instances, Release(i) PROVE IInv'
  <2>1. ~ open
    BY <1>10, HeldWhileOpen DEF Release
  <2> QED BY <1>0, <1>10, <2>1 DEF Release, tree, IInv, Types, HoldInv, PlaceInv
<1>11. ASSUME GameClear PROVE IInv'
  <2>1. kids' \in Seq(Instances) /\ Range(kids') = {} /\ IsInjective(kids')
    BY <1>11 DEF GameClear, Range, IsInjective
  <2>2. gameAlive /\ alive' = alive \ Range(kids) /\ placed' = placed \ Range(kids)
    BY <1>0, <1>11 DEF GameClear, PlaceInv
  <2>3. PlaceInv'
    BY <1>0, <2>1, <2>2 DEF PlaceInv
  <2> QED BY <1>0, <1>11, <2>1, <2>2, <2>3 DEF GameClear, refs, IInv, Types, HoldInv
<1> QED BY <1>1, <1>2, <1>3, <1>4, <1>5, <1>6, <1>7, <1>8, <1>9, <1>10, <1>11, MoveKeeps, DestroyKeeps
        DEF Next

THEOREM Invariant == Spec => []IInv
<1>1. Init => IInv
  BY InvAtInit
<1>2. IInv /\ [Next]_vars => IInv'
  BY InvStep
<1> QED BY <1>1, <1>2, PTL DEF Spec

\* The types of Services: no userdata ever holds a null pointer.
THEOREM TypeCorrect == Spec => []TypeOK
<1>1. IInv => TypeOK
  BY TypesAgree DEF IInv
<1> QED BY Invariant, <1>1, PTL

\* GetService of a class never changes its answer while the program runs, for any
\* number of further services of that class, although ~Service (Service.cpp:12-14)
\* erases by name: whoever holds a service, holds it to the end.
THEOREM ServicesStay == Spec => []GetServiceStable
<1>1. IInv => GetServiceStable
  BY DEF IInv, HoldInv, GetServiceStable
<1> QED BY Invariant, <1>1, PTL

\* What it answers is listed once among the children of a living game.
THEOREM ServicesPlaced == Spec => []RegisteredUnderGame
<1>1. ASSUME IInv, open, gameAlive, NEW c \in Classes, registry[c] \in alive
      PROVE  /\ registry[c] \in placed
             /\ Cardinality({k \in DOMAIN kids : kids[k] = registry[c]}) = 1
  <2>1. registry[c] = c /\ c \in placed /\ placed = Range(kids) /\ IsInjective(kids)
    BY <1>1 DEF IInv, HoldInv, PlaceInv
  <2>2. PICK k \in DOMAIN kids : kids[k] = c
    BY <2>1 DEF Range
  <2>3. {m \in DOMAIN kids : kids[m] = registry[c]} = {k}
    BY <2>1, <2>2 DEF IsInjective
  <2>4. Cardinality({k}) = 1
    BY FS_Singleton
  <2> QED BY <2>1, <2>3, <2>4
<1>2. IInv => RegisteredUnderGame
  BY <1>1 DEF RegisteredUnderGame
<1> QED BY Invariant, <1>2, PTL

\* A service with listeners has been pushed to Lua and is never freed at all, so
\* that no signal gives references back to a closed state (Service.cpp:12-14).
THEOREM SignalsOutliveState == Spec => UnrefWhileOpen
<1>1. ASSUME IInv, [Next]_vars, NEW i \in freed' \ freed, i \in connected
      PROVE  FALSE
  <2>1. PICK j \in Instances : Release(j)
    BY <1>1 DEF Next, vars, tree, refs, FindService, DropEntry, PushChild, Destroy, Connect, New,
                SetParent, SetName, GameClear, GameDestroy, Shutdown
  <2>2. i = j /\ i \notin pushed
    BY <1>1, <2>1 DEF Release, Held
  <2> QED BY <1>1, <2>2 DEF IInv, HoldInv
<1>2. IInv /\ [Next]_vars => [\A i \in freed' \ freed : i \in connected => open]_vars
  BY <1>1
<1> QED BY Invariant, <1>2, PTL DEF Spec, UnrefWhileOpen

=============================================================================
