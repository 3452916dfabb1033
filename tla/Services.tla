------------------------------ MODULE Services ------------------------------
(***************************************************************************)
(* The services of the game (services/Service.cpp, Game.cpp) from start-up *)
(* to the end of the process: the static registry that GetService reads,   *)
(* the children of game, the services a Lua program makes with             *)
(* Instance.new, and the deaths that the reference counts decide.          *)
(*                                                                         *)
(* The service that start-up makes of a class is written as the class, and *)
(* so is the name it is given and registered under.                        *)
(***************************************************************************)
EXTENDS Vectors, SequencesExt

CONSTANTS
    Workspace, RunService, Lighting,
    Extras,     \* services of these classes that Lua makes
    other,      \* a name that is no class
    Nil

Classes   == {Workspace, RunService, Lighting}
Instances == Classes \cup Extras
Names     == Classes \cup {other}

ASSUME ServicesAssumption ==
    /\ Nil \notin Instances /\ Extras \cap Names = {} /\ other \notin Classes
    /\ Workspace # RunService /\ Workspace # Lighting /\ RunService # Lighting

VARIABLES
    class,      \* Class; Nil for an instance that has not been made
    name,       \* Name
    alive,      \* Alive
    placed,     \* services whose Parent is game
    kids,       \* game's Children
    gameAlive,  \* game's Alive
    registry,   \* Service::registry, Nil for a name that has no entry
    pushed,     \* services that a userdata holds
    connected,  \* services with a signal that has a listener
    open,       \* the Lua state, from Init to Shutdown
    freed       \* services whose destructor has run

tree == <<class, name, alive, placed, kids, gameAlive>>
refs == <<registry, pushed, freed>>
vars == <<tree, refs, connected, open>>

----------------------------------------------------------------------------
\* Game::Init creates the three services and pushes the Workspace.
Init ==
    /\ class = [i \in Instances |-> IF i \in Classes THEN i ELSE Nil]
    /\ name = [i \in Instances |-> IF i \in Classes THEN i ELSE other]
    /\ alive = Classes /\ placed = Classes
    /\ kids = <<Workspace, RunService, Lighting>> /\ gameAlive = TRUE
    /\ registry = [n \in Names |-> IF n \in Classes THEN n ELSE Nil]
    /\ pushed = {Workspace} /\ connected = {} /\ open = TRUE /\ freed = {}

\* Mutant: a null pointer is pushed like any other.
PushedEvenNull(i) == pushed \cup {i}

\* Lua_PushInstance makes a userdata, which nothing ever destroys: Luau does not
\* call __gc.  For a null pointer it pushes nil.
Pushed(i) == IF i = Nil THEN pushed ELSE pushed \cup {i}

\* game:FindService and, when the name has an entry, game:GetService.  Neither
\* asks whether the service is alive.
FindService(n) ==
    /\ open
    /\ pushed' = Pushed(registry[n])
    /\ UNCHANGED <<tree, registry, freed, connected, open>>

\* A child of game, by GetChildren or by its name.
PushChild(i) ==
    /\ open /\ gameAlive /\ i \in Range(kids)
    /\ pushed' = Pushed(i)
    /\ UNCHANGED <<tree, registry, freed, connected, open>>

\* Instance.new, which leaves the registry alone.
New(i, c) ==
    /\ open /\ class[i] = Nil
    /\ class' = [class EXCEPT ![i] = c] /\ name' = [name EXCEPT ![i] = c]
    /\ alive' = alive \cup {i}
    /\ pushed' = Pushed(i)
    /\ UNCHANGED <<placed, kids, gameAlive, registry, freed, connected, open>>

Reachable(i) == open /\ i \in pushed \cap alive

\* Mutant: a service can leave game again.
ParentAlways(i, toGame) == TRUE

\* A service can be put under game once, and nowhere else.
MayMove(i, toGame) == i \notin placed /\ toGame

\* The write of Parent, to game or to something else.
SetParent(i, toGame) ==
    /\ Reachable(i) /\ MayMove(i, toGame)
    /\ placed' = IF toGame THEN placed \cup {i} ELSE placed \ {i}
    /\ kids' = IF toGame THEN Append(Without(kids, i), i) ELSE Without(kids, i)
    /\ UNCHANGED <<class, name, alive, gameAlive, refs, connected, open>>

SetName(i, n) ==
    /\ Reachable(i)
    /\ name' = [name EXCEPT ![i] = n]
    /\ UNCHANGED <<class, alive, placed, kids, gameAlive, refs, connected, open>>

Destroy(i) ==
    /\ Reachable(i)
    /\ alive' = alive \ {i} /\ placed' = placed \ {i} /\ kids' = Without(kids, i)
    /\ UNCHANGED <<class, name, gameAlive, refs, connected, open>>

\* game:ClearAllChildren destroys every child: it walks a copy of the vector.
GameClear ==
    /\ open /\ gameAlive
    /\ LET gone == Range(kids) \cap alive
       IN  alive' = alive \ gone /\ placed' = placed \ gone
    /\ kids' = << >>
    /\ UNCHANGED <<class, name, gameAlive, refs, connected, open>>

\* Destroy of game.  Its loop skips every other child (see InstanceTree), which
\* stays alive with a Parent that no longer lists it.  Children that are no
\* services may stand before those that Lua has put there, and shift them.
DestroyGame ==
    \E shifted \in SUBSET (Range(kids) \cap Extras) :
      LET odd     == {kids[k] : k \in {m \in DOMAIN kids : m % 2 = 1}}
          reached == (odd \ Extras) \cup shifted
      IN  /\ alive' = alive \ reached /\ placed' = placed \ reached
          /\ kids' = << >> /\ gameAlive' = FALSE

GameDestroy ==
    /\ open /\ gameAlive
    /\ DestroyGame
    /\ UNCHANGED <<class, name, refs, connected, open>>

\* A callback for a signal of RunService, whose signals the first use creates.
Connect(i) ==
    /\ Reachable(i) /\ class[i] = RunService
    /\ connected' = connected \cup {i}
    /\ UNCHANGED <<tree, refs, open>>

----------------------------------------------------------------------------
\* Game::Shutdown at exit: game is destroyed, then the scheduler with the Lua
\* state.  game itself lives on in the userdata of the global of that name.
Shutdown ==
    /\ open /\ open' = FALSE
    /\ IF gameAlive THEN DestroyGame ELSE UNCHANGED <<alive, placed, kids, gameAlive>>
    /\ UNCHANGED <<class, name, refs, connected>>

\* After Cleanup the registry is destroyed, entry by entry in any order.
DropEntry(n) ==
    /\ ~ open /\ registry[n] # Nil
    /\ registry' = [registry EXCEPT ![n] = Nil]
    /\ UNCHANGED <<tree, pushed, freed, connected, open>>

\* Mutant: closing the state, or the collector, destroys what the userdata hold.
HeldByEngine == Range(registry) \cup Range(kids) \cup {Workspace}

\* Who holds a service: the registry, game as its child or as its workspace, and
\* userdata.
Held == Range(registry) \cup Range(kids) \cup {Workspace} \cup pushed

\* ~Service: the registry loses the entry of the name the service has now.  At
\* exit the entry is gone by then; that this erase re-enters the map whose
\* destructor runs has no defined outcome and is not modelled.
Release(i) ==
    /\ class[i] # Nil /\ i \notin Held \cup freed
    /\ freed' = freed \cup {i}
    /\ registry' = [registry EXCEPT ![name[i]] = Nil]
    /\ UNCHANGED <<tree, pushed, connected, open>>

Next ==
    \/ \E n \in Names : FindService(n) \/ DropEntry(n)
    \/ \E i \in Instances :
         \/ PushChild(i) \/ Destroy(i) \/ Connect(i) \/ Release(i)
         \/ \E c \in Classes : New(i, c)
         \/ \E toGame \in BOOLEAN : SetParent(i, toGame)
         \/ \E n \in Names : SetName(i, n)
    \/ GameClear \/ GameDestroy \/ Shutdown

Spec == Init /\ [][Next]_vars

----------------------------------------------------------------------------
\* Every variable holds a value of the type the code gives it; a userdata holds
\* an instance, never a null pointer.
TypeOK ==
    /\ class \in [Instances -> Classes \cup {Nil}]
    /\ name \in [Instances -> Names]
    /\ alive \cup placed \cup connected \cup freed \cup pushed \subseteq Instances
    /\ kids \in Seq(Instances)
    /\ gameAlive \in BOOLEAN /\ open \in BOOLEAN
    /\ registry \in [Names -> Instances \cup {Nil}]

\* As long as the program runs, GetService of a class yields the service that
\* start-up created for it, whatever services of that class Lua makes, renames,
\* destroys and forgets: although ~Service erases the entry of its name without
\* asking whose it is, no service dies before the exit.
GetServiceStable == open => \A c \in Classes : registry[c] = c

\* While game is alive, the service GetService yields is the child of game, and
\* listed once, until it is destroyed.
RegisteredUnderGame ==
    open /\ gameAlive =>
      \A c \in Classes :
        registry[c] \in alive =>
          registry[c] \in placed /\ Cardinality({k \in DOMAIN kids : kids[k] = registry[c]}) = 1

\* A service that dies after the Lua state has been closed has no listeners, whose
\* references its signals would have to give back to that state.
UnrefWhileOpen == [][\A i \in freed' \ freed : i \in connected => open]_vars

=============================================================================
