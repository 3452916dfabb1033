# Verification of the LibreBox engine

LibreBox (`src/librebox`) is a small game engine: Luau scripts run as coroutines of one Lua
state, build a tree of instances (parts, cameras, scripts) under a `game` root, and react to
per-frame signals; a main loop fires those signals, steps the scheduler and draws what the
`Workspace` holds. This directory holds TLA+ models of its core logic, TLC configurations that
check them on small instances, and TLAPS proofs. `src/librebox/bootstrap` (about 5 000 lines) is
the program; `core/`, `services/` and `subsystems/` of `src/librebox` are empty or commented-out
drafts apart from datatypes and logging, and the rest of the tree is vendored (Luau, raylib).

## The system

| Component | State | Operations | Talks to |
|---|---|---|---|
| **Lua scheduler** `LuaScheduler.{h,cpp}` | maps `state` (script → ScriptState) and `tasks` (thread → TaskState); for each kind a ready queue, a next-frame queue and a heap of sleepers; budgets | `AddScript`, `StopScript`, `ScheduleTaskNextFrame`, `ScheduleTaskAt`, `SetWait*`, `ResumeScriptNextFrame`, `WakeTaskNextFrame`, `Step` | resumes coroutines, which call back into it through the API |
| **Script signals** `signals/Signal.{h,cpp}` | `listeners`, `activeIdx`, `id2idx`, `waiters`, the snapshot of a Fire, registry references | `Connect`, `Once`, `Disconnect`, `Wait`, `Fire`, `Close` | schedules a task per listener, wakes waiters in the scheduler |
| **Scripting API** `ScriptingAPI.cpp` | metatables, registry references in userdata | `wait`, `task.*`, reads and writes of instance fields, methods | scheduler, signals, tree |
| **Instance tree** `Instance.{h,cpp}` | per instance: `Alive`, `Name`, `Parent` (weak), `Children` (owning), `ChildrenByName`, `Attributes` | `New`, `SetParent`, `SetName`, `Destroy`, `ClearAllChildren`, `Clone`, queries | calls the descendant callbacks of ancestors; a script's Destroy calls `StopScript` |
| **Workspace** `instances/Workspace.cpp` | caches `parts` (vector), `camera` | callbacks for DescendantAdded / DescendantRemoved | read by renderer and main loop |
| **Scripts** `instances/BaseScript.cpp` … | Source, Enabled | `Schedule`, `Stop` | scheduler |
| **Game, services** `Game.cpp`, `services/*` | `game`, the registry name → service | `Init`, `Shutdown`, `GetService` | owns the trees; RunService owns signals |
| **Main loop** `main.cpp` | pending scripts, camera | start-up, per frame: fire PreRender/…/Heartbeat, `Step`, draw | everything |
| **Datatypes** `core/datatypes` | values; `Random` has a generator state | arithmetic | Lua bindings |
| **Renderer** `Renderer.cpp` | GPU resources | draw | reads `Workspace::parts` |

Everything runs on one OS thread. The concurrency is that of coroutines: Lua code runs to its
next yield inside `lua_resume`, inside a resume loop of `Step`; while it runs it may call any
operation of any component, and signals are fired by the main loop between Steps. What is hard:

* a coroutine moves between three queues, a heap whose keys live *outside* of it in a map, a
  parked state, and destruction from Lua while it sleeps, waits or runs;
* threads are raw pointers: a registry reference or a stack slot must keep each from the
  collector, and an address may come back;
* `Fire` works on a snapshot of listeners that its own loop disconnects, over a table with
  mutual indices maintained by swap-removal;
* budgets cut a resume loop in the middle; frames are late; time passes inside a coroutine;
* `Destroy` recurses over the vector from which every child removes itself;
* the tree exists three times (`Children`, `Parent`, `ChildrenByName`), the Workspace's caches
  are a fourth copy kept by callbacks, and services add a registry on the side;
* nothing Lua has seen is ever freed: the destructors of userdata are set as `__gc`, which Luau
  does not call; what dies, and when, decides whether `~Service` and `~Signal` do harm.

Correct means: the scheduler loses no coroutine, queues none twice, resumes each with what its
call asked for, not before its time, within the budget and in the end; a signal serves each
listener of a Fire once, never on a thread that is busy or collected, and wakes each waiter once;
the copies of the tree agree whatever is moved, renamed, cloned, cleared or destroyed; services
and Lua state go down in an order in which nothing uses what is gone. `PROJECT.json` lists the
hazards at their lines, with the property that answers each.

## Modules

`LuaScheduler` and `Signal` are the two halves of what runs Lua code; `Engine` composes them under
the main loop. `Coroutines` is what the scheduler promises. `InstanceTree`, `Services` and
`RandomInt` stand beside them. `Vectors` and `PriorityQueue` are the container operations the C++
code uses.

### `Coroutines` and `LuaScheduler` (with `PriorityQueue`, `Vectors`, `MCLuaScheduler`)

`Coroutines` is the abstract specification: a coroutine is gone, runnable, running, sleeping until
a time, parked on an event, ended, or doomed (destroyed while it runs). It has no queues, frames or
budgets. `LuaScheduler!KeepsPromise` is its instance under the mapping `ModeOf`, `DueOf`: the queue
a coroutine stands in is what it does.

In `LuaScheduler` each iteration of a loop of `Step` is an action, in the code's order of stages
(`stage`, `kind`): `WakeSleeper`/`SleepersDone` for scripts, then tasks (LuaScheduler.cpp:253-295),
`MoveNextFrame`/`MovesDone` (297-324), `ResumeFront`/`ResumesDone` (333-453). `ResumeFront` sets
`cur`, the coroutine inside `lua_resume`; while it runs it may take `TaskSpawn`, `TaskDelay`,
`StopScript` (also of itself), and it gives control back by `Wait`, `WaitEvent`, `BareYield`,
`Finish` or `Fail`, which include what `Step` does after `lua_resume` returns. Between Steps the
main loop fires: `FireListener` and `WakeWaiter` are the scheduler's side of a Fire, in any order
and number.

* `entry` is both maps. `Woken`, `Moved`, `Resumed`, `ResumeArg` are the flag updates
  (`passDelta`, `resumeDelta`, `hasPending`, `firstResume`) that decide what `lua_resume` passes.
* The heap is the vector of `std::priority_queue`. `PriorityQueue` models `push` and `pop` as
  libstdc++ does them (sift up; hole to the bottom, then up), because what they do when the keys
  have *changed* is the point: `WakeKey` reads the map, and 0 for an erased script, as
  `TimeCmp` does.
* A script destroyed while it runs leaves `Step` with a dangling reference
  (`auto& st = state[...]`, used after `lua_resume`): `LeaveStopped` is nondeterministic over
  what *reading* those bytes can lead to. What Step *writes* through the reference (364-381) is taken to change
  no other entry; see "Not modelled". Destroy raises an error in the destroyed script
  (ScriptingAPI.cpp:325), which `pcall` may catch: the coroutine may go on, and wait, before it
  leaves.
* Time passes (`Tick`) between Steps and inside coroutines. The loops of `Step` themselves take
  none: what they spend is small against a coroutine, and the code does not look at the clock
  there either.
* Data that nothing reads again is forgotten (`Retired`, `wakeTime` after waking) to keep the
  state space small. `call` and `arg` are history variables: what the coroutine asked for and
  what it got.

### `Signal` (with `MCSignal`)

The listener table as the code keeps it (`DisconnectTable` is the swap-removal), `Fire` as
`BeginFire` (snapshot), one `Dispatch` per listener, `EndDispatch`, and one `WakeWaiter` per
coroutine of the list that Fire takes over. Of the scheduler it keeps `tasks` (which threads are in
the map, and with a registry reference or not) and the ends of callbacks. What keeps a thread from
the collector is `registry` and `lmStack`: `lua_ref` does not pop, although the comments at
Signal.cpp:23 and 37 say so, and every `Connect` therefore leaves the listener's thread on the main
state's stack. `Disconnect` drops the registry reference of a thread that may be scheduled; the
stray slot is what saves it, and the mutant `RefPops` of `ScheduledAnchored` shows that the two have
to be repaired together. Slots of ephemeral threads are *not* counted: `main.cpp:272-300` pops the
arguments of a Fire, which may be those very slots. A script that destroyed itself may still call
`Wait` (`WaitStopped`): the scheduler has forgotten it, the signal lists it. `owed`, `suspended`
and `stopped` are history.

### `Engine`

The run loop with both halves: Fire, then `Step`, and what running coroutines do in between
(connect, disconnect, wait, destroy, return, fail). The scheduler's and the signal's states are
updated by the code that acts: `Dispatch` calls `ScheduleTaskNextFrame` without asking
`LuaScheduler` whether it may, `WakeWaiter` looks the waiter up as the code does. That these calls
stay within what each module allows its environment is the content of `SchedulerKept` and
`SignalKept`: `Engine` implements `LuaScheduler!Spec` and `Signal!Spec`, under mappings that
compute `tasks`, the registry and `suspended` from the scheduler's map. What is checked or proved
of either module alone therefore holds of the composition.

### `InstanceTree` (with `MCInstanceTree`)

Workspace, parts, cameras and other instances; `SetParent` with its detachment, attachment and
notifications; `SetName` (the API's copy of it); `Clone`; the queries `FindFirstChild`,
`GetDescendants`, `IsDescendantOf`. `Destroy` and `ClearAllChildren` are run with an explicit call
stack (`frames`), one action per iteration (`DestroyChild`) and one per return: the range-for reads
its end before the first iteration, while the children erase themselves from the vector; what lies
past the end of a shrunk vector is a null pointer, which is what `shared_ptr`'s move assignment
leaves there. `SetParent(i, p)` needs `p` not to be below `i`: the code does not check, and the
call would recurse without end. `p` may be a destroyed instance, as the setter allows. No instance
is ever freed, because each has been pushed to Lua.

### `Services`

The registry name → service, `game`'s children, the services of start-up and those Lua makes with
`Instance.new`; which of them is held by whom, and the two things that happen when one dies:
`~Service` erases the registry entry of its name, and its signals release their references in the
Lua state. `GameClear` is `game:ClearAllChildren`, `GameDestroy` the destruction of `game`, whose loop
skips every other child: children that are no services are not in `kids`, but any number of them
may stand before services that Lua has put there, so that which of the latter are reached is
arbitrary, while the services of start-up come first for ever. The end of the process is part of the model: `Shutdown` closes the Lua state, then the
static registry loses its entries one by one, then what nobody holds dies.

### `RandomInt`

`NextInteger` (unsigned span, rejection limit, modulo, conversion back) and `Shuffle` over any
generator and any word size `2 * Half`; the code has 2^64. The 64 bits are what makes the arithmetic
wrap, and the same wrap happens at 16 values.

## What the runs show

| Run | Instance | Shows |
|---|---|---|
| `scheduler` | 2 destroyable scripts, 1 task identity, `MaxResumes` 3, `Budget` 1, clock read every 2 resumes, clock ≤ 2 | types; `KeepsPromise` (refinement of `Coroutines`); `OneSlotEach` (no coroutine lost or queued twice); `RegistryExact`; `ResumedAsAsked`; `BudgetKept` |
| `scheduler_heap` | a sleeping script, none destroyed, 4 delayed tasks, durations 1–2 | `DueSleepersWake`: the heap yields everything that is due; `OneSlotEach` |
| `scheduler_live` | 2 destroyable scripts, 1 task identity, one resume a Step, clock ≤ 2, fairness | `ReadyScriptsRun`, `TimedCallsWake` |
| `scheduler_stop` | 4 sleeping scripts that may be destroyed | **violated**: `DueSleepersWake` |
| `scheduler_wait` | 1 script, 1 task | **violated**: `WaitReportsSeconds` |
| `signal` | 3 connections, 2 ephemeral threads, 2 coroutines | `TypeOK`, `ActiveTable`, `FireServesEachOnce`, `ScheduledAnchored`, `WaitersExact` |
| `signal_error` | the same | **violated**: `ConnectedCanRun` |
| `engine` | 1 destroyable script, 2 connections, 1 ephemeral thread, 2 resumes a Step, fairness | `SchedulerKept`, `SignalKept`, `FireWakesAll`, `WaitersRun` |
| `services` | the three services of start-up, 1 made by Lua, 4 names | `TypeOK`, `GetServiceStable`, `RegisteredUnderGame`, `UnrefWhileOpen` |
| `random` | words of 16 values, tables of at most 3 | `InRange`, `DrawsUniform`, `ShufflePermutes`, `ShuffleUniform` |
| `tree` | Workspace, 2 parts, 2 cameras, 2 names | `TypeOK`, `ChildrenMatchParents`, `CachesExact`, `DescendantsAgree`, `IndexSound`, `RecursiveFindExact`, `ClonesIndexed` |
| `tree_destroy` | Workspace, 2 parts, 1 camera, 1 name | **violated**: `DestroyReachesAll` |

**Bounds.** Two scripts and a task meet in every pair of queues; a coroutine can be destroyed in
each of its states, by itself or by another. Reading the clock every 2 resumes against three
coroutines ends a Step within either loop and past its deadline; one resume a Step against two
scripts (`scheduler_live`) leaves a ready queue over at every frame. A clock of 2 with durations of
1 lets a frame be late, exact or early. Thread identities are reused as soon as a task ends. Four
sleepers of one kind make `pop` go two levels down and back up. `scheduler_heap` and `scheduler_stop`
use `SleepSpec`, which restricts coroutines to sleeping, delaying, ending and
destroying, so that heaps of that size can be filled; `scheduler_live` uses `QuietFairSpec`, which leaves
out events only (`engine` has the liveness of those who wait for one). `Infinity` stands for `+inf`.

Three listeners are the fewest for which a swap-removal moves one that is neither removed nor a
neighbour of the first; two ephemeral threads let two listeners be busy at once. `Engine` has two
bounds of its own, both because thread identities are finite: a frame whose Fire would need more of
them than are left goes without its Fire (`BeginStep`), and a callback suspends only while there are
enough for the listeners kept busy (`MaySuspend`), without which no Fire would happen any more. Its
clock stands still, as no call in it asks for a time. A
dispatch on a busy listener, a waiter destroyed before, during and after the Fire that wakes it, and
a callback that waits for the signal that started it all occur with one script and two listeners.
Two resumes a Step let one coroutine destroy another that has just begun to wait, before the Fire;
they are also more than its one script can use up. `WaitersRun` therefore does not claim that a
waiting *task runs*, which is false where scripts are as many as resumes, but that it becomes ready.
(With `MaxResumes = 1` in the same cfg, where the script alone can fill every Step, that holds too,
and the stronger claim fails.)

Four instances besides the Workspace allow chains, siblings and clones of a subtree; a clone is
made of fresh instances and needs enough unborn ones. Two names on four instances put siblings of
one name beside a third. In `services` one service made by Lua can be a namesake of each of the
three, renamed to a name that is no class, put under game and destroyed. In `random` every pair of
bounds is tried, among them the full range, both ends of the type and spans of more than half of it;
tables of 3 are the smallest whose orders a biased pick favours. Symmetry is used for safety
only, over identities that the specification treats alike.

**Deadlock** is not checked in the tree runs, where everything may have been destroyed and no
instance be left to create, and in `services`, where the process ends.

**Fairness.** `scheduler_live`: the run loop calls `Step` as long as the window is open
(main.cpp:260-303): weak fairness of `StartLoop`, `BeginStep` and of the iterations of `Step`. Weak
fairness of `Handing` says that Lua code gives control back, which the engine cannot enforce and
which every cooperative program must do. `Tick` is strongly fair as time passes between frames.
Nothing is assumed of `AddScript`, tasks, events or destruction. That a ready task runs is no
property: as many busy scripts as there are resumes in a Step starve it. What is claimed of tasks
is that their timed calls and their waits end, and they become ready. `engine`: the same, and weak
fairness of the iterations of Fire, which are plain C++ loops; nothing makes a callback wait,
connect or destroy. That the signal goes on being fired is a hypothesis of `WaitersRun`
(`[]<>fired`) and not a fairness assumption: frames without a Fire are a bound of the model.

### Disagreements found

1. `scheduler_stop`: destroying a script that sleeps changes its key inside the heap to 0
   (LuaScheduler.cpp:170, LuaScheduler.h:116-117). A later pop, or a push that stops below the
   dead element, may leave a sleeper that is not due above one that is, which then oversleeps.
2. `scheduler_wait`: for tasks the next-frame loop does not set `passDelta`
   (LuaScheduler.cpp:313-321), so that `wait()` returns nothing in a task, against
   ScriptingAPI.cpp:565.
3. `signal_error`: an error in a callback kills the listener's reusable coroutine; the listener
   stays connected and never runs again.
4. `tree_destroy`: `Destroy` skips every other child (Instance.cpp:120, 108); those it skips stay
   alive. They are detached by the `Children.clear()` that follows, but keep a weak pointer to the
   destroyed parent.

## What is proved

`SignalProofs` proves, for every number of listeners, threads and coroutines and from
`SignalAssumption` alone (reusable and ephemeral threads differ; scripts are among the coroutines):

| Theorem | States |
|---|---|
| `TypeCorrect` | `Spec => []TypeOK` |
| `TableCorrect` | `Spec => []ActiveTable` |
| `Anchored` | `Spec => []ScheduledAnchored` |
| `FireComplete` | `Spec => []FireServesEachOnce` |
| `WaitersListed` | `Spec => []WaitersExact` |

*Table.* Types alone are not inductive: `Disconnect` indexes `activeIdx` with a stored
`activePos`, in range only by `ActiveTable`. `TableInv` is `TypeOK`, `ActiveTable` and the fact
that a snapshot names existing listeners. `RemovalFacts` says pointwise what a swap-removal writes,
`RemovalKeepsTable` that it preserves the table, with the case where the removed listener is the
last one kept apart; `ConnectKeepsTable` is the same of an append. *Anchoring.* `AnchorInv` adds
that every listener's thread has its stack slot and that a scheduled thread either is ephemeral
and carries a registry reference or is a listener's. *Fire.* `OwesInv` says that what is owed is
what the snapshot has ahead of the cursor, and that the snapshot repeats no listener (from
`ActiveTable` when it is taken). *Waiters* need only their own invariant.

`LuaSchedulerProofs` proves, for every set of scripts and tasks, every budget and every rate of
clock readings, from `CoroutineAssumption`, `TimeAssumption` (`Infinity` lies beyond the clock and
beyond every wake-up time) and `BudgetAssumption`:

| Theorem | States |
|---|---|
| `TypeCorrect` | `Spec => []TypeOK` |
| `RegistryCorrect` | `Spec => []RegistryExact` |
| `BudgetCorrect` | `Spec => BudgetKept` |

*Types* hide one fact that is not about shapes: the elapsed seconds `now - lastResumeTime` of a
wake are not negative, although a task created in the middle of a Step bears a time later than that
Step's `now`. `ClockInv` is what makes it inductive: an entry bears no time later than the clock at
any moment, and none later than `now` while `Step` wakes and moves, because the clock stands still
there and `BeginStep` takes `now` from it. Each action is shown to make an `EntryStep` (one entry
written or erased) and a `ClockStep`; `EntriesKept` concludes once for all of them. *Registry*:
every action other than creating and ending a task is a `RefsSame` step. *Budget*: `BatchRead` says
that the loops know the true time whenever a batch of `RefreshEvery` resumes is complete; it is
inductive because time passes inside coroutines only and `ReturnToStep` reads the clock after the
last of a batch.

`PromiseProofs` goes on from there, under the same assumptions:

| Theorem | States |
|---|---|
| `SlotsCorrect` | `Spec => []OneSlotEach` |
| `PromiseKept` | `Spec => KeepsPromise` (the refinement of `Coroutines`) |
| `AskedCorrect` | `Spec => ResumedAsAsked` |
| `TasksWakeInTime` | `Spec => [](stage = "move" => Overdue("task") = {})` |
| `SleepersWakeInTime` | `Spec /\ [][StopsAwake]_vars => []DueSleepersWake` |

*Slots.* `OneSlotEach` counts places and is not inductive: that a coroutine stands in one queue
does not say that it is the queue its status and flags call for, which is what the next operation
relies on. `SlotInv` says of each queue that it repeats nobody and holds
its own kind (`Shape`), and of each coroutine in which queue its entry allows and obliges it to be
(`SlotOK`). Most actions write the entry and the places of one coroutine (`Touches`), for which
`SameKept` deals with all others at once. *Promise.* Each action is shown to keep `SlotInv` and
to change `modes` and `dues` at one coroutine, as one action of `Coroutines` does; the rest, such as
the steps between the loops, stutters. *Asked.* `AskedInv` ties the history variable `call` to the
flags and the wake-up time of the entry, stage by stage, until `ResumeArg` reads them. *Due.* That
the wake loop, which looks at the top of a heap only, leaves no due sleeper behind is true as long
as the vector is ordered (`HeapOrdered`), and it is as long as no key changes inside it. Keys are
read from the map, which most actions write: `HeapStays`, `HeapGains` and `HeapLoses` say what
becomes of the order when an entry outside the heap changes, enters it or leaves it. For tasks
nothing else can happen. A script that is destroyed in its sleep changes its key in place
(the run `scheduler_stop` shows what follows), so that the theorem about scripts
has the hypothesis `StopsAwake`: no script is destroyed while it sleeps.

`ContainerProofs` holds the lemmas about containers. `Without` keeps everything else,
each once (`WithoutExact`), and `Push` and `Pop` add and take exactly the coroutine they say,
whatever the keys have become (`PushExact`, `PopExact`): sifting moves elements along the path from
a leaf to the root, which `PathFacts` and `HolePathFacts` describe. `PathUp` is a recursive
function, and that some function obeys its recursion is shown first (`PathUpRecursion`). That
`Without` finds an n-th surviving element for each n (`RanksAreReached`) would be an induction, which
no prover here can instantiate; it comes from the least position at which enough elements have been
counted (`LeastNatural`, `ValuesAreReached`). `PushOrders` and `PopOrders` are the correctness of the
binary heap: with keys that stay the same `push` and `pop`, as libstdc++ does them, keep every
element no earlier than its parent, and then the first is the least (`TopLeast`).

`EngineProofs` proves of the composition, for any number of scripts, threads and listeners and from
`ThreadAssumption` and `LoopAssumption`:

| Theorem | States |
|---|---|
| `SchedulerRespected` | `Spec => SchedulerKept` (`Engine` implements `LuaScheduler`) |
| `SignalRespected` | `Spec => SignalKept` (`Engine` implements `Signal`) |
| `FireWakes` | `Spec => FireWakesAll` |
| `PartsCompose` | what the theorems above say of each part holds of the two together |

The two refinements depend on each other: that a thread the signal dispatches is not in the
scheduler's map follows from what is proved of the signal, that a coroutine a Fire wakes is parked
from what is proved of the scheduler, and each holds in `Engine` only as far as its steps are steps
of the parts. So the induction is over all invariants at once (`EngineInv`): those of the scheduler
(`SchedulerInv`), those of the signal (`SignalInv`), and `Shared`, which neither can state: a
coroutine in `Signal:Wait` is parked on an event by its own call, one that runs is not listed,
after a Fire nobody is. `SchedulerStep` and `SignalStep` then show that each step of `Engine` is one
of each part or leaves its variables alone, and the preservation of `SchedulerInv` and `SignalInv`
is that of `PromiseProofs` and `SignalProofs`, cited through INSTANCE.

`InstanceTreeProofs` proves, for every set of instances and names and from `TreeAssumption`:

| Theorem | States |
|---|---|
| `ChildrenAndParentsAgree` | `Spec => []ChildrenMatchParents` |
| `IndexCorrect` | `Spec => []IndexSound` |
| `TypeCorrect` | `Spec => []TypeOK` |
| `CachesCorrect` | `Spec => []CachesExact` |
| `ClonesAreIndexed` | `Spec => ClonesIndexed` |
| `DescendantsCorrect` | `Spec => []DescendantsAgree` |
| `RecursiveFindCorrect` | `Spec => []RecursiveFindExact` |

*One tree.* The first two are not inductive: the loops of Destroy are open between two actions, and
what an open call may still do to the vectors is part of the state. The invariant is `TreeInv`
(types, nothing known of the unborn, both properties) and `CallsInv`: each frame of the call stack
says where in the vector its loop is and what it has already erased (`FrameOK`). Each operation has
its lemma (`SetParentKeeps`, `CloneKeeps`, `DestroyKeeps`, …); `FramesOutliveDeaths` says that what
an inner call destroys leaves the outer frames valid. `CallsType` adds what `TypeOK` needs.

*Two ways through it.* The other properties are about reachability, which the code computes in two
directions: `IsDescendantOf` climbs `Parent`, the notifications, `GetDescendants` and the recursive
find go down `Children`. That either ends rests on there being no cycle of parents: `Depths` says that
each instance has a depth, bounded, greater than its parent's; `MovedDepths` shows that
`SetParent` to a place outside the subtree keeps that, `CacheGrafts` that what `Clone` makes does.
By this measure `UpRecursion` and `DescRecursion` show that the two recursive functions (`UpFn`,
`DescFn`) obey their recursion, and `DescIsUp` that they agree wherever `ChildrenMatchParents` holds.
`CacheInv` can then state the caches through `Parent` alone. `MovedUp` says who is below whom after a
move, `NotifiedExact` that the callbacks are told of exactly those that the move takes out or brings
in, each once, and `CachesLeft` and `CachesJoined` what the Workspace makes of it.

*Descendants.* `GetDescendants` is a loop over a stack, and lists siblings last first (`LastFirst`). `PopStep` is
one turn of it, and `PoppedExact` shows that a stack yields the
listings of all its members, by the least counterexample in what is left to list; that nobody is
listed twice is `DescInjective`, because what stands below two siblings is apart (`SiblingsApart`).
*Clones.* `NewIndexed`, a part of what `CloneKeeps` shows, says it of a Clone as a whole: the index of
a copy tells the names of all its children and no others.

`RandomIntProofs` proves, for words of any size and tables of any length, `RangeCorrect`
(`Spec => []InRange`: the two wraps of `Value` cancel), `DrawsUniformly` (`Spec => []DrawsUniform`:
each value of the range is drawn by as many words as any other), `ShuffleCorrect`
(`Spec => []ShufflePermutes`) and `ShuffleUnbiased` (`Spec => []ShuffleUniform`: different picks
lead to different orders). *Draws.* The words below the limit are a whole number of spans, and
in so many the residues are hit equally often: `ResidueClass` gives the bijection between the words of a
residue and the multiples of the span, from which the cardinalities follow. *Orders.* `Decode`
recovers the picks from the result by undoing the swaps one by one. `StagesRecursion` shows that
its recursive function obeys its recursion, `SwapDecodes` that one more swap by the program is one
more stage of the decoding, and `PicksInv` that what was picked so far is what decoding yields.

`ServicesProofs` proves, for any set of services that Lua makes and from `ServicesAssumption`,
`TypeCorrect`, `ServicesStay` (`Spec => []GetServiceStable`), `ServicesPlaced`
(`Spec => []RegisteredUnderGame`) and `SignalsOutliveState` (`Spec => UnrefWhileOpen`). `HoldInv`
holds the argument: whatever Lua makes or listens to has been pushed to it, and what has been pushed
is not destroyed, so that no `~Service` erases an entry while the state is open. `PlaceInv` is
the agreement of `Children` and `Parent` under a living `game`, whose children are alive.

Induction over data is not available as a library theorem, whose operator parameter no prover here
can instantiate; the proofs above argue by a least counterexample instead (`LeastNatural`) and show
for each recursive function that some function obeys its recursion.

Every invariant and every action property of the passing runs is stated by one of these theorems,
`DueSleepersWake` under the hypothesis `StopsAwake`. Only model-checked: the liveness properties
`ReadyScriptsRun`, `TimedCallsWake` and `WaitersRun`, which need fairness and ENABLED and are out of
the prover's reach, and the violations found. That a Fire does not take over a thread whose callback
goes on is not stated on its own: it is `SchedulerKept` that forbids to schedule a thread twice.

## Not modelled

*Third-party code.* Of the lines under `src/`, all but about 6 000 are vendored (Luau, raylib and
the libraries raylib carries). They are not this program's logic; what the engine relies on is
modelled where it is used: the heap functions of libstdc++, that `lua_ref` leaves its operand, that
a thread that failed cannot be resumed, that `__gc` is not called, what keeps a thread from the
collector. The share of the whole tree that the models cover is small for that reason.

*I/O without state that others read:* renderer, logging, files, input, camera motion, command line.
*Floating point:* `CFrame`, `Vector3`, `Color3`, `NextNumber`, `NextUnitVector`; and the generator
behind `Random`, whose words are arbitrary here.

*Two behaviours of the running code that the models exclude,* both because what they lead to hangs on
state the models do not have. (1) After a script has destroyed itself, Step *writes* `firstResume`,
`lastResumeTime` and `status` through a reference to its erased entry (LuaScheduler.cpp:364-381). A
task created in between may have got that memory: the maps' nodes are of one size class of the usual
allocator, and `lastResumeTime` then falls on the task's `nextFrame`, so that a delayed task
may start early, or `status` on its status, so that it may never start. What Step *reads* there is
modelled, with any outcome. (2) `wait` and `Signal:Wait` mark the entry and list the waiter before
`lua_yield` (ScriptingAPI.cpp:569-579, Signal.cpp:97-104), which raises an error below a metamethod
or a C function such as `table.sort` (luau/VM/src/ldo.cpp:616-620). If a `pcall` catches it the
coroutine runs on although it is marked and listed, and a later Fire may end a sleep of it. What is
checked and proved of scheduler, signals and both together is so for programs that do neither.

*Inside modelled components:* `Signal::Close` (its only caller is the destructor, which `Services`
shows never to run on a signal with listeners while the Lua state is open) and parallel listeners,
which Lua cannot ask for; attributes, `GetFullName`, the queries by class and by ancestor (loops
without state of their own); a task thread that the program resumes with `coroutine.resume` while
the scheduler holds it, and `Wait` inside a coroutine of the program's own, whose outcome is Luau's;
exhausted memory, and the growth of the main state's stack by what `lua_ref` leaves there; the scheduler's destructor; the re-entrant erase of a registry under destruction,
which has no defined outcome; a tree parented below itself (the call does not return). A destroyed
script acts on the tree and on the scheduler at once; the two effects touch no common state and
the modules are not composed.

`PROJECT.json` names the hazards no property covers, each with its reason.
