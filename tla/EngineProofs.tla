---------------------------- MODULE EngineProofs ----------------------------
(***************************************************************************)
(* The scheduler and a signal at work together, for every number of        *)
(* scripts, threads and listeners: each keeps to what the module of the    *)
(* other assumes of it, and a Fire leaves nobody parked.                   *)
(*                                                                         *)
(* The invariants of the parts are theorems of PromiseProofs and           *)
(* SignalProofs.  They hold in Engine as far as its steps are steps of the *)
(* parts, which in turn rests on these invariants: the induction is over   *)
(* all of them at once, and Shared is what neither part can say alone.     *)
(***************************************************************************)
EXTENDS Engine, SequenceTheorems, TLAPS

\* The parts again, now with what is proved about them.
SP == INSTANCE PromiseProofs WITH Tasks <- Threads
GP == INSTANCE SignalProofs WITH
    Coroutines <- Co,
    tasks      <- TaskRefs,
    registry   <- registry \cup ListenerRefs,
    suspended  <- InWait

LEMMA PartsAssumed ==
    /\ SP!CoroutineAssumption /\ SP!TimeAssumption /\ SP!BudgetAssumption
    /\ GP!SignalAssumption
<1>1. SP!CoroutineAssumption
  BY ThreadAssumption DEF SP!CoroutineAssumption, SP!Co, Co
<1>2. SP!TimeAssumption /\ SP!BudgetAssumption
  BY LoopAssumption DEF SP!TimeAssumption, SP!BudgetAssumption
<1>3. GP!SignalAssumption
  BY ThreadAssumption DEF GP!SignalAssumption, GP!Reusable, Co
<1> QED BY <1>1, <1>2, <1>3

\* The prover takes the two instances of a module for two modules: their
\* definitions are the same, word for word.
LEMMA SameScheduler ==
    (Sched!Init <=> SP!Init) /\ ([Sched!Next]_(Sched!vars) <=> [SP!Next]_(SP!vars))
BY Zenon
  DEF Sched!Co, SP!Co, Sched!Kinds, SP!Kinds, Sched!KindOf, SP!KindOf, Sched!queues, SP!queues,
      Sched!loop, SP!loop, Sched!vars, SP!vars, Sched!Entry, SP!Entry, Sched!NewEntry,
      SP!NewEntry, Sched!Known, SP!Known, Sched!Put, SP!Put, Sched!Erase, SP!Erase,
      Sched!WakeKey, SP!WakeKey, Sched!ParkedOnEvent, SP!ParkedOnEvent, Sched!WaitingUntil,
      SP!WaitingUntil, Sched!WaitingFrame, SP!WaitingFrame, Sched!Call, SP!Call, Sched!NoCall,
      SP!NoCall, Sched!Arg, SP!Arg, Sched!Init, SP!Init, Sched!Tick, SP!Tick, Sched!AddScript,
      SP!AddScript, Sched!StartLoop, SP!StartLoop, Sched!Schedulable, SP!Schedulable,
      Sched!ScheduleTask, SP!ScheduleTask, Sched!ScheduleTaskNextFrame,
      SP!ScheduleTaskNextFrame, Sched!DelayUntil, SP!DelayUntil, Sched!ScheduleTaskAt,
      SP!ScheduleTaskAt, Sched!FireListener, SP!FireListener, Sched!ResumeNextFrame,
      SP!ResumeNextFrame, Sched!WakeWaiter, SP!WakeWaiter, Sched!BeginStep, SP!BeginStep,
      Sched!NextLoop, SP!NextLoop, Sched!Due, SP!Due, Sched!Stale, SP!Stale, Sched!Woken,
      SP!Woken, Sched!WakeSleeper, SP!WakeSleeper, Sched!SleepersDone, SP!SleepersDone,
      Sched!Moved, SP!Moved, Sched!MoveNextFrame, SP!MoveNextFrame, Sched!MovesDone,
      SP!MovesDone, Sched!WithinBudget, SP!WithinBudget, Sched!ResumeArg, SP!ResumeArg,
      Sched!Resumed, SP!Resumed, Sched!ResumeFront, SP!ResumeFront, Sched!EndStep, SP!EndStep,
      Sched!ResumesDone, SP!ResumesDone, Sched!TaskSpawn, SP!TaskSpawn, Sched!TaskDelay,
      SP!TaskDelay, Sched!StopScript, SP!StopScript, Sched!ClockRead, SP!ClockRead,
      Sched!ReturnToStep, SP!ReturnToStep, Sched!Enqueue, SP!Enqueue, Sched!Sleeps, SP!Sleeps,
      Sched!Parked, SP!Parked, Sched!Requeue, SP!Requeue, Sched!Yield, SP!Yield, Sched!Wait,
      SP!Wait, Sched!WaitEvent, SP!WaitEvent, Sched!BareYield, SP!BareYield, Sched!Retired,
      SP!Retired, Sched!Released, SP!Released, Sched!Leave, SP!Leave, Sched!Finish, SP!Finish,
      Sched!Fail, SP!Fail, Sched!LeaveStopped, SP!LeaveStopped, Sched!MainLoop, SP!MainLoop,
      Sched!Stepping, SP!Stepping, Sched!Handing, SP!Handing, Sched!Next, SP!Next, Sched!PathUp,
      SP!PathUp, Sched!Later, SP!Later, Sched!SiftUp, SP!SiftUp, Sched!Push, SP!Push,
      Sched!Preferred, SP!Preferred, Sched!HolePath, SP!HolePath, Sched!Pop, SP!Pop,
      Sched!Without, SP!Without, Sched!Only, SP!Only, Sched!Max, SP!Max, Sched!Min, SP!Min,
      Sched!Range, SP!Range, Sched!Cardinality, SP!Cardinality

LEMMA SameSignal ==
    (Sig!Init <=> GP!Init) /\ ([Sig!Next]_(Sig!vars) <=> [GP!Next]_(GP!vars))
BY Zenon
  DEF Sig!npos, GP!npos, Sig!table, GP!table, Sig!walk, GP!walk, Sig!threads, GP!threads,
      Sig!waiting, GP!waiting, Sig!vars, GP!vars, Sig!Reusable, GP!Reusable, Sig!Threads,
      GP!Threads, Sig!NewListener, GP!NewListener, Sig!Connected, GP!Connected, Sig!Init,
      GP!Init, Sig!Idle, GP!Idle, Sig!Ref, GP!Ref, Sig!ConnectTable, GP!ConnectTable,
      Sig!Connect, GP!Connect, Sig!Moved, GP!Moved, Sig!DisconnectTable, GP!DisconnectTable,
      Sig!Disconnect, GP!Disconnect, Sig!EphemeralsSuffice, GP!EphemeralsSuffice, Sig!BeginFire,
      GP!BeginFire, Sig!Walk, GP!Walk, Sig!UsesReusable, GP!UsesReusable, Sig!Dispatch,
      GP!Dispatch, Sig!WaitersAfterMove, GP!WaitersAfterMove, Sig!EndDispatch, GP!EndDispatch,
      Sig!WakeWaiter, GP!WakeWaiter, Sig!Wait, GP!Wait, Sig!WaitStopped, GP!WaitStopped,
      Sig!StopScript, GP!StopScript, Sig!EndTask, GP!EndTask, Sig!CallbackReturns,
      GP!CallbackReturns, Sig!CallbackFails, GP!CallbackFails, Sig!Next, GP!Next, Sig!Range,
      GP!Range, Sig!Cardinality, GP!Cardinality

----------------------------------------------------------------------------
\* What a change of one entry shows the signal.

LEMMA EntryRewritten ==
    ASSUME NEW c \in DOMAIN entry, NEW e, entry' = [entry EXCEPT ![c] = e], e.ref = entry[c].ref
    PROVE  /\ DOMAIN entry' = DOMAIN entry /\ UNCHANGED TaskRefs
           /\ InWait' = IF Sched!Parked(e) THEN InWait \cup {c} ELSE InWait \ {c}
<1>1. DOMAIN entry' = DOMAIN entry /\ entry'[c] = e /\ \A x \in DOMAIN entry \ {c} : entry'[x] = entry[x]
  OBVIOUS
<1>2. \A x \in DOMAIN entry : entry'[x].ref = entry[x].ref
  BY <1>1
<1>3. TaskRefs' = [th \in DOMAIN entry' \cap Threads |-> entry'[th].ref]
  BY DEF TaskRefs, Threads
<1>4. InWait' = {x \in DOMAIN entry' : Sched!Parked(entry'[x])}
  BY DEF InWait, Sched!Parked
<1> QED BY <1>1, <1>2, <1>3, <1>4 DEF TaskRefs, InWait

LEMMA EntryAdded ==
    ASSUME NEW c, c \notin DOMAIN entry, NEW e, entry' = Sched!Put(entry, c, e), ~ Sched!Parked(e)
    PROVE  /\ TaskRefs' = IF c \in Threads
                          THEN [th \in DOMAIN TaskRefs \cup {c} |-> IF th = c THEN e.ref ELSE TaskRefs[th]]
                          ELSE TaskRefs
           /\ UNCHANGED InWait
<1>1. DOMAIN entry' = DOMAIN entry \cup {c} /\ entry'[c] = e /\ \A x \in DOMAIN entry : entry'[x] = entry[x]
  BY DEF Sched!Put
<1>3. TaskRefs' = [th \in DOMAIN entry' \cap Threads |-> entry'[th].ref]
  BY DEF TaskRefs, Threads
<1>4. InWait' = {x \in DOMAIN entry' : Sched!Parked(entry'[x])}
  BY DEF InWait, Sched!Parked
<1>5. InWait' = InWait
  BY <1>1, <1>4 DEF InWait
<1>6. CASE c \in Threads
  BY <1>1, <1>3, <1>5, <1>6 DEF TaskRefs
<1>7. CASE c \notin Threads
  BY <1>1, <1>3, <1>5, <1>7 DEF TaskRefs
<1> QED BY <1>6, <1>7

LEMMA EntryErased ==
    ASSUME NEW c, entry' = Sched!Erase(entry, c)
    PROVE  /\ DOMAIN entry' = DOMAIN entry \ {c}
           /\ TaskRefs' = [th \in DOMAIN TaskRefs \ {c} |-> TaskRefs[th]]
           /\ InWait' = InWait \ {c}
<1>1. DOMAIN entry' = DOMAIN entry \ {c} /\ \A x \in DOMAIN entry' : entry'[x] = entry[x]
  BY DEF Sched!Erase
<1>3. TaskRefs' = [th \in DOMAIN entry' \cap Threads |-> entry'[th].ref]
  BY DEF TaskRefs, Threads
<1>4. InWait' = {x \in DOMAIN entry' : Sched!Parked(entry'[x])}
  BY DEF InWait, Sched!Parked
<1>5. InWait' = InWait \ {c}
  BY <1>1, <1>4 DEF InWait
<1> QED BY <1>1, <1>3, <1>5 DEF TaskRefs

----------------------------------------------------------------------------
\* The invariant.

\* A Fire is over before Step begins, and nobody that runs is still listed; what
\* the signal takes for destroyed the scheduler does not know any more.
Shared ==
    /\ Sig!Idle \/ fired
    /\ fired => stage = "main"
    /\ fired /\ cursor = 0 => waiters = << >>
    /\ stopped \cap DOMAIN entry = {} /\ (stopped # {} => stage # "boot")
    /\ cur # NoCo => cur \in DOMAIN entry \cup stopped /\ cur \notin Range(waiters)
    /\ \A c \in InWait : call[c].op = "event"

SchedulerInv == SP!Inv /\ SP!SlotInv /\ SP!RegistryExact
SignalInv    == GP!TableInv /\ GP!AnchorInv /\ GP!WaitersInv

EngineInv == SchedulerInv /\ SignalInv /\ Shared

\* What the scheduler's part says, in the terms of Engine.
LEMMA SchedulerFacts ==
    ASSUME SchedulerInv
    PROVE  /\ DOMAIN entry \subseteq Co
           /\ \A c \in DOMAIN entry : /\ entry[c].wakeTime \in Nat /\ entry[c].nextFrame \in BOOLEAN
                                      /\ entry[c].ref \in BOOLEAN
           /\ now \in Nat /\ clock \in Nat /\ now <= clock /\ clock <= MaxTime
           /\ MaxTime \in Nat /\ Infinity \in Nat /\ MaxTime < Infinity
           /\ cur \in Co \cup {NoCo} /\ kind \in {"script", "task"}
           /\ cur # NoCo => stage = "resume"
           /\ cur \in DOMAIN entry => entry[cur].status = "Running"
           /\ \A k \in {"script", "task"} : \A c \in DOMAIN entry :
                c \in Range(nextFrame[k]) => ~ Sched!Parked(entry[c])
           /\ registry = {c \in Threads : c \in DOMAIN entry /\ entry[c].ref}
           /\ DOMAIN call = Co
<1>1. SP!TypeOK /\ SP!ClockInv
  BY DEF SchedulerInv, SP!Inv
<1>2. DOMAIN entry \subseteq Co /\ \A c \in DOMAIN entry : entry[c] \in SP!Entry
  BY <1>1 DEF SP!TypeOK, SP!Co, Co
<1>3. \A c \in DOMAIN entry : /\ entry[c].wakeTime \in Nat /\ entry[c].nextFrame \in BOOLEAN
                              /\ entry[c].ref \in BOOLEAN
  BY <1>2 DEF SP!Entry
<1>4. /\ now \in Nat /\ clock \in Nat /\ now <= clock /\ clock <= MaxTime
      /\ MaxTime \in Nat /\ Infinity \in Nat /\ MaxTime < Infinity
  BY <1>1, LoopAssumption DEF SP!TypeOK, SP!ClockInv
<1>5. /\ cur \in Co \cup {NoCo} /\ kind \in {"script", "task"} /\ DOMAIN call = Co
      /\ cur # NoCo => stage = "resume"
  BY <1>1 DEF SP!TypeOK, SP!ClockInv, SP!Co, Co, SP!Kinds
<1>6. \A c \in Co : SP!SlotOK(c)
  BY DEF SchedulerInv, SP!SlotInv, SP!Co, Co
<1>7. cur \in DOMAIN entry => entry[cur].status = "Running"
  BY <1>2, <1>6 DEF SP!SlotOK, SP!Known
<1>8. ASSUME NEW k \in {"script", "task"}, NEW c \in DOMAIN entry, c \in Range(nextFrame[k])
      PROVE  ~ Sched!Parked(entry[c])
  <2>1. c \in Co /\ SP!KindOf(c) = k
    BY <1>8, <1>2
    DEF SchedulerInv, SP!SlotInv, SP!ShapesOK, SP!Shape, SP!Kinds, Range, SP!Range
  <2>2. SP!Queued(c, nextFrame)
    BY <2>1, <1>8 DEF SP!Queued, Range, SP!Range
  <2> QED BY <2>1, <2>2, <1>6 DEF SP!SlotOK, SP!Known, SP!Enqueued, SP!Sleeps, Sched!Parked
<1>9. registry = {c \in Threads : c \in DOMAIN entry /\ entry[c].ref}
  BY DEF SchedulerInv, SP!RegistryExact, SP!Known
<1> QED BY <1>2, <1>3, <1>4, <1>5, <1>7, <1>8, <1>9

\* What the signal's part says.
LEMMA SignalFacts ==
    ASSUME SignalInv
    PROVE  /\ cursor \in Nat /\ waiters \in Seq(Co) /\ waking \in Seq(Co)
           /\ Sig!Idle <=> cursor = 0 /\ waking = << >>
           /\ InWait = (Range(waiters) \cup Range(waking)) \ stopped
           /\ waking # << >> => Head(waking) \in Co /\ Head(waking) \in InWait \cup stopped
           /\ cursor # 0 => waking = << >>
           /\ stopped \subseteq Scripts /\ dead \subseteq Threads
           /\ \A i \in 1..MaxListeners : <<i>> \in DOMAIN entry => ~ entry[<<i>>].ref
           /\ \A id \in DOMAIN id2idx : id2idx[id] = id /\ id \in 1..Len(listeners) /\ id \in 1..MaxListeners
           /\ Len(listeners) \in Nat /\ Len(listeners) <= MaxListeners
<1>1. GP!TypeOK /\ GP!ActiveTable /\ GP!AnchorInv /\ GP!WaitersExact /\ (cursor # 0 => waking = << >>)
  BY DEF SignalInv, GP!TableInv, GP!WaitersInv
<1>2. /\ cursor \in Nat /\ waiters \in Seq(Co) /\ waking \in Seq(Co)
      /\ stopped \subseteq Scripts /\ dead \subseteq Threads
      /\ Len(listeners) \in Nat /\ Len(listeners) <= MaxListeners
  BY <1>1 DEF GP!TypeOK, GP!Threads, GP!Reusable, Threads
<1>3. Sig!Idle <=> cursor = 0 /\ waking = << >>
  BY DEF Sig!Idle
<1>4. Range(waiters \o waking) \ stopped = InWait
  BY <1>1 DEF GP!WaitersExact, GP!Listed, Range, GP!Range
<1>5. Range(waiters \o waking) = Range(waiters) \cup Range(waking)
  BY <1>2, RangeConcatenation
<1>6. waking # << >> => Head(waking) \in Co /\ Head(waking) \in Range(waking)
  BY <1>2 DEF Range
<1>7. \A i \in 1..MaxListeners : <<i>> \in DOMAIN entry => ~ entry[<<i>>].ref
  <2> SUFFICES ASSUME NEW i \in 1..MaxListeners, <<i>> \in DOMAIN entry PROVE ~ entry[<<i>>].ref
    OBVIOUS
  <2>1. <<i>> \in DOMAIN TaskRefs /\ TaskRefs[<<i>>] = entry[<<i>>].ref
    BY DEF TaskRefs, Threads
  <2>2. <<i>> \notin Ephemerals
    BY ThreadAssumption
  <2> QED BY <1>1, <2>1, <2>2 DEF GP!AnchorInv
<1>8. \A id \in DOMAIN id2idx : id2idx[id] = id /\ id \in 1..Len(listeners) /\ id \in 1..MaxListeners
  BY <1>1 DEF GP!ActiveTable, GP!TypeOK
<1>9. waking # << >> => Head(waking) \in InWait \cup stopped
  BY <1>4, <1>5, <1>6
<1> QED BY <1>1, <1>2, <1>3, <1>4, <1>5, <1>6, <1>7, <1>8, <1>9

\* A dispatch schedules a thread that has no entry.
LEMMA Dispatched ==
    ASSUME SignalInv, Dispatch
    PROVE  /\ tmpActive[cursor] \in 1..MaxListeners
           /\ \E c \in Threads, ref \in BOOLEAN :
                c \notin DOMAIN entry /\ Sched!ScheduleTaskNextFrame(c, ref)
<1> DEFINE own == <<tmpActive[cursor]>>
<1>1. tmpActive \in Seq(1..MaxListeners) /\ cursor \in 1..Len(tmpActive)
  BY DEF Dispatch, Sig!Walk, SignalInv, GP!TableInv, GP!TypeOK
<1>2. tmpActive[cursor] \in 1..MaxListeners
  BY <1>1, ElementOfSeq
<1>3. own \in Threads /\ (own \notin DOMAIN TaskRefs => own \notin DOMAIN entry)
  BY <1>2 DEF Threads, TaskRefs
<1> QED BY <1>2, <1>3 DEF Dispatch, Sig!Walk, Sig!UsesReusable, ReusableRef, Threads

----------------------------------------------------------------------------
\* A step of Engine is a step of the scheduler, or none.

LEMMA SchedulerStep ==
    ASSUME EngineInv, [Next]_vars
    PROVE  [Sched!Next]_(Sched!vars)
<1> USE DEF EngineInv
<1>1. ASSUME UNCHANGED scheduler PROVE [Sched!Next]_(Sched!vars)
  BY <1>1 DEF scheduler, loop, schedule, Sched!vars, Sched!loop, Sched!queues
<1>2. CASE StartUp
  BY <1>2 DEF StartUp, SchedulerOnly, Sched!Next, Sched!MainLoop
<1>3. CASE BeginFire \/ EndDispatch
  BY <1>1, <1>3 DEF BeginFire, EndDispatch
<1>4. CASE Dispatch
  <2>1. stage = "main"
    BY <1>4, SignalFacts DEF Dispatch, Shared
  <2>2. PICK c \in Threads, ref \in BOOLEAN :
          c \notin DOMAIN entry /\ Sched!ScheduleTaskNextFrame(c, ref)
    BY <1>4, Dispatched
  <2>3. Sched!FireListener(c)
    BY <1>4, <2>1, <2>2 DEF Dispatch, loop, Sched!FireListener, Sched!Schedulable, Sched!Known, Sched!loop
  <2> QED BY <2>3 DEF Sched!Next
<1>5. CASE WakeWaiter
  <2> DEFINE c == Head(waking)
  <2>1. stage = "main" /\ c \in Co
    BY <1>5, SignalFacts DEF WakeWaiter, Shared
  <2>2. CASE c \in DOMAIN entry
    <3>1. c \in InWait
      BY <1>5, <2>2, SignalFacts DEF WakeWaiter, Shared
    <3>2. call[c].op = "event" /\ entry[c].status = "Waiting"
      BY <3>1 DEF Shared, InWait, Sched!Parked
    <3>3. Sched!WakeWaiter(c)
      BY <1>5, <2>1, <2>2, <3>2
      DEF WakeWaiter, IsWoken, loop, Sched!WakeWaiter, Sched!Known, Sched!loop
    <3> QED BY <2>1, <3>3 DEF Sched!Next, Sched!Co, Co
  <2>3. CASE c \notin DOMAIN entry
    BY <1>1, <1>5, <2>3 DEF WakeWaiter, IsWoken, Sched!Known, scheduler
  <2> QED BY <2>2, <2>3
<1>6. CASE BeginStep
  BY <1>6 DEF BeginStep, Sched!Next, Sched!MainLoop
<1>7. CASE Step
  BY <1>7 DEF Step, SchedulerOnly, Sched!Next
<1>8. ASSUME NEW once \in BOOLEAN, Connect(once) PROVE UNCHANGED scheduler
  BY <1>8 DEF Connect
<1>9. ASSUME NEW id \in 1..MaxListeners, Disconnect(id) PROVE UNCHANGED scheduler
  BY <1>9 DEF Disconnect
<1>10. ASSUME NEW s \in Stoppable, StopScript(s) PROVE Sched!Next
  BY <1>10 DEF StopScript, Sched!Next
<1>11. CASE Handing
  BY <1>11 DEF Handing, Wait, Suspend, Return, Fail, SchedulerOnly, Sched!Next, Sched!Handing
<1>12. CASE UNCHANGED vars
  BY <1>1, <1>12 DEF vars
<1> QED BY <1>1, <1>2, <1>3, <1>4, <1>5, <1>6, <1>7, <1>8, <1>9, <1>10, <1>11, <1>12 DEF Next, Firing

----------------------------------------------------------------------------
\* What the scheduler's actions show the signal.

LEMMA ListenerRemoved ==
    ASSUME SignalInv, NEW id \in DOMAIN id2idx, Sig!DisconnectTable(id)
    PROVE  ListenerRefs' = ListenerRefs \ {<<id>>}
<1>1. GP!DisconnectTable(id)
  BY Zenon DEF Sig!DisconnectTable, GP!DisconnectTable, Sig!Moved, GP!Moved,
               Sig!NewListener, GP!NewListener, Sig!npos, GP!npos
<1>2. GP!TypeTable /\ GP!ActiveTable /\ MaxListeners \in Nat
  BY ThreadAssumption DEF SignalInv, GP!TableInv, GP!TypeOK, GP!TypeTable, GP!Ids
<1>3. /\ Len(listeners') = Len(listeners) /\ id \in 1..Len(listeners)
      /\ listeners \in Seq(GP!Listener) /\ listeners' \in Seq(GP!Listener)
      /\ \A i \in 1..Len(listeners) :
           listeners'[i].connected <=> listeners[i].connected /\ i # id
  <2>1. /\ id \in 1..Len(listeners)
        /\ listeners' \in Seq(GP!Listener) /\ Len(listeners') = Len(listeners)
        /\ listeners'[id].connected = FALSE
    BY <1>1, <1>2, PartsAssumed, GP!RemovalFacts
  <2> DEFINE last == activeIdx[Len(activeIdx)]
  <2>3. ASSUME NEW i \in 1..Len(listeners), i # id, i = last
        PROVE  listeners'[i].connected = listeners[i].connected
    BY <1>1, <1>2, <2>3, PartsAssumed, GP!RemovalFacts
  <2>4. \A i \in 1..Len(listeners) : i # id /\ i # last => listeners'[i] = listeners[i]
    BY <1>1, <1>2, PartsAssumed, GP!RemovalFacts, Zenon
  <2>2. \A i \in 1..Len(listeners) :
           listeners'[i].connected <=> listeners[i].connected /\ i # id
    BY <2>1, <2>3, <2>4
  <2> QED BY <2>1, <2>2, <1>2 DEF GP!TypeTable
<1>4. DOMAIN listeners = 1..Len(listeners) /\ DOMAIN listeners' = 1..Len(listeners)
  BY <1>3
<1> QED BY <1>3, <1>4 DEF ListenerRefs

LEMMA ListenerAdded ==
    ASSUME SignalInv, NEW once \in BOOLEAN, Sig!ConnectTable(once)
    PROVE  ListenerRefs' = ListenerRefs \cup {<<Len(listeners) + 1>>}
<1>1. listeners \in Seq(GP!Listener) /\ Len(listeners) \in Nat /\ Len(activeIdx) \in Nat
  BY DEF SignalInv, GP!TableInv, GP!TypeOK
<1> DEFINE new == Sig!NewListener(once, TRUE, Len(activeIdx) + 1)
<1>2. new.connected = TRUE /\ new \in GP!Listener /\ listeners' = Append(listeners, new)
  BY <1>1 DEF Sig!ConnectTable, Sig!NewListener, GP!Listener
<1> HIDE DEF new
<1>3. /\ DOMAIN listeners = 1..Len(listeners) /\ DOMAIN listeners' = 1..(Len(listeners) + 1)
      /\ \A i \in 1..Len(listeners) : listeners'[i] = listeners[i]
      /\ listeners'[Len(listeners) + 1] = new
  BY <1>1, <1>2
<1> QED BY <1>1, <1>2, <1>3 DEF ListenerRefs

\* Step changes no reference, wakes nobody who is parked and parks nobody.
LEMMA SteppingUnseen ==
    ASSUME SchedulerInv, Sched!Stepping
    PROVE  UNCHANGED <<TaskRefs, InWait, registry>>
<1>7. UNCHANGED registry
  BY DEF Sched!Stepping, Sched!WakeSleeper, Sched!SleepersDone, Sched!MoveNextFrame, Sched!MovesDone,
         Sched!ResumeFront, Sched!ResumesDone
<1> SUFFICES UNCHANGED <<TaskRefs, InWait>>
  BY <1>7
<1>0. \A c \in DOMAIN entry : entry[c].wakeTime \in Nat
  BY SchedulerFacts
<1>1. ASSUME NEW c \in DOMAIN entry, NEW e, entry' = [entry EXCEPT ![c] = e], e.ref = entry[c].ref,
             ~ Sched!Parked(e), ~ Sched!Parked(entry[c])
      PROVE  UNCHANGED <<TaskRefs, InWait>>
  BY <1>1, EntryRewritten DEF InWait
<1>2. CASE UNCHANGED entry
  BY <1>2 DEF TaskRefs, InWait, Threads, Sched!Parked
<1>3. CASE Sched!WakeSleeper
  <2> DEFINE c == Head(sleeping[kind])
  <2>1. CASE Sched!Known(c) /\ ~ Sched!Stale(entry[c])
    <3>1. entry' = [entry EXCEPT ![c] = Sched!Woken(entry[c])] /\ Sched!Due(entry[c])
      BY <1>3, <2>1 DEF Sched!WakeSleeper
    <3>2. ~ Sched!Parked(entry[c]) /\ ~ Sched!Parked(Sched!Woken(entry[c]))
          /\ Sched!Woken(entry[c]).ref = entry[c].ref
      BY <1>0, <2>1, <3>1, SchedulerFacts DEF Sched!Parked, Sched!Due, Sched!Woken, Sched!Known
    <3> QED BY <1>1, <2>1, <3>1, <3>2 DEF Sched!Known
  <2>2. CASE ~ (Sched!Known(c) /\ ~ Sched!Stale(entry[c]))
    BY <1>2, <1>3, <2>2 DEF Sched!WakeSleeper
  <2> QED BY <2>1, <2>2
<1>4. CASE Sched!MoveNextFrame
  <2> DEFINE c == Head(nextFrame[kind])
  <2>1. CASE Sched!Known(c)
    <3>1. entry' = [entry EXCEPT ![c] = Sched!Moved(entry[c])]
      BY <1>4, <2>1 DEF Sched!MoveNextFrame
    <3>2. c \in Range(nextFrame[kind])
      <4>1. nextFrame[kind] \in Seq(Co) /\ nextFrame[kind] # << >>
        BY <1>4, SchedulerFacts
        DEF Sched!MoveNextFrame, SchedulerInv, SP!Inv, SP!TypeOK, SP!Kinds, SP!Co, Co
      <4> QED BY <4>1 DEF Range
    <3>3. ~ Sched!Parked(entry[c])
      BY <2>1, <3>2, SchedulerFacts DEF Sched!Known
    <3>4. ~ Sched!Parked(Sched!Moved(entry[c])) /\ Sched!Moved(entry[c]).ref = entry[c].ref
      BY <2>1 DEF Sched!Parked, Sched!Moved
    <3> QED BY <1>1, <2>1, <3>1, <3>3, <3>4 DEF Sched!Known
  <2>2. CASE ~ Sched!Known(c)
    BY <1>2, <1>4, <2>2 DEF Sched!MoveNextFrame
  <2> QED BY <2>1, <2>2
<1>5. CASE Sched!ResumeFront
  <2> DEFINE c == Head(ready[kind])
  <2>1. CASE Sched!Known(c) /\ entry[c].status = "Running"
    <3>1. entry' = [entry EXCEPT ![c] = Sched!Resumed(entry[c])]
      BY <1>5, <2>1 DEF Sched!ResumeFront
    <3>2. ~ Sched!Parked(entry[c]) /\ ~ Sched!Parked(Sched!Resumed(entry[c]))
          /\ Sched!Resumed(entry[c]).ref = entry[c].ref
      BY <2>1 DEF Sched!Parked, Sched!Resumed
    <3> QED BY <1>1, <2>1, <3>1, <3>2 DEF Sched!Known
  <2>2. CASE ~ (Sched!Known(c) /\ entry[c].status = "Running")
    BY <1>2, <1>5, <2>2 DEF Sched!ResumeFront
  <2> QED BY <2>1, <2>2
<1>6. CASE Sched!SleepersDone \/ Sched!MovesDone \/ Sched!ResumesDone
  BY <1>2, <1>6 DEF Sched!SleepersDone, Sched!MovesDone, Sched!ResumesDone
<1> QED BY <1>3, <1>4, <1>5, <1>6 DEF Sched!Stepping

----------------------------------------------------------------------------
\* A step of Engine is a step of the signal, or none.

LEMMA SignalSame ==
    ASSUME UNCHANGED <<signal, TaskRefs, InWait, registry>>
    PROVE  UNCHANGED Sig!vars
<1>1. UNCHANGED ListenerRefs
  BY DEF signal, table, ListenerRefs
<1> QED
  BY <1>1 DEF signal, table, walk, Sig!vars, Sig!table, Sig!walk, Sig!threads, Sig!waiting

LEMMA FireStep ==
    ASSUME EngineInv
    PROVE  /\ BeginFire => Sig!BeginFire
           /\ Dispatch => Sig!Dispatch
           /\ EndDispatch => Sig!EndDispatch
           /\ WakeWaiter => Sig!WakeWaiter
<1> USE DEF EngineInv
<1>1. ASSUME UNCHANGED <<entry, registry, table>>
      PROVE  UNCHANGED <<TaskRefs, InWait, registry, ListenerRefs>>
  BY <1>1 DEF TaskRefs, InWait, ListenerRefs, table, Threads, Sched!Parked
<1>2. ASSUME BeginFire PROVE Sig!BeginFire
  <2>1. Sig!Idle /\ UNCHANGED <<TaskRefs, InWait, registry, ListenerRefs>>
    BY <1>1, <1>2 DEF BeginFire, Shared, scheduler, schedule
  <2> QED
    BY <1>2, <2>1
    DEF BeginFire, Sig!BeginFire, table, Sig!table, Sig!threads, Sig!waiting, Range, Sig!Range
<1>3. EndDispatch => Sig!EndDispatch
  BY DEF EndDispatch
<1>4. ASSUME WakeWaiter PROVE Sig!WakeWaiter
  <2> DEFINE c == Head(waking)
  <2>1. UNCHANGED <<TaskRefs, registry, ListenerRefs>> /\ InWait' = InWait \ {c}
    <3>1. CASE c \in DOMAIN entry
      <4>1. Sched!ResumeNextFrame(c)
        BY <1>4, <3>1 DEF WakeWaiter, IsWoken, Sched!Known
      <4> DEFINE e == [entry[c] EXCEPT !.status = "Running", !.nextFrame = TRUE, !.hasPending = TRUE]
      <4>2. entry' = [entry EXCEPT ![c] = e]
        BY <4>1 DEF Sched!ResumeNextFrame
      <4>3. e.ref = entry[c].ref /\ ~ Sched!Parked(e)
        BY DEF Sched!Parked
      <4> HIDE DEF e
      <4>4. UNCHANGED TaskRefs /\ InWait' = InWait \ {c}
        BY <3>1, <4>2, <4>3, EntryRewritten
      <4> QED BY <1>4, <4>1, <4>4 DEF WakeWaiter, table, ListenerRefs, Sched!ResumeNextFrame
    <3>2. CASE c \notin DOMAIN entry
      <4>1. UNCHANGED <<entry, registry, table>>
        BY <1>4, <3>2 DEF WakeWaiter, IsWoken, Sched!Known, schedule
      <4>2. c \notin InWait
        BY <3>2 DEF InWait
      <4> QED BY <1>1, <4>1, <4>2
    <3> QED BY <3>1, <3>2
  <2> QED
    BY <1>4, <2>1
    DEF WakeWaiter, Sig!WakeWaiter, table, walk, Sig!table, Sig!walk, Sig!threads
<1>5. ASSUME Dispatch PROVE Sig!Dispatch
  <2> DEFINE idx == tmpActive[cursor]
             own == <<idx>>
             gone == IF listeners[idx].once THEN {own} ELSE {}
  <2>0. tmpActive \in Seq(1..MaxListeners) /\ cursor \in 1..Len(tmpActive) /\ cursor # 0
    BY <1>5 DEF Dispatch, Sig!Walk, SignalInv, GP!TableInv, GP!TypeOK
  <2>1. idx \in 1..MaxListeners /\ own \in Threads
    BY <1>5, Dispatched DEF Threads
  <2>2. own \notin registry
    BY <2>1, SignalFacts, SchedulerFacts
  <2>3. ListenerRefs' = ListenerRefs \ gone
    <3>1. CASE listeners[idx].once
      <4>1. Sig!DisconnectTable(idx)
        BY <1>5, <3>1 DEF Dispatch, Sig!Walk
      <4>2. idx \in DOMAIN id2idx
        <5>1. Sig!Connected(idx)
          BY <1>5 DEF Dispatch, Sig!Walk
        <5>2. idx \in 1..Len(listeners)
          BY <2>0 DEF SignalInv, GP!TableInv, GP!WalkInRange
        <5> QED
          BY <5>1, <5>2 DEF SignalInv, GP!TableInv, GP!ActiveTable, Sig!Connected, GP!Connected
      <4> QED BY <3>1, <4>1, <4>2, ListenerRemoved
    <3>2. CASE ~ listeners[idx].once
      BY <1>5, <3>2 DEF Dispatch, Sig!Walk, table, ListenerRefs
    <3> QED BY <3>1, <3>2
  <2>4. ASSUME NEW c \in Threads, NEW ref \in BOOLEAN, c \notin DOMAIN entry, Sched!ScheduleTaskNextFrame(c, ref)
        PROVE  /\ TaskRefs' = [th \in DOMAIN TaskRefs \cup {c} |-> IF th = c THEN ref ELSE TaskRefs[th]]
               /\ UNCHANGED InWait
               /\ registry' = IF ref THEN registry \cup {c} ELSE registry
    <3> DEFINE e == Sched!NewEntry("Waiting", 0, TRUE, ref)
    <3>1. entry' = Sched!Put(entry, c, e) /\ registry' = IF e.ref THEN registry \cup {c} ELSE registry
      BY <2>4 DEF Sched!ScheduleTaskNextFrame, Sched!ScheduleTask
    <3>2. e.ref = ref /\ ~ Sched!Parked(e)
      BY DEF Sched!NewEntry, Sched!Parked
    <3> HIDE DEF e
    <3>3. TaskRefs' = [th \in DOMAIN TaskRefs \cup {c} |-> IF th = c THEN e.ref ELSE TaskRefs[th]]
          /\ InWait' = InWait
      BY <2>4, <3>1, <3>2, EntryAdded
    <3> QED BY <3>1, <3>2, <3>3
  <2>5. \/ /\ Sig!UsesReusable(own)
           /\ TaskRefs' = [th \in DOMAIN TaskRefs \cup {own} |-> IF th = own THEN FALSE ELSE TaskRefs[th]]
           /\ (registry \cup ListenerRefs)' = (registry \cup ListenerRefs) \ gone
        \/ /\ ~ Sig!UsesReusable(own)
           /\ \E new \in Ephemerals \ DOMAIN TaskRefs :
                /\ TaskRefs' = [th \in DOMAIN TaskRefs \cup {new} |-> IF th = new THEN TRUE ELSE TaskRefs[th]]
                /\ (registry \cup ListenerRefs)' = ((registry \cup ListenerRefs) \cup {new}) \ gone
    <3>1. CASE Sig!UsesReusable(own) /\ Sched!ScheduleTaskNextFrame(own, FALSE)
      <4>1. own \notin DOMAIN entry
        BY <2>1, <3>1 DEF Sig!UsesReusable, TaskRefs
      <4> QED BY <2>1, <2>2, <2>3, <2>4, <3>1, <4>1
    <3>2. ASSUME NEW new \in Ephemerals \ DOMAIN entry, ~ Sig!UsesReusable(own),
                 Sched!ScheduleTaskNextFrame(new, TRUE)
          PROVE  \E n \in Ephemerals \ DOMAIN TaskRefs :
                   /\ TaskRefs' = [th \in DOMAIN TaskRefs \cup {n} |-> IF th = n THEN TRUE ELSE TaskRefs[th]]
                   /\ (registry \cup ListenerRefs)' = ((registry \cup ListenerRefs) \cup {n}) \ gone
      <4>1. new \in Threads /\ new # own /\ new \notin DOMAIN TaskRefs
        BY <2>1, ThreadAssumption DEF Threads, TaskRefs
      <4>2. /\ TaskRefs' = [th \in DOMAIN TaskRefs \cup {new} |-> IF th = new THEN TRUE ELSE TaskRefs[th]]
            /\ registry' = registry \cup {new}
        BY <2>4, <3>2, <4>1
      <4>3. (registry \cup ListenerRefs)' = ((registry \cup ListenerRefs) \cup {new}) \ gone
        BY <2>2, <2>3, <4>1, <4>2
      <4> QED BY <4>1, <4>2, <4>3
    <3> QED BY <1>5, <3>1, <3>2 DEF Dispatch, Sig!Walk, ReusableRef
  <2>6. UNCHANGED InWait
    <3>1. PICK c \in Threads, ref \in BOOLEAN :
            c \notin DOMAIN entry /\ Sched!ScheduleTaskNextFrame(c, ref)
      BY <1>5, Dispatched
    <3> QED BY <2>4, <3>1
  <2> QED
    BY <1>5, <2>5, <2>6
    DEF Dispatch, Sig!Dispatch, Sig!Walk, Sig!Reusable, table, Sig!table, Sig!waiting
<1> QED BY <1>2, <1>3, <1>4, <1>5

LEMMA FrameUnseen ==
    ASSUME EngineInv, StartUp \/ BeginStep \/ Step
    PROVE  UNCHANGED Sig!vars
<1> USE DEF EngineInv
<1>1. ASSUME UNCHANGED <<signal, entry, registry>> PROVE UNCHANGED Sig!vars
  BY <1>1, SignalSame DEF TaskRefs, InWait, Threads, Sched!Parked
<1>2. CASE SchedulerOnly(Sched!StartLoop) \/ BeginStep
  BY <1>1, <1>2 DEF SchedulerOnly, Sched!StartLoop, BeginStep, Sched!BeginStep
<1>3. ASSUME NEW s \in Scripts, SchedulerOnly(Sched!AddScript(s)) PROVE UNCHANGED Sig!vars
  <2> DEFINE e == Sched!NewEntry("Running", 0, FALSE, FALSE)
  <2>1. /\ s \notin DOMAIN entry /\ entry' = Sched!Put(entry, s, e) /\ UNCHANGED <<registry, signal>>
        /\ s \notin Threads
    BY <1>3, ThreadAssumption DEF SchedulerOnly, Sched!AddScript, Sched!Known
  <2>2. ~ Sched!Parked(e)
    BY DEF Sched!NewEntry, Sched!Parked
  <2> HIDE DEF e
  <2>3. UNCHANGED <<TaskRefs, InWait>>
    BY <2>1, <2>2, EntryAdded
  <2> QED BY <2>1, <2>3, SignalSame
<1>4. CASE Step
  BY <1>4, SteppingUnseen, SignalSame DEF Step, SchedulerOnly
<1> QED BY <1>2, <1>3, <1>4 DEF StartUp

\* While a coroutine runs no Fire is going on.
LEMMA RunnerFacts ==
    ASSUME EngineInv, cur # NoCo
    PROVE  /\ stage = "resume" /\ ~ fired /\ Sig!Idle /\ cursor = 0 /\ waking = << >>
           /\ cur \in Co /\ cur \notin InWait
           /\ cur \in DOMAIN entry => entry[cur].status = "Running" /\ cur \notin stopped
           /\ cur \notin DOMAIN entry => cur \in stopped /\ cur \in Scripts /\ cur \notin Range(waiters)
<1>1. stage = "resume" /\ cur \in Co /\ (cur \in DOMAIN entry => entry[cur].status = "Running")
  BY SchedulerFacts DEF EngineInv
<1>2. ~ fired /\ Sig!Idle /\ cursor = 0 /\ waking = << >>
  BY <1>1, SignalFacts DEF EngineInv, Shared
<1>3. cur \notin InWait
  BY <1>1 DEF InWait, Sched!Parked
<1>4. stopped \subseteq Scripts
  BY SignalFacts DEF EngineInv
<1> QED BY <1>1, <1>2, <1>3, <1>4 DEF EngineInv, Shared

LEMMA CallStep ==
    ASSUME EngineInv,
           \/ \E once \in BOOLEAN : Connect(once)
           \/ \E id \in 1..MaxListeners : Disconnect(id)
           \/ \E s \in Stoppable : StopScript(s)
    PROVE  Sig!Next
<1> USE DEF EngineInv
<1>0. Runs
  BY DEF Connect, Disconnect, StopScript
<1>1. Sig!Idle
  BY <1>0, RunnerFacts DEF Runs
<1>2. ASSUME UNCHANGED scheduler PROVE UNCHANGED <<TaskRefs, InWait, registry>>
  BY <1>2 DEF scheduler, schedule, TaskRefs, InWait, Threads, Sched!Parked
<1>3. ASSUME NEW once \in BOOLEAN, Connect(once) PROVE Sig!Connect(once)
  <2>1. ListenerRefs' = ListenerRefs \cup {<<Len(listeners) + 1>>}
    BY <1>3, ListenerAdded DEF Connect
  <2>2. UNCHANGED <<TaskRefs, InWait, registry>>
    BY <1>2, <1>3 DEF Connect
  <2> QED
    BY <1>1, <1>3, <2>1, <2>2 DEF Connect, Sig!Connect, Sig!Reusable, walk, Sig!walk, Sig!waiting
<1>4. ASSUME NEW id \in 1..MaxListeners, Disconnect(id) PROVE Sig!Disconnect(id)
  <2>1. id \in DOMAIN id2idx /\ id2idx[id] = id
    BY <1>4, SignalFacts DEF Disconnect
  <2>2. ListenerRefs' = ListenerRefs \ {<<id>>}
    BY <1>4, <2>1, ListenerRemoved DEF Disconnect
  <2>3. UNCHANGED <<TaskRefs, InWait, registry>>
    BY <1>2, <1>4 DEF Disconnect
  <2>4. <<id>> \notin registry
    BY SignalFacts, SchedulerFacts
  <2>5. (registry \cup ListenerRefs)' = (registry \cup ListenerRefs) \ {<<id>>}
    BY <2>2, <2>3, <2>4
  <2> QED
    BY <1>1, <1>4, <2>1, <2>3, <2>5
    DEF Disconnect, Sig!Disconnect, Sig!Reusable, walk, Sig!walk, Sig!waiting
<1>5. ASSUME NEW s \in Stoppable, StopScript(s) PROVE s \in Scripts /\ Sig!StopScript(s)
  <2>1. s \in Scripts /\ s \notin Threads /\ s \notin stopped
    BY <1>5, ThreadAssumption DEF StopScript, Sched!StopScript, Sched!Known, Shared
  <2>2. /\ entry' = Sched!Erase(entry, s) /\ stopped' = stopped \cup {s}
        /\ UNCHANGED <<registry, table, walk, waiters, waking, lmStack, dead, owed>>
    BY <1>5 DEF StopScript, Sched!StopScript
  <2>3. UNCHANGED <<TaskRefs, ListenerRefs>> /\ InWait' = InWait \ {s}
    <3>1. TaskRefs' = [th \in DOMAIN TaskRefs \ {s} |-> TaskRefs[th]] /\ InWait' = InWait \ {s}
      BY <2>2, EntryErased
    <3>2. s \notin DOMAIN TaskRefs /\ TaskRefs = [th \in DOMAIN TaskRefs |-> TaskRefs[th]]
      BY <2>1 DEF TaskRefs
    <3>3. DOMAIN TaskRefs \ {s} = DOMAIN TaskRefs
      BY <3>2
    <3> QED BY <2>2, <3>1, <3>2, <3>3 DEF ListenerRefs, table
  <2> QED
    BY <1>1, <2>1, <2>2, <2>3
    DEF Sig!StopScript, table, walk, Sig!table, Sig!walk, Sig!threads
<1> QED BY <1>3, <1>4, <1>5 DEF Sig!Next

\* A coroutine with an entry suspends; e is its entry as the call left it.
LEMMA YieldSeen ==
    ASSUME EngineInv, cur # NoCo, cur \in DOMAIN entry, NEW e, NEW op, NEW due, Sched!Yield(e, op, due),
           e.ref = entry[cur].ref
    PROVE  /\ DOMAIN entry' = DOMAIN entry /\ UNCHANGED <<TaskRefs, registry>>
           /\ InWait' = IF Sched!Parked(e) THEN InWait \cup {cur} ELSE InWait
           /\ call' = [call EXCEPT ![cur] = Sched!Call(op, due)]
<1> DEFINE f == [e EXCEPT !.firstResume = FALSE, !.lastResumeTime = now]
<1>1. entry' = [entry EXCEPT ![cur] = f] /\ UNCHANGED registry /\ call' = [call EXCEPT ![cur] = Sched!Call(op, due)]
  BY DEF Sched!Yield, Sched!Requeue
<1>2. f.ref = e.ref /\ (Sched!Parked(f) <=> Sched!Parked(e))
  BY DEF Sched!Parked
<1> HIDE DEF f
<1>3. cur \notin InWait
  BY RunnerFacts
<1> QED BY <1>1, <1>2, <1>3, EntryRewritten

LEMMA WaitStep ==
    ASSUME EngineInv, Wait
    PROVE  Sig!Next
<1>0. /\ cur # NoCo /\ waiters' = Append(waiters, cur)
      /\ UNCHANGED <<table, walk, waking, lmStack, dead, stopped, owed>>
  BY DEF Wait, Runs, ListedWaiter
<1>1. UNCHANGED ListenerRefs
  BY <1>0 DEF table, ListenerRefs
<1>2. CASE cur \in DOMAIN entry
  <2> DEFINE e == Sched!ParkedOnEvent(entry[cur])
  <2>1. Sched!Yield(e, "event", 0)
    BY <1>2 DEF Wait, Sched!Known, Sched!WaitEvent
  <2>2. e.ref = entry[cur].ref /\ Sched!Parked(e)
    BY DEF Sched!ParkedOnEvent, Sched!Parked
  <2> HIDE DEF e
  <2>3. UNCHANGED <<TaskRefs, registry>> /\ InWait' = InWait \cup {cur}
    BY <1>0, <1>2, <2>1, <2>2, YieldSeen
  <2>4. Sig!Wait(cur) /\ cur \in Co
    BY <1>0, <1>1, <1>2, <2>3, RunnerFacts
    DEF Sig!Wait, table, walk, Sig!table, Sig!walk, Sig!threads
  <2> QED BY <2>4 DEF Sig!Next
<1>3. CASE cur \notin DOMAIN entry
  <2>1. UNCHANGED <<entry, registry>>
    BY <1>3 DEF Wait, Sched!Known, Sched!LeaveStopped
  <2>2. UNCHANGED <<TaskRefs, InWait, registry>>
    BY <2>1 DEF TaskRefs, InWait, Threads, Sched!Parked
  <2>3. Sig!WaitStopped(cur) /\ cur \in Scripts
    BY <1>0, <1>1, <1>3, <2>2, RunnerFacts
    DEF Sig!WaitStopped, table, walk, Sig!table, Sig!walk, Sig!threads, Range, Sig!Range
  <2> QED BY <2>3 DEF Sig!Next
<1> QED BY <1>2, <1>3

LEMMA SuspendUnseen ==
    ASSUME EngineInv, Suspend
    PROVE  UNCHANGED Sig!vars
<1>0. cur # NoCo /\ cur \in DOMAIN entry /\ UNCHANGED signal /\ Sched!Wait
  BY DEF Suspend, Runs, SchedulerOnly, Sched!Wait, Sched!Known
<1>1. PICK e, op, due : /\ Sched!Yield(e, op, due)
                        /\ e.ref = entry[cur].ref /\ ~ Sched!Parked(e)
  <2>1. ASSUME NEW secs \in Delays,
               Sched!Yield(Sched!WaitingUntil(entry[cur], clock + secs), "sleep", clock + secs)
        PROVE  \E e, op, due : Sched!Yield(e, op, due) /\ e.ref = entry[cur].ref /\ ~ Sched!Parked(e)
    <3>1. clock + secs # Infinity
      <4>1. secs \in Nat /\ clock \in Nat /\ clock <= MaxTime /\ MaxTime \in Nat /\ Infinity \in Nat
            /\ MaxTime + secs < Infinity
        BY LoopAssumption, SchedulerFacts DEF EngineInv
      <4> QED BY <4>1
    <3>2. ~ Sched!Parked(Sched!WaitingUntil(entry[cur], clock + secs))
      <4>1. entry[cur] \in SP!Entry
        BY <1>0 DEF EngineInv, SchedulerInv, SP!Inv, SP!TypeOK
      <4> QED BY <3>1, <4>1 DEF Sched!Parked, Sched!WaitingUntil, SP!Entry
    <3>3. Sched!WaitingUntil(entry[cur], clock + secs).ref = entry[cur].ref
      BY DEF Sched!WaitingUntil
    <3> QED BY <2>1, <3>2, <3>3
  <2>2. ASSUME Sched!Yield(Sched!WaitingFrame(entry[cur]), "frame", 0)
        PROVE  \E e, op, due : Sched!Yield(e, op, due) /\ e.ref = entry[cur].ref /\ ~ Sched!Parked(e)
    <3>1. entry[cur] \in SP!Entry
      BY <1>0 DEF EngineInv, SchedulerInv, SP!Inv, SP!TypeOK
    <3>2. ~ Sched!Parked(Sched!WaitingFrame(entry[cur]))
          /\ Sched!WaitingFrame(entry[cur]).ref = entry[cur].ref
      BY <3>1 DEF Sched!Parked, Sched!WaitingFrame, SP!Entry
    <3> QED BY <2>2, <3>2
  <2> QED BY <1>0, <2>1, <2>2 DEF Sched!Wait
<1>2. UNCHANGED <<TaskRefs, InWait, registry>>
  BY <1>0, <1>1, YieldSeen
<1> QED BY <1>0, <1>2, SignalSame

\* A coroutine with an entry ends.
LEMMA LeaveSeen ==
    ASSUME EngineInv, NEW status \in {"Done", "Error"}, Sched!Leave(status)
    PROVE  /\ cur \in Scripts => UNCHANGED <<TaskRefs, registry, InWait>>
           /\ cur \in Threads =>
                /\ cur \in DOMAIN TaskRefs /\ TaskRefs[cur] = entry[cur].ref
                /\ TaskRefs' = [th \in DOMAIN TaskRefs \ {cur} |-> TaskRefs[th]]
                /\ (registry \cup ListenerRefs) \ (IF TaskRefs[cur] THEN {cur} ELSE {})
                     = (registry' \cup ListenerRefs)
                /\ UNCHANGED InWait
<1>0. /\ cur # NoCo /\ cur \in DOMAIN entry
      /\ entry' = IF cur \in Scripts THEN [entry EXCEPT ![cur] = Sched!Retired(status)]
                                     ELSE Sched!Erase(entry, cur)
      /\ registry' = registry \ (IF entry[cur].ref THEN {cur} ELSE {})
  BY DEF Sched!Leave, Sched!Known, Sched!Released
<1>1. cur \notin InWait
  BY <1>0, RunnerFacts
<1>2. ASSUME cur \in Scripts PROVE UNCHANGED <<TaskRefs, registry, InWait>>
  <2>1. cur \notin Threads /\ cur \notin registry
    BY <1>2, ThreadAssumption, SchedulerFacts DEF EngineInv
  <2> DEFINE e == Sched!Retired(status)
  <2>2. ~ Sched!Parked(e)
    BY DEF Sched!Retired, Sched!Parked
  <2>3. entry' = [entry EXCEPT ![cur] = e] /\ cur \in DOMAIN entry
    BY <1>0, <1>2
  <2> HIDE DEF e
  <2>4. /\ DOMAIN entry' = DOMAIN entry /\ entry'[cur] = e
        /\ \A x \in DOMAIN entry \ {cur} : entry'[x] = entry[x]
    BY <2>3
  <2>5. TaskRefs' = [th \in DOMAIN entry' \cap Threads |-> entry'[th].ref]
        /\ InWait' = {x \in DOMAIN entry' : Sched!Parked(entry'[x])}
    BY DEF TaskRefs, InWait, Threads, Sched!Parked
  <2>6. UNCHANGED TaskRefs
    BY <2>1, <2>4, <2>5 DEF TaskRefs
  <2>7. UNCHANGED InWait
    BY <1>1, <2>2, <2>4, <2>5 DEF InWait
  <2> QED BY <1>0, <2>1, <2>6, <2>7
<1>3. ASSUME cur \in Threads
      PROVE  /\ cur \in DOMAIN TaskRefs /\ TaskRefs[cur] = entry[cur].ref
             /\ TaskRefs' = [th \in DOMAIN TaskRefs \ {cur} |-> TaskRefs[th]]
             /\ (registry \cup ListenerRefs) \ (IF TaskRefs[cur] THEN {cur} ELSE {})
                  = (registry' \cup ListenerRefs)
             /\ UNCHANGED InWait
  <2>1. cur \notin Scripts /\ cur \in DOMAIN TaskRefs /\ TaskRefs[cur] = entry[cur].ref
    BY <1>0, <1>3, ThreadAssumption DEF TaskRefs
  <2>a. entry' = Sched!Erase(entry, cur)
    BY <1>0, <2>1
  <2>b. TaskRefs' = [th \in DOMAIN TaskRefs \ {cur} |-> TaskRefs[th]] /\ InWait' = InWait \ {cur}
    BY <2>a, EntryErased
  <2>2. TaskRefs' = [th \in DOMAIN TaskRefs \ {cur} |-> TaskRefs[th]] /\ UNCHANGED InWait
    BY <1>1, <2>b
  <2>3. entry[cur].ref => cur \notin ListenerRefs
    <3>1. listeners \in Seq(GP!Listener) /\ Len(listeners) <= MaxListeners /\ MaxListeners \in Nat
      BY ThreadAssumption DEF EngineInv, SignalInv, GP!TableInv, GP!TypeOK
    <3>2. DOMAIN listeners \subseteq 1..MaxListeners
      BY <3>1
    <3> QED BY <1>0, <3>2, SignalFacts DEF EngineInv, ListenerRefs
  <2> QED BY <1>0, <2>1, <2>2, <2>3
<1> QED BY <1>2, <1>3

LEMMA ReturnStep ==
    ASSUME EngineInv, Return
    PROVE  [Sig!Next]_(Sig!vars)
<1>0. cur # NoCo /\ cur \notin dead /\ UNCHANGED signal /\ (Sched!Finish \/ Sched!LeaveStopped)
  BY DEF Return, Runs, SchedulerOnly
<1>1. CASE Sched!LeaveStopped
  <2>1. UNCHANGED <<TaskRefs, InWait, registry>>
    BY <1>1 DEF Sched!LeaveStopped, TaskRefs, InWait, Threads, Sched!Parked
  <2> QED BY <1>0, <2>1, SignalSame
<1>2. CASE Sched!Finish /\ cur \in Scripts
  BY <1>0, <1>2, LeaveSeen, SignalSame DEF Sched!Finish
<1>3. CASE Sched!Finish /\ cur \in Threads
  <2>1. /\ cur \in DOMAIN TaskRefs
        /\ TaskRefs' = [th \in DOMAIN TaskRefs \ {cur} |-> TaskRefs[th]]
        /\ (registry \cup ListenerRefs) \ (IF TaskRefs[cur] THEN {cur} ELSE {}) = registry' \cup ListenerRefs
        /\ UNCHANGED InWait
    BY <1>3, LeaveSeen DEF Sched!Finish
  <2>2. UNCHANGED ListenerRefs
    BY <1>0 DEF signal, table, ListenerRefs
  <2>3. (registry \cup ListenerRefs)' = IF TaskRefs[cur] THEN (registry \cup ListenerRefs) \ {cur}
                                       ELSE registry \cup ListenerRefs
    BY <2>1, <2>2
  <2>4. Sig!CallbackReturns(cur) /\ cur \in Sig!Threads
    BY <1>0, <1>3, <2>1, <2>3, RunnerFacts
    DEF Sig!CallbackReturns, Sig!EndTask, signal, table, walk, Sig!table, Sig!walk, Sig!waiting,
        Sig!Threads, Sig!Reusable, Threads
  <2> QED BY <2>4 DEF Sig!Next
<1>4. cur \in Scripts \/ cur \in Threads
  BY <1>0, RunnerFacts DEF Co
<1> QED BY <1>0, <1>1, <1>2, <1>3, <1>4

LEMMA FailStep ==
    ASSUME EngineInv, Fail
    PROVE  [Sig!Next]_(Sig!vars)
<1>0. /\ cur # NoCo /\ cur \in DOMAIN entry /\ Sched!Leave("Error")
      /\ dead' = IF cur \in Threads /\ ~ entry[cur].ref THEN dead \cup {cur} ELSE dead
      /\ UNCHANGED <<table, walk, waiters, waking, lmStack, stopped, owed>>
  BY DEF Fail, Sched!Fail, Sched!Leave, Sched!Known
<1>1. UNCHANGED ListenerRefs
  BY <1>0 DEF table, ListenerRefs
<1>2. CASE cur \in Scripts
  <2>1. cur \notin Threads
    BY <1>2, ThreadAssumption
  <2>2. UNCHANGED <<TaskRefs, registry, InWait>>
    BY <1>0, <1>2, LeaveSeen
  <2> QED BY <1>0, <2>1, <2>2, SignalSame DEF signal
<1>3. CASE cur \in Threads
  <2>1. /\ cur \in DOMAIN TaskRefs /\ TaskRefs[cur] = entry[cur].ref
        /\ TaskRefs' = [th \in DOMAIN TaskRefs \ {cur} |-> TaskRefs[th]]
        /\ (registry \cup ListenerRefs) \ (IF TaskRefs[cur] THEN {cur} ELSE {}) = registry' \cup ListenerRefs
        /\ UNCHANGED InWait
    BY <1>0, <1>3, LeaveSeen
  <2>2. (registry \cup ListenerRefs)' = IF TaskRefs[cur] THEN (registry \cup ListenerRefs) \ {cur}
                                       ELSE registry \cup ListenerRefs
    BY <1>1, <2>1
  <2>3. dead' = IF TaskRefs[cur] THEN dead ELSE dead \cup {cur}
    BY <1>0, <1>3, <2>1
  <2>4. Sig!CallbackFails(cur) /\ cur \in Sig!Threads
    BY <1>0, <1>3, <2>1, <2>2, <2>3, RunnerFacts
    DEF Sig!CallbackFails, Sig!EndTask, table, walk, Sig!table, Sig!walk, Sig!waiting,
        Sig!Threads, Sig!Reusable, Threads
  <2> QED BY <2>4 DEF Sig!Next
<1>4. cur \in Scripts \/ cur \in Threads
  BY <1>0, RunnerFacts DEF Co
<1> QED BY <1>2, <1>3, <1>4

LEMMA SignalStep ==
    ASSUME EngineInv, [Next]_vars
    PROVE  [Sig!Next]_(Sig!vars)
<1>1. CASE UNCHANGED vars
  <2>1. UNCHANGED <<signal, TaskRefs, InWait, registry>>
    BY <1>1 DEF vars, scheduler, schedule, TaskRefs, InWait, Threads, Sched!Parked
  <2> QED BY <2>1, SignalSame
<1>2. CASE StartUp \/ BeginStep \/ Step
  BY <1>2, FrameUnseen
<1>3. CASE Firing
  BY <1>3, FireStep DEF Firing, Sig!Next
<1>4. CASE Handing
  BY <1>4, WaitStep, SuspendUnseen, ReturnStep, FailStep DEF Handing
<1> QED BY <1>1, <1>2, <1>3, <1>4, CallStep DEF Next

----------------------------------------------------------------------------
\* What neither part says alone.

LEMMA FiredStep ==
    ASSUME EngineInv, [Next]_vars
    PROVE  /\ fired' \/ (cursor' = 0 /\ waking' = << >>)
           /\ fired' => stage' = "main"
           /\ fired' /\ cursor' = 0 => waiters' = << >>
<1>0. /\ cursor \in Nat /\ (fired \/ (cursor = 0 /\ waking = << >>)) /\ (fired => stage = "main")
      /\ (fired /\ cursor = 0 => waiters = << >>) /\ (cursor # 0 => waking = << >>)
  BY SignalFacts DEF EngineInv, Shared
<1>1. ASSUME cur # NoCo, UNCHANGED <<cursor, waking, fired>>
      PROVE  ~ fired' /\ cursor' = 0 /\ waking' = << >>
  BY <1>1, RunnerFacts
<1>2. CASE UNCHANGED vars
  BY <1>0, <1>2 DEF vars, scheduler, signal, loop, walk
<1>3. CASE StartUp
  <2>1. stage = "boot" /\ UNCHANGED <<signal, fired>>
    BY <1>3 DEF StartUp, SchedulerOnly, Sched!StartLoop, Sched!AddScript
  <2> QED BY <1>0, <2>1 DEF signal, walk
<1>4. CASE BeginFire
  BY <1>0, <1>4 DEF BeginFire, scheduler, loop
<1>5. CASE Dispatch
  BY <1>0, <1>5 DEF Dispatch, loop, Sig!Walk
<1>6. CASE EndDispatch
  BY <1>0, <1>6
  DEF EndDispatch, Sig!EndDispatch, Sig!WaitersAfterMove, scheduler, loop, Sig!Walk
<1>7. CASE WakeWaiter
  BY <1>0, <1>7 DEF WakeWaiter, loop, walk
<1>8. CASE BeginStep
  BY <1>0, <1>8, SignalFacts DEF BeginStep, EngineInv, signal, walk
<1>9. CASE Step
  <2>1. ~ fired
    BY <1>0, <1>9
    DEF Step, SchedulerOnly, Sched!Stepping, Sched!WakeSleeper, Sched!SleepersDone,
        Sched!MoveNextFrame, Sched!MovesDone, Sched!ResumeFront, Sched!ResumesDone
  <2> QED BY <1>0, <1>9, <2>1 DEF Step, SchedulerOnly, signal, walk
<1>10. CASE \E once \in BOOLEAN : Connect(once)
  BY <1>1, <1>10 DEF Connect, Runs, walk
<1>11. CASE \E id \in 1..MaxListeners : Disconnect(id)
  BY <1>1, <1>11 DEF Disconnect, Runs, walk
<1>12. CASE \E s \in Stoppable : StopScript(s)
  BY <1>1, <1>12 DEF StopScript, Runs, walk
<1>13. CASE Handing
  BY <1>1, <1>13 DEF Handing, Wait, Suspend, Return, Fail, SchedulerOnly, Runs, signal, walk,
                     Sched!Fail, Sched!Leave
<1> QED
  BY <1>2, <1>3, <1>4, <1>5, <1>6, <1>7, <1>8, <1>9, <1>10, <1>11, <1>12, <1>13 DEF Next, Firing

LEMMA RunStep ==
    ASSUME EngineInv, [Next]_vars
    PROVE  /\ stopped' \cap DOMAIN entry' = {} /\ (stopped' # {} => stage' # "boot")
           /\ cur' # NoCo => cur' \in DOMAIN entry' \cup stopped' /\ cur' \notin Range(waiters')
           /\ \A c \in InWait' : call'[c].op = "event"
<1> DEFINE Kept == /\ stopped' \cap DOMAIN entry' = {} /\ (stopped' # {} => stage' # "boot")
                   /\ cur' # NoCo => cur' \in DOMAIN entry' \cup stopped' /\ cur' \notin Range(waiters')
                   /\ \A c \in InWait' : call'[c].op = "event"
<1>0. /\ stopped \cap DOMAIN entry = {} /\ (stopped # {} => stage # "boot")
      /\ cur # NoCo => cur \in DOMAIN entry \cup stopped /\ cur \notin Range(waiters)
      /\ \A c \in InWait : call[c].op = "event"
      /\ InWait = (Range(waiters) \cup Range(waking)) \ stopped
      /\ DOMAIN call = Co /\ InWait \subseteq DOMAIN entry /\ DOMAIN entry \subseteq Co
  BY SignalFacts, SchedulerFacts DEF EngineInv, Shared, InWait
<1>1. ASSUME DOMAIN entry' = DOMAIN entry, UNCHANGED <<stopped, cur, call>>,
             stage' = "boot" => stage = "boot", InWait' \subseteq InWait,
             Range(waiters') \subseteq Range(waiters)
      PROVE  Kept
  BY <1>0, <1>1
<1>2. ASSUME UNCHANGED <<stopped, cur, call, entry, waiters>>, stage' = "boot" => stage = "boot"
      PROVE  Kept
  <2>1. InWait' = InWait
    BY <1>2 DEF InWait, Sched!Parked
  <2> QED BY <1>1, <1>2, <2>1
<1>3. CASE UNCHANGED vars
  BY <1>2, <1>3 DEF vars, scheduler, signal, loop, schedule
<1>4. CASE SchedulerOnly(Sched!StartLoop) \/ BeginFire \/ BeginStep
  BY <1>2, <1>4
  DEF SchedulerOnly, Sched!StartLoop, BeginFire, BeginStep, Sched!BeginStep, scheduler, signal, loop, schedule
<1>5. ASSUME NEW s \in Scripts, SchedulerOnly(Sched!AddScript(s)) PROVE Kept
  <2> DEFINE e == Sched!NewEntry("Running", 0, FALSE, FALSE)
  <2>1. /\ s \notin DOMAIN entry /\ entry' = Sched!Put(entry, s, e) /\ stage = "boot"
        /\ UNCHANGED <<stopped, cur, call, waiters>>
    BY <1>5 DEF SchedulerOnly, Sched!AddScript, Sched!Known, signal
  <2>2. ~ Sched!Parked(e)
    BY DEF Sched!NewEntry, Sched!Parked
  <2> HIDE DEF e
  <2>3. InWait' = InWait
    BY <2>1, <2>2, EntryAdded
  <2>4. stopped' = {} /\ DOMAIN entry \subseteq DOMAIN entry'
    BY <1>0, <2>1 DEF Sched!Put
  <2> QED BY <1>0, <2>1, <2>3, <2>4
<1>6. CASE Dispatch
  <2>1. UNCHANGED <<stopped, cur, waiters, InWait>> /\ stage' = stage
    BY <1>6, FireStep DEF Dispatch, Sig!Dispatch, Sig!waiting, loop
  <2>2. PICK c \in Threads, ref \in BOOLEAN :
          c \notin DOMAIN entry /\ Sched!ScheduleTaskNextFrame(c, ref)
    BY <1>6, Dispatched DEF EngineInv
  <2>3. DOMAIN entry' = DOMAIN entry \cup {c} /\ \A d \in Co \ {c} : call'[d] = call[d]
    BY <1>0, <2>2 DEF Sched!ScheduleTaskNextFrame, Sched!ScheduleTask, Sched!Put
  <2>4. c \notin stopped /\ c \notin InWait
    BY <1>0, <2>2, ThreadAssumption, SignalFacts DEF EngineInv
  <2> QED BY <1>0, <2>1, <2>3, <2>4
<1>7. CASE EndDispatch
  <2>1. Range(waiters') = {}
    BY <1>7 DEF EndDispatch, Sig!EndDispatch, Sig!WaitersAfterMove, Range
  <2>2. UNCHANGED <<entry, stopped, cur, call, stage>>
    BY <1>7 DEF EndDispatch, Sig!EndDispatch, scheduler, loop, schedule
  <2>3. InWait' = InWait
    BY <2>2 DEF InWait, Sched!Parked
  <2> QED BY <1>1, <2>1, <2>2, <2>3
<1>8. CASE WakeWaiter
  <2>1. InWait' \subseteq InWait /\ UNCHANGED <<stopped, cur, waiters, stage>>
    BY <1>8, FireStep DEF WakeWaiter, Sig!WakeWaiter, loop
  <2>2. DOMAIN entry' = DOMAIN entry /\ UNCHANGED call
    BY <1>8 DEF WakeWaiter, IsWoken, Sched!ResumeNextFrame, schedule
  <2> QED BY <1>1, <2>1, <2>2
<1>9. CASE Step
  <2>1. /\ UNCHANGED <<InWait, stopped, waiters>> /\ DOMAIN entry' = DOMAIN entry
        /\ stage' = "boot" => stage = "boot"
    <3>1. UNCHANGED <<InWait, stopped, waiters>>
      BY <1>9, SteppingUnseen DEF Step, SchedulerOnly, signal, EngineInv
    <3>2. DOMAIN entry' = DOMAIN entry
      BY <1>9
      DEF Step, SchedulerOnly, Sched!Stepping, Sched!WakeSleeper, Sched!SleepersDone,
          Sched!MoveNextFrame, Sched!MovesDone, Sched!ResumeFront, Sched!ResumesDone
    <3>3. stage' # "boot"
      BY <1>9
      DEF Step, SchedulerOnly, Sched!Stepping, Sched!WakeSleeper, Sched!SleepersDone,
          Sched!MoveNextFrame, Sched!MovesDone, Sched!ResumeFront, Sched!ResumesDone,
          Sched!NextLoop, Sched!EndStep, Sched!loop
    <3> QED BY <3>1, <3>2, <3>3
  <2>2. CASE UNCHANGED <<cur, call>>
    BY <1>1, <2>1, <2>2
  <2>3. CASE /\ cur' # NoCo /\ Sched!Known(cur') /\ entry[cur'].status = "Running"
             /\ call' = [call EXCEPT ![cur'] = Sched!NoCall]
    <3>1. cur' \notin InWait /\ cur' \in DOMAIN entry
      BY <2>3 DEF InWait, Sched!Parked, Sched!Known
    <3>2. \A d \in InWait : call'[d] = call[d]
      BY <1>0, <2>3, <3>1
    <3> QED BY <1>0, <2>1, <3>1, <3>2
  <2>4. \/ UNCHANGED <<cur, call>>
        \/ /\ cur' # NoCo /\ Sched!Known(cur') /\ entry[cur'].status = "Running"
           /\ call' = [call EXCEPT ![cur'] = Sched!NoCall]
    <3>1. NoCo \notin DOMAIN entry
      BY <1>0, ThreadAssumption
    <3> QED
      BY <1>9, <3>1
      DEF Step, SchedulerOnly, Sched!Stepping, Sched!WakeSleeper, Sched!SleepersDone,
          Sched!MoveNextFrame, Sched!MovesDone, Sched!ResumeFront, Sched!ResumesDone, Sched!Known
  <2> QED BY <2>2, <2>3, <2>4
<1>10. CASE \/ \E once \in BOOLEAN : Connect(once)
            \/ \E id \in 1..MaxListeners : Disconnect(id)
  BY <1>2, <1>10 DEF Connect, Disconnect, scheduler, loop, schedule
<1>11. ASSUME NEW s \in Stoppable, StopScript(s) PROVE Kept
  <2>1. /\ cur # NoCo /\ entry' = Sched!Erase(entry, s) /\ stopped' = stopped \cup {s}
        /\ call' = [call EXCEPT ![s] = Sched!NoCall] /\ UNCHANGED <<cur, waiters, stage>>
    BY <1>11 DEF StopScript, Runs, Sched!StopScript, Sched!loop
  <2>2. DOMAIN entry' = DOMAIN entry \ {s} /\ InWait' = InWait \ {s} /\ stage' # "boot"
    BY <2>1, EntryErased, RunnerFacts
  <2>3. \A d \in InWait' : call'[d] = call[d]
    BY <1>0, <2>1, <2>2
  <2> QED BY <1>0, <2>1, <2>2, <2>3
<1>12. CASE Handing
  <2>1. cur # NoCo /\ cur' = NoCo /\ UNCHANGED <<stopped, stage>>
    BY <1>12
    DEF Handing, Wait, Suspend, Return, Fail, SchedulerOnly, Runs, signal, Sched!Wait, Sched!WaitEvent,
        Sched!Finish, Sched!Fail, Sched!Leave, Sched!LeaveStopped, Sched!Yield, Sched!ReturnToStep
  <2>2. stopped' # {} => stage' # "boot"
    BY <1>0, <2>1
  <2>3. ASSUME cur \in DOMAIN entry, NEW e, NEW op, NEW due, Sched!Yield(e, op, due),
               e.ref = entry[cur].ref, Sched!Parked(e) => op = "event"
        PROVE  Kept
    <3>1. /\ DOMAIN entry' = DOMAIN entry /\ call' = [call EXCEPT ![cur] = Sched!Call(op, due)]
          /\ InWait' = IF Sched!Parked(e) THEN InWait \cup {cur} ELSE InWait
      BY <2>1, <2>3, YieldSeen
    <3>2. cur \notin InWait
      BY <2>1, RunnerFacts
    <3>3. \A d \in InWait' : call'[d].op = "event"
      BY <1>0, <2>3, <3>1, <3>2 DEF Sched!Call
    <3> QED BY <1>0, <2>1, <2>2, <3>1, <3>3
  <2>4. CASE UNCHANGED <<entry, call>>
    <3>1. InWait' = InWait
      BY <2>4 DEF InWait, Sched!Parked
    <3> QED BY <1>0, <2>1, <2>2, <2>4, <3>1
  <2>5. CASE Wait
    <3>1. CASE cur \in DOMAIN entry
      <4>1. Sched!Yield(Sched!ParkedOnEvent(entry[cur]), "event", 0)
        BY <2>5, <3>1 DEF Wait, Sched!WaitEvent, Sched!Known
      <4>2. Sched!ParkedOnEvent(entry[cur]).ref = entry[cur].ref
        BY DEF Sched!ParkedOnEvent
      <4> QED BY <2>3, <3>1, <4>1, <4>2
    <3>2. CASE cur \notin DOMAIN entry
      BY <2>4, <2>5, <3>2 DEF Wait, Sched!LeaveStopped, Sched!Known
    <3> QED BY <3>1, <3>2
  <2>6. CASE Suspend
    <3>1. cur \in DOMAIN entry /\ UNCHANGED InWait
      BY <2>6, SuspendUnseen DEF Sig!vars, Sig!waiting, Suspend, SchedulerOnly, Sched!Wait, Sched!Known
    <3>2. PICK e, op, due : Sched!Yield(e, op, due)
      BY <2>6 DEF Suspend, SchedulerOnly, Sched!Wait
    <3>3. DOMAIN entry' = DOMAIN entry /\ call' = [call EXCEPT ![cur] = Sched!Call(op, due)]
      BY <3>2 DEF Sched!Yield, Sched!Requeue
    <3>4. \A d \in InWait : call'[d] = call[d]
      BY <1>0, <2>1, <3>3, RunnerFacts
    <3> QED BY <1>0, <2>1, <2>2, <3>1, <3>3, <3>4
  <2>7. ASSUME NEW status \in {"Done", "Error"}, Sched!Leave(status) PROVE Kept
    <3>1. cur \in Scripts \/ cur \in Threads
      BY <2>1, RunnerFacts DEF Co
    <3>2. UNCHANGED InWait
      BY <2>7, <3>1, LeaveSeen
    <3>3. DOMAIN entry' \subseteq DOMAIN entry /\ UNCHANGED call
      BY <2>7 DEF Sched!Leave, Sched!Erase
    <3> QED BY <1>0, <2>1, <2>2, <3>2, <3>3
  <2>8. CASE Return \/ Fail
    BY <2>4, <2>7, <2>8
    DEF Return, Fail, SchedulerOnly, Sched!Finish, Sched!Fail, Sched!LeaveStopped
  <2> QED BY <1>12, <2>5, <2>6, <2>8 DEF Handing
<1> QED
  BY <1>3, <1>4, <1>5, <1>6, <1>7, <1>8, <1>9, <1>10, <1>11, <1>12 DEF Next, Firing, StartUp

----------------------------------------------------------------------------
\* The induction.

LEMMA EngineInit == Init => EngineInv /\ Sched!Init /\ Sig!Init
<1> SUFFICES ASSUME Init PROVE EngineInv /\ Sched!Init /\ Sig!Init
  OBVIOUS
<1>1. Sched!Init /\ SP!Init
  BY SameScheduler DEF Init
<1>2. DOMAIN entry = {} /\ registry = {} /\ stage = "boot" /\ cur = NoCo
  BY <1>1 DEF SP!Init
<1>3. TaskRefs = << >> /\ ListenerRefs = {} /\ InWait = {}
  <2>1. DOMAIN entry \cap Threads = {} /\ DOMAIN listeners = {}
    BY <1>2 DEF Init
  <2>2. ListenerRefs = {} /\ InWait = {}
    BY <1>2, <2>1 DEF ListenerRefs, InWait
  <2>3. TaskRefs = << >>
    BY <2>1 DEF TaskRefs
  <2> QED BY <2>2, <2>3
<1>4. Sig!Init /\ GP!Init
  BY <1>2, <1>3, SameSignal DEF Init, Sig!Init
<1>5. SchedulerInv
  <2>1. SP!Inv /\ SP!SlotInv
    BY <1>1, PartsAssumed, SP!InvInit, SP!SlotsAtInit
  <2> QED BY <1>2, <2>1 DEF SchedulerInv, SP!RegistryExact, SP!Known
<1>6. SignalInv
  <2>1. GP!TableInv
    BY <1>4, PartsAssumed, GP!TableInit
  <2>2. GP!AnchorInv
    BY <1>4 DEF GP!Init, GP!AnchorInv
  <2>3. GP!WaitersInv
    BY <1>4 DEF GP!Init, GP!WaitersInv, GP!WaitersExact, GP!Listed, GP!Range
  <2> QED BY <2>1, <2>2, <2>3 DEF SignalInv
<1>7. Shared
  BY <1>2, <1>3, <1>4 DEF Init, Shared, Sig!Idle
<1> QED BY <1>1, <1>4, <1>5, <1>6, <1>7 DEF EngineInv

LEMMA EngineStep ==
    ASSUME EngineInv, [Next]_vars
    PROVE  EngineInv' /\ [Sched!Next]_(Sched!vars) /\ [Sig!Next]_(Sig!vars)
<1>1. [Sched!Next]_(Sched!vars) /\ [SP!Next]_(SP!vars)
  BY SchedulerStep, SameScheduler
<1>2. [Sig!Next]_(Sig!vars) /\ [GP!Next]_(GP!vars)
  BY SignalStep, SameSignal
<1>3. SchedulerInv'
  <2>1. SP!Inv /\ SP!SlotInv /\ SP!RegistryExact
    BY DEF EngineInv, SchedulerInv
  <2>2. SP!Inv'
    BY <1>1, <2>1, PartsAssumed, SP!InvStep
  <2>3. SP!SlotInv'
    BY <1>1, <2>1, PartsAssumed, SP!SlotStep DEF SP!Kept2
  <2>4. SP!RegistryExact'
    BY <1>1, <2>1, PartsAssumed, SP!RegistryStep
  <2> QED BY <2>2, <2>3, <2>4 DEF SchedulerInv
<1>4. SignalInv'
  <2>1. GP!TableInv /\ GP!AnchorInv /\ GP!WaitersInv
    BY DEF EngineInv, SignalInv
  <2>2. GP!TableInv'
    BY <1>2, <2>1, PartsAssumed, GP!TableKept
  <2>3. GP!AnchorInv'
    BY <1>2, <2>1, PartsAssumed, GP!AnchorStep
  <2>4. GP!WaitersInv'
    BY <1>2, <2>1, PartsAssumed, GP!WaitersStep
  <2> QED BY <2>2, <2>3, <2>4 DEF SignalInv
<1>5. Shared'
  BY FiredStep, RunStep DEF Shared, Sig!Idle
<1> QED BY <1>1, <1>2, <1>3, <1>4, <1>5 DEF EngineInv

LEMMA EngineInvariant == Spec => []EngineInv
<1>1. EngineInv /\ [Next]_vars => EngineInv'
  BY EngineStep
<1> QED BY EngineInit, <1>1, PTL DEF Spec

\* What Fire, the wake-ups and the program do to the scheduler is what
\* LuaScheduler assumes of its environment: no thread is scheduled twice, and
\* only a coroutine inside Signal:Wait is woken (Signal.cpp:114-160).
THEOREM SchedulerRespected == Spec => SchedulerKept
<1>1. EngineInv /\ [Next]_vars => [Sched!Next]_(Sched!vars)
  BY EngineStep
<1> QED BY EngineInit, EngineInvariant, <1>1, PTL DEF Spec, SchedulerKept, Sched!Spec

\* What the scheduler and the program do to the signal is what Signal assumes:
\* nothing connects, waits or ends during a Fire, and a thread leaves the map of
\* tasks only when its callback has ended (LuaScheduler.cpp:423-446).
THEOREM SignalRespected == Spec => SignalKept
<1>1. EngineInv /\ [Next]_vars => [Sig!Next]_(Sig!vars)
  BY EngineStep
<1> QED BY EngineInit, EngineInvariant, <1>1, PTL DEF Spec, SignalKept, Sig!Spec

\* A frame's Fire leaves no coroutine parked on the signal, although scripts are
\* destroyed while they are listed (Signal.cpp:106-121).
THEOREM FireWakes == Spec => FireWakesAll
<1> DEFINE Wakes == fired /\ stage = "main" /\ stage' = "wake" => InWait = {}
<1>1. ASSUME EngineInv, [Next]_vars PROVE [Wakes]_vars
  <2>1. SUFFICES ASSUME Next, fired, stage = "main", stage' = "wake" PROVE InWait = {}
    BY <1>1
  <2>2. CASE BeginStep
    <3>1. cursor = 0 /\ waking = << >>
      BY <1>1, <2>1, <2>2, SignalFacts DEF BeginStep, EngineInv
    <3>2. waiters = << >>
      BY <1>1, <2>1, <3>1 DEF EngineInv, Shared
    <3> QED BY <1>1, <3>1, <3>2, SignalFacts DEF EngineInv, Range
  <2>3. CASE StartUp \/ Step
    BY <2>1, <2>3
    DEF StartUp, Step, SchedulerOnly, Sched!StartLoop, Sched!AddScript, Sched!Stepping,
        Sched!WakeSleeper, Sched!SleepersDone, Sched!MoveNextFrame, Sched!MovesDone,
        Sched!ResumeFront, Sched!ResumesDone
  <2>4. CASE Firing
    BY <2>1, <2>4
    DEF Firing, BeginFire, Dispatch, EndDispatch, WakeWaiter, scheduler, loop
  <2>5. cur = NoCo
    BY <1>1, <2>1, SchedulerFacts DEF EngineInv
  <2>6. ~ Handing /\ ~ Runs
    BY <2>5 DEF Handing, Wait, Suspend, Return, Fail, Runs, Sched!Fail, Sched!Leave
  <2> QED
    BY <2>1, <2>2, <2>3, <2>4, <2>6 DEF Next, Connect, Disconnect, StopScript
<1> QED BY <1>1, EngineInvariant, PTL DEF Spec, FireWakesAll

\* What is proved of each part with any environment it allows holds of the two
\* together: the scheduler's queues, arguments and references, and the signal's
\* table, dispatches and anchoring.
THEOREM PartsCompose ==
    Spec => /\ SP!KeepsPromise /\ []SP!OneSlotEach /\ SP!ResumedAsAsked /\ []SP!RegistryExact
            /\ []GP!FireServesEachOnce /\ []GP!ScheduledAnchored
<1>1. EngineInv /\ [Next]_vars => [SP!Next]_(SP!vars) /\ [GP!Next]_(GP!vars)
  BY EngineStep, SameScheduler, SameSignal
<1>2. Init => SP!Init /\ GP!Init
  BY EngineInit, SameScheduler, SameSignal
<1>3. Spec => SP!Spec
  BY <1>1, <1>2, EngineInvariant, PTL DEF Spec, SP!Spec
<1>4. Spec => GP!Spec
  BY <1>1, <1>2, EngineInvariant, PTL DEF Spec, GP!Spec
<1> QED
  BY <1>3, <1>4, PartsAssumed, SP!PromiseKept, SP!SlotsCorrect, SP!AskedCorrect, SP!RegistryCorrect,
     GP!FireComplete, GP!Anchored, PTL

=============================================================================
