------------------------------- MODULE Engine -------------------------------
(***************************************************************************)
(* The scheduler and a RunService signal at work together: the run loop of *)
(* src/librebox/bootstrap/main.cpp fires the signal and calls Step once a  *)
(* frame, and the scripts and callbacks that Step resumes connect,         *)
(* disconnect, wait for the signal, destroy scripts, return and fail.      *)
(*                                                                         *)
(* Signal relies on the scheduler's map of tasks, LuaScheduler relies on   *)
(* whoever schedules threads and wakes coroutines.  An action here is the  *)
(* code of the side that acts together with what the other side's function *)
(* does, never with the guard under which the other module allows it.  That*)
(* these guards hold all the same is what SchedulerKept and SignalKept say.*)
(***************************************************************************)
EXTENDS Integers, Sequences, FiniteSets, Functions

CONSTANTS
    Scripts, Stoppable,                 \* as in LuaScheduler
    NoCo, Delays, MaxResumes, Budget, RefreshEvery, MaxTime, Infinity,
    MaxListeners, Ephemerals            \* as in Signal

VARIABLES
    stage, kind, clock, now, t, resumes,            \* of LuaScheduler
    entry, ready, nextFrame, sleeping, cur,
    registry,   \* the references the scheduler has to release
    call, arg,
    listeners, id2idx, activeIdx,                   \* of Signal
    tmpActive, cursor, waiters, waking,
    lmStack, dead, stopped, owed,
    fired       \* the signal has been fired in this frame

Threads == {<<i>> : i \in 1..MaxListeners} \cup Ephemerals
Co == Scripts \cup Threads

ASSUME ThreadAssumption ==
    /\ MaxListeners \in Nat
    /\ Scripts \cap Threads = {} /\ NoCo \notin Co /\ Stoppable \subseteq Scripts
    /\ \A e \in Ephemerals : \A i \in 1..MaxListeners : e # <<i>>
ASSUME LoopAssumption ==
    /\ Delays \subseteq Nat \ {0} /\ MaxTime \in Nat /\ Budget \in Nat /\ Infinity \in Nat
    /\ MaxTime < Infinity /\ \A s \in Delays : MaxTime + s < Infinity
    /\ MaxResumes \in Nat \ {0} /\ RefreshEvery \in Nat \ {0}

Sched == INSTANCE LuaScheduler WITH Tasks <- Threads

\* What the signal sees of the scheduler: its map of tasks, with whether it has a
\* reference to release, and who is parked on an event.  A connected listener
\* holds a reference of its own to its thread.
TaskRefs     == [th \in DOMAIN entry \cap Threads |-> entry[th].ref]
ListenerRefs == {<<i>> : i \in {j \in DOMAIN listeners : listeners[j].connected}}
InWait       == {c \in DOMAIN entry : Sched!Parked(entry[c])}

Sig == INSTANCE Signal WITH
    Coroutines <- Co,
    tasks      <- TaskRefs,
    registry   <- registry \cup ListenerRefs,
    suspended  <- InWait

table     == <<listeners, id2idx, activeIdx>>
walk      == <<tmpActive, cursor>>
signal    == <<table, walk, waiters, waking, lmStack, dead, stopped, owed>>
loop      == <<stage, kind, clock, now, t, resumes>>
schedule  == <<entry, ready, nextFrame, sleeping, registry, call>>
scheduler == <<loop, schedule, cur, arg>>
vars      == <<scheduler, signal, fired>>

Init ==
    /\ Sched!Init
    /\ listeners = << >> /\ id2idx = << >> /\ activeIdx = << >>
    /\ tmpActive = << >> /\ cursor = 0
    /\ waiters = << >> /\ waking = << >>
    /\ lmStack = {} /\ dead = {} /\ stopped = {}
    /\ owed = [i \in 1..MaxListeners |-> 0]
    /\ fired = FALSE

----------------------------------------------------------------------------
\* The frame: Fire, then Step.

SchedulerOnly(A) == A /\ UNCHANGED <<signal, fired>>

\* Time stands still: no call modelled here asks for any.
StartUp ==
    \/ SchedulerOnly(Sched!StartLoop)
    \/ \E s \in Scripts : SchedulerOnly(Sched!AddScript(s))

BeginFire ==
    /\ stage = "main" /\ ~ fired
    /\ Sig!EphemeralsSuffice
    /\ tmpActive' = activeIdx /\ cursor' = 1
    /\ owed' = [i \in DOMAIN owed |-> IF i \in Range(activeIdx) THEN 1 ELSE 0]
    /\ fired' = TRUE
    /\ UNCHANGED <<scheduler, table, waiters, waking, lmStack, dead, stopped>>

\* Mutant: the scheduler is to release the listener's reference.
RefHandedOver == TRUE

\* LUA_NOREF is passed with a reusable thread: the listener keeps its reference.
ReusableRef == FALSE

\* IsTaskActive decides which thread ScheduleTaskNextFrame gets.
Dispatch ==
    /\ cursor \in 1..Len(Sig!Walk)
    /\ LET idx == Sig!Walk[cursor]
           own == <<idx>>
       IN  /\ Sig!Connected(idx)
           /\ \/ Sig!UsesReusable(own) /\ Sched!ScheduleTaskNextFrame(own, ReusableRef)
              \/ /\ ~ Sig!UsesReusable(own)
                 /\ \E new \in Ephemerals \ DOMAIN entry : Sched!ScheduleTaskNextFrame(new, TRUE)
           /\ IF listeners[idx].once THEN Sig!DisconnectTable(idx) ELSE UNCHANGED table
           /\ owed' = [owed EXCEPT ![idx] = @ - 1]
    /\ cursor' = cursor + 1
    /\ UNCHANGED <<loop, cur, arg, tmpActive, waiters, waking, lmStack, dead, stopped, fired>>

EndDispatch == UNCHANGED <<scheduler, table, lmStack, dead, fired>> /\ Sig!EndDispatch

\* Mutant: only scripts are woken.
WokenIfScript(c) == c \in Scripts /\ Sched!Known(c)

\* GetScriptThread and WakeTaskNextFrame find nothing for a coroutine that is gone.
IsWoken(c) == Sched!Known(c)

WakeWaiter ==
    /\ waking # << >>
    /\ LET c == Head(waking)
       IN  IF IsWoken(c) THEN Sched!ResumeNextFrame(c) ELSE UNCHANGED schedule
    /\ waking' = Tail(waking)
    /\ UNCHANGED <<loop, cur, arg, table, walk, waiters, lmStack, dead, stopped, owed, fired>>

\* Bound: a frame whose Fire would need more thread identities than there are
\* goes without it.
BeginStep ==
    /\ IF fired THEN Sig!Idle ELSE ~ Sig!EphemeralsSuffice
    /\ Sched!BeginStep
    /\ fired' = FALSE
    /\ UNCHANGED signal

Step == SchedulerOnly(Sched!Stepping)

----------------------------------------------------------------------------
\* What the running coroutine does.  A thread that an error has left unusable
\* does nothing: lua_resume returns an error at once.

Runs == cur # NoCo /\ cur \notin dead

Connect(once) ==
    /\ Runs /\ Len(listeners) < MaxListeners
    /\ Sig!ConnectTable(once)
    /\ UNCHANGED <<scheduler, walk, waiters, waking, dead, stopped, owed, fired>>

Disconnect(id) ==
    /\ Runs /\ id \in DOMAIN id2idx
    /\ Sig!DisconnectTable(id)
    /\ UNCHANGED <<scheduler, walk, waiters, waking, lmStack, dead, stopped, owed, fired>>

\* Bound: callbacks suspend as long as thread identities are left for the
\* listeners they keep busy; without it nobody could be fired at again.
MaySuspend ==
    LET held == {th \in DOMAIN entry \cap Threads : th = cur \/ ~ entry[th].firstResume}
    IN  Cardinality({i \in Range(activeIdx) : <<i>> \in held}) <= Cardinality(Ephemerals \ held)

\* Mutant: a callback's thread is not listed.
ScriptsListed(c) == IF c \in Scripts THEN Append(waiters, c) ELSE waiters

ListedWaiter(c) == Append(waiters, c)

\* Signal:Wait(), by a script destroyed in this very resume too: SetWaitEvent
\* finds no entry for it, and its pointer is listed.
Wait ==
    /\ Runs /\ MaySuspend
    /\ IF Sched!Known(cur) THEN Sched!WaitEvent ELSE Sched!LeaveStopped
    /\ waiters' = ListedWaiter(cur)
    /\ UNCHANGED <<table, walk, waking, lmStack, dead, stopped, owed, fired>>

\* wait(), task.wait(), the end of a coroutine, and that of a destroyed script.
Suspend == Runs /\ MaySuspend /\ SchedulerOnly(Sched!Wait)
Return  == Runs /\ SchedulerOnly(Sched!Finish \/ Sched!LeaveStopped)

\* A reusable thread cannot be resumed after an error.
Fail ==
    /\ Sched!Fail
    /\ dead' = IF cur \in Threads /\ ~ entry[cur].ref THEN dead \cup {cur} ELSE dead
    /\ UNCHANGED <<table, walk, waiters, waking, lmStack, stopped, owed, fired>>

StopScript(s) ==
    /\ Runs
    /\ Sched!StopScript(s)
    /\ stopped' = stopped \cup {s}
    /\ UNCHANGED <<table, walk, waiters, waking, lmStack, dead, owed, fired>>

----------------------------------------------------------------------------
Firing  == BeginFire \/ Dispatch \/ EndDispatch \/ WakeWaiter
Handing == Wait \/ Suspend \/ Return \/ Fail

Next ==
    \/ StartUp \/ Firing \/ BeginStep \/ Step
    \/ \E once \in BOOLEAN : Connect(once)
    \/ \E id \in 1..MaxListeners : Disconnect(id)
    \/ \E s \in Stoppable : StopScript(s)
    \/ Handing

Spec == Init /\ [][Next]_vars

\* The run loop fires and steps for ever; what it resumes gives control back.
Fairness ==
    /\ WF_vars(SchedulerOnly(Sched!StartLoop))
    /\ WF_vars(Firing) /\ WF_vars(BeginStep) /\ WF_vars(Step) /\ WF_vars(Handing)

FairSpec == Spec /\ Fairness

----------------------------------------------------------------------------
\* Properties.

\* What the signal and the run loop do to the scheduler is what LuaScheduler
\* allows its environment: no thread is scheduled twice, and only a coroutine
\* that is inside Signal:Wait is ever woken (Signal.cpp:114-160).
SchedulerKept == Sched!Spec

\* What the scheduler and the program do to the signal is what Signal allows:
\* nothing connects, waits or ends while a Fire is going on, and a listener's
\* thread leaves the map of tasks only when its callback has ended.
SignalKept == Sig!Spec

\* When the frame's Fire is over no coroutine is still parked on the signal:
\* the signal's list and the scheduler's map agree on who waits, although
\* scripts are destroyed while they are in either.
FireWakesAll ==
    [][fired /\ stage = "main" /\ stage' = "wake" =>
        InWait = {}]_vars

\* As long as the signal goes on being fired (frames without a Fire are a bound
\* of the model), a script that waits for it runs again and a task that does is
\* made ready, unless it is destroyed first.  Tasks have no claim to the budget:
\* scripts that are ready in every frame keep them from running.
WaitersRun ==
    []<>fired =>
      \A c \in Co : (Sched!Known(c) /\ Sched!Parked(entry[c])) ~>
        \/ ~ Sched!Known(c)
        \/ IF c \in Scripts THEN cur = c ELSE c \in Range(ready["task"])

=============================================================================
