---------------------------- MODULE LuaScheduler ----------------------------
(***************************************************************************)
(* The cooperative scheduler of src/librebox/bootstrap/LuaScheduler.cpp:   *)
(* scripts (coroutines keyed by their BaseScript) and tasks (plain Luau    *)
(* threads), each kind with a ready queue, a next-frame queue and a heap   *)
(* of sleepers.  Once a frame the main loop calls Step, which wakes the    *)
(* sleepers that are due, moves the next-frame queues and resumes ready    *)
(* coroutines, scripts first, until a resume or time budget is spent.      *)
(*                                                                         *)
(* Each iteration of a loop of Step is one action.  While a coroutine runs *)
(* (cur) it makes the calls a Lua program may make: task.spawn,            *)
(* task.delay, Destroy on a script, and then a wait, a bare yield, its     *)
(* end or an error, which give control back to Step.                       *)
(***************************************************************************)
EXTENDS PriorityQueue, Vectors, Functions

CONSTANTS
    Scripts,        \* scripts that may be scheduled at start-up
    Tasks,          \* identities of the threads that task.* and signals create
    NoCo,           \* cur when no coroutine runs
    Delays,         \* positive durations given to wait() and task.delay()
    Stoppable,      \* scripts that Lua code may Destroy
    MaxResumes,     \* maxResumesPerFrame
    Budget,         \* maxTimeBudgetSeconds
    RefreshEvery,   \* resumes between two readings of the clock (8 in the code)
    MaxTime,        \* bound: the clock stops there
    Infinity        \* the wakeTime of a coroutine parked on an event

Co == Scripts \cup Tasks
Kinds == {"script", "task"}
KindOf(c) == IF c \in Scripts THEN "script" ELSE "task"

ASSUME CoroutineAssumption == Scripts \cap Tasks = {} /\ NoCo \notin Co /\ Stoppable \subseteq Scripts
ASSUME TimeAssumption ==
    /\ Delays \subseteq Nat \ {0} /\ MaxTime \in Nat /\ Budget \in Nat /\ Infinity \in Nat
    /\ MaxTime < Infinity /\ \A s \in Delays : MaxTime + s < Infinity
ASSUME BudgetAssumption == MaxResumes \in Nat \ {0} /\ RefreshEvery \in Nat \ {0}

VARIABLES
    stage,      \* "boot" | "main" (between Steps) | "wake" | "move" | "resume"
    kind,       \* the kind of coroutine the current loop of Step handles
    clock,      \* GetTime()
    now,        \* Step's argument
    t,          \* the clock as the resume loops last read it
    resumes,    \* resumes made in this Step
    entry,      \* the maps `state` and `tasks`, a partial function on Co
    ready,      \* ready, readyTasks
    nextFrame,  \* nextFrameQ, nextFrameTasks
    sleeping,   \* sleepingByTime, sleepingTasks: the heaps' vectors
    cur,        \* the coroutine inside lua_resume
    registry,   \* tasks whose thread the Lua registry holds for the scheduler
    call,       \* history: the call each coroutine is suspended in
    arg         \* history: what the running coroutine was resumed with

queues == <<ready, nextFrame, sleeping>>
loop   == <<stage, kind, clock, now, t, resumes>>
vars   == <<loop, entry, queues, cur, registry, call, arg>>

----------------------------------------------------------------------------
\* State kept per coroutine (ScriptState, TaskState).

Entry ==
    [status : {"Running", "Waiting", "Done", "Error"},
     wakeTime : Nat, nextFrame : BOOLEAN,
     lastResumeTime : Nat, passDelta : BOOLEAN, resumeDelta : Nat,
     firstResume : BOOLEAN, hasPending : BOOLEAN,
     ref : BOOLEAN]     \* registryRef # LUA_NOREF (tasks only)

NewEntry(status, wake, next, ref) ==
    [status |-> status, wakeTime |-> wake, nextFrame |-> next,
     lastResumeTime |-> clock, passDelta |-> FALSE, resumeDelta |-> 0,
     firstResume |-> TRUE, hasPending |-> FALSE, ref |-> ref]

Known(c) == c \in DOMAIN entry
Put(f, c, e) == [x \in DOMAIN f \cup {c} |-> IF x = c THEN e ELSE f[x]]
Erase(f, c) == [x \in DOMAIN f \ {c} |-> f[x]]

\* What the comparators read: 0.0 for a coroutine without an entry.
WakeKey == [c \in Co |-> IF Known(c) THEN entry[c].wakeTime ELSE 0]

\* SetWaitEvent, SetWaitAbs, SetWaitNextFrame and their task twins.
ParkedOnEvent(e)     == [e EXCEPT !.status = "Waiting", !.nextFrame = FALSE, !.wakeTime = Infinity]
WaitingUntil(e, abs) == [e EXCEPT !.status = "Waiting", !.nextFrame = FALSE, !.wakeTime = abs]
WaitingFrame(e)      == [e EXCEPT !.status = "Waiting", !.nextFrame = TRUE]

\* History: a coroutine is inside wait(secs) ("sleep"), wait() ("frame"),
\* Signal:Wait() ("event") or a bare yield, is a task of task.delay that has not
\* run ("delay"), or none of these; due is the time a timed call asked for.
Call(op, due) == [op |-> op, due |-> due]
NoCall == Call("none", 0)
Calls == [op : {"none", "sleep", "frame", "event", "yield", "delay"}, due : Nat]

Arg(what, secs) == [what |-> what, secs |-> secs]
Args == [what : {"none", "start", "delta", "event"}, secs : Nat]

Init ==
    /\ stage = "boot" /\ kind = "script"
    /\ clock = 0 /\ now = 0 /\ t = 0 /\ resumes = 0
    /\ entry = << >>
    /\ ready = [k \in Kinds |-> << >>]
    /\ nextFrame = [k \in Kinds |-> << >>]
    /\ sleeping = [k \in Kinds |-> << >>]
    /\ cur = NoCo
    /\ registry = {}
    /\ call = [c \in Co |-> NoCall]
    /\ arg = Arg("none", 0)

Tick ==
    /\ stage = "main" \/ cur # NoCo
    /\ clock < MaxTime
    /\ clock' = clock + 1
    /\ UNCHANGED <<stage, kind, now, t, resumes, entry, queues, cur, registry, call, arg>>

----------------------------------------------------------------------------
\* Start-up: main.cpp schedules each script at most once before its run loop;
\* one that does not compile is not scheduled.

AddScript(s) ==
    /\ stage = "boot" /\ ~ Known(s)
    /\ entry' = Put(entry, s, NewEntry("Running", 0, FALSE, FALSE))
    /\ ready' = [ready EXCEPT !["script"] = Append(@, s)]
    /\ UNCHANGED <<loop, nextFrame, sleeping, cur, registry, call, arg>>

StartLoop ==
    /\ stage = "boot"
    /\ stage' = "main"
    /\ UNCHANGED <<kind, clock, now, t, resumes, entry, queues, cur, registry, call, arg>>

----------------------------------------------------------------------------
\* Creating tasks.  A thread identity is free while it has no entry; the
\* allocator may give a dead thread's address to a new one.

\* Mutant: a listener's thread is scheduled although it is still active.
SchedulableAlways(c) == c \in Tasks

Schedulable(c) == c \in Tasks /\ ~ Known(c)

ScheduleTask(c, e, what) ==
    /\ entry' = Put(entry, c, e)
    /\ registry' = IF e.ref THEN registry \cup {c} ELSE registry
    /\ call' = [call EXCEPT ![c] = what]

ScheduleTaskNextFrame(c, ref) ==
    /\ ScheduleTask(c, NewEntry("Waiting", 0, TRUE, ref), NoCall)
    /\ nextFrame' = [nextFrame EXCEPT !["task"] = Append(@, c)]
    /\ UNCHANGED <<ready, sleeping>>

DelayUntil(secs) == clock + secs

\* The new entry is in the map when the heap compares keys.
ScheduleTaskAt(c, secs) ==
    /\ ScheduleTask(c, NewEntry("Waiting", DelayUntil(secs), FALSE, TRUE),
                    Call("delay", clock + secs))
    /\ sleeping' = [sleeping EXCEPT !["task"] =
                        Push(@, c, [WakeKey EXCEPT ![c] = DelayUntil(secs)])]
    /\ UNCHANGED <<ready, nextFrame>>

----------------------------------------------------------------------------
\* Between Steps the main loop fires the RunService signals.

\* A listener's callback is scheduled, on its reusable thread (no registry
\* reference is handed over) or on an ephemeral one.
FireListener(c) ==
    /\ stage = "main" /\ Schedulable(c)
    /\ \E ref \in BOOLEAN : ScheduleTaskNextFrame(c, ref)
    /\ UNCHANGED <<loop, cur, arg>>

\* ResumeScriptNextFrame, WakeTaskNextFrame.
ResumeNextFrame(c) ==
    /\ entry' = [entry EXCEPT ![c].status = "Running", ![c].nextFrame = TRUE,
                              ![c].hasPending = TRUE]
    /\ nextFrame' = [nextFrame EXCEPT ![KindOf(c)] = Append(@, c)]
    /\ UNCHANGED <<ready, sleeping, registry, call>>

\* A signal wakes one that waits for it.
WakeWaiter(c) ==
    /\ stage = "main"
    /\ Known(c) /\ call[c].op = "event" /\ entry[c].status = "Waiting"
    /\ ResumeNextFrame(c)
    /\ UNCHANGED <<loop, cur, arg>>

----------------------------------------------------------------------------
\* Step: waking and moving.

BeginStep ==
    /\ stage = "main"
    /\ stage' = "wake" /\ kind' = "script"
    /\ now' = clock /\ t' = clock /\ resumes' = 0
    /\ UNCHANGED <<clock, entry, queues, cur, registry, call, arg>>

\* The loops alternate script, task; after the task loop comes the next stage.
NextLoop(after) ==
    /\ kind' = IF kind = "script" THEN "task" ELSE "script"
    /\ stage' = IF kind = "script" THEN stage ELSE after
    /\ UNCHANGED <<clock, now, t, resumes>>

\* Mutant: only the frame that hits the time exactly wakes.
DueExactly(e) == e.wakeTime = now
\* Mutant: a sleeper is woken in the last frame before its time.
DueSoon(e) == e.wakeTime <= now + 1

Due(e) == e.wakeTime <= now
\* An entry at the top that no longer waits for a time is handed to ready as is.
Stale(e) == e.status # "Waiting" \/ e.nextFrame

\* Mutant: the elapsed time is taken the wrong way round.
WokenBackwards(e) == [e EXCEPT !.status = "Running", !.nextFrame = FALSE, !.wakeTime = 0,
                               !.passDelta = TRUE, !.resumeDelta = e.lastResumeTime - now]

\* The code leaves wakeTime; nothing reads it again before it is set, so that
\* the model forgets it.
Woken(e) == [e EXCEPT !.status = "Running", !.nextFrame = FALSE, !.wakeTime = 0,
                      !.passDelta = TRUE, !.resumeDelta = now - e.lastResumeTime]

WakeSleeper ==
    /\ stage = "wake" /\ sleeping[kind] # << >>
    /\ LET c == Head(sleeping[kind])
       IN  /\ Known(c) => Stale(entry[c]) \/ Due(entry[c])
           /\ sleeping' = [sleeping EXCEPT ![kind] = Pop(@, WakeKey)]
           /\ ready' = IF Known(c) THEN [ready EXCEPT ![kind] = Append(@, c)] ELSE ready
           /\ entry' = IF Known(c) /\ ~ Stale(entry[c])
                       THEN [entry EXCEPT ![c] = Woken(@)] ELSE entry
    /\ UNCHANGED <<loop, nextFrame, cur, registry, call, arg>>

SleepersDone ==
    /\ stage = "wake"
    /\ sleeping[kind] # << >> =>
         LET c == Head(sleeping[kind])
         IN  Known(c) /\ ~ Stale(entry[c]) /\ ~ Due(entry[c])
    /\ NextLoop("move")
    /\ UNCHANGED <<entry, queues, cur, registry, call, arg>>

\* passDelta is set for scripts only (LuaScheduler.cpp:305, 312-324).
Moved(e) == [e EXCEPT !.status = "Running", !.nextFrame = FALSE, !.wakeTime = 0,
                      !.passDelta = @ \/ kind = "script",
                      !.resumeDelta = now - e.lastResumeTime]

MoveNextFrame ==
    /\ stage = "move" /\ nextFrame[kind] # << >>
    /\ LET c == Head(nextFrame[kind])
       IN  /\ nextFrame' = [nextFrame EXCEPT ![kind] = Tail(@)]
           /\ ready' = IF Known(c) THEN [ready EXCEPT ![kind] = Append(@, c)] ELSE ready
           /\ entry' = IF Known(c) THEN [entry EXCEPT ![c] = Moved(@)] ELSE entry
    /\ UNCHANGED <<loop, sleeping, cur, registry, call, arg>>

MovesDone ==
    /\ stage = "move" /\ nextFrame[kind] = << >>
    /\ NextLoop("resume")
    /\ UNCHANGED <<entry, queues, cur, registry, call, arg>>

----------------------------------------------------------------------------
\* Step: the resume loops.

\* Mutant: one resume too few.
WithinBudgetMinusOne == resumes + 1 < MaxResumes /\ (Budget > 0 => t < now + Budget)

WithinBudget ==
    /\ resumes < MaxResumes
    /\ Budget > 0 => t < now + Budget

\* Mutant: the elapsed seconds win over an event's arguments.
ResumeArgDeltaFirst(e) ==
    IF e.firstResume THEN Arg("start", 0)
    ELSE IF e.passDelta THEN Arg("delta", e.resumeDelta)
    ELSE IF e.hasPending THEN Arg("event", 0) ELSE Arg("none", 0)

\* What lua_resume passes: the event's arguments, the task's own arguments, or
\* the seconds waited.
ResumeArg(e) ==
    IF e.hasPending THEN Arg("event", 0)
    ELSE IF e.firstResume THEN Arg("start", 0)
    ELSE IF e.passDelta THEN Arg("delta", e.resumeDelta) ELSE Arg("none", 0)

\* A first resume leaves passDelta as it is (LuaScheduler.cpp:356, 409-411).
\* resumeDelta is not read again before Step sets it.
Resumed(e) == [e EXCEPT !.hasPending = FALSE, !.resumeDelta = 0,
                        !.passDelta = @ /\ e.firstResume /\ ~ e.hasPending]

ResumeFront ==
    /\ stage = "resume" /\ cur = NoCo
    /\ ready[kind] # << >> /\ WithinBudget
    /\ LET c == Head(ready[kind])
           runs == Known(c) /\ entry[c].status = "Running"
       IN  /\ ready' = [ready EXCEPT ![kind] = Tail(@)]
           /\ nextFrame' = IF Known(c) /\ ~ runs
                           THEN [nextFrame EXCEPT ![kind] = Append(@, c)] ELSE nextFrame
           /\ cur' = IF runs THEN c ELSE NoCo
           /\ resumes' = IF runs THEN resumes + 1 ELSE resumes
           /\ arg' = IF runs THEN ResumeArg(entry[c]) ELSE arg
           /\ entry' = IF runs THEN [entry EXCEPT ![c] = Resumed(@)] ELSE entry
           /\ call' = IF runs THEN [call EXCEPT ![c] = NoCall] ELSE call
    /\ UNCHANGED <<stage, kind, clock, now, t, sleeping, registry>>

\* Step returns; its locals go with it.
EndStep ==
    /\ stage' = "main" /\ kind' = "script"
    /\ now' = 0 /\ t' = 0 /\ resumes' = 0
    /\ UNCHANGED clock

ResumesDone ==
    /\ stage = "resume" /\ cur = NoCo
    /\ ready[kind] = << >> \/ ~ WithinBudget
    /\ IF kind = "script" THEN NextLoop("resume") ELSE EndStep
    /\ UNCHANGED <<entry, queues, cur, registry, call, arg>>

----------------------------------------------------------------------------
\* What the running coroutine does.

TaskSpawn(c) ==
    /\ cur # NoCo /\ Schedulable(c)
    /\ ScheduleTaskNextFrame(c, TRUE)
    /\ UNCHANGED <<loop, cur, arg>>

TaskDelay(c) ==
    /\ cur # NoCo /\ Schedulable(c)
    /\ \E secs \in Delays \cup {0} : ScheduleTaskAt(c, secs)
    /\ UNCHANGED <<loop, cur, arg>>

\* StopScript, reached from Destroy; s may be the running script itself.  The
\* heap keeps its pointer.
StopScript(s) ==
    /\ cur # NoCo /\ Known(s)
    /\ entry' = Erase(entry, s)
    /\ ready' = [ready EXCEPT !["script"] = Without(@, s)]
    /\ nextFrame' = [nextFrame EXCEPT !["script"] = Without(@, s)]
    /\ call' = [call EXCEPT ![s] = NoCall]
    /\ UNCHANGED <<loop, sleeping, cur, registry, arg>>

\* Mutant: the resume loops never look at the clock.
ClockNeverRead == t

ClockRead == IF resumes % RefreshEvery = 0 THEN clock ELSE t

\* lua_resume has returned: the clock is read every RefreshEvery resumes.
ReturnToStep ==
    /\ cur' = NoCo
    /\ t' = ClockRead
    /\ arg' = Arg("none", 0)
    /\ UNCHANGED <<stage, kind, clock, now, resumes>>

Enqueue(q, c) == [q EXCEPT ![KindOf(c)] = Append(@, c)]

\* Mutant: a coroutine parked on an event is taken for a sleeper.
SleepsEvenParked(e) == e.status = "Waiting" /\ ~ e.nextFrame

Sleeps(e) == e.status = "Waiting" /\ ~ e.nextFrame /\ e.wakeTime # Infinity
Parked(e) == e.status = "Waiting" /\ ~ e.nextFrame /\ e.wakeTime = Infinity

\* A coroutine with an entry yields; e is its entry as the call left it.
Requeue(c, e) ==
    /\ entry' = [entry EXCEPT ![c] = [e EXCEPT !.firstResume = FALSE, !.lastResumeTime = now]]
    /\ nextFrame' = IF Sleeps(e) \/ Parked(e) THEN nextFrame ELSE Enqueue(nextFrame, c)
    /\ sleeping' = IF Sleeps(e)
                   THEN [sleeping EXCEPT ![KindOf(c)] =
                           Push(@, c, [WakeKey EXCEPT ![c] = e.wakeTime])]
                   ELSE sleeping

Yield(e, op, due) ==
    /\ Requeue(cur, e)
    /\ call' = [call EXCEPT ![cur] = Call(op, due)]
    /\ ReturnToStep
    /\ UNCHANGED <<ready, registry>>

\* wait() and task.wait(), with and without a duration.  Excluded: a call below
\* a metamethod or a C function, where lua_yield raises an error after the entry
\* has been marked, and which pcall lets run on.
Wait ==
    /\ cur # NoCo /\ Known(cur)
    /\ \/ \E secs \in Delays : Yield(WaitingUntil(entry[cur], clock + secs), "sleep", clock + secs)
       \/ Yield(WaitingFrame(entry[cur]), "frame", 0)

\* Signal:Wait()
WaitEvent ==
    /\ cur # NoCo /\ Known(cur)
    /\ Yield(ParkedOnEvent(entry[cur]), "event", 0)

\* coroutine.yield() outside any coroutine of the program's own.
BareYield ==
    /\ cur # NoCo /\ Known(cur)
    /\ Yield(entry[cur], "yield", 0)

\* Nothing reads the other fields of an entry in this status.
Retired(status) ==
    [status |-> status, wakeTime |-> 0, nextFrame |-> FALSE, lastResumeTime |-> 0,
     passDelta |-> FALSE, resumeDelta |-> 0, firstResume |-> FALSE,
     hasPending |-> FALSE, ref |-> FALSE]

\* Mutant: the error path keeps the reference.
ReleasedUnlessError(e, status) == IF e.ref /\ status = "Done" THEN {cur} ELSE {}

\* The registry reference given up when a task ends with the given status.
Released(e, status) == IF e.ref THEN {cur} ELSE {}

\* The coroutine returns or raises an error.  A script keeps its entry; a task
\* gives up its registry reference, if it carries one, and its entry.
Leave(status) ==
    /\ cur # NoCo /\ Known(cur)
    /\ entry' = IF cur \in Scripts THEN [entry EXCEPT ![cur] = Retired(status)]
                                   ELSE Erase(entry, cur)
    /\ registry' = registry \ Released(entry[cur], status)
    /\ ReturnToStep
    /\ UNCHANGED <<queues, call>>

Finish == Leave("Done")
Fail   == Leave("Error")

\* A script that was destroyed while it ran gives control back.  Step still
\* reads st, which StopScript freed: whatever the bytes say, it enqueues the
\* script on the next frame, as a sleeper, or nowhere.  Excluded: that a task
\* created since has got the memory, and that what Step writes through st falls
\* on its entry.
LeaveStopped ==
    /\ cur # NoCo /\ ~ Known(cur)
    /\ \/ nextFrame' = Enqueue(nextFrame, cur) /\ UNCHANGED sleeping
       \/ sleeping' = [sleeping EXCEPT !["script"] = Push(@, cur, WakeKey)] /\ UNCHANGED nextFrame
       \/ UNCHANGED <<nextFrame, sleeping>>
    /\ ReturnToStep
    /\ UNCHANGED <<entry, ready, registry, call>>

----------------------------------------------------------------------------
MainLoop == Tick \/ StartLoop \/ BeginStep
Stepping == WakeSleeper \/ SleepersDone \/ MoveNextFrame \/ MovesDone \/ ResumeFront \/ ResumesDone
Handing  == Wait \/ WaitEvent \/ BareYield \/ Finish \/ Fail \/ LeaveStopped

Next ==
    \/ MainLoop
    \/ \E s \in Scripts : AddScript(s)
    \/ \E c \in Tasks : FireListener(c) \/ TaskSpawn(c) \/ TaskDelay(c)
    \/ \E c \in Co : WakeWaiter(c)
    \/ Stepping
    \/ \E s \in Stoppable : StopScript(s)
    \/ Handing

Spec == Init /\ [][Next]_vars

\* The main loop keeps calling Step while the window is open, a resumed
\* coroutine gives control back, and time passes (Tick is taken between Steps
\* or in a coroutine only, so that it is never continuously enabled).
Fairness ==
    /\ WF_vars(StartLoop) /\ WF_vars(BeginStep) /\ SF_vars(Tick)
    /\ WF_vars(Stepping) /\ WF_vars(Handing)

FairSpec == Spec /\ Fairness

----------------------------------------------------------------------------
\* What the scheduler promises: the queue a coroutine stands in is what it does.

Queued(c, q) == c \in Range(q[KindOf(c)])

ModeOf(c) ==
    IF c = cur THEN IF Known(c) THEN "running" ELSE "doomed"
    ELSE IF ~ Known(c) THEN "gone"
    ELSE IF Queued(c, ready) \/ Queued(c, nextFrame) THEN "runnable"
    ELSE IF Queued(c, sleeping) THEN "sleeping"
    ELSE IF entry[c].status \in {"Done", "Error"} THEN "ended" ELSE "parked"

DueOf(c) == IF ModeOf(c) = "sleeping" THEN entry[c].wakeTime ELSE 0

started == stage # "boot"
modes   == [c \in Co |-> ModeOf(c)]
dues    == [c \in Co |-> DueOf(c)]

Promise == INSTANCE Coroutines WITH mode <- modes, due <- dues

\* The scheduler keeps the promise of Coroutines, whatever queue a coroutine
\* passes through: none is forgotten in a queue or left out of all of them, no
\* sleeper wakes early, no event is made up, and nothing that has ended or was
\* destroyed runs again.
KeepsPromise == Promise!Spec

----------------------------------------------------------------------------
\* Properties.

\* Every variable holds a value of the type the code gives it.
TypeOK ==
    /\ stage \in {"boot", "main", "wake", "move", "resume"} /\ kind \in Kinds
    /\ clock \in 0..MaxTime /\ now \in Nat /\ t \in Nat /\ resumes \in 0..MaxResumes
    /\ DOMAIN entry \subseteq Co /\ \A c \in DOMAIN entry : entry[c] \in Entry
    /\ ready \in [Kinds -> Seq(Co)]
    /\ nextFrame \in [Kinds -> Seq(Co)]
    /\ sleeping \in [Kinds -> Seq(Co)]
    /\ cur \in Co \cup {NoCo}
    /\ registry \subseteq Tasks
    /\ call \in [Co -> Calls] /\ arg \in Args

SlotsIn(q, c) == {i \in DOMAIN q : q[i] = c}
Slots(c) ==
    LET k == KindOf(c)
    IN  Cardinality(SlotsIn(ready[k], c)) + Cardinality(SlotsIn(nextFrame[k], c))
          + Cardinality(SlotsIn(sleeping[k], c))

\* A coroutine that must run again without an event: Step has to find it.
Enqueued(e) ==
    \/ e.status = "Running"
    \/ e.status = "Waiting" /\ (e.nextFrame \/ e.wakeTime # Infinity)

\* No coroutine is lost and none is queued twice: one that is to run again on
\* its own stands in exactly one of the three queues of its kind, and one that
\* runs, is parked on an event or has ended stands in none.  (A second slot
\* would resume it in the middle of a later wait.)  A destroyed script may
\* still occupy its slot among the sleepers.
OneSlotEach ==
    \A c \in Co :
        IF ~ Known(c) THEN Slots(c) <= (IF c \in Scripts THEN 1 ELSE 0)
        ELSE Slots(c) = IF c # cur /\ Enqueued(entry[c]) THEN 1 ELSE 0

\* A coroutine is resumed with what the call it is suspended in promises: an
\* event's arguments exactly when it waits for an event, the seconds waited
\* after wait(secs) and never before that time has come, and its own arguments
\* when task.delay starts it, again not before its time.
ResumedAsAsked ==
    [][cur' # cur /\ cur' # NoCo =>
        LET c == cur'
        IN  /\ call[c].op = "event" <=> arg'.what = "event"
            /\ call[c].op \in {"sleep", "delay"} => now >= call[c].due
            /\ call[c].op = "sleep" => /\ arg'.what = "delta"
                                       /\ arg'.secs >= call[c].due - entry[c].lastResumeTime
            /\ call[c].op = "delay" => arg'.what = "start"]_vars

Overdue(k) ==
    {i \in DOMAIN sleeping[k] :
        Known(sleeping[k][i]) /\ entry[sleeping[k][i]].wakeTime <= now}

\* When the wake loops are over nothing that is due still sleeps ("Wake timed
\* script sleepers", "Wake timed TASK sleepers", LuaScheduler.cpp:253, 275): the top of
\* each heap is the earliest although its keys live outside of it.
DueSleepersWake == stage = "move" => \A k \in Kinds : Overdue(k) = {}

\* The registry holds a scheduled ephemeral thread as long as the scheduler
\* does, and lets it go when the task ends, whichever way it ends.
RegistryExact == registry = {c \in Tasks : Known(c) /\ entry[c].ref}

\* One Step makes at most MaxResumes resumes, and past the deadline it only
\* finishes the batch of RefreshEvery resumes it is in.
BudgetKept ==
    [][cur' # cur /\ cur' # NoCo =>
        /\ resumes' <= MaxResumes
        /\ Budget > 0 /\ clock >= now + Budget => resumes % RefreshEvery # 0]_vars

\* wait() returns the seconds waited, as the comment at ScriptingAPI.cpp:565 says.
WaitReportsSeconds ==
    [][cur' # cur /\ cur' # NoCo =>
        (call[cur'].op \in {"sleep", "frame"} => arg'.what = "delta")]_vars

\* A ready script is resumed in the end, however many tasks and scripts
\* compete for the budget of a Step.
ReadyScriptsRun ==
    \A s \in Scripts : s \in Range(ready["script"]) ~> s \notin Range(ready["script"])

\* A timed wait or a delay is over once its time has come, however late the
\* frames are: the coroutine is made ready.  (Tasks have no claim to the budget:
\* scripts that are always ready may keep them from running.)
TimedCallsWake ==
    \A c \in Co : (call[c].op \in {"sleep", "delay"} /\ call[c].due <= MaxTime)
                     ~> call[c].op \notin {"sleep", "delay"} \/ c \in Range(ready[KindOf(c)])

=============================================================================
