------------------------- MODULE LuaSchedulerProofs -------------------------
(***************************************************************************)
(* LuaScheduler for every set of scripts and tasks, every budget and every *)
(* rate of clock readings: types (among them that no elapsed time is       *)
(* negative), the registry references of tasks, and the budget of a Step.  *)
(***************************************************************************)
EXTENDS LuaScheduler, ContainerProofs

----------------------------------------------------------------------------
\* Entries.

LEMMA KindIsKind == \A c \in Co : KindOf(c) \in Kinds
BY DEF KindOf, Kinds

\* What Step and the waits write into an entry; neither lastResumeTime nor ref.
LEMMA UpdatesTyped ==
    ASSUME NEW e \in Entry, now \in Nat, Infinity \in Nat, clock \in Nat
    PROVE  /\ e.lastResumeTime <= now => /\ Woken(e) \in Entry
                                         /\ Moved(e) \in Entry
           /\ Woken(e).lastResumeTime = e.lastResumeTime /\ Woken(e).ref = e.ref
           /\ Moved(e).lastResumeTime = e.lastResumeTime /\ Moved(e).ref = e.ref
           /\ Resumed(e) \in Entry
           /\ Resumed(e).lastResumeTime = e.lastResumeTime /\ Resumed(e).ref = e.ref
           /\ ParkedOnEvent(e) \in Entry /\ ParkedOnEvent(e).ref = e.ref
           /\ WaitingFrame(e) \in Entry /\ WaitingFrame(e).ref = e.ref
           /\ \A abs \in Nat : WaitingUntil(e, abs) \in Entry /\ WaitingUntil(e, abs).ref = e.ref
<1>1. e.lastResumeTime <= now => now - e.lastResumeTime \in Nat
  BY DEF Entry
<1>2. e.passDelta \in BOOLEAN /\ e.firstResume \in BOOLEAN /\ e.hasPending \in BOOLEAN
  BY DEF Entry
<1>3. /\ e.lastResumeTime <= now => Woken(e) \in Entry
      /\ Woken(e).lastResumeTime = e.lastResumeTime /\ Woken(e).ref = e.ref
  BY <1>1 DEF Woken, Entry
<1>4. /\ e.lastResumeTime <= now => Moved(e) \in Entry
      /\ Moved(e).lastResumeTime = e.lastResumeTime /\ Moved(e).ref = e.ref
  BY <1>1, <1>2 DEF Moved, Entry
<1>5. /\ Resumed(e) \in Entry
      /\ Resumed(e).lastResumeTime = e.lastResumeTime /\ Resumed(e).ref = e.ref
  BY <1>2 DEF Resumed, Entry
<1>6. ParkedOnEvent(e) \in Entry /\ ParkedOnEvent(e).ref = e.ref
  BY DEF ParkedOnEvent, Entry
<1>7. WaitingFrame(e) \in Entry /\ WaitingFrame(e).ref = e.ref
  BY DEF WaitingFrame, Entry
<1>8. \A abs \in Nat : WaitingUntil(e, abs) \in Entry /\ WaitingUntil(e, abs).ref = e.ref
  BY DEF WaitingUntil, Entry
<1> QED BY <1>3, <1>4, <1>5, <1>6, <1>7, <1>8

LEMMA ArgTyped == \A e \in Entry : ResumeArg(e) \in Args
BY DEF ResumeArg, Arg, Args, Entry

----------------------------------------------------------------------------
\* The invariant, in parts.

LoopOK ==
    /\ stage \in {"boot", "main", "wake", "move", "resume"} /\ kind \in Kinds
    /\ clock \in 0..MaxTime /\ now \in Nat /\ t \in Nat /\ resumes \in 0..MaxResumes

EntriesOK == DOMAIN entry \subseteq Co /\ \A c \in DOMAIN entry : entry[c] \in Entry

QueuesOK ==
    /\ ready \in [Kinds -> Seq(Co)]
    /\ nextFrame \in [Kinds -> Seq(Co)]
    /\ sleeping \in [Kinds -> Seq(Co)]

RunOK ==
    /\ cur \in Co \cup {NoCo} /\ registry \subseteq Tasks
    /\ call \in [Co -> Calls] /\ arg \in Args

LEMMA TypeParts == TypeOK <=> LoopOK /\ EntriesOK /\ QueuesOK /\ RunOK
BY DEF TypeOK, LoopOK, EntriesOK, QueuesOK, RunOK

\* Where the elapsed times come from: an entry never bears a time that is still
\* to come, and while Step wakes and moves, none that is later than its start,
\* because the clock stands still for those loops and coroutines run after them.
ClockInv ==
    /\ now <= clock /\ t <= clock
    /\ cur # NoCo => stage = "resume"
    /\ \A c \in DOMAIN entry :
         /\ entry[c].lastResumeTime <= clock
         /\ stage \in {"wake", "move"} => entry[c].lastResumeTime <= now

Inv == TypeOK /\ ClockInv

----------------------------------------------------------------------------
\* One entry is written, the others stay.

\* f with e for c, whether c was in it or not.
Written(c, e) ==
    /\ DOMAIN entry' = DOMAIN entry \cup {c}
    /\ entry'[c] = e
    /\ \A x \in DOMAIN entry \ {c} : entry'[x] = entry[x]

LEMMA PutWrites == \A c, e : entry' = Put(entry, c, e) => Written(c, e)
BY DEF Put, Written

LEMMA ExceptWrites ==
    \A c \in DOMAIN entry : \A e :
        EntriesOK /\ entry' = [entry EXCEPT ![c] = e] => Written(c, e)
BY DEF Written, EntriesOK

\* How an action may change the entries: one is written, with a time that is
\* not still to come, or one is erased.
EntryStep ==
    \/ UNCHANGED entry
    \/ \E c \in Co, e \in Entry :
         /\ Written(c, e) /\ e.lastResumeTime <= clock
         /\ stage \in {"wake", "move"} => e.lastResumeTime <= now
    \/ \E c \in Co : /\ DOMAIN entry' = DOMAIN entry \ {c}
                     /\ \A x \in DOMAIN entry' : entry'[x] = entry[x]

\* How it may change the clocks the entries are compared with.
ClockStep ==
    /\ clock <= clock'
    /\ stage' \in {"wake", "move"} =>
         \/ stage \in {"wake", "move"} /\ now' = now
         \/ now' = clock /\ UNCHANGED entry

ClockLoop == now <= clock /\ t <= clock /\ (cur # NoCo => stage = "resume")

LEMMA EntriesKept ==
    ASSUME Inv, EntryStep, ClockStep, ClockLoop', LoopOK'
    PROVE  EntriesOK' /\ ClockInv'
<1>0. /\ EntriesOK /\ LoopOK /\ clock \in Nat /\ now \in Nat /\ clock' \in Nat /\ now' \in Nat
      /\ \A c \in DOMAIN entry : entry[c].lastResumeTime \in Nat
  BY TypeParts, TimeAssumption DEF Inv, LoopOK, EntriesOK, Entry
<1>1. EntriesOK'
  BY <1>0 DEF EntryStep, EntriesOK, Written
<1>2. \A x \in DOMAIN entry' :
         /\ entry'[x].lastResumeTime \in Nat /\ entry'[x].lastResumeTime <= clock
         /\ stage \in {"wake", "move"} => entry'[x].lastResumeTime <= now
  <2> TAKE x \in DOMAIN entry'
  <2>1. CASE UNCHANGED entry
    BY <1>0, <2>1 DEF Inv, ClockInv
  <2>2. ASSUME NEW c \in Co, NEW e \in Entry, Written(c, e), e.lastResumeTime <= clock,
               stage \in {"wake", "move"} => e.lastResumeTime <= now
        PROVE  /\ entry'[x].lastResumeTime \in Nat /\ entry'[x].lastResumeTime <= clock
               /\ stage \in {"wake", "move"} => entry'[x].lastResumeTime <= now
    BY <1>0, <2>2 DEF Inv, ClockInv, Written, Entry
  <2>3. ASSUME NEW c \in Co, DOMAIN entry' = DOMAIN entry \ {c},
               \A y \in DOMAIN entry' : entry'[y] = entry[y]
        PROVE  /\ entry'[x].lastResumeTime \in Nat /\ entry'[x].lastResumeTime <= clock
               /\ stage \in {"wake", "move"} => entry'[x].lastResumeTime <= now
    BY <1>0, <2>3 DEF Inv, ClockInv
  <2> QED BY <2>1, <2>2, <2>3 DEF EntryStep
<1>3. \A x \in DOMAIN entry' :
         /\ entry'[x].lastResumeTime <= clock'
         /\ stage' \in {"wake", "move"} => entry'[x].lastResumeTime <= now'
  BY <1>0, <1>2 DEF ClockStep
<1> QED BY <1>1, <1>3 DEF ClockInv, ClockLoop

\* The queues.
LEMMA QueueWritten ==
    ASSUME NEW q \in [Kinds -> Seq(Co)], NEW k \in Kinds
    PROVE  /\ \A s \in Seq(Co) : [q EXCEPT ![k] = s] \in [Kinds -> Seq(Co)]
           /\ \A c \in Co : [q EXCEPT ![k] = Append(@, c)] \in [Kinds -> Seq(Co)]
           /\ q[k] # << >> => /\ [q EXCEPT ![k] = Tail(@)] \in [Kinds -> Seq(Co)]
                              /\ Head(q[k]) \in Co
<1>1. q[k] \in Seq(Co)
  OBVIOUS
<1>2. \A c \in Co : Append(q[k], c) \in Seq(Co)
  BY <1>1, AppendProperties
<1>3. q[k] # << >> => Tail(q[k]) \in Seq(Co) /\ Head(q[k]) \in Co
  BY <1>1, HeadTailProperties
<1> QED BY <1>2, <1>3

LEMMA HeapWritten ==
    ASSUME NEW k \in Kinds, QueuesOK, NEW key
    PROVE  /\ \A c \in Co : [sleeping EXCEPT ![k] = Push(@, c, key)] \in [Kinds -> Seq(Co)]
           /\ sleeping[k] # << >> =>
                /\ [sleeping EXCEPT ![k] = Pop(@, key)] \in [Kinds -> Seq(Co)]
                /\ Head(sleeping[k]) \in Co
<1>1. sleeping[k] \in Seq(Co)
  BY DEF QueuesOK
<1>2. \A c \in Co : Push(sleeping[k], c, key) \in Seq(Co)
  BY <1>1, PushKeeps
<1>3. sleeping[k] # << >> => Pop(sleeping[k], key) \in Seq(Co) /\ Head(sleeping[k]) \in Co
  BY <1>1, PopKeeps, HeadTailProperties
<1> QED BY <1>2, <1>3 DEF QueuesOK

LEMMA ScriptQueueWritten ==
    ASSUME NEW q \in [Kinds -> Seq(Co)], NEW s
    PROVE  [q EXCEPT !["script"] = Without(@, s)] \in [Kinds -> Seq(Co)]
<1>1. "script" \in Kinds /\ q["script"] \in Seq(Co)
  BY DEF Kinds
<1>2. Without(q["script"], s) \in Seq(Co)
  BY <1>1, WithoutKeeps
<1> QED BY <1>1, <1>2

----------------------------------------------------------------------------
\* What every step keeps, one lemma per group of actions.

Kept == LoopOK' /\ QueuesOK' /\ RunOK' /\ ClockLoop' /\ EntryStep /\ ClockStep

LEMMA InvFacts ==
    ASSUME Inv
    PROVE  /\ LoopOK /\ EntriesOK /\ QueuesOK /\ RunOK /\ ClockLoop
           /\ clock \in Nat /\ now \in Nat /\ t \in Nat /\ resumes \in Nat
           /\ MaxTime \in Nat /\ MaxResumes \in Nat /\ Infinity \in Nat
           /\ NoCo \notin Co /\ Delays \subseteq Nat
BY TypeParts, TimeAssumption, BudgetAssumption, CoroutineAssumption
   DEF Inv, LoopOK, ClockInv, ClockLoop

LEMMA LoopSame ==
    ASSUME Inv, UNCHANGED loop, cur' \in {cur, NoCo}
    PROVE  LoopOK' /\ ClockLoop' /\ ClockStep
BY InvFacts DEF loop, LoopOK, ClockLoop, ClockStep

LEMMA LoopReturns ==
    ASSUME Inv, ReturnToStep
    PROVE  LoopOK' /\ ClockLoop' /\ ClockStep /\ cur' = NoCo /\ arg' \in Args
<1>1. Arg("none", 0) \in Args
  BY DEF Arg, Args
<1>2. t' \in {t, clock}
  BY DEF ReturnToStep, ClockRead
<1> QED BY <1>1, <1>2, InvFacts DEF ReturnToStep, LoopOK, ClockLoop, ClockStep

LEMMA CallsTyped ==
    /\ NoCall \in Calls
    /\ \A op \in {"sleep", "frame", "event", "yield", "delay"}, due \in Nat : Call(op, due) \in Calls
BY DEF NoCall, Call, Calls

LEMMA PutEntry ==
    ASSUME Inv, NEW c \in Co, NEW e \in Entry, entry' = Put(entry, c, e),
           e.lastResumeTime <= clock, stage \notin {"wake", "move"}
    PROVE  EntryStep
BY PutWrites DEF EntryStep

\* AddScript, and what the loop does besides coroutines.
LEMMA MainSteps ==
    ASSUME Inv, Tick \/ StartLoop \/ BeginStep \/ (\E s \in Scripts : AddScript(s))
    PROVE  Kept
<1>1. CASE Tick
  <2>1. LoopOK' /\ ClockLoop' /\ EntryStep /\ ClockStep
    BY <1>1, InvFacts DEF Tick, LoopOK, ClockLoop, EntryStep, ClockStep
  <2> QED BY <1>1, <2>1, InvFacts DEF Tick, Kept, QueuesOK, RunOK, queues
<1>2. CASE StartLoop
  <2>1. LoopOK' /\ ClockLoop' /\ EntryStep /\ ClockStep
    BY <1>2, InvFacts DEF StartLoop, LoopOK, ClockLoop, EntryStep, ClockStep
  <2> QED BY <1>2, <2>1, InvFacts DEF StartLoop, Kept, QueuesOK, RunOK, queues
<1>3. CASE BeginStep
  <2>1. LoopOK' /\ ClockLoop' /\ EntryStep /\ ClockStep
    BY <1>3, InvFacts DEF BeginStep, LoopOK, ClockLoop, EntryStep, ClockStep, Kinds
  <2> QED BY <1>3, <2>1, InvFacts DEF BeginStep, Kept, QueuesOK, RunOK, queues
<1>4. ASSUME NEW s \in Scripts, AddScript(s) PROVE Kept
  <2>1. NewEntry("Running", 0, FALSE, FALSE) \in Entry
        /\ NewEntry("Running", 0, FALSE, FALSE).lastResumeTime <= clock
    BY InvFacts DEF NewEntry, Entry
  <2>2. s \in Co /\ "script" \in Kinds
    BY DEF Co, Kinds
  <2>3. EntryStep
    BY <1>4, <2>1, <2>2, PutEntry DEF AddScript
  <2>4. ready' \in [Kinds -> Seq(Co)]
    BY <1>4, <2>2, InvFacts, QueueWritten DEF AddScript, QueuesOK
  <2>5. LoopOK' /\ ClockLoop' /\ ClockStep
    BY <1>4, LoopSame DEF AddScript
  <2> QED BY <1>4, <2>3, <2>4, <2>5, InvFacts DEF AddScript, Kept, QueuesOK, RunOK
<1> QED BY <1>1, <1>2, <1>3, <1>4

\* A task is created.
LEMMA ScheduledTask ==
    ASSUME Inv, NEW c \in Tasks, NEW e \in Entry, NEW what \in Calls, ScheduleTask(c, e, what),
           e.lastResumeTime <= clock, stage \notin {"wake", "move"}
    PROVE  c \in Co /\ EntryStep /\ registry' \subseteq Tasks /\ call' \in [Co -> Calls]
<1>1. c \in Co
  BY DEF Co
<1> QED BY <1>1, PutEntry, InvFacts DEF ScheduleTask, RunOK

LEMMA ScheduledNextFrame ==
    ASSUME Inv, NEW c \in Tasks, NEW ref \in BOOLEAN, ScheduleTaskNextFrame(c, ref),
           UNCHANGED <<loop, cur, arg>>, stage \notin {"wake", "move"}
    PROVE  Kept
<1> DEFINE e == NewEntry("Waiting", 0, TRUE, ref)
<1>1. e \in Entry /\ e.lastResumeTime <= clock
  BY InvFacts DEF NewEntry, Entry
<1>2. ScheduleTask(c, e, NoCall)
  BY DEF ScheduleTaskNextFrame
<1> HIDE DEF e
<1>3. c \in Co /\ EntryStep /\ registry' \subseteq Tasks /\ call' \in [Co -> Calls]
  BY <1>1, <1>2, CallsTyped, ScheduledTask
<1>4. nextFrame' \in [Kinds -> Seq(Co)]
  BY <1>3, InvFacts, QueueWritten DEF ScheduleTaskNextFrame, QueuesOK, Kinds
<1>5. LoopOK' /\ ClockLoop' /\ ClockStep
  BY LoopSame
<1> QED BY <1>3, <1>4, <1>5, InvFacts DEF ScheduleTaskNextFrame, Kept, QueuesOK, RunOK

LEMMA TaskSteps ==
    ASSUME Inv, NEW c \in Tasks, FireListener(c) \/ TaskSpawn(c) \/ TaskDelay(c)
    PROVE  Kept
<1>0. stage \notin {"wake", "move"}
  BY InvFacts DEF FireListener, TaskSpawn, TaskDelay, ClockLoop
<1>1. CASE FireListener(c)
  BY <1>0, <1>1, ScheduledNextFrame DEF FireListener
<1>2. CASE TaskSpawn(c)
  BY <1>0, <1>2, ScheduledNextFrame DEF TaskSpawn
<1>3. CASE TaskDelay(c)
  <2>1. PICK secs \in Delays \cup {0} : ScheduleTaskAt(c, secs)
    BY <1>3 DEF TaskDelay
  <2> DEFINE e == NewEntry("Waiting", DelayUntil(secs), FALSE, TRUE)
  <2>2. DelayUntil(secs) \in Nat /\ clock + secs \in Nat
    BY InvFacts DEF DelayUntil
  <2>3. e \in Entry /\ e.lastResumeTime <= clock
    BY <2>2, InvFacts DEF NewEntry, Entry
  <2>4. ScheduleTask(c, e, Call("delay", clock + secs))
    BY <2>1 DEF ScheduleTaskAt
  <2> HIDE DEF e
  <2>5. c \in Co /\ EntryStep /\ registry' \subseteq Tasks /\ call' \in [Co -> Calls]
    BY <1>0, <2>2, <2>3, <2>4, CallsTyped, ScheduledTask
  <2>6. sleeping' \in [Kinds -> Seq(Co)]
    BY <2>1, <2>5, InvFacts, HeapWritten DEF ScheduleTaskAt, Kinds
  <2>7. LoopOK' /\ ClockLoop' /\ ClockStep
    BY <1>3, LoopSame DEF TaskDelay
  <2> QED BY <1>3, <2>1, <2>5, <2>6, <2>7, InvFacts DEF TaskDelay, ScheduleTaskAt, Kept, QueuesOK, RunOK
<1> QED BY <1>1, <1>2, <1>3

\* Waking, moving, and the wake of an event's waiter: the entry of a known
\* coroutine is rewritten in place.
LEMMA RewrittenEntry ==
    ASSUME Inv, NEW c \in DOMAIN entry, NEW e \in Entry, entry' = [entry EXCEPT ![c] = e],
           e.lastResumeTime = entry[c].lastResumeTime
    PROVE  EntryStep
<1>1. Written(c, e) /\ c \in Co
  BY InvFacts, ExceptWrites DEF EntriesOK
<1> QED BY <1>1 DEF Inv, ClockInv, EntryStep

LEMMA NextLoopKeeps ==
    ASSUME Inv, NEW after \in {"move", "resume"}, NextLoop(after), stage \in {"wake", "move", "resume"},
           cur = NoCo, UNCHANGED <<entry, cur>>,
           after = "move" => stage = "wake"
    PROVE  LoopOK' /\ ClockLoop' /\ ClockStep
BY InvFacts DEF NextLoop, LoopOK, ClockLoop, ClockStep, Kinds

LEMMA WakeSteps ==
    ASSUME Inv, WakeSleeper \/ SleepersDone \/ MoveNextFrame \/ MovesDone
    PROVE  Kept
<1>0. kind \in Kinds /\ EntriesOK /\ QueuesOK /\ now \in Nat /\ clock \in Nat /\ Infinity \in Nat
  BY InvFacts DEF LoopOK
<1>1. CASE WakeSleeper
  <2> DEFINE c == Head(sleeping[kind])
  <2>1. c \in Co /\ sleeping' \in [Kinds -> Seq(Co)]
    BY <1>0, <1>1, HeapWritten DEF WakeSleeper
  <2>2. ready' \in [Kinds -> Seq(Co)]
    BY <1>0, <1>1, <2>1, QueueWritten DEF WakeSleeper, QueuesOK
  <2>3. EntryStep
    <3>1. CASE Known(c) /\ ~ Stale(entry[c])
      <4>1. c \in DOMAIN entry /\ entry[c] \in Entry /\ entry[c].lastResumeTime <= now
        BY <1>1, <3>1, <1>0 DEF Known, EntriesOK, Inv, ClockInv, WakeSleeper
      <4>2. entry' = [entry EXCEPT ![c] = Woken(entry[c])]
        BY <1>1, <3>1 DEF WakeSleeper
      <4>3. Woken(entry[c]) \in Entry /\ Woken(entry[c]).lastResumeTime = entry[c].lastResumeTime
        BY <1>0, <4>1, UpdatesTyped
      <4> QED BY <4>1, <4>2, <4>3, RewrittenEntry
    <3>2. CASE ~ (Known(c) /\ ~ Stale(entry[c]))
      BY <1>1, <3>2 DEF WakeSleeper, EntryStep
    <3> QED BY <3>1, <3>2
  <2>4. LoopOK' /\ ClockLoop' /\ ClockStep
    BY <1>1, LoopSame DEF WakeSleeper
  <2> QED BY <1>1, <2>1, <2>2, <2>3, <2>4, InvFacts DEF WakeSleeper, Kept, QueuesOK, RunOK
<1>2. CASE SleepersDone
  <2>1. cur = NoCo
    BY <1>2, InvFacts DEF SleepersDone, ClockLoop
  <2>2. LoopOK' /\ ClockLoop' /\ ClockStep
    BY <1>2, <2>1, NextLoopKeeps DEF SleepersDone
  <2> QED BY <1>2, <2>2, InvFacts DEF SleepersDone, Kept, EntryStep, QueuesOK, RunOK, queues
<1>3. CASE MoveNextFrame
  <2> DEFINE c == Head(nextFrame[kind])
  <2>1. c \in Co /\ nextFrame' \in [Kinds -> Seq(Co)]
    BY <1>0, <1>3, QueueWritten DEF MoveNextFrame, QueuesOK
  <2>2. ready' \in [Kinds -> Seq(Co)]
    BY <1>0, <1>3, <2>1, QueueWritten DEF MoveNextFrame, QueuesOK
  <2>3. EntryStep
    <3>1. CASE Known(c)
      <4>1. c \in DOMAIN entry /\ entry[c] \in Entry /\ entry[c].lastResumeTime <= now
        BY <1>3, <3>1, <1>0 DEF Known, EntriesOK, Inv, ClockInv, MoveNextFrame
      <4>2. entry' = [entry EXCEPT ![c] = Moved(entry[c])]
        BY <1>3, <3>1 DEF MoveNextFrame
      <4>3. Moved(entry[c]) \in Entry /\ Moved(entry[c]).lastResumeTime = entry[c].lastResumeTime
        BY <1>0, <4>1, UpdatesTyped
      <4> QED BY <4>1, <4>2, <4>3, RewrittenEntry
    <3>2. CASE ~ Known(c)
      BY <1>3, <3>2 DEF MoveNextFrame, EntryStep
    <3> QED BY <3>1, <3>2
  <2>4. LoopOK' /\ ClockLoop' /\ ClockStep
    BY <1>3, LoopSame DEF MoveNextFrame
  <2> QED BY <1>3, <2>1, <2>2, <2>3, <2>4, InvFacts DEF MoveNextFrame, Kept, QueuesOK, RunOK
<1>4. CASE MovesDone
  <2>1. cur = NoCo
    BY <1>4, InvFacts DEF MovesDone, ClockLoop
  <2>2. LoopOK' /\ ClockLoop' /\ ClockStep
    BY <1>4, <2>1, NextLoopKeeps DEF MovesDone
  <2> QED BY <1>4, <2>2, InvFacts DEF MovesDone, Kept, EntryStep, QueuesOK, RunOK, queues
<1> QED BY <1>1, <1>2, <1>3, <1>4

LEMMA WaiterStep ==
    ASSUME Inv, NEW c \in Co, WakeWaiter(c)
    PROVE  Kept
<1> DEFINE e == [entry[c] EXCEPT !.status = "Running", !.nextFrame = TRUE, !.hasPending = TRUE]
<1>1. c \in DOMAIN entry /\ entry[c] \in Entry
  BY InvFacts DEF WakeWaiter, Known, EntriesOK
<1>2. e \in Entry /\ e.lastResumeTime = entry[c].lastResumeTime
  BY <1>1 DEF Entry
<1>3. entry' = [entry EXCEPT ![c] = e]
  BY <1>1 DEF WakeWaiter, ResumeNextFrame
<1> HIDE DEF e
<1>4. EntryStep
  BY <1>1, <1>2, <1>3, RewrittenEntry
<1>5. nextFrame' \in [Kinds -> Seq(Co)]
  BY InvFacts, KindIsKind, QueueWritten DEF WakeWaiter, ResumeNextFrame, QueuesOK
<1>6. LoopOK' /\ ClockLoop' /\ ClockStep
  BY LoopSame DEF WakeWaiter
<1> QED BY <1>4, <1>5, <1>6, InvFacts DEF WakeWaiter, ResumeNextFrame, Kept, QueuesOK, RunOK

\* The resume loops.
LEMMA ResumeSteps ==
    ASSUME Inv, ResumeFront \/ ResumesDone
    PROVE  Kept
<1>0. kind \in Kinds /\ EntriesOK /\ QueuesOK /\ RunOK /\ now \in Nat /\ clock \in Nat /\ Infinity \in Nat
  BY InvFacts DEF LoopOK
<1>1. CASE ResumeFront
  <2> DEFINE c == Head(ready[kind])
             runs == Known(c) /\ entry[c].status = "Running"
  <2>1. c \in Co /\ ready' \in [Kinds -> Seq(Co)]
    BY <1>0, <1>1, QueueWritten DEF ResumeFront, QueuesOK
  <2>2. nextFrame' \in [Kinds -> Seq(Co)]
    BY <1>0, <1>1, <2>1, QueueWritten DEF ResumeFront, QueuesOK
  <2>3. runs => c \in DOMAIN entry /\ entry[c] \in Entry
    BY <1>0 DEF Known, EntriesOK
  <2>4. EntryStep
    <3>1. CASE runs
      <4>1. entry' = [entry EXCEPT ![c] = Resumed(entry[c])]
        BY <1>1, <3>1 DEF ResumeFront
      <4>2. Resumed(entry[c]) \in Entry /\ Resumed(entry[c]).lastResumeTime = entry[c].lastResumeTime
        BY <1>0, <2>3, <3>1, UpdatesTyped
      <4> QED BY <2>3, <3>1, <4>1, <4>2, RewrittenEntry
    <3>2. CASE ~ runs
      BY <1>1, <3>2 DEF ResumeFront, EntryStep
    <3> QED BY <3>1, <3>2
  <2>5. RunOK'
    <3>1. cur' \in Co \cup {NoCo} /\ registry' \subseteq Tasks
      BY <1>0, <1>1, <2>1 DEF ResumeFront, RunOK
    <3>2. call' \in [Co -> Calls] /\ arg' \in Args
      BY <1>0, <1>1, <2>1, <2>3, CallsTyped, ArgTyped DEF ResumeFront, RunOK
    <3> QED BY <3>1, <3>2 DEF RunOK
  <2>6. resumes' \in 0..MaxResumes
    BY <1>1, InvFacts DEF ResumeFront, WithinBudget, LoopOK
  <2>7. LoopOK' /\ ClockLoop' /\ ClockStep
    BY <1>1, <2>6, InvFacts DEF ResumeFront, LoopOK, ClockLoop, ClockStep
  <2> QED BY <1>0, <1>1, <2>1, <2>2, <2>4, <2>5, <2>7 DEF ResumeFront, Kept, QueuesOK
<1>2. CASE ResumesDone
  <2>0. stage = "resume" /\ cur' = NoCo /\ UNCHANGED clock /\ LoopOK /\ ClockLoop
    BY <1>2, InvFacts DEF ResumesDone, NextLoop, EndStep
  <2>1. LoopOK' /\ ClockLoop' /\ ClockStep
    <3>1. CASE kind = "script"
      <4>1. kind' = "task" /\ stage' = "resume" /\ UNCHANGED <<clock, now, t, resumes>>
        BY <1>2, <2>0, <3>1 DEF ResumesDone, NextLoop
      <4> QED BY <2>0, <4>1, InvFacts DEF LoopOK, ClockLoop, ClockStep, Kinds
    <3>2. CASE kind # "script"
      <4>1. kind' = "script" /\ stage' = "main" /\ now' = 0 /\ t' = 0 /\ resumes' = 0
        BY <1>2, <3>2 DEF ResumesDone, EndStep
      <4> QED BY <2>0, <4>1, InvFacts DEF LoopOK, ClockLoop, ClockStep, Kinds
    <3> QED BY <3>1, <3>2
  <2> QED BY <1>2, <2>1, InvFacts DEF ResumesDone, Kept, EntryStep, QueuesOK, RunOK, queues
<1> QED BY <1>1, <1>2

\* The running coroutine gives control back with its entry e.
LEMMA YieldKeeps ==
    ASSUME Inv, NEW e \in Entry, NEW op \in {"sleep", "frame", "event", "yield"}, NEW due \in Nat,
           cur # NoCo, Known(cur), Yield(e, op, due)
    PROVE  Kept
<1> DEFINE new == [e EXCEPT !.firstResume = FALSE, !.lastResumeTime = now]
<1>0. cur \in Co /\ cur \in DOMAIN entry /\ stage = "resume" /\ EntriesOK /\ QueuesOK /\ RunOK
      /\ now \in Nat /\ clock \in Nat /\ now <= clock
  BY InvFacts DEF RunOK, ClockLoop, Known
<1>1. new \in Entry /\ new.lastResumeTime = now
  BY <1>0 DEF Entry
<1>2. entry' = [entry EXCEPT ![cur] = new]
  BY DEF Yield, Requeue
<1> HIDE DEF new
<1>3. EntryStep
  <2>1. Written(cur, new)
    BY <1>0, <1>2, ExceptWrites
  <2> QED BY <1>0, <1>1, <2>1 DEF EntryStep
<1>4. nextFrame' \in [Kinds -> Seq(Co)]
  BY <1>0, KindIsKind, QueueWritten DEF Yield, Requeue, Enqueue, QueuesOK
<1>5. sleeping' \in [Kinds -> Seq(Co)]
  BY <1>0, KindIsKind, HeapWritten DEF Yield, Requeue, QueuesOK
<1>6. LoopOK' /\ ClockLoop' /\ ClockStep /\ cur' = NoCo /\ arg' \in Args
  BY LoopReturns DEF Yield
<1>7. call' \in [Co -> Calls]
  BY <1>0, CallsTyped DEF Yield, RunOK
<1> QED BY <1>0, <1>3, <1>4, <1>5, <1>6, <1>7 DEF Yield, Kept, QueuesOK, RunOK

LEMMA WaitSteps ==
    ASSUME Inv, Wait \/ WaitEvent \/ BareYield
    PROVE  Kept
<1>0. cur # NoCo /\ Known(cur) /\ entry[cur] \in Entry
  BY InvFacts DEF Wait, WaitEvent, BareYield, Known, EntriesOK
<1>1. /\ ParkedOnEvent(entry[cur]) \in Entry /\ WaitingFrame(entry[cur]) \in Entry
      /\ \A abs \in Nat : WaitingUntil(entry[cur], abs) \in Entry
  BY <1>0, InvFacts, UpdatesTyped
<1>2. CASE Wait
  <2>1. ASSUME NEW secs \in Delays,
               Yield(WaitingUntil(entry[cur], clock + secs), "sleep", clock + secs)
        PROVE  Kept
    <3>1. clock + secs \in Nat
      BY InvFacts
    <3>2. WaitingUntil(entry[cur], clock + secs) \in Entry
      BY <1>1, <3>1
    <3> QED BY <1>0, <2>1, <3>1, <3>2, YieldKeeps
  <2>2. CASE Yield(WaitingFrame(entry[cur]), "frame", 0)
    BY <1>0, <1>1, <2>2, YieldKeeps
  <2> QED BY <1>2, <2>1, <2>2 DEF Wait
<1>3. CASE WaitEvent
  BY <1>0, <1>1, <1>3, YieldKeeps DEF WaitEvent
<1>4. CASE BareYield
  BY <1>0, <1>4, YieldKeeps DEF BareYield
<1> QED BY <1>2, <1>3, <1>4

LEMMA RetiredTyped ==
    \A status \in {"Done", "Error"} :
        Retired(status) \in Entry /\ Retired(status).lastResumeTime = 0
BY DEF Retired, Entry

LEMMA LeaveSteps ==
    ASSUME Inv, Finish \/ Fail \/ LeaveStopped
    PROVE  Kept
<1>0. cur \in Co /\ stage = "resume" /\ EntriesOK /\ QueuesOK /\ RunOK /\ clock \in Nat
  BY InvFacts DEF RunOK, ClockLoop, Finish, Fail, Leave, LeaveStopped
<1>1. ASSUME NEW status \in {"Done", "Error"}, Leave(status) PROVE Kept
  <2>1. EntryStep
    <3>1. CASE cur \in Scripts
      <4>1. entry' = [entry EXCEPT ![cur] = Retired(status)] /\ cur \in DOMAIN entry
        BY <1>1, <3>1 DEF Leave, Known
      <4>2. Written(cur, Retired(status))
        BY <1>0, <4>1, ExceptWrites
      <4>3. Retired(status) \in Entry /\ Retired(status).lastResumeTime <= clock
        BY <1>0, RetiredTyped
      <4> QED BY <1>0, <4>2, <4>3 DEF EntryStep
    <3>2. CASE cur \notin Scripts
      BY <1>0, <1>1, <3>2 DEF Leave, Erase, EntryStep
    <3> QED BY <3>1, <3>2
  <2>2. LoopOK' /\ ClockLoop' /\ ClockStep /\ cur' = NoCo /\ arg' \in Args
    BY <1>1, LoopReturns DEF Leave
  <2> QED BY <1>0, <1>1, <2>1, <2>2 DEF Leave, Kept, QueuesOK, RunOK, queues
<1>2. CASE LeaveStopped
  <2>1. nextFrame' \in [Kinds -> Seq(Co)]
    <3>1. nextFrame' = nextFrame \/ nextFrame' = [nextFrame EXCEPT ![KindOf(cur)] = Append(@, cur)]
      BY <1>2 DEF LeaveStopped, Enqueue
    <3>2. nextFrame \in [Kinds -> Seq(Co)] /\ KindOf(cur) \in Kinds /\ cur \in Co
      BY <1>0, KindIsKind DEF QueuesOK
    <3>3. [nextFrame EXCEPT ![KindOf(cur)] = Append(@, cur)] \in [Kinds -> Seq(Co)]
      BY <3>2, QueueWritten
    <3> QED BY <3>1, <3>2, <3>3
  <2>2. sleeping' \in [Kinds -> Seq(Co)]
    <3>1. \/ sleeping' = sleeping
          \/ sleeping' = [sleeping EXCEPT !["script"] = Push(@, cur, WakeKey)]
      BY <1>2 DEF LeaveStopped
    <3>2. sleeping \in [Kinds -> Seq(Co)] /\ "script" \in Kinds /\ cur \in Co /\ QueuesOK
      BY <1>0 DEF QueuesOK, Kinds
    <3>3. [sleeping EXCEPT !["script"] = Push(@, cur, WakeKey)] \in [Kinds -> Seq(Co)]
      BY <3>2, HeapWritten
    <3> QED BY <3>1, <3>2, <3>3
  <2>3. LoopOK' /\ ClockLoop' /\ ClockStep /\ cur' = NoCo /\ arg' \in Args
    BY <1>2, LoopReturns DEF LeaveStopped
  <2> QED BY <1>0, <1>2, <2>1, <2>2, <2>3 DEF LeaveStopped, Kept, EntryStep, QueuesOK, RunOK
<1> QED BY <1>1, <1>2 DEF Finish, Fail

LEMMA StopStep ==
    ASSUME Inv, NEW s \in Stoppable, StopScript(s)
    PROVE  Kept
<1>1. s \in Co
  BY CoroutineAssumption DEF Co
<1>2. EntryStep
  BY <1>1 DEF StopScript, Erase, EntryStep
<1>3. ready' \in [Kinds -> Seq(Co)] /\ nextFrame' \in [Kinds -> Seq(Co)]
  BY InvFacts, ScriptQueueWritten DEF StopScript, QueuesOK
<1>4. LoopOK' /\ ClockLoop' /\ ClockStep
  BY LoopSame DEF StopScript
<1> QED BY <1>2, <1>3, <1>4, InvFacts, CallsTyped DEF StopScript, Kept, QueuesOK, RunOK

----------------------------------------------------------------------------
\* Type correctness.

LEMMA InvStep ==
    ASSUME Inv, [Next]_vars
    PROVE  Inv'
<1>1. CASE UNCHANGED vars
  BY <1>1 DEF Inv, ClockInv, TypeOK, Kinds, Calls, Args, vars, loop, queues
<1>2. CASE Next
  <2>1. Kept
    BY <1>2, MainSteps, TaskSteps, WaiterStep, WakeSteps, ResumeSteps, StopStep, WaitSteps, LeaveSteps
       DEF Next, MainLoop, Stepping, Handing
  <2>2. EntriesOK' /\ ClockInv'
    BY <2>1, EntriesKept DEF Kept
  <2>3. TypeOK'
    BY <2>1, <2>2 DEF Kept, TypeOK, LoopOK, EntriesOK, QueuesOK, RunOK
  <2> QED BY <2>2, <2>3 DEF Inv
<1> QED BY <1>1, <1>2

LEMMA InvInit == Init => Inv
<1> SUFFICES ASSUME Init PROVE Inv
  OBVIOUS
<1>1. LoopOK /\ EntriesOK /\ QueuesOK /\ RunOK
  <2>1. << >> \in Seq(Co) /\ NoCall \in Calls /\ Arg("none", 0) \in Args
    BY CallsTyped DEF Arg, Args
  <2>2. DOMAIN entry = {}
    BY DEF Init
  <2> QED BY <2>1, <2>2, TimeAssumption, BudgetAssumption
      DEF Init, LoopOK, EntriesOK, QueuesOK, RunOK, Kinds
<1>2. ClockInv
  BY DEF Init, ClockInv
<1> QED BY <1>1, <1>2, TypeParts DEF Inv

LEMMA Invariant == Spec => []Inv
<1>1. Inv /\ [Next]_vars => Inv'
  BY InvStep
<1> QED BY InvInit, <1>1, PTL DEF Spec

\* Every variable keeps its type; in particular a coroutine that wakes is never
\* told of a negative time (LuaScheduler.cpp:271, 306), although tasks are created
\* in the middle of a frame with a time later than the frame's.
THEOREM TypeCorrect == Spec => []TypeOK
<1>1. Inv => TypeOK
  BY DEF Inv
<1> QED BY Invariant, <1>1, PTL

----------------------------------------------------------------------------
\* The registry.

\* A step that keeps the registry, and the reference of every entry.
RefsSame ==
    /\ UNCHANGED registry
    /\ DOMAIN entry' \cap Tasks = DOMAIN entry \cap Tasks
    /\ \A c \in DOMAIN entry \cap Tasks : entry'[c].ref = entry[c].ref

LEMMA RefsKept == RegistryExact /\ RefsSame => RegistryExact'
BY DEF RegistryExact, RefsSame, Known

\* Rewriting one entry without its reference.
LEMMA RefsRewritten ==
    ASSUME EntriesOK, UNCHANGED registry, NEW c \in DOMAIN entry, NEW e,
           entry' = [entry EXCEPT ![c] = e], e.ref = entry[c].ref
    PROVE  RefsSame
BY DEF RefsSame

LEMMA ScheduleRefs ==
    ASSUME RegistryExact, NEW c \in Tasks, NEW e, NEW what, Schedulable(c),
           ScheduleTask(c, e, what), e.ref \in BOOLEAN
    PROVE  RegistryExact'
<1>1. c \notin DOMAIN entry
  BY DEF Schedulable, Known
<1>2. Written(c, e)
  BY PutWrites DEF ScheduleTask
<1>3. c \notin registry
  BY <1>1 DEF RegistryExact, Known
<1>4. registry' = IF e.ref THEN registry \cup {c} ELSE registry
  BY DEF ScheduleTask
<1>5. \A x \in Tasks : x \in registry' <=> x \in DOMAIN entry' /\ entry'[x].ref
  <2> TAKE x \in Tasks
  <2>1. CASE x = c
    BY <1>2, <1>3, <1>4, <2>1 DEF Written
  <2>2. CASE x # c
    BY <1>2, <1>4, <2>2 DEF Written, RegistryExact, Known
  <2> QED BY <2>1, <2>2
<1>6. registry' \subseteq Tasks
  BY <1>4 DEF RegistryExact
<1> QED BY <1>5, <1>6 DEF RegistryExact, Known

LEMMA LeaveRefs ==
    ASSUME Inv, RegistryExact, NEW status \in {"Done", "Error"}, Leave(status)
    PROVE  RegistryExact'
<1>0. cur \in DOMAIN entry /\ registry' = registry \ Released(entry[cur], status)
  BY DEF Leave, Known
<1>1. CASE cur \in Scripts
  <2>1. cur \notin Tasks
    BY <1>1, CoroutineAssumption
  <2>2. entry' = [entry EXCEPT ![cur] = Retired(status)]
    BY <1>1 DEF Leave
  <2>3. registry' = registry
    BY <1>0, <2>1 DEF Released, RegistryExact
  <2> QED BY <2>1, <2>2, <2>3 DEF RegistryExact, Known
<1>2. CASE cur \notin Scripts
  <2>1. DOMAIN entry' = DOMAIN entry \ {cur} /\ \A x \in DOMAIN entry' : entry'[x] = entry[x]
    BY <1>2 DEF Leave, Erase
  <2>2. registry' = registry \ {cur}
    BY <1>0 DEF Released, RegistryExact, Known
  <2> QED BY <2>1, <2>2 DEF RegistryExact, Known
<1> QED BY <1>1, <1>2

LEMMA WakeRefs ==
    ASSUME Inv, WakeSleeper \/ MoveNextFrame \/ ResumeFront
    PROVE  RefsSame
<1>0. EntriesOK /\ now \in Nat /\ clock \in Nat /\ Infinity \in Nat
  BY InvFacts, TimeAssumption
<1>1. \A e \in Entry : Woken(e).ref = e.ref /\ Moved(e).ref = e.ref /\ Resumed(e).ref = e.ref
  BY <1>0, UpdatesTyped
<1>2. UNCHANGED registry
  BY DEF WakeSleeper, MoveNextFrame, ResumeFront
<1>3. \/ UNCHANGED entry
      \/ \E c \in DOMAIN entry : \E e \in {Woken(entry[c]), Moved(entry[c]), Resumed(entry[c])} :
            entry' = [entry EXCEPT ![c] = e]
  BY DEF WakeSleeper, MoveNextFrame, ResumeFront, Known
<1>4. CASE UNCHANGED entry
  BY <1>2, <1>4 DEF RefsSame
<1>5. ASSUME NEW c \in DOMAIN entry,
             NEW e \in {Woken(entry[c]), Moved(entry[c]), Resumed(entry[c])},
             entry' = [entry EXCEPT ![c] = e]
      PROVE  RefsSame
  BY <1>0, <1>1, <1>2, <1>5, RefsRewritten DEF EntriesOK
<1> QED BY <1>3, <1>4, <1>5

LEMMA YieldRefs ==
    ASSUME Inv, Known(cur), NEW e \in Entry, NEW op, NEW due, e.ref = entry[cur].ref,
           Yield(e, op, due)
    PROVE  RefsSame
<1>1. EntriesOK /\ UNCHANGED registry /\ cur \in DOMAIN entry
  BY InvFacts DEF Yield, Known
<1>2. [e EXCEPT !.firstResume = FALSE, !.lastResumeTime = now].ref = entry[cur].ref
  BY DEF Entry
<1>3. entry' = [entry EXCEPT ![cur] = [e EXCEPT !.firstResume = FALSE, !.lastResumeTime = now]]
  BY DEF Yield, Requeue
<1> QED BY <1>1, <1>2, <1>3, RefsRewritten

LEMMA WaitRefs ==
    ASSUME Inv, Wait \/ WaitEvent \/ BareYield
    PROVE  RefsSame
<1>0. /\ Known(cur) /\ entry[cur] \in Entry
      /\ now \in Nat /\ clock \in Nat /\ Infinity \in Nat
      /\ \A secs \in Delays : clock + secs \in Nat
  BY InvFacts, TimeAssumption DEF Wait, WaitEvent, BareYield, Known, EntriesOK
<1>1. CASE Wait
  <2>1. ASSUME NEW secs \in Delays,
               Yield(WaitingUntil(entry[cur], clock + secs), "sleep", clock + secs)
        PROVE  RefsSame
    <3>1. /\ WaitingUntil(entry[cur], clock + secs) \in Entry
          /\ WaitingUntil(entry[cur], clock + secs).ref = entry[cur].ref
      BY <1>0, UpdatesTyped
    <3> QED BY <1>0, <2>1, <3>1, YieldRefs
  <2>2. ASSUME Yield(WaitingFrame(entry[cur]), "frame", 0) PROVE RefsSame
    BY <1>0, <2>2, UpdatesTyped, YieldRefs
  <2> QED BY <1>1, <2>1, <2>2 DEF Wait
<1>2. CASE WaitEvent
  BY <1>0, <1>2, UpdatesTyped, YieldRefs DEF WaitEvent
<1>3. CASE BareYield
  BY <1>0, <1>3, YieldRefs DEF BareYield
<1> QED BY <1>1, <1>2, <1>3

LEMMA RegistryStep ==
    ASSUME Inv, RegistryExact, [Next]_vars
    PROVE  RegistryExact'
<1>1. CASE UNCHANGED vars
  BY <1>1 DEF vars, RegistryExact, Known
<1>2. CASE MainLoop \/ SleepersDone \/ MovesDone \/ ResumesDone \/ LeaveStopped
  BY <1>2 DEF MainLoop, Tick, StartLoop, BeginStep, SleepersDone, MovesDone, ResumesDone,
              LeaveStopped, RegistryExact, Known
<1>3. ASSUME NEW s \in Scripts, AddScript(s) PROVE RegistryExact'
  <2>1. s \notin Tasks
    BY CoroutineAssumption
  <2>2. UNCHANGED registry /\ Written(s, NewEntry("Running", 0, FALSE, FALSE))
    BY <1>3, PutWrites DEF AddScript
  <2>3. RefsSame
    BY <2>1, <2>2 DEF RefsSame, Written
  <2> QED BY <2>3, RefsKept
<1>4. ASSUME NEW c \in Tasks, FireListener(c) \/ TaskSpawn(c) \/ TaskDelay(c)
      PROVE  RegistryExact'
  <2>1. \A status, wake, next : \A ref \in BOOLEAN : NewEntry(status, wake, next, ref).ref \in BOOLEAN
    BY DEF NewEntry
  <2>0. Schedulable(c)
    BY <1>4 DEF FireListener, TaskSpawn, TaskDelay
  <2>2. \/ \E ref \in BOOLEAN : ScheduleTask(c, NewEntry("Waiting", 0, TRUE, ref), NoCall)
        \/ \E secs \in Delays \cup {0} :
             ScheduleTask(c, NewEntry("Waiting", DelayUntil(secs), FALSE, TRUE),
                          Call("delay", clock + secs))
    BY <1>4 DEF FireListener, TaskSpawn, TaskDelay, ScheduleTaskNextFrame, ScheduleTaskAt
  <2> QED BY <2>0, <2>1, <2>2, ScheduleRefs
<1>5. ASSUME NEW c \in Co, WakeWaiter(c) PROVE RegistryExact'
  BY <1>5, InvFacts, RefsKept DEF WakeWaiter, ResumeNextFrame, Known, EntriesOK, Entry, RefsSame
<1>6. CASE WakeSleeper \/ MoveNextFrame \/ ResumeFront
  BY <1>6, WakeRefs, RefsKept
<1>7. ASSUME NEW s \in Stoppable, StopScript(s) PROVE RegistryExact'
  <2>1. s \notin Tasks
    BY CoroutineAssumption
  <2> QED BY <1>7, <2>1 DEF StopScript, Erase, RegistryExact, Known
<1>8. CASE Wait \/ WaitEvent \/ BareYield
  BY <1>8, WaitRefs, RefsKept
<1>9. CASE Finish \/ Fail
  BY <1>9, LeaveRefs DEF Finish, Fail
<1> QED BY <1>1, <1>2, <1>3, <1>4, <1>5, <1>6, <1>7, <1>8, <1>9
        DEF Next, Stepping, Handing

\* The registry holds exactly the threads the scheduler has taken a reference
\* for and still has an entry of, whichever way its tasks end and however its
\* queues are reordered (lua_unref, LuaScheduler.cpp:426, 445).
THEOREM RegistryCorrect == Spec => []RegistryExact
<1>1. Init => RegistryExact
  BY DEF Init, RegistryExact, Known
<1>2. RegistryExact /\ Inv /\ [Next]_vars => RegistryExact'
  BY RegistryStep
<1> QED BY Invariant, <1>1, <1>2, PTL DEF Spec

----------------------------------------------------------------------------
\* The budget of a Step.

\* Between coroutines the resume loops have read the clock if they are at the
\* end of a batch of RefreshEvery resumes: no time passes outside of a coroutine.
Batch == stage \in {"wake", "move", "resume"} /\ cur = NoCo /\ resumes % RefreshEvery = 0
BatchRead == Batch => t = clock

LEMMA BatchStep ==
    ASSUME Inv, BatchRead, [Next]_vars
    PROVE  BatchRead'
<1>0. cur # NoCo => stage = "resume"
  BY DEF Inv, ClockInv
<1>1. CASE UNCHANGED vars
  BY <1>1 DEF vars, loop, BatchRead, Batch
<1>2. CASE Tick
  BY <1>2 DEF Tick, BatchRead, Batch
<1>3. CASE StartLoop \/ BeginStep
  BY <1>3 DEF StartLoop, BeginStep, BatchRead, Batch
<1>4. CASE SleepersDone \/ MovesDone \/ ResumesDone
  BY <1>0, <1>4 DEF SleepersDone, MovesDone, ResumesDone, NextLoop, EndStep, BatchRead, Batch
<1>5. CASE Handing
  BY <1>5 DEF Handing, Wait, WaitEvent, BareYield, Yield, Finish, Fail, Leave, LeaveStopped,
              ReturnToStep, ClockRead, BatchRead, Batch
<1>6. CASE ResumeFront
  <2>1. /\ UNCHANGED <<stage, clock, t>> /\ cur = NoCo
        /\ cur' = NoCo => resumes' = resumes \/ Head(ready[kind]) = NoCo
    BY <1>6 DEF ResumeFront
  <2>2. Head(ready[kind]) # NoCo
    BY <1>6, InvFacts, QueueWritten, CoroutineAssumption DEF ResumeFront, QueuesOK, LoopOK
  <2> QED BY <2>1, <2>2 DEF BatchRead, Batch
<1>7. CASE WakeSleeper \/ MoveNextFrame
  BY <1>7 DEF WakeSleeper, MoveNextFrame, loop, BatchRead, Batch
<1>8. ASSUME NEW s \in Scripts, AddScript(s) PROVE BatchRead'
  BY <1>8 DEF AddScript, loop, BatchRead, Batch
<1>9. ASSUME NEW c \in Tasks, FireListener(c) \/ TaskSpawn(c) \/ TaskDelay(c) PROVE BatchRead'
  BY <1>9 DEF FireListener, TaskSpawn, TaskDelay, loop, BatchRead, Batch
<1>10. ASSUME NEW c \in Co, WakeWaiter(c) PROVE BatchRead'
  BY <1>10 DEF WakeWaiter, loop, BatchRead, Batch
<1>11. ASSUME NEW s \in Stoppable, StopScript(s) PROVE BatchRead'
  BY <1>11 DEF StopScript, loop, BatchRead, Batch
<1> QED BY <1>1, <1>2, <1>3, <1>4, <1>5, <1>6, <1>7, <1>8, <1>9, <1>10, <1>11
        DEF Next, MainLoop, Stepping

\* Only ResumeFront makes a coroutine run.
LEMMA OnlyResume ==
    ASSUME [Next]_vars, cur' # cur, cur' # NoCo
    PROVE  ResumeFront
BY DEF Next, MainLoop, Stepping, Handing, vars, loop, Tick, StartLoop, BeginStep, AddScript,
       FireListener, TaskSpawn, TaskDelay, WakeWaiter, WakeSleeper, SleepersDone,
       MoveNextFrame, MovesDone, ResumesDone, StopScript, Wait, WaitEvent, BareYield,
       Yield, Finish, Fail, Leave, LeaveStopped, ReturnToStep

\* No Step resumes more coroutines than it may, and once its time is over it
\* starts no batch of RefreshEvery resumes (LuaScheduler.cpp:335-336, 383, 388-389, 451).
THEOREM BudgetCorrect == Spec => BudgetKept
<1> DEFINE Kept1 == cur' # cur /\ cur' # NoCo =>
              /\ resumes' <= MaxResumes
              /\ Budget > 0 /\ clock >= now + Budget => resumes % RefreshEvery # 0
<1>1. Init => BatchRead
  BY DEF Init, BatchRead, Batch
<1>2. Inv /\ BatchRead /\ [Next]_vars => BatchRead'
  BY BatchStep
<1>3. Inv /\ BatchRead /\ [Next]_vars => [Kept1]_vars
  <2> SUFFICES ASSUME Inv, BatchRead, [Next]_vars, cur' # cur, cur' # NoCo
               PROVE  /\ resumes' <= MaxResumes
                      /\ Budget > 0 /\ clock >= now + Budget => resumes % RefreshEvery # 0
    BY DEF Kept1
  <2>1. ResumeFront
    BY OnlyResume
  <2>2. stage = "resume" /\ cur = NoCo /\ WithinBudget /\ resumes' = resumes + 1
    BY <2>1 DEF ResumeFront
  <2>3. /\ resumes \in Nat /\ MaxResumes \in Nat /\ clock \in Nat /\ now \in Nat
        /\ Budget \in Nat /\ RefreshEvery \in Nat \ {0}
    BY TypeParts, TimeAssumption, BudgetAssumption DEF Inv, LoopOK
  <2>4. resumes < MaxResumes /\ (Budget > 0 => t < now + Budget)
    BY <2>2 DEF WithinBudget
  <2>5. resumes % RefreshEvery = 0 => t = clock
    BY <2>2 DEF BatchRead, Batch
  <2>6. resumes' <= MaxResumes
    BY <2>2, <2>3, <2>4
  <2>7. Budget > 0 /\ clock >= now + Budget => resumes % RefreshEvery # 0
    <3> SUFFICES ASSUME Budget > 0, clock >= now + Budget, resumes % RefreshEvery = 0 PROVE FALSE
      OBVIOUS
    <3>1. clock < now + Budget
      BY <2>4, <2>5
    <3> QED BY <2>3, <3>1
  <2> QED BY <2>6, <2>7
<1> QED BY Invariant, <1>1, <1>2, <1>3, PTL DEF Spec, BudgetKept

=============================================================================
