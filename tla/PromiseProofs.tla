--------------------------- MODULE PromiseProofs ---------------------------
(***************************************************************************)
(* LuaScheduler implements Coroutines, for every set of scripts and tasks: *)
(* every coroutine stands in the one queue its entry calls for, or in      *)
(* none, is resumed with what it asked for, and wakes when it is due.      *)
(***************************************************************************)
EXTENDS LuaSchedulerProofs

----------------------------------------------------------------------------
\* Queues that hold no coroutine twice and none of the other kind, and what the
\* operations add to them and take from them.

Shape(q) ==
    /\ q \in [Kinds -> Seq(Co)]
    /\ \A k \in Kinds : IsInjective(q[k]) /\ \A c \in Range(q[k]) : KindOf(c) = k

Added(q, p, c) ==
    Shape(p) /\ \A d \in Co : Queued(d, p) <=> Queued(d, q) \/ d = c
Removed(q, p, c) ==
    Shape(p) /\ \A d \in Co : Queued(d, p) <=> Queued(d, q) /\ d # c

LEMMA QueueReplaced ==
    ASSUME NEW q, Shape(q), NEW k \in Kinds, NEW s \in Seq(Co), IsInjective(s),
           \A c \in Range(s) : KindOf(c) = k
    PROVE  /\ Shape([q EXCEPT ![k] = s])
           /\ \A d \in Co : Queued(d, [q EXCEPT ![k] = s]) <=>
                              IF KindOf(d) = k THEN d \in Range(s) ELSE Queued(d, q)
<1> DEFINE p == [q EXCEPT ![k] = s]
<1>1. q \in [Kinds -> Seq(Co)]
  BY DEF Shape
<1>2. p \in [Kinds -> Seq(Co)] /\ \A j \in Kinds : p[j] = IF j = k THEN s ELSE q[j]
  BY <1>1
<1> HIDE DEF p
<1>3. Shape(p)
  BY <1>2 DEF Shape
<1>4. \A d \in Co : Queued(d, p) <=> IF KindOf(d) = k THEN d \in Range(s) ELSE Queued(d, q)
  BY <1>2, KindIsKind DEF Queued
<1> QED BY <1>3, <1>4 DEF p

LEMMA AppendAdds ==
    ASSUME NEW q, Shape(q), NEW c \in Co, ~ Queued(c, q)
    PROVE  Added(q, [q EXCEPT ![KindOf(c)] = Append(@, c)], c)
<1> DEFINE k == KindOf(c)
           s == Append(q[k], c)
<1>1. k \in Kinds /\ q[k] \in Seq(Co)
  BY KindIsKind DEF Shape
<1>2. /\ s \in Seq(Co) /\ Range(s) = Range(q[k]) \cup {c}
      /\ IsInjective(q[k]) /\ c \notin Range(q[k]) => IsInjective(s)
  BY <1>1, AppendExact
<1>3. IsInjective(s) /\ \A d \in Range(s) : KindOf(d) = k
  BY <1>1, <1>2 DEF Shape, Queued
<1> HIDE DEF s
<1>4. [q EXCEPT ![k] = s] = [q EXCEPT ![k] = Append(@, c)]
  BY DEF s
<1>5. \A d \in Co : Queued(d, q) <=> d \in Range(q[KindOf(d)])
  BY DEF Queued
<1> HIDE DEF k
<1>6. /\ Shape([q EXCEPT ![k] = s])
      /\ \A d \in Co : Queued(d, [q EXCEPT ![k] = s]) <=>
                         IF KindOf(d) = k THEN d \in Range(s) ELSE Queued(d, q)
  BY <1>1, <1>2, <1>3, QueueReplaced
<1> QED BY <1>2, <1>4, <1>5, <1>6 DEF Added, k

LEMMA PushAdds ==
    ASSUME NEW q, Shape(q), NEW c \in Co, ~ Queued(c, q), NEW key
    PROVE  Added(q, [q EXCEPT ![KindOf(c)] = Push(@, c, key)], c)
<1> DEFINE k == KindOf(c)
           s == Push(q[k], c, key)
<1>1. k \in Kinds /\ q[k] \in Seq(Co)
  BY KindIsKind DEF Shape
<1>2. /\ s \in Seq(Co) /\ Range(s) = Range(q[k]) \cup {c}
      /\ IsInjective(q[k]) /\ c \notin Range(q[k]) => IsInjective(s)
  BY <1>1, PushKeeps, PushExact
<1>3. IsInjective(s) /\ \A d \in Range(s) : KindOf(d) = k
  BY <1>1, <1>2 DEF Shape, Queued
<1> HIDE DEF s
<1>4. [q EXCEPT ![k] = s] = [q EXCEPT ![k] = Push(@, c, key)]
  BY DEF s
<1>5. \A d \in Co : Queued(d, q) <=> d \in Range(q[KindOf(d)])
  BY DEF Queued
<1> HIDE DEF k
<1>6. /\ Shape([q EXCEPT ![k] = s])
      /\ \A d \in Co : Queued(d, [q EXCEPT ![k] = s]) <=>
                         IF KindOf(d) = k THEN d \in Range(s) ELSE Queued(d, q)
  BY <1>1, <1>2, <1>3, QueueReplaced
<1> QED BY <1>2, <1>4, <1>5, <1>6 DEF Added, k

\* The first element, of a vector without duplicates, and the rest.
LEMMA HeadAndOthers ==
    ASSUME NEW S, NEW s \in Seq(S), s # << >>, IsInjective(s)
    PROVE  /\ Head(s) \in Range(s) /\ OthersIn(s, 1) = Range(s) \ {Head(s)}
           /\ Tail(s) \in Seq(S) /\ Range(Tail(s)) = OthersIn(s, 1) /\ IsInjective(Tail(s))
<1>1. /\ Len(s) \in Nat /\ 1 \in 1..Len(s) /\ DOMAIN s = 1..Len(s) /\ Head(s) = s[1]
      /\ Tail(s) \in Seq(S) /\ Len(Tail(s)) = Len(s) - 1
      /\ \A i \in 1..Len(Tail(s)) : Tail(s)[i] = s[i + 1]
  BY EmptySeq, HeadTailProperties
<1>2. \A i, j \in 1..Len(s) : s[i] = s[j] => i = j
  BY <1>1 DEF IsInjective
<1>3. Head(s) \in Range(s) /\ OthersIn(s, 1) = Range(s) \ {Head(s)}
  BY <1>1, <1>2 DEF OthersIn, Range
<1>4. DOMAIN Tail(s) = 1..Len(Tail(s)) /\ \A i \in 1..Len(Tail(s)) : i + 1 \in (1..Len(s)) \ {1}
  BY <1>1
<1>5. IsInjective(Tail(s))
  BY <1>1, <1>2, <1>4 DEF IsInjective
<1>6. \A i \in (1..Len(s)) \ {1} : i - 1 \in 1..Len(Tail(s)) /\ Tail(s)[i - 1] = s[i]
  BY <1>1
<1>7. Range(Tail(s)) = OthersIn(s, 1)
  <2>1. ASSUME NEW i \in 1..Len(Tail(s)) PROVE Tail(s)[i] \in OthersIn(s, 1)
    BY <1>1, <1>4 DEF OthersIn
  <2>2. ASSUME NEW i \in (1..Len(s)) \ {1} PROVE s[i] \in Range(Tail(s))
    BY <1>4, <1>6 DEF Range
  <2> QED BY <1>4, <2>1, <2>2 DEF OthersIn, Range
<1> QED BY <1>1, <1>3, <1>5, <1>7

LEMMA FrontRemoved ==
    ASSUME NEW q, Shape(q), NEW k \in Kinds, q[k] # << >>, NEW s \in Seq(Co),
           Range(s) = OthersIn(q[k], 1), IsInjective(s)
    PROVE  /\ Head(q[k]) \in Co /\ KindOf(Head(q[k])) = k /\ Queued(Head(q[k]), q)
           /\ Removed(q, [q EXCEPT ![k] = s], Head(q[k]))
<1>1. q[k] \in Seq(Co) /\ IsInjective(q[k]) /\ \A c \in Range(q[k]) : KindOf(c) = k
  BY DEF Shape
<1>2. Head(q[k]) \in Range(q[k]) /\ Range(s) = Range(q[k]) \ {Head(q[k])} /\ Head(q[k]) \in Co
  BY <1>1, HeadAndOthers, HeadTailProperties
<1>3. KindOf(Head(q[k])) = k /\ Queued(Head(q[k]), q)
  BY <1>1, <1>2 DEF Queued
<1>4. /\ Shape([q EXCEPT ![k] = s])
      /\ \A d \in Co : Queued(d, [q EXCEPT ![k] = s]) <=>
                         IF KindOf(d) = k THEN d \in Range(s) ELSE Queued(d, q)
  BY <1>1, <1>2, QueueReplaced
<1>5. \A d \in Co : Queued(d, q) <=> d \in Range(q[KindOf(d)])
  BY DEF Queued
<1> QED BY <1>2, <1>3, <1>4, <1>5 DEF Removed

LEMMA TailRemoves ==
    ASSUME NEW q, Shape(q), NEW k \in Kinds, q[k] # << >>
    PROVE  /\ Head(q[k]) \in Co /\ KindOf(Head(q[k])) = k /\ Queued(Head(q[k]), q)
           /\ Removed(q, [q EXCEPT ![k] = Tail(@)], Head(q[k]))
<1>1. q[k] \in Seq(Co) /\ IsInjective(q[k])
  BY DEF Shape
<1>2. Tail(q[k]) \in Seq(Co) /\ Range(Tail(q[k])) = OthersIn(q[k], 1) /\ IsInjective(Tail(q[k]))
  BY <1>1, HeadAndOthers
<1> QED BY <1>2, FrontRemoved

LEMMA PopRemoves ==
    ASSUME NEW q, Shape(q), NEW k \in Kinds, q[k] # << >>, NEW key
    PROVE  /\ Head(q[k]) \in Co /\ KindOf(Head(q[k])) = k /\ Queued(Head(q[k]), q)
           /\ Removed(q, [q EXCEPT ![k] = Pop(@, key)], Head(q[k]))
<1>1. q[k] \in Seq(Co) /\ IsInjective(q[k])
  BY DEF Shape
<1>2. /\ Pop(q[k], key) \in Seq(Co) /\ Range(Pop(q[k], key)) = OthersIn(q[k], 1)
      /\ IsInjective(Pop(q[k], key))
  BY <1>1, PopKeeps, PopExact
<1> QED BY <1>2, FrontRemoved

LEMMA WithoutRemoves ==
    ASSUME NEW q, Shape(q), NEW s \in Scripts
    PROVE  Removed(q, [q EXCEPT !["script"] = Without(@, s)], s)
<1>1. "script" \in Kinds /\ s \in Co /\ KindOf(s) = "script" /\ q["script"] \in Seq(Co)
  BY DEF Kinds, Co, KindOf, Shape
<1> DEFINE w == Without(q["script"], s)
<1>2. w \in Seq(Co) /\ Range(w) = Range(q["script"]) \ {s} /\ (IsInjective(q["script"]) => IsInjective(w))
  BY <1>1, WithoutExact
<1>3. IsInjective(w) /\ \A d \in Range(w) : KindOf(d) = "script"
  BY <1>1, <1>2 DEF Shape
<1>4. [q EXCEPT !["script"] = w] = [q EXCEPT !["script"] = Without(@, s)]
  OBVIOUS
<1> HIDE DEF w
<1>5. /\ Shape([q EXCEPT !["script"] = w])
      /\ \A d \in Co : Queued(d, [q EXCEPT !["script"] = w]) <=>
                         IF KindOf(d) = "script" THEN d \in Range(w) ELSE Queued(d, q)
  BY <1>1, <1>2, <1>3, QueueReplaced
<1>6. \A d \in Co : Queued(d, q) <=> d \in Range(q[KindOf(d)])
  BY DEF Queued
<1> QED BY <1>1, <1>2, <1>4, <1>5, <1>6 DEF Removed

----------------------------------------------------------------------------
\* The invariant: what a coroutine's place in the queues says of its entry.

SlotOK(c) ==
    /\ Queued(c, ready) =>
         /\ c # cur /\ Known(c) /\ entry[c].status = "Running"
         /\ ~ Queued(c, nextFrame) /\ ~ Queued(c, sleeping)
    /\ Queued(c, nextFrame) =>
         /\ c # cur /\ ~ Queued(c, sleeping) /\ stage # "boot"
         /\ Known(c) => Enqueued(entry[c]) /\ ~ Sleeps(entry[c])
    /\ Queued(c, sleeping) =>
         /\ c # cur /\ stage # "boot"
         /\ Known(c) => Sleeps(entry[c])
    /\ Known(c) /\ c # cur /\ Enqueued(entry[c]) =>
         Queued(c, ready) \/ Queued(c, nextFrame) \/ Queued(c, sleeping)
    /\ c \in Tasks /\ ~ Known(c) =>
         c # cur /\ ~ Queued(c, nextFrame) /\ ~ Queued(c, sleeping)
    /\ Known(c) /\ c = cur => entry[c].status = "Running"
    /\ Known(c) /\ call[c].op = "event" /\ entry[c].status = "Waiting" => Parked(entry[c])

ShapesOK == Shape(ready) /\ Shape(nextFrame) /\ Shape(sleeping)

SlotInv == ShapesOK /\ \A c \in Co : SlotOK(c)

\* A step leaves a coroutine alone.
Same(d) ==
    /\ Known(d)' <=> Known(d)
    /\ Known(d) => entry'[d] = entry[d]
    /\ Queued(d, ready)' <=> Queued(d, ready)
    /\ Queued(d, nextFrame)' <=> Queued(d, nextFrame)
    /\ Queued(d, sleeping)' <=> Queued(d, sleeping)
    /\ d = cur' <=> d = cur
    /\ call'[d] = call[d]

\* It leaves all alone but one.
Touches(c) ==
    /\ ShapesOK' /\ (stage' = "boot" => stage = "boot")
    /\ \A d \in Co \ {c} : Same(d)

LEMMA SameKept ==
    ASSUME NEW d \in Co, Same(d), SlotOK(d), stage' = "boot" => stage = "boot"
    PROVE  SlotOK(d)' /\ ModeOf(d)' = ModeOf(d) /\ DueOf(d)' = DueOf(d)
<1>1. Known(d) => entry'[d] = entry[d]
  BY DEF Same
<1>2. SlotOK(d)'
  BY DEF Same, SlotOK
<1>3. ModeOf(d)' = ModeOf(d)
  BY DEF Same, ModeOf
<1>4. ModeOf(d) = "sleeping" => Known(d)
  BY DEF ModeOf
<1>5. DueOf(d)' = DueOf(d)
  BY <1>1, <1>3, <1>4 DEF DueOf
<1> QED BY <1>2, <1>3, <1>5

\* What the step does to the one it touches is what it does.
LEMMA TouchedKept ==
    ASSUME SlotInv, NEW c \in Co, Touches(c), SlotOK(c)'
    PROVE  /\ SlotInv'
           /\ modes' = [modes EXCEPT ![c] = ModeOf(c)'] /\ modes[c] = ModeOf(c)
           /\ dues' = [dues EXCEPT ![c] = DueOf(c)'] /\ dues[c] = DueOf(c)
           /\ ModeOf(c)' = ModeOf(c) => modes' = modes
           /\ DueOf(c)' = DueOf(c) => dues' = dues
<1>1. \A d \in Co \ {c} : SlotOK(d)' /\ ModeOf(d)' = ModeOf(d) /\ DueOf(d)' = DueOf(d)
  BY SameKept DEF SlotInv, Touches
<1>2. SlotInv'
  BY <1>1 DEF SlotInv, Touches
<1>3. modes' = [d \in Co |-> ModeOf(d)'] /\ dues' = [d \in Co |-> DueOf(d)']
  BY DEF modes, dues
<1> QED BY <1>1, <1>2, <1>3 DEF modes, dues

LEMMA NothingTouched ==
    ASSUME SlotInv, UNCHANGED <<entry, queues, cur, call>>, stage' = "boot" => stage = "boot"
    PROVE  SlotInv' /\ modes' = modes /\ dues' = dues
<1>1. \A d \in Co : Same(d)
  BY DEF Same, queues, Known, Queued
<1>2. \A d \in Co : SlotOK(d)' /\ ModeOf(d)' = ModeOf(d) /\ DueOf(d)' = DueOf(d)
  BY <1>1, SameKept DEF SlotInv
<1>3. SlotInv'
  BY <1>2 DEF SlotInv, ShapesOK, queues
<1>4. modes' = [d \in Co |-> ModeOf(d)'] /\ dues' = [d \in Co |-> DueOf(d)']
  BY DEF modes, dues
<1> QED BY <1>2, <1>3, <1>4 DEF modes, dues

\* What a step of the scheduler is to a reader of Coroutines.
PromiseStep == Promise!Next \/ UNCHANGED <<started, clock, modes, dues>>

\* One lemma per group of actions: they keep the invariant and the promise.
Kept2 == SlotInv' /\ PromiseStep

LEMMA LoopKeeps ==
    ASSUME Inv, SlotInv,
           Tick \/ StartLoop \/ BeginStep \/ SleepersDone \/ MovesDone \/ ResumesDone
    PROVE  Kept2
<1>1. /\ UNCHANGED <<entry, queues, cur, call>>
      /\ stage' = "boot" => stage = "boot"
  BY DEF Tick, StartLoop, BeginStep, SleepersDone, MovesDone, ResumesDone, NextLoop, EndStep
<1>2. SlotInv' /\ modes' = modes /\ dues' = dues
  BY <1>1, NothingTouched
<1>3. CASE Tick
  BY <1>2, <1>3 DEF Tick, Kept2, PromiseStep, started, Promise!Next, Promise!Tick
<1>4. CASE StartLoop
  BY <1>2, <1>4 DEF StartLoop, Kept2, PromiseStep, started, Promise!Next, Promise!Start
<1>5. CASE BeginStep \/ SleepersDone \/ MovesDone \/ ResumesDone
  <2>1. UNCHANGED <<started, clock>>
    BY <1>5 DEF BeginStep, SleepersDone, MovesDone, ResumesDone, NextLoop, EndStep, started
  <2> QED BY <1>2, <2>1 DEF Kept2, PromiseStep
<1> QED BY <1>3, <1>4, <1>5

LEMMA AddScriptKeeps ==
    ASSUME Inv, SlotInv, NEW s \in Scripts, AddScript(s)
    PROVE  Kept2
<1> DEFINE e == NewEntry("Running", 0, FALSE, FALSE)
<1>1. /\ s \in Co /\ KindOf(s) = "script" /\ stage = "boot" /\ stage' = stage /\ clock' = clock
      /\ s # cur /\ cur' = cur /\ ~ Known(s) /\ call' = call
      /\ nextFrame' = nextFrame /\ sleeping' = sleeping
      /\ ready' = [ready EXCEPT !["script"] = Append(@, s)]
  BY InvFacts DEF AddScript, Co, KindOf, ClockLoop, loop
<1>2. ~ Queued(s, ready) /\ ~ Queued(s, nextFrame) /\ ~ Queued(s, sleeping)
  BY <1>1 DEF SlotInv, SlotOK
<1>3. Added(ready, ready', s)
  BY <1>1, <1>2, AppendAdds DEF SlotInv, ShapesOK
<1>4. Written(s, e) /\ e.status = "Running"
  BY PutWrites DEF AddScript, NewEntry
<1> HIDE DEF e
<1>5. Touches(s)
  BY <1>1, <1>3, <1>4 DEF Touches, Same, Added, Written, Known, SlotInv, ShapesOK
<1>6. /\ Queued(s, ready)' /\ ~ Queued(s, nextFrame)' /\ ~ Queued(s, sleeping)'
      /\ Known(s)' /\ entry'[s].status = "Running" /\ s # cur'
  BY <1>1, <1>2, <1>3, <1>4 DEF Added, Written, Known
<1>7. SlotOK(s)'
  BY <1>6 DEF SlotOK
<1>8. ModeOf(s) = "gone" /\ ModeOf(s)' = "runnable" /\ DueOf(s) = 0 /\ DueOf(s)' = 0
  BY <1>1, <1>6 DEF ModeOf, DueOf
<1>9. SlotInv' /\ modes' = [modes EXCEPT ![s] = "runnable"] /\ modes[s] = "gone" /\ dues' = dues
  BY <1>1, <1>5, <1>7, <1>8, TouchedKept
<1>10. Promise!Create(s)
  BY <1>1, <1>9 DEF Promise!Create, Promise!Turns, started
<1> QED BY <1>1, <1>9, <1>10 DEF Kept2, PromiseStep, Promise!Next, Co, Promise!Co

\* A task is created, ready for the next frame or asleep.
LEMMA TaskKind == \A c \in Tasks : c \in Co /\ c \notin Scripts /\ KindOf(c) = "task"
BY CoroutineAssumption DEF Co, KindOf

LEMMA NextFrameKeeps ==
    ASSUME Inv, SlotInv, NEW c \in Tasks, Schedulable(c), stage # "boot",
           NEW ref \in BOOLEAN, ScheduleTaskNextFrame(c, ref), UNCHANGED <<loop, cur, arg>>
    PROVE  Kept2
<1> DEFINE e == NewEntry("Waiting", 0, TRUE, ref)
<1>1. /\ c \in Co /\ c \notin Scripts /\ KindOf(c) = "task" /\ ~ Known(c)
      /\ stage' = stage /\ clock' = clock /\ cur' = cur
      /\ ready' = ready /\ sleeping' = sleeping
      /\ nextFrame' = [nextFrame EXCEPT !["task"] = Append(@, c)]
      /\ call' = [call EXCEPT ![c] = NoCall] /\ call \in [Co -> Calls]
  BY TaskKind, InvFacts DEF ScheduleTaskNextFrame, ScheduleTask, Schedulable, loop, RunOK
<1>2. ~ Queued(c, ready) /\ ~ Queued(c, nextFrame) /\ ~ Queued(c, sleeping) /\ c # cur
  BY <1>1 DEF SlotInv, SlotOK
<1>3. Added(nextFrame, nextFrame', c)
  BY <1>1, <1>2, AppendAdds DEF SlotInv, ShapesOK
<1>4. Written(c, e) /\ e.status = "Waiting" /\ e.nextFrame
  BY PutWrites DEF ScheduleTaskNextFrame, ScheduleTask, NewEntry
<1> HIDE DEF e
<1>5. Touches(c)
  BY <1>1, <1>3, <1>4 DEF Touches, Same, Added, Written, Known, SlotInv, ShapesOK
<1>6. /\ ~ Queued(c, ready)' /\ Queued(c, nextFrame)' /\ ~ Queued(c, sleeping)'
      /\ Known(c)' /\ Enqueued(entry'[c]) /\ ~ Sleeps(entry'[c])
      /\ c # cur' /\ stage' # "boot" /\ call'[c].op # "event"
  BY <1>1, <1>2, <1>3, <1>4 DEF Added, Written, Known, Enqueued, Sleeps, NoCall, Call
<1>7. SlotOK(c)'
  BY <1>6 DEF SlotOK
<1>8. ModeOf(c) = "gone" /\ ModeOf(c)' = "runnable" /\ DueOf(c) = 0 /\ DueOf(c)' = 0
  BY <1>1, <1>2, <1>6 DEF ModeOf, DueOf
<1>9. SlotInv' /\ modes' = [modes EXCEPT ![c] = "runnable"] /\ modes[c] = "gone" /\ dues' = dues
  BY <1>1, <1>5, <1>7, <1>8, TouchedKept
<1>10. Promise!Create(c)
  BY <1>1, <1>9 DEF Promise!Create, Promise!Turns, started
<1> QED BY <1>1, <1>9, <1>10 DEF Kept2, PromiseStep, Promise!Next, Co, Promise!Co

LEMMA DelayKeeps ==
    ASSUME Inv, SlotInv, NEW c \in Tasks, TaskDelay(c)
    PROVE  Kept2
<1>1. PICK secs \in Delays \cup {0} : ScheduleTaskAt(c, secs)
  BY DEF TaskDelay
<1> DEFINE e == NewEntry("Waiting", DelayUntil(secs), FALSE, TRUE)
           key == [WakeKey EXCEPT ![c] = DelayUntil(secs)]
<1>2. /\ c \in Co /\ c \notin Scripts /\ KindOf(c) = "task" /\ ~ Known(c)
      /\ stage' = stage /\ stage = "resume" /\ clock' = clock /\ cur' = cur
      /\ ready' = ready /\ nextFrame' = nextFrame
      /\ sleeping' = [sleeping EXCEPT !["task"] = Push(@, c, key)]
      /\ call' = [call EXCEPT ![c] = Call("delay", clock + secs)] /\ call \in [Co -> Calls]
  BY <1>1, TaskKind, InvFacts
     DEF TaskDelay, ScheduleTaskAt, ScheduleTask, Schedulable, loop, RunOK, ClockLoop
<1>3. ~ Queued(c, ready) /\ ~ Queued(c, nextFrame) /\ ~ Queued(c, sleeping) /\ c # cur
  BY <1>2 DEF SlotInv, SlotOK
<1> HIDE DEF key
<1>4. Added(sleeping, sleeping', c)
  BY <1>2, <1>3, PushAdds DEF SlotInv, ShapesOK
<1>5. clock + secs # Infinity
  BY InvFacts, TimeAssumption DEF LoopOK
<1>6. Written(c, e) /\ Sleeps(e) /\ Enqueued(e) /\ e.wakeTime = clock + secs
  BY <1>1, <1>5, PutWrites
     DEF ScheduleTaskAt, ScheduleTask, NewEntry, DelayUntil, Sleeps, Enqueued
<1> HIDE DEF e
<1>7. Touches(c)
  BY <1>2, <1>4, <1>6 DEF Touches, Same, Added, Written, Known, SlotInv, ShapesOK
<1>8. /\ ~ Queued(c, ready)' /\ ~ Queued(c, nextFrame)' /\ Queued(c, sleeping)'
      /\ Known(c)' /\ Sleeps(entry'[c]) /\ entry'[c].wakeTime = clock + secs
      /\ c # cur' /\ stage' # "boot" /\ call'[c].op # "event"
  BY <1>2, <1>3, <1>4, <1>6 DEF Added, Written, Known, Call
<1>9. SlotOK(c)'
  BY <1>8 DEF SlotOK
<1>10. ModeOf(c) = "gone" /\ ModeOf(c)' = "sleeping" /\ DueOf(c)' = clock + secs
  BY <1>2, <1>3, <1>8 DEF ModeOf, DueOf
<1>11. /\ SlotInv' /\ modes' = [modes EXCEPT ![c] = "sleeping"] /\ modes[c] = "gone"
       /\ dues' = [dues EXCEPT ![c] = clock + secs]
  BY <1>2, <1>7, <1>9, <1>10, TouchedKept
<1>12. Promise!Create(c)
  BY <1>2, <1>11 DEF Promise!Create, Promise!Turns, Promise!Sleeps, started
<1> QED BY <1>2, <1>11, <1>12 DEF Kept2, PromiseStep, Promise!Next, Co, Promise!Co

LEMMA CreateKeeps ==
    ASSUME Inv, SlotInv, NEW c \in Tasks, FireListener(c) \/ TaskSpawn(c) \/ TaskDelay(c)
    PROVE  Kept2
<1>1. FireListener(c) \/ TaskSpawn(c) => stage # "boot"
  BY InvFacts DEF FireListener, TaskSpawn, ClockLoop
<1>2. CASE FireListener(c)
  BY <1>1, <1>2, NextFrameKeeps DEF FireListener
<1>3. CASE TaskSpawn(c)
  BY <1>1, <1>3, NextFrameKeeps DEF TaskSpawn
<1> QED BY <1>2, <1>3, DelayKeeps

\* An event wakes its waiter, which stands in no queue.
LEMMA WaiterKeeps ==
    ASSUME Inv, SlotInv, NEW c \in Co, WakeWaiter(c)
    PROVE  Kept2
<1>1. /\ stage = "main" /\ stage' = stage /\ clock' = clock /\ cur' = cur /\ c # cur
      /\ Known(c) /\ call[c].op = "event" /\ entry[c].status = "Waiting"
      /\ ready' = ready /\ sleeping' = sleeping /\ call' = call
      /\ nextFrame' = [nextFrame EXCEPT ![KindOf(c)] = Append(@, c)]
  BY InvFacts DEF WakeWaiter, ResumeNextFrame, loop, ClockLoop
<1>2. Parked(entry[c])
  BY <1>1 DEF SlotInv, SlotOK
<1>3. ~ Queued(c, ready) /\ ~ Queued(c, nextFrame) /\ ~ Queued(c, sleeping)
  BY <1>1, <1>2 DEF SlotInv, SlotOK, Enqueued, Sleeps, Parked
<1>4. Added(nextFrame, nextFrame', c)
  BY <1>1, <1>3, AppendAdds DEF SlotInv, ShapesOK
<1>5. Written(c, entry'[c]) /\ entry'[c].status = "Running"
  BY <1>1, InvFacts DEF WakeWaiter, ResumeNextFrame, Known, EntriesOK, Entry, Written
<1>6. Touches(c)
  BY <1>1, <1>4, <1>5 DEF Touches, Same, Added, Written, Known, SlotInv, ShapesOK
<1>7. /\ ~ Queued(c, ready)' /\ Queued(c, nextFrame)' /\ ~ Queued(c, sleeping)'
      /\ Known(c)' /\ entry'[c].status = "Running" /\ Enqueued(entry'[c]) /\ ~ Sleeps(entry'[c])
      /\ c # cur' /\ stage' # "boot"
  BY <1>1, <1>3, <1>4, <1>5 DEF Added, Written, Known, Enqueued, Sleeps
<1>8. SlotOK(c)'
  BY <1>7 DEF SlotOK
<1>9. ModeOf(c) = "parked" /\ ModeOf(c)' = "runnable" /\ DueOf(c) = 0 /\ DueOf(c)' = 0
  BY <1>1, <1>3, <1>7 DEF ModeOf, DueOf
<1>10. SlotInv' /\ modes' = [modes EXCEPT ![c] = "runnable"] /\ modes[c] = "parked" /\ dues' = dues
  BY <1>6, <1>8, <1>9, TouchedKept
<1>11. Promise!Notify(c)
  BY <1>1, <1>10 DEF Promise!Notify, Promise!Turns, started
<1> QED BY <1>10, <1>11 DEF Kept2, PromiseStep, Promise!Next, Co, Promise!Co

\* Step takes the front of a queue and puts it, when it still has an entry, on
\* another one.
LEMMA SleeperKeeps ==
    ASSUME Inv, SlotInv, WakeSleeper
    PROVE  Kept2
<1>1. PICK c \in Co : c = Head(sleeping[kind]) /\ KindOf(c) = kind /\ Queued(c, sleeping)
                      /\ Removed(sleeping, sleeping', c)
  <2>1. kind \in Kinds /\ sleeping[kind] # << >> /\ Shape(sleeping)
    BY InvFacts DEF WakeSleeper, LoopOK, SlotInv, ShapesOK
  <2>2. sleeping' = [sleeping EXCEPT ![kind] = Pop(@, WakeKey)]
    BY DEF WakeSleeper
  <2> QED BY <2>1, <2>2, PopRemoves
<1>2. /\ stage = "wake" /\ stage' = stage /\ clock' = clock /\ cur' = cur /\ cur = NoCo /\ c # cur
      /\ nextFrame' = nextFrame /\ call' = call /\ NoCo \notin Co
      /\ ~ Queued(c, ready) /\ ~ Queued(c, nextFrame)
      /\ Known(c) => Sleeps(entry[c])
  BY <1>1, InvFacts DEF WakeSleeper, loop, ClockLoop, SlotInv, SlotOK
<1>3. CASE Known(c)
  <2>1. ~ Stale(entry[c]) /\ entry[c].wakeTime <= now
    BY <1>1, <1>2, <1>3 DEF WakeSleeper, Sleeps, Stale, Due
  <2>2. /\ ready' = [ready EXCEPT ![KindOf(c)] = Append(@, c)]
        /\ entry' = [entry EXCEPT ![c] = Woken(entry[c])]
    BY <1>1, <1>3, <2>1 DEF WakeSleeper
  <2>3. Added(ready, ready', c)
    BY <1>2, <2>2, AppendAdds DEF SlotInv, ShapesOK
  <2>4. Written(c, Woken(entry[c]))
    BY <1>3, <2>2, InvFacts, ExceptWrites DEF Known
  <2>5. Woken(entry[c]).status = "Running"
    BY <1>3, InvFacts DEF Woken, Known, EntriesOK, Entry
  <2>6. Touches(c)
    BY <1>1, <1>2, <2>3, <2>4 DEF Touches, Same, Added, Removed, Written, Known, SlotInv, ShapesOK
  <2>7. /\ Queued(c, ready)' /\ ~ Queued(c, nextFrame)' /\ ~ Queued(c, sleeping)'
        /\ Known(c)' /\ entry'[c].status = "Running" /\ c # cur'
    BY <1>1, <1>2, <2>3, <2>4, <2>5 DEF Added, Removed, Written, Known
  <2>8. SlotOK(c)'
    BY <2>7 DEF SlotOK
  <2>9. ModeOf(c) = "sleeping" /\ ModeOf(c)' = "runnable" /\ DueOf(c) = entry[c].wakeTime /\ DueOf(c)' = 0
    BY <1>1, <1>2, <1>3, <2>7 DEF ModeOf, DueOf
  <2>10. /\ SlotInv' /\ modes' = [modes EXCEPT ![c] = "runnable"] /\ modes[c] = "sleeping"
         /\ dues' = [dues EXCEPT ![c] = 0] /\ dues[c] = entry[c].wakeTime
    BY <2>6, <2>8, <2>9, TouchedKept
  <2>11. entry[c].wakeTime <= clock
    BY <1>3, <2>1, InvFacts DEF ClockLoop, Known, EntriesOK, Entry
  <2>12. Promise!Wake(c)
    BY <1>2, <2>10, <2>11 DEF Promise!Wake, Promise!Turns, started
  <2> QED BY <2>10, <2>12 DEF Kept2, PromiseStep, Promise!Next, Co, Promise!Co
<1>4. CASE ~ Known(c)
  <2>1. ready' = ready /\ entry' = entry
    BY <1>1, <1>4 DEF WakeSleeper
  <2>2. Touches(c)
    BY <1>1, <1>2, <2>1 DEF Touches, Same, Removed, Known, SlotInv, ShapesOK
  <2>3. /\ ~ Queued(c, ready)' /\ ~ Queued(c, nextFrame)' /\ ~ Queued(c, sleeping)'
        /\ ~ Known(c)' /\ c # cur'
    BY <1>1, <1>2, <1>4, <2>1 DEF Removed, Known
  <2>4. SlotOK(c)'
    BY <2>3 DEF SlotOK
  <2>5. ModeOf(c) = "gone" /\ ModeOf(c)' = "gone" /\ DueOf(c) = 0 /\ DueOf(c)' = 0
    BY <1>2, <1>4, <2>3 DEF ModeOf, DueOf
  <2>6. SlotInv' /\ modes' = modes /\ dues' = dues
    BY <2>2, <2>4, <2>5, TouchedKept
  <2> QED BY <1>2, <2>6 DEF Kept2, PromiseStep, started
<1> QED BY <1>3, <1>4

LEMMA MoveKeeps ==
    ASSUME Inv, SlotInv, MoveNextFrame
    PROVE  Kept2
<1>1. PICK c \in Co : c = Head(nextFrame[kind]) /\ KindOf(c) = kind /\ Queued(c, nextFrame)
                      /\ Removed(nextFrame, nextFrame', c)
  <2>1. kind \in Kinds /\ nextFrame[kind] # << >> /\ Shape(nextFrame)
    BY InvFacts DEF MoveNextFrame, LoopOK, SlotInv, ShapesOK
  <2>2. nextFrame' = [nextFrame EXCEPT ![kind] = Tail(@)]
    BY DEF MoveNextFrame
  <2> QED BY <2>1, <2>2, TailRemoves
<1>2. /\ stage = "move" /\ stage' = stage /\ clock' = clock /\ cur' = cur /\ cur = NoCo /\ c # cur
      /\ sleeping' = sleeping /\ call' = call /\ NoCo \notin Co
      /\ ~ Queued(c, ready) /\ ~ Queued(c, sleeping)
  BY <1>1, InvFacts DEF MoveNextFrame, loop, ClockLoop, SlotInv, SlotOK
<1>3. CASE Known(c)
  <2>1. /\ ready' = [ready EXCEPT ![KindOf(c)] = Append(@, c)]
        /\ entry' = [entry EXCEPT ![c] = Moved(entry[c])]
    BY <1>1, <1>3 DEF MoveNextFrame
  <2>2. Added(ready, ready', c)
    BY <1>2, <2>1, AppendAdds DEF SlotInv, ShapesOK
  <2>3. Written(c, Moved(entry[c]))
    BY <1>3, <2>1, InvFacts, ExceptWrites DEF Known
  <2>4. Moved(entry[c]).status = "Running"
    BY <1>3, InvFacts DEF Moved, Known, EntriesOK, Entry
  <2>5. Touches(c)
    BY <1>1, <1>2, <2>2, <2>3 DEF Touches, Same, Added, Removed, Written, Known, SlotInv, ShapesOK
  <2>6. /\ Queued(c, ready)' /\ ~ Queued(c, nextFrame)' /\ ~ Queued(c, sleeping)'
        /\ Known(c)' /\ entry'[c].status = "Running" /\ c # cur'
    BY <1>1, <1>2, <2>2, <2>3, <2>4 DEF Added, Removed, Written, Known
  <2>7. SlotOK(c)'
    BY <2>6 DEF SlotOK
  <2>8. ModeOf(c) = "runnable" /\ ModeOf(c)' = "runnable" /\ DueOf(c) = 0 /\ DueOf(c)' = 0
    BY <1>1, <1>2, <1>3, <2>6 DEF ModeOf, DueOf
  <2>9. SlotInv' /\ modes' = modes /\ dues' = dues
    BY <2>5, <2>7, <2>8, TouchedKept
  <2> QED BY <1>2, <2>9 DEF Kept2, PromiseStep, started
<1>4. CASE ~ Known(c)
  <2>1. ready' = ready /\ entry' = entry
    BY <1>1, <1>4 DEF MoveNextFrame
  <2>2. Touches(c)
    BY <1>1, <1>2, <2>1 DEF Touches, Same, Removed, Known, SlotInv, ShapesOK
  <2>3. /\ ~ Queued(c, ready)' /\ ~ Queued(c, nextFrame)' /\ ~ Queued(c, sleeping)'
        /\ ~ Known(c)' /\ c # cur'
    BY <1>1, <1>2, <1>4, <2>1 DEF Removed, Known
  <2>4. SlotOK(c)'
    BY <2>3 DEF SlotOK
  <2>5. ModeOf(c) = "gone" /\ ModeOf(c)' = "gone" /\ DueOf(c) = 0 /\ DueOf(c)' = 0
    BY <1>2, <1>4, <2>3 DEF ModeOf, DueOf
  <2>6. SlotInv' /\ modes' = modes /\ dues' = dues
    BY <2>2, <2>4, <2>5, TouchedKept
  <2> QED BY <1>2, <2>6 DEF Kept2, PromiseStep, started
<1> QED BY <1>3, <1>4

\* What stands in ready has an entry that runs, so that it is resumed.
LEMMA ResumeKeeps ==
    ASSUME Inv, SlotInv, ResumeFront
    PROVE  Kept2
<1>1. PICK c \in Co : c = Head(ready[kind]) /\ KindOf(c) = kind /\ Queued(c, ready)
                      /\ Removed(ready, ready', c)
  <2>1. kind \in Kinds /\ ready[kind] # << >> /\ Shape(ready)
    BY InvFacts DEF ResumeFront, LoopOK, SlotInv, ShapesOK
  <2>2. ready' = [ready EXCEPT ![kind] = Tail(@)]
    BY DEF ResumeFront
  <2> QED BY <2>1, <2>2, TailRemoves
<1>2. /\ Known(c) /\ entry[c].status = "Running"
      /\ ~ Queued(c, nextFrame) /\ ~ Queued(c, sleeping)
  BY <1>1 DEF SlotInv, SlotOK
<1>3. /\ stage = "resume" /\ stage' = stage /\ clock' = clock /\ cur = NoCo /\ cur' = c
      /\ nextFrame' = nextFrame /\ sleeping' = sleeping /\ NoCo \notin Co
      /\ entry' = [entry EXCEPT ![c] = Resumed(entry[c])]
      /\ call' = [call EXCEPT ![c] = NoCall] /\ call \in [Co -> Calls]
  BY <1>1, <1>2, InvFacts DEF ResumeFront, RunOK
<1>4. Written(c, Resumed(entry[c]))
  BY <1>2, <1>3, InvFacts, ExceptWrites DEF Known
<1>5. Resumed(entry[c]).status = "Running"
  BY <1>2, InvFacts DEF Resumed, Known, EntriesOK, Entry
<1>6. Touches(c)
  BY <1>1, <1>3, <1>4 DEF Touches, Same, Removed, Written, Known, SlotInv, ShapesOK
<1>7. /\ ~ Queued(c, ready)' /\ ~ Queued(c, nextFrame)' /\ ~ Queued(c, sleeping)'
      /\ Known(c)' /\ entry'[c].status = "Running" /\ c = cur'
  BY <1>1, <1>2, <1>3, <1>4, <1>5 DEF Removed, Written, Known
<1>8. SlotOK(c)'
  BY <1>7 DEF SlotOK
<1>9. ModeOf(c) = "runnable" /\ ModeOf(c)' = "running" /\ DueOf(c) = 0 /\ DueOf(c)' = 0
  BY <1>1, <1>2, <1>3, <1>7 DEF ModeOf, DueOf
<1>10. SlotInv' /\ modes' = [modes EXCEPT ![c] = "running"] /\ modes[c] = "runnable" /\ dues' = dues
  BY <1>6, <1>8, <1>9, TouchedKept
<1>11. \A d \in Co : modes[d] \notin {"running", "doomed"}
  BY <1>3 DEF modes, ModeOf
<1>12. Promise!Dispatch(c)
  BY <1>3, <1>10, <1>11
     DEF Promise!Dispatch, Promise!Turns, Promise!Running, Promise!Co, Co, started
<1> QED BY <1>10, <1>12 DEF Kept2, PromiseStep, Promise!Next, Co, Promise!Co

LEMMA StopKeeps ==
    ASSUME Inv, SlotInv, NEW s \in Stoppable, StopScript(s)
    PROVE  Kept2
<1>1. /\ s \in Scripts /\ s \in Co /\ s \notin Tasks /\ KindOf(s) = "script" /\ Known(s)
      /\ cur \in Co /\ stage = "resume" /\ stage' = stage /\ clock' = clock /\ cur' = cur
      /\ sleeping' = sleeping /\ call' = [call EXCEPT ![s] = NoCall] /\ call \in [Co -> Calls]
      /\ entry' = Erase(entry, s)
      /\ ready' = [ready EXCEPT !["script"] = Without(@, s)]
      /\ nextFrame' = [nextFrame EXCEPT !["script"] = Without(@, s)]
  BY InvFacts, CoroutineAssumption DEF StopScript, Co, KindOf, loop, RunOK, ClockLoop
<1>2. Removed(ready, ready', s) /\ Removed(nextFrame, nextFrame', s)
  BY <1>1, WithoutRemoves DEF SlotInv, ShapesOK
<1>3. DOMAIN entry' = DOMAIN entry \ {s} /\ \A x \in DOMAIN entry' : entry'[x] = entry[x]
  BY <1>1 DEF Erase
<1>4. Touches(s)
  BY <1>1, <1>2, <1>3 DEF Touches, Same, Removed, Known, SlotInv, ShapesOK
<1>5. /\ ~ Queued(s, ready)' /\ ~ Queued(s, nextFrame)' /\ ~ Known(s)'
      /\ Queued(s, sleeping)' => s # cur' /\ stage' # "boot"
  BY <1>1, <1>2, <1>3 DEF Removed, Known, SlotInv, SlotOK
<1>6. SlotOK(s)'
  BY <1>1, <1>5 DEF SlotOK
<1>7. /\ ModeOf(s)' = IF s = cur THEN "doomed" ELSE "gone"
      /\ ModeOf(s) = "running" <=> s = cur
      /\ ModeOf(s) # "doomed" /\ DueOf(s)' = 0
      /\ ModeOf(cur) \in {"running", "doomed"}
  BY <1>1, <1>5 DEF ModeOf, DueOf
<1>8. /\ SlotInv' /\ modes' = [modes EXCEPT ![s] = ModeOf(s)'] /\ modes[s] = ModeOf(s)
      /\ dues' = [dues EXCEPT ![s] = 0]
  BY <1>1, <1>4, <1>6, <1>7, TouchedKept
<1>9. modes[cur] \in {"running", "doomed"}
  BY <1>1, <1>7 DEF modes
<1>10. Promise!Destroy(s)
  BY <1>1, <1>7, <1>8, <1>9
     DEF Promise!Destroy, Promise!Turns, Promise!Running, Promise!Co, Co, started
<1> QED BY <1>1, <1>8, <1>10 DEF Kept2, PromiseStep, Promise!Next

----------------------------------------------------------------------------
\* The running coroutine gives control back.  It stands in no queue.

LEMMA RunnerFacts ==
    ASSUME Inv, SlotInv, cur # NoCo
    PROVE  /\ cur \in Co /\ stage = "resume" /\ NoCo \notin Co
           /\ ~ Queued(cur, ready) /\ ~ Queued(cur, nextFrame) /\ ~ Queued(cur, sleeping)
           /\ ~ Known(cur) => cur \in Scripts
           /\ Known(cur) => entry[cur] \in Entry /\ entry[cur].status = "Running"
           /\ DueOf(cur) = 0 /\ ModeOf(cur) = IF Known(cur) THEN "running" ELSE "doomed"
           /\ modes[cur] = ModeOf(cur)
<1>1. cur \in Co /\ stage = "resume" /\ NoCo \notin Co
  BY InvFacts DEF RunOK, ClockLoop
<1>2. SlotOK(cur)
  BY <1>1 DEF SlotInv
<1>3. /\ ~ Queued(cur, ready) /\ ~ Queued(cur, nextFrame) /\ ~ Queued(cur, sleeping)
      /\ ~ Known(cur) => cur \in Scripts
      /\ Known(cur) => entry[cur].status = "Running"
  BY <1>1, <1>2 DEF SlotOK, Co
<1>4. Known(cur) => entry[cur] \in Entry
  BY InvFacts DEF Known, EntriesOK
<1>5. DueOf(cur) = 0 /\ ModeOf(cur) = IF Known(cur) THEN "running" ELSE "doomed"
  BY DEF DueOf, ModeOf
<1> QED BY <1>1, <1>3, <1>4, <1>5 DEF modes

\* Where its entry, as the call left it, sends it.
LEMMA YieldMoves ==
    ASSUME Inv, SlotInv, NEW c \in Co, c = cur, Known(c), NEW e \in Entry,
           NEW op, NEW due, Yield(e, op, due),
           e.status \in {"Running", "Waiting"},
           op = "event" => Parked(e)
    PROVE  /\ SlotInv' /\ UNCHANGED <<started, clock>>
           /\ Sleeps(e) => /\ modes' = [modes EXCEPT ![c] = "sleeping"]
                           /\ dues' = [dues EXCEPT ![c] = e.wakeTime]
           /\ Parked(e) => modes' = [modes EXCEPT ![c] = "parked"] /\ dues' = dues
           /\ ~ Sleeps(e) /\ ~ Parked(e) => modes' = [modes EXCEPT ![c] = "runnable"] /\ dues' = dues
<1> DEFINE f == [e EXCEPT !.firstResume = FALSE, !.lastResumeTime = now]
           key == [WakeKey EXCEPT ![c] = e.wakeTime]
<1>1. /\ stage = "resume" /\ NoCo \notin Co
      /\ ~ Queued(c, ready) /\ ~ Queued(c, nextFrame) /\ ~ Queued(c, sleeping)
      /\ DueOf(c) = 0
  BY RunnerFacts, InvFacts
<1>2. /\ stage' = stage /\ clock' = clock /\ cur' = NoCo /\ c # cur'
      /\ ready' = ready /\ entry' = [entry EXCEPT ![c] = f]
      /\ call' = [call EXCEPT ![c] = Call(op, due)] /\ call \in [Co -> Calls]
      /\ nextFrame' = IF Sleeps(e) \/ Parked(e) THEN nextFrame
                      ELSE [nextFrame EXCEPT ![KindOf(c)] = Append(@, c)]
      /\ sleeping' = IF Sleeps(e) THEN [sleeping EXCEPT ![KindOf(c)] = Push(@, c, key)] ELSE sleeping
  BY <1>1, InvFacts DEF Yield, Requeue, ReturnToStep, Enqueue, RunOK
<1>3. /\ f.status = e.status /\ f.wakeTime = e.wakeTime /\ f.nextFrame = e.nextFrame
      /\ Sleeps(f) = Sleeps(e) /\ Parked(f) = Parked(e)
  BY DEF Entry, Sleeps, Parked
<1>4. Written(c, f)
  BY <1>2, InvFacts, ExceptWrites DEF Known
<1> HIDE DEF f, key
<1>5. /\ Sleeps(e) => Added(sleeping, sleeping', c) /\ nextFrame' = nextFrame
      /\ Parked(e) => sleeping' = sleeping /\ nextFrame' = nextFrame
      /\ ~ Sleeps(e) /\ ~ Parked(e) => Added(nextFrame, nextFrame', c) /\ sleeping' = sleeping
      /\ ~ (Sleeps(e) /\ Parked(e))
  <2>1. ~ (Sleeps(e) /\ Parked(e))
    BY DEF Sleeps, Parked
  <2> QED BY <1>1, <1>2, <2>1, AppendAdds, PushAdds DEF SlotInv, ShapesOK
<1>6. Touches(c)
  <2>1. ShapesOK' /\ \A d \in Co \ {c} : /\ Queued(d, nextFrame)' <=> Queued(d, nextFrame)
                                         /\ Queued(d, sleeping)' <=> Queued(d, sleeping)
    BY <1>2, <1>5 DEF Added, SlotInv, ShapesOK
  <2> QED BY <1>1, <1>2, <1>4, <2>1 DEF Touches, Same, Written, Known
<1>7. /\ ~ Queued(c, ready)' /\ Known(c)' /\ entry'[c] = f
      /\ Queued(c, sleeping)' <=> Sleeps(e)
      /\ Queued(c, nextFrame)' <=> ~ Sleeps(e) /\ ~ Parked(e)
      /\ call'[c].op = op /\ stage' # "boot"
  BY <1>1, <1>2, <1>4, <1>5 DEF Added, Written, Known, Call
<1>8. /\ ~ Sleeps(e) /\ ~ Parked(e) <=> e.status = "Running" \/ e.nextFrame
      /\ Enqueued(f) <=> ~ Parked(e)
  BY <1>3 DEF Sleeps, Parked, Enqueued, Entry
<1>9. SlotOK(c)'
  BY <1>2, <1>3, <1>7, <1>8 DEF SlotOK
<1>10. /\ Sleeps(e) => ModeOf(c)' = "sleeping" /\ DueOf(c)' = e.wakeTime
       /\ Parked(e) => ModeOf(c)' = "parked" /\ DueOf(c)' = 0
       /\ ~ Sleeps(e) /\ ~ Parked(e) => ModeOf(c)' = "runnable" /\ DueOf(c)' = 0
  BY <1>2, <1>3, <1>5, <1>7 DEF ModeOf, DueOf, Parked
<1>11. UNCHANGED <<started, clock>>
  BY <1>2 DEF started
<1> QED BY <1>1, <1>6, <1>9, <1>10, <1>11, TouchedKept

LEMMA WaitKeeps ==
    ASSUME Inv, SlotInv, Wait \/ WaitEvent \/ BareYield
    PROVE  Kept2
<1>0. PICK c \in Co : c = cur
  BY RunnerFacts DEF Wait, WaitEvent, BareYield
<1>1. /\ Known(c) /\ entry[c] \in Entry /\ entry[c].status = "Running" /\ modes[c] = "running"
      /\ now \in Nat /\ clock \in Nat /\ Infinity \in Nat
  BY <1>0, RunnerFacts, InvFacts DEF Wait, WaitEvent, BareYield
<1>2. ASSUME NEW secs \in Delays,
             Yield(WaitingUntil(entry[cur], clock + secs), "sleep", clock + secs)
      PROVE  Kept2
  <2> DEFINE e == WaitingUntil(entry[c], clock + secs)
  <2>1. clock + secs # Infinity /\ clock + secs \in Nat
    BY InvFacts, TimeAssumption DEF LoopOK
  <2>2. e \in Entry
    BY <1>1, <2>1, UpdatesTyped
  <2>3. e.status = "Waiting" /\ Sleeps(e) /\ e.wakeTime = clock + secs
    BY <1>1, <2>1 DEF WaitingUntil, Entry, Sleeps
  <2>4. Yield(e, "sleep", clock + secs)
    BY <1>0, <1>2
  <2> HIDE DEF e
  <2>5. /\ SlotInv' /\ UNCHANGED <<started, clock>>
        /\ modes' = [modes EXCEPT ![c] = "sleeping"] /\ dues' = [dues EXCEPT ![c] = clock + secs]
    BY <1>0, <1>1, <2>2, <2>3, <2>4, YieldMoves
  <2>6. Promise!Sleep(c)
    BY <1>1, <2>5 DEF Promise!Sleep, Promise!Sleeps, Promise!Turns
  <2> QED BY <2>5, <2>6 DEF Kept2, PromiseStep, Promise!Next, Co, Promise!Co
<1>3. ASSUME NEW e \in Entry, NEW op, Yield(e, op, 0), ~ Sleeps(e),
             e.status \in {"Running", "Waiting"}, op = "event" => Parked(e)
      PROVE  Kept2
  <2>1. /\ SlotInv' /\ UNCHANGED <<started, clock>> /\ dues' = dues
        /\ \/ modes' = [modes EXCEPT ![c] = "parked"]
           \/ modes' = [modes EXCEPT ![c] = "runnable"]
    BY <1>0, <1>1, <1>3, YieldMoves
  <2>2. Promise!Suspend(c)
    BY <1>1, <2>1 DEF Promise!Suspend, Promise!Turns
  <2> QED BY <2>1, <2>2 DEF Kept2, PromiseStep, Promise!Next, Co, Promise!Co
<1>4. /\ WaitingFrame(entry[c]) \in Entry /\ ~ Sleeps(WaitingFrame(entry[c]))
      /\ WaitingFrame(entry[c]).status = "Waiting"
  BY <1>1, UpdatesTyped DEF WaitingFrame, Entry, Sleeps
<1>5. /\ ParkedOnEvent(entry[c]) \in Entry /\ Parked(ParkedOnEvent(entry[c]))
      /\ ~ Sleeps(ParkedOnEvent(entry[c])) /\ ParkedOnEvent(entry[c]).status = "Waiting"
  BY <1>1, UpdatesTyped DEF ParkedOnEvent, Entry, Sleeps, Parked
<1>6. ~ Sleeps(entry[c])
  BY <1>1 DEF Sleeps
<1>7. CASE Wait
  <2>1. \/ \E secs \in Delays : Yield(WaitingUntil(entry[cur], clock + secs), "sleep", clock + secs)
        \/ Yield(WaitingFrame(entry[c]), "frame", 0)
    BY <1>0, <1>7 DEF Wait
  <2> QED BY <1>2, <1>3, <1>4, <2>1
<1>8. CASE WaitEvent
  <2>1. Yield(ParkedOnEvent(entry[c]), "event", 0)
    BY <1>0, <1>8 DEF WaitEvent
  <2> QED BY <1>3, <1>5, <2>1
<1>9. CASE BareYield
  <2>1. Yield(entry[c], "yield", 0)
    BY <1>0, <1>9 DEF BareYield
  <2> QED BY <1>1, <1>3, <1>6, <2>1
<1> QED BY <1>7, <1>8, <1>9

LEMMA LeaveKeeps ==
    ASSUME Inv, SlotInv, NEW status \in {"Done", "Error"}, Leave(status)
    PROVE  Kept2
<1>0. PICK c \in Co : c = cur
  BY RunnerFacts DEF Leave
<1>1. /\ Known(c) /\ stage = "resume" /\ NoCo \notin Co
      /\ ~ Queued(c, ready) /\ ~ Queued(c, nextFrame) /\ ~ Queued(c, sleeping)
      /\ DueOf(c) = 0 /\ modes[c] = "running"
  BY <1>0, RunnerFacts DEF Leave
<1>2. /\ stage' = stage /\ clock' = clock /\ cur' = NoCo /\ c # cur'
      /\ UNCHANGED queues /\ call' = call
      /\ entry' = IF c \in Scripts THEN [entry EXCEPT ![c] = Retired(status)] ELSE Erase(entry, c)
  BY <1>0, <1>1 DEF Leave, ReturnToStep
<1>3. /\ \A d \in Co \ {c} : /\ Known(d)' <=> Known(d)
                             /\ Known(d) => entry'[d] = entry[d]
      /\ IF c \in Scripts THEN Known(c)' /\ entry'[c].status = status ELSE ~ Known(c)'
  <2>1. CASE c \in Scripts
    <3>1. Written(c, Retired(status)) /\ Retired(status).status = status
      BY <1>1, <1>2, <2>1, InvFacts, ExceptWrites DEF Known, Retired
    <3> QED BY <2>1, <3>1 DEF Written, Known
  <2>2. CASE c \notin Scripts
    BY <1>2, <2>2 DEF Erase, Known
  <2> QED BY <2>1, <2>2
<1>4. Touches(c)
  BY <1>0, <1>1, <1>2, <1>3 DEF Touches, Same, Queued, queues, SlotInv, ShapesOK
<1>5. ~ Queued(c, ready)' /\ ~ Queued(c, nextFrame)' /\ ~ Queued(c, sleeping)'
  BY <1>1, <1>2 DEF Queued, queues
<1>6. SlotOK(c)'
  BY <1>2, <1>3, <1>5 DEF SlotOK, Enqueued
<1>7. ModeOf(c)' = (IF c \in Scripts THEN "ended" ELSE "gone") /\ DueOf(c)' = 0
  BY <1>2, <1>3, <1>5 DEF ModeOf, DueOf
<1>8. /\ SlotInv' /\ modes' = [modes EXCEPT ![c] = IF c \in Scripts THEN "ended" ELSE "gone"]
      /\ dues' = dues
  BY <1>1, <1>4, <1>6, <1>7, TouchedKept
<1>9. Promise!End(c)
  BY <1>1, <1>2, <1>8 DEF Promise!End, Promise!Turns, started
<1> QED BY <1>8, <1>9 DEF Kept2, PromiseStep, Promise!Next, Co, Promise!Co

\* A script that was destroyed while it ran stands nowhere, or where the freed
\* state sends it, without an entry.
LEMMA StoppedKeeps ==
    ASSUME Inv, SlotInv, LeaveStopped
    PROVE  Kept2
<1>0. PICK c \in Co : c = cur
  BY RunnerFacts DEF LeaveStopped
<1>1. /\ ~ Known(c) /\ c \in Scripts /\ c \notin Tasks /\ KindOf(c) = "script"
      /\ stage = "resume" /\ NoCo \notin Co
      /\ ~ Queued(c, ready) /\ ~ Queued(c, nextFrame) /\ ~ Queued(c, sleeping)
      /\ DueOf(c) = 0 /\ modes[c] = "doomed"
  BY <1>0, RunnerFacts, CoroutineAssumption DEF LeaveStopped, KindOf
<1>2. /\ stage' = stage /\ clock' = clock /\ cur' = NoCo /\ c # cur'
      /\ entry' = entry /\ ready' = ready /\ call' = call
  BY <1>1 DEF LeaveStopped, ReturnToStep
<1>3. \/ Added(nextFrame, nextFrame', c) /\ sleeping' = sleeping
      \/ Added(sleeping, sleeping', c) /\ nextFrame' = nextFrame
      \/ nextFrame' = nextFrame /\ sleeping' = sleeping
  <2>1. nextFrame' = Enqueue(nextFrame, c) => Added(nextFrame, nextFrame', c)
    BY <1>1, AppendAdds DEF Enqueue, SlotInv, ShapesOK
  <2>2. sleeping' = [sleeping EXCEPT !["script"] = Push(@, c, WakeKey)] => Added(sleeping, sleeping', c)
    <3>1. Added(sleeping, [sleeping EXCEPT ![KindOf(c)] = Push(@, c, WakeKey)], c)
      BY <1>1, PushAdds DEF SlotInv, ShapesOK
    <3> QED BY <1>1, <3>1
  <2> QED BY <1>0, <2>1, <2>2 DEF LeaveStopped
<1>4. Touches(c)
  <2>1. ShapesOK' /\ \A d \in Co \ {c} : /\ Queued(d, nextFrame)' <=> Queued(d, nextFrame)
                                         /\ Queued(d, sleeping)' <=> Queued(d, sleeping)
    BY <1>2, <1>3 DEF Added, SlotInv, ShapesOK
  <2> QED BY <1>0, <1>1, <1>2, <2>1 DEF Touches, Same, Known
<1>5. ~ Queued(c, ready)' /\ ~ (Queued(c, nextFrame)' /\ Queued(c, sleeping)') /\ ~ Known(c)' /\ stage' # "boot"
  BY <1>1, <1>2, <1>3 DEF Added, Known
<1>6. SlotOK(c)'
  BY <1>1, <1>2, <1>5 DEF SlotOK
<1>7. ModeOf(c)' = "gone" /\ DueOf(c)' = 0
  BY <1>2, <1>5 DEF ModeOf, DueOf
<1>8. SlotInv' /\ modes' = [modes EXCEPT ![c] = "gone"] /\ dues' = dues
  BY <1>1, <1>4, <1>6, <1>7, TouchedKept
<1>9. Promise!End(c)
  BY <1>1, <1>2, <1>8 DEF Promise!End, Promise!Turns, started
<1> QED BY <1>8, <1>9 DEF Kept2, PromiseStep, Promise!Next, Co, Promise!Co

----------------------------------------------------------------------------

LEMMA SlotsAtInit == Init => SlotInv /\ Promise!Init
<1> SUFFICES ASSUME Init PROVE SlotInv /\ Promise!Init
  OBVIOUS
<1>1. \A q \in {ready, nextFrame, sleeping} : Shape(q) /\ \A c \in Co : ~ Queued(c, q)
  <2> DEFINE none == [k \in Kinds |-> << >>]
  <2>1. Range(<< >>) = {} /\ IsInjective(<< >>)
    BY DEF Range, IsInjective
  <2>2. \A k \in Kinds : none[k] = << >>
    OBVIOUS
  <2>3. none \in [Kinds -> Seq(Co)]
    OBVIOUS
  <2> HIDE DEF none
  <2>4. Shape(none)
    BY <2>1, <2>2, <2>3 DEF Shape
  <2>5. \A c \in Co : ~ Queued(c, none)
    BY <2>1, <2>2, KindIsKind DEF Queued
  <2>6. ready = none /\ nextFrame = none /\ sleeping = none
    BY DEF Init, none
  <2> QED BY <2>4, <2>5, <2>6
<1>2. \A c \in Co : ~ Known(c) /\ c # cur
  BY CoroutineAssumption DEF Init, Known
<1>3. SlotInv
  BY <1>1, <1>2 DEF SlotInv, ShapesOK, SlotOK
<1>4. \A c \in Co : ModeOf(c) = "gone" /\ DueOf(c) = 0
  BY <1>2 DEF ModeOf, DueOf
<1> QED BY <1>3, <1>4 DEF Init, Promise!Init, started, modes, dues, Promise!Co, Co

LEMMA SlotStep ==
    ASSUME Inv, SlotInv, [Next]_vars
    PROVE  Kept2
<1>1. CASE UNCHANGED vars
  <2>1. SlotInv' /\ modes' = modes /\ dues' = dues
    BY <1>1, NothingTouched DEF vars, loop
  <2> QED BY <1>1, <2>1 DEF vars, loop, Kept2, PromiseStep, started
<1>2. CASE MainLoop
  BY <1>2, LoopKeeps DEF MainLoop
<1>3. ASSUME NEW s \in Scripts, AddScript(s) PROVE Kept2
  BY <1>3, AddScriptKeeps
<1>4. ASSUME NEW c \in Tasks, FireListener(c) \/ TaskSpawn(c) \/ TaskDelay(c) PROVE Kept2
  BY <1>4, CreateKeeps
<1>5. ASSUME NEW c \in Co, WakeWaiter(c) PROVE Kept2
  BY <1>5, WaiterKeeps
<1>6. CASE Stepping
  BY <1>6, LoopKeeps, SleeperKeeps, MoveKeeps, ResumeKeeps DEF Stepping
<1>7. ASSUME NEW s \in Stoppable, StopScript(s) PROVE Kept2
  BY <1>7, StopKeeps
<1>8. CASE Handing
  BY <1>8, WaitKeeps, LeaveKeeps, StoppedKeeps DEF Handing, Finish, Fail
<1> QED BY <1>1, <1>2, <1>3, <1>4, <1>5, <1>6, <1>7, <1>8 DEF Next

\* In a vector without duplicates an element has one slot, another none.
LEMMA SlotCount ==
    ASSUME NEW q, Shape(q), NEW c \in Co
    PROVE  Cardinality(SlotsIn(q[KindOf(c)], c)) = IF Queued(c, q) THEN 1 ELSE 0
<1> DEFINE s == q[KindOf(c)]
           N == SlotsIn(s, c)
<1>1. IsInjective(s)
  BY KindIsKind DEF Shape
<1>2. \A i, j \in N : i = j
  BY <1>1 DEF SlotsIn, IsInjective
<1>3. Queued(c, q) <=> N # {}
  BY DEF Queued, SlotsIn, Range
<1>4. CASE N = {}
  <2> HIDE DEF N
  <2> QED BY <1>3, <1>4, FS_EmptySet DEF N
<1>5. CASE N # {}
  <2>1. PICK i \in N : TRUE
    BY <1>5
  <2>2. N = {i}
    BY <1>2
  <2> HIDE DEF N
  <2> QED BY <1>3, <1>5, <2>2, FS_Singleton DEF N
<1> QED BY <1>4, <1>5

LEMMA SlotsFollow == SlotInv => OneSlotEach
<1> SUFFICES ASSUME SlotInv, NEW c \in Co
             PROVE  IF ~ Known(c) THEN Slots(c) <= (IF c \in Scripts THEN 1 ELSE 0)
                    ELSE Slots(c) = IF c # cur /\ Enqueued(entry[c]) THEN 1 ELSE 0
  BY DEF OneSlotEach
<1> DEFINE In(q) == IF Queued(c, q) THEN 1 ELSE 0
<1>1. Slots(c) = In(ready) + In(nextFrame) + In(sleeping)
  BY SlotCount DEF Slots, SlotInv, ShapesOK
<1>2. SlotOK(c)
  BY DEF SlotInv
<1>3. CASE ~ Known(c)
  <2>1. ~ Queued(c, ready) /\ ~ (Queued(c, nextFrame) /\ Queued(c, sleeping))
    BY <1>2, <1>3 DEF SlotOK
  <2>2. c \notin Scripts => ~ Queued(c, nextFrame) /\ ~ Queued(c, sleeping)
    BY <1>2, <1>3 DEF SlotOK, Co
  <2> QED BY <1>1, <1>3, <2>1, <2>2
<1>4. CASE Known(c)
  <2>1. /\ ~ (Queued(c, ready) /\ Queued(c, nextFrame)) /\ ~ (Queued(c, ready) /\ Queued(c, sleeping))
        /\ ~ (Queued(c, nextFrame) /\ Queued(c, sleeping))
    BY <1>2 DEF SlotOK
  <2>2. c # cur /\ Enqueued(entry[c]) <=> Queued(c, ready) \/ Queued(c, nextFrame) \/ Queued(c, sleeping)
    BY <1>2, <1>4 DEF SlotOK, Enqueued, Sleeps
  <2> QED BY <1>1, <1>4, <2>1, <2>2
<1> QED BY <1>3, <1>4

\* No coroutine is ever lost or queued twice, however often it waits, is woken,
\* destroyed and created again (LuaScheduler.cpp:253-330, 341-366, 391-402, 456-470).
THEOREM SlotsCorrect == Spec => []OneSlotEach
<1>1. Init => SlotInv
  BY SlotsAtInit
<1>2. Inv /\ SlotInv /\ [Next]_vars => SlotInv'
  BY SlotStep DEF Kept2
<1>3. SlotInv => OneSlotEach
  BY SlotsFollow
<1> QED BY Invariant, <1>1, <1>2, <1>3, PTL DEF Spec

\* The scheduler implements Coroutines: each of its steps does to one coroutine
\* what wait, task.*, Signal:Wait and Destroy promise, or changes nothing a
\* program can see.
THEOREM PromiseKept == Spec => KeepsPromise
<1>1. Init => SlotInv /\ Promise!Init
  BY SlotsAtInit
<1>2. Inv /\ SlotInv /\ [Next]_vars => SlotInv'
  BY SlotStep DEF Kept2
<1>3. Inv /\ SlotInv /\ [Next]_vars => [Promise!Next]_(Promise!vars)
  BY SlotStep DEF Kept2, PromiseStep, Promise!vars
<1> QED BY Invariant, <1>1, <1>2, <1>3, PTL DEF Spec, KeepsPromise, Promise!Spec

----------------------------------------------------------------------------
\* What an entry says of the call its coroutine is suspended in.

\* The time up to which this Step, or the next one, has woken or will wake.
Reached == IF stage = "main" THEN clock ELSE now

Timed(c) == call[c].op \in {"sleep", "delay"}

AskedOK(c) ==
    /\ stage = "boot" => call[c] = NoCall
    /\ Known(c) =>
         /\ entry[c].hasPending <=> call[c].op = "event" /\ entry[c].status = "Running"
         /\ c = cur => call[c].op = "none"
         /\ Timed(c) =>
              \/ entry[c].status = "Waiting" /\ ~ entry[c].nextFrame /\ entry[c].wakeTime = call[c].due
              \/ entry[c].status = "Running" /\ call[c].due <= Reached
         /\ call[c].op = "sleep" =>
              /\ ~ entry[c].firstResume
              /\ entry[c].status = "Running" =>
                   /\ entry[c].passDelta
                   /\ entry[c].resumeDelta >= call[c].due - entry[c].lastResumeTime
         /\ call[c].op = "delay" => entry[c].firstResume

AskedInv == \A c \in Co : AskedOK(c)

\* A step that writes no entry and no call but those of c.
Writes(c) ==
    /\ Reached <= Reached' /\ (stage' = "boot" => stage = "boot")
    /\ \A d \in Co \ {c} : /\ Known(d)' <=> Known(d)
                           /\ Known(d) => entry'[d] = entry[d]
                           /\ d = cur' => d = cur
                           /\ call'[d] = call[d]

LEMMA AskedFacts ==
    ASSUME Inv
    PROVE  /\ Reached \in Nat /\ now <= clock /\ now \in Nat /\ clock \in Nat
           /\ call \in [Co -> Calls] /\ NoCo \notin Co /\ EntriesOK
           /\ \A c \in Co : call[c].due \in Nat
           /\ \A c \in Co : Known(c) => entry[c] \in Entry
BY InvFacts DEF Reached, RunOK, Calls, ClockLoop, EntriesOK, Known

LEMMA ReachedNext ==
    ASSUME Inv'
    PROVE  Reached' \in Nat
BY TimeAssumption DEF Inv, TypeOK, Reached

LEMMA AskedTouched ==
    ASSUME Inv, Inv', AskedInv, NEW c \in Co, Writes(c), AskedOK(c)'
    PROVE  AskedInv'
<1> SUFFICES ASSUME NEW d \in Co, d # c PROVE AskedOK(d)'
  BY DEF AskedInv
<1>1. AskedOK(d)
  BY DEF AskedInv
<1>2. /\ Known(d)' <=> Known(d)
      /\ Known(d) => entry'[d] = entry[d]
      /\ d = cur' => d = cur
      /\ call'[d] = call[d] /\ (stage' = "boot" => stage = "boot")
  BY DEF Writes
<1>3. call[d].due <= Reached => call[d].due <= Reached'
  BY AskedFacts, ReachedNext DEF Writes
<1>4. CASE Known(d)
  <2>1. AskedOK(d) /\ entry'[d] = entry[d] /\ Known(d)' /\ call'[d] = call[d]
    BY <1>1, <1>2, <1>4
  <2> QED BY <1>1, <1>2, <1>3, <2>1 DEF AskedOK, Timed
<1>5. CASE ~ Known(d)
  BY <1>1, <1>2, <1>5 DEF AskedOK
<1> QED BY <1>4, <1>5

\* The clock and the loops of Step.
LEMMA AskedLoop ==
    ASSUME Inv, Inv', AskedInv, UNCHANGED <<entry, call>>,
           UNCHANGED vars \/ Tick \/ StartLoop \/ BeginStep \/ SleepersDone \/ MovesDone
             \/ ResumesDone \/ LeaveStopped
    PROVE  AskedInv'
<1>1. Reached <= Reached' /\ (stage' = "boot" => stage = "boot")
  BY InvFacts DEF vars, loop, Tick, StartLoop, BeginStep, SleepersDone, MovesDone, ResumesDone,
                  LeaveStopped, ReturnToStep, NextLoop, EndStep, Reached, ClockLoop
<1>2. cur' \in {cur, NoCo}
  BY DEF vars, Tick, StartLoop, BeginStep, SleepersDone, MovesDone, ResumesDone,
         LeaveStopped, ReturnToStep
<1> SUFFICES ASSUME NEW d \in Co PROVE AskedOK(d)'
  BY DEF AskedInv
<1>3. call[d].due <= Reached => call[d].due <= Reached'
  BY <1>1, AskedFacts, ReachedNext
<1>4. d = cur' => d = cur
  BY <1>2, AskedFacts
<1>5. AskedOK(d) /\ entry' = entry /\ call' = call
  BY DEF AskedInv
<1> QED BY <1>1, <1>3, <1>4, <1>5 DEF AskedOK, Timed, Known

\* An action that writes an entry or a call.
LEMMA AskedCreate ==
    ASSUME Inv, Inv', SlotInv, AskedInv,
           NEW c \in Tasks, FireListener(c) \/ TaskSpawn(c) \/ TaskDelay(c)
    PROVE  AskedInv'
<1>0. PICK e, what : /\ ScheduleTask(c, e, what)
                     /\ ~ e.hasPending /\ e.status = "Waiting" /\ e.firstResume
                     /\ \/ what = NoCall
                        \/ what.op = "delay" /\ ~ e.nextFrame /\ e.wakeTime = what.due
  <2>1. ASSUME NEW ref, ScheduleTask(c, NewEntry("Waiting", 0, TRUE, ref), NoCall)
        PROVE  \E e, what : /\ ScheduleTask(c, e, what)
                            /\ ~ e.hasPending /\ e.status = "Waiting" /\ e.firstResume
                            /\ \/ what = NoCall
                               \/ what.op = "delay" /\ ~ e.nextFrame /\ e.wakeTime = what.due
    <3> DEFINE e0 == NewEntry("Waiting", 0, TRUE, ref)
    <3>1. ~ e0.hasPending /\ e0.status = "Waiting" /\ e0.firstResume /\ ScheduleTask(c, e0, NoCall)
      BY <2>1 DEF NewEntry
    <3> HIDE DEF e0
    <3> QED BY <3>1
  <2>2. ASSUME NEW secs,
               ScheduleTask(c, NewEntry("Waiting", DelayUntil(secs), FALSE, TRUE),
                            Call("delay", clock + secs))
        PROVE  \E e, what : /\ ScheduleTask(c, e, what)
                            /\ ~ e.hasPending /\ e.status = "Waiting" /\ e.firstResume
                            /\ \/ what = NoCall
                               \/ what.op = "delay" /\ ~ e.nextFrame /\ e.wakeTime = what.due
    <3> DEFINE e0 == NewEntry("Waiting", DelayUntil(secs), FALSE, TRUE)
               w0 == Call("delay", clock + secs)
    <3>1. /\ ~ e0.hasPending /\ e0.status = "Waiting" /\ e0.firstResume /\ ~ e0.nextFrame
          /\ w0.op = "delay" /\ e0.wakeTime = w0.due /\ ScheduleTask(c, e0, w0)
      BY <2>2 DEF NewEntry, DelayUntil, Call
    <3> HIDE DEF e0, w0
    <3> QED BY <3>1
  <2> QED BY <2>1, <2>2
          DEF FireListener, TaskSpawn, TaskDelay, ScheduleTaskNextFrame, ScheduleTaskAt
<1>1. /\ c \in Co /\ ~ Known(c) /\ c # cur /\ UNCHANGED <<loop, cur>> /\ stage # "boot"
      /\ Written(c, e) /\ call' = [call EXCEPT ![c] = what]
  BY <1>0, TaskKind, InvFacts, PutWrites
     DEF FireListener, TaskSpawn, TaskDelay, Schedulable, ScheduleTask, ClockLoop, SlotInv, SlotOK
<1>2. Writes(c)
  BY <1>1, AskedFacts DEF Writes, Written, Known, loop, Reached
<1>3. /\ stage' # "boot" /\ Known(c)' /\ c # cur' /\ call'[c] = what /\ entry'[c] = e
  BY <1>1, AskedFacts DEF Written, Known, loop
<1>4. AskedOK(c)'
  BY <1>0, <1>3 DEF AskedOK, Timed, NoCall, Call
<1> QED BY <1>1, <1>2, <1>4, AskedTouched

LEMMA AskedAddScript ==
    ASSUME Inv, Inv', AskedInv, NEW s \in Scripts, AddScript(s)
    PROVE  AskedInv'
<1> DEFINE e == NewEntry("Running", 0, FALSE, FALSE)
<1>1. /\ s \in Co /\ stage = "boot" /\ UNCHANGED <<loop, cur, call>> /\ Written(s, e)
      /\ ~ e.hasPending /\ cur = NoCo
  BY InvFacts, PutWrites DEF AddScript, Co, NewEntry, ClockLoop
<1> HIDE DEF e
<1>2. Writes(s)
  BY <1>1, AskedFacts DEF Writes, Written, Known, loop, Reached
<1>3. call[s] = NoCall
  BY <1>1 DEF AskedInv, AskedOK
<1>4. AskedOK(s)'
  BY <1>1, <1>3, AskedFacts DEF AskedOK, Timed, NoCall, Call, Written, Known
<1> QED BY <1>1, <1>2, <1>4, AskedTouched

LEMMA AskedWaiter ==
    ASSUME Inv, Inv', AskedInv, NEW c \in Co, WakeWaiter(c)
    PROVE  AskedInv'
<1>1. /\ Known(c) /\ call[c].op = "event" /\ stage = "main" /\ UNCHANGED <<loop, cur, call>>
      /\ c # cur /\ entry[c] \in Entry
      /\ Written(c, entry'[c]) /\ entry'[c].status = "Running" /\ entry'[c].hasPending
  BY InvFacts DEF WakeWaiter, ResumeNextFrame, Known, EntriesOK, Entry, Written, ClockLoop
<1>2. Writes(c)
  BY <1>1, AskedFacts DEF Writes, Written, Known, loop, Reached
<1>3. AskedOK(c)'
  BY <1>1 DEF AskedOK, Timed, Written, Known, loop
<1> QED BY <1>2, <1>3, AskedTouched

LEMMA AskedWake ==
    ASSUME Inv, Inv', SlotInv, AskedInv, WakeSleeper \/ MoveNextFrame
    PROVE  AskedInv'
<1>0. UNCHANGED <<loop, cur, call>> /\ stage \in {"wake", "move"} /\ cur = NoCo
  BY InvFacts DEF WakeSleeper, MoveNextFrame, ClockLoop
<1>1. CASE UNCHANGED entry
  <2> SUFFICES ASSUME NEW d \in Co PROVE AskedOK(d)'
    BY DEF AskedInv
  <2>1. AskedOK(d)
    BY DEF AskedInv
  <2> QED BY <1>0, <1>1, <2>1 DEF AskedOK, Timed, Known, loop, Reached
<1>2. CASE ~ UNCHANGED entry
  <2>1. PICK c \in Co : /\ Known(c)
                        /\ \/ /\ entry' = [entry EXCEPT ![c] = Woken(entry[c])]
                              /\ Sleeps(entry[c]) /\ entry[c].wakeTime <= now
                           \/ /\ entry' = [entry EXCEPT ![c] = Moved(entry[c])]
                              /\ Enqueued(entry[c]) /\ ~ Sleeps(entry[c])
    <3>1. CASE WakeSleeper
      <4>1. kind \in Kinds /\ sleeping[kind] # << >> /\ Shape(sleeping)
        BY <3>1, InvFacts DEF WakeSleeper, LoopOK, SlotInv, ShapesOK
      <4> DEFINE h == Head(sleeping[kind])
      <4>2. h \in Co /\ Queued(h, sleeping)
        BY <4>1, PopRemoves
      <4>3. Known(h) /\ ~ Stale(entry[h]) /\ entry' = [entry EXCEPT ![h] = Woken(entry[h])]
        BY <1>2, <3>1 DEF WakeSleeper
      <4>4. Sleeps(entry[h])
        BY <4>2, <4>3 DEF SlotInv, SlotOK
      <4>5. entry[h].wakeTime <= now
        BY <3>1, <4>3 DEF WakeSleeper, Due
      <4> HIDE DEF h
      <4> QED BY <4>2, <4>3, <4>4, <4>5
    <3>2. CASE MoveNextFrame
      <4>1. kind \in Kinds /\ nextFrame[kind] # << >> /\ Shape(nextFrame)
        BY <3>2, InvFacts DEF MoveNextFrame, LoopOK, SlotInv, ShapesOK
      <4> DEFINE h == Head(nextFrame[kind])
      <4>2. h \in Co /\ Queued(h, nextFrame)
        BY <4>1, TailRemoves
      <4>3. Known(h) /\ entry' = [entry EXCEPT ![h] = Moved(entry[h])]
        BY <1>2, <3>2 DEF MoveNextFrame
      <4>4. Enqueued(entry[h]) /\ ~ Sleeps(entry[h])
        BY <4>2, <4>3 DEF SlotInv, SlotOK
      <4> HIDE DEF h
      <4> QED BY <4>2, <4>3, <4>4
    <3> QED BY <3>1, <3>2
  <2>2. entry[c] \in Entry /\ AskedOK(c) /\ SlotOK(c) /\ c # cur
    BY <1>0, <2>1, AskedFacts DEF AskedInv, SlotInv
  <2> DEFINE e == entry[c]
             f == entry'[c]
  <2>3. /\ Written(c, f) /\ f.status = "Running" /\ f.hasPending = e.hasPending
        /\ f.firstResume = e.firstResume /\ f.lastResumeTime = e.lastResumeTime
        /\ f.resumeDelta = now - e.lastResumeTime
        /\ f.passDelta \/ (Enqueued(e) /\ ~ Sleeps(e) /\ (e.passDelta => f.passDelta))
    <3>1. ASSUME f = Woken(e) PROVE /\ f.status = "Running" /\ f.hasPending = e.hasPending
                                    /\ f.firstResume = e.firstResume
                                    /\ f.lastResumeTime = e.lastResumeTime
                                    /\ f.resumeDelta = now - e.lastResumeTime /\ f.passDelta
      <4> HIDE DEF f, e
      <4> QED BY <3>1, <2>2 DEF Woken, Entry, e
    <3>2. ASSUME f = Moved(e) PROVE /\ f.status = "Running" /\ f.hasPending = e.hasPending
                                    /\ f.firstResume = e.firstResume
                                    /\ f.lastResumeTime = e.lastResumeTime
                                    /\ f.resumeDelta = now - e.lastResumeTime
                                    /\ e.passDelta => f.passDelta
      <4> HIDE DEF f, e
      <4> QED BY <3>2, <2>2 DEF Moved, Entry, e
    <3>3. \/ Written(c, f) /\ f = Woken(e)
          \/ Written(c, f) /\ f = Moved(e) /\ Enqueued(e) /\ ~ Sleeps(e)
      BY <2>1, InvFacts, ExceptWrites DEF Written, EntriesOK, Known
    <3> HIDE DEF f, e
    <3> QED BY <3>1, <3>2, <3>3
  <2> HIDE DEF f
  <2>4. Writes(c)
    BY <1>0, <2>3, AskedFacts DEF Writes, Written, Known, loop, Reached
  <2>5. call[c].op = "event" => e.status = "Running"
    BY <2>1, <2>2 DEF SlotOK, Parked, Sleeps, Enqueued, Entry
  <2>6. Timed(c) => call[c].due <= now
    BY <1>0, <2>1, <2>2 DEF AskedOK, Reached, Sleeps, Enqueued
  <2>7. call[c].op = "sleep" => f.passDelta
    <3> SUFFICES ASSUME call[c].op = "sleep", Enqueued(e), ~ Sleeps(e), e.passDelta => f.passDelta
                 PROVE  f.passDelta
      BY <2>3
    <3>1. Timed(c)
      BY DEF Timed
    <3>2. e.status = "Running"
      BY <2>1, <2>2, <3>1 DEF AskedOK, Enqueued, Sleeps
    <3>3. e.passDelta
      BY <2>1, <2>2, <3>2 DEF AskedOK
    <3> QED BY <3>3
  <2>8. AskedOK(c)'
    <3>1. /\ Known(c)' /\ entry'[c] = f /\ c # cur' /\ call' = call /\ Reached' = now
          /\ stage' # "boot"
      BY <1>0, <2>2, <2>3 DEF Written, Known, loop, Reached
    <3>2. call[c].op = "sleep" => f.resumeDelta >= call[c].due - f.lastResumeTime
      BY <2>2, <2>3, <2>6, AskedFacts DEF Timed, Entry
    <3> QED BY <2>1, <2>2, <2>3, <2>5, <2>6, <2>7, <3>1, <3>2 DEF AskedOK, Timed
  <2> QED BY <2>4, <2>8, AskedTouched
<1> QED BY <1>1, <1>2

\* The front of ready is resumed.
LEMMA FrontFacts ==
    ASSUME Inv, SlotInv, ResumeFront
    PROVE  LET c == Head(ready[kind])
           IN  /\ c \in Co /\ Known(c) /\ entry[c].status = "Running" /\ entry[c] \in Entry
               /\ cur' = c /\ cur = NoCo /\ c # cur /\ stage = "resume"
               /\ arg' = ResumeArg(entry[c])
               /\ entry' = [entry EXCEPT ![c] = Resumed(entry[c])]
               /\ call' = [call EXCEPT ![c] = NoCall]
<1> DEFINE c == Head(ready[kind])
<1>1. kind \in Kinds /\ ready[kind] # << >> /\ Shape(ready)
  BY InvFacts DEF ResumeFront, LoopOK, SlotInv, ShapesOK
<1>2. c \in Co /\ Queued(c, ready)
  BY <1>1, TailRemoves
<1>3. Known(c) /\ entry[c].status = "Running" /\ entry[c] \in Entry /\ c # cur
  BY <1>2, AskedFacts DEF SlotInv, SlotOK
<1> QED BY <1>2, <1>3 DEF ResumeFront

LEMMA AskedResume ==
    ASSUME Inv, Inv', SlotInv, AskedInv, ResumeFront
    PROVE  AskedInv'
<1>1. PICK c \in Co : /\ Known(c) /\ entry[c].status = "Running" /\ entry[c] \in Entry
                      /\ cur' = c /\ stage = "resume"
                      /\ entry' = [entry EXCEPT ![c] = Resumed(entry[c])]
                      /\ call' = [call EXCEPT ![c] = NoCall]
  BY FrontFacts
<1>2. Written(c, Resumed(entry[c])) /\ ~ Resumed(entry[c]).hasPending
  BY <1>1, InvFacts, ExceptWrites DEF Known, Resumed, Entry
<1>3. /\ UNCHANGED <<stage, clock, now>> /\ call'[c] = NoCall
      /\ \A d \in Co \ {c} : call'[d] = call[d]
  BY <1>1, AskedFacts DEF ResumeFront
<1>4. Writes(c)
  BY <1>1, <1>2, <1>3, AskedFacts DEF Writes, Written, Known, Reached
<1>5. AskedOK(c)'
  BY <1>1, <1>2, <1>3 DEF AskedOK, Timed, NoCall, Call, Written, Known
<1> QED BY <1>4, <1>5, AskedTouched

LEMMA AskedStop ==
    ASSUME Inv, Inv', AskedInv, NEW s \in Stoppable, StopScript(s)
    PROVE  AskedInv'
<1>1. /\ s \in Co /\ stage = "resume" /\ UNCHANGED <<loop, cur>>
      /\ DOMAIN entry' = DOMAIN entry \ {s} /\ \A x \in DOMAIN entry' : entry'[x] = entry[x]
      /\ call' = [call EXCEPT ![s] = NoCall]
  BY InvFacts, CoroutineAssumption DEF StopScript, Erase, Co, ClockLoop
<1>2. Writes(s)
  BY <1>1, AskedFacts DEF Writes, Known, loop, Reached
<1>3. AskedOK(s)'
  BY <1>1 DEF AskedOK, Known, loop
<1> QED BY <1>1, <1>2, <1>3, AskedTouched

LEMMA AskedYield ==
    ASSUME Inv, Inv', SlotInv, AskedInv, Wait \/ WaitEvent \/ BareYield
    PROVE  AskedInv'
<1>0. PICK c \in Co : c = cur
  BY RunnerFacts DEF Wait, WaitEvent, BareYield
<1>1. /\ Known(c) /\ entry[c] \in Entry /\ entry[c].status = "Running" /\ stage = "resume"
      /\ call[c].op = "none" /\ ~ entry[c].hasPending /\ NoCo \notin Co /\ now \in Nat
  BY <1>0, RunnerFacts, AskedFacts DEF Wait, WaitEvent, BareYield, AskedInv, AskedOK
<1>2. ASSUME NEW e, NEW op, NEW due, Yield(e, op, due), e \in Entry, ~ e.hasPending,
             op \notin {"none", "delay"}, op = "event" => e.status = "Waiting",
             op = "sleep" => e.status = "Waiting" /\ ~ e.nextFrame /\ e.wakeTime = due
      PROVE  AskedInv'
  <2> DEFINE f == [e EXCEPT !.firstResume = FALSE, !.lastResumeTime = now]
  <2>1. /\ entry' = [entry EXCEPT ![c] = f] /\ call' = [call EXCEPT ![c] = Call(op, due)]
        /\ UNCHANGED <<stage, clock, now>> /\ cur' = NoCo
    BY <1>0, <1>2 DEF Yield, Requeue, ReturnToStep
  <2>2. Written(c, f)
    BY <1>1, <2>1, InvFacts, ExceptWrites DEF Known
  <2>3. /\ ~ f.hasPending /\ ~ f.firstResume /\ f.status = e.status
        /\ f.nextFrame = e.nextFrame /\ f.wakeTime = e.wakeTime
    BY <1>2 DEF Entry
  <2> HIDE DEF f
  <2>4. call'[c] = Call(op, due) /\ \A d \in Co \ {c} : call'[d] = call[d]
    BY <2>1, AskedFacts
  <2>5. Writes(c)
    BY <1>1, <2>1, <2>2, <2>4, AskedFacts DEF Writes, Written, Known, Reached
  <2>6. /\ Known(c)' /\ entry'[c] = f /\ c # cur' /\ stage' # "boot"
        /\ call'[c].op = op /\ call'[c].due = due
    BY <1>1, <2>1, <2>2, <2>4 DEF Written, Known, Call
  <2>7. AskedOK(c)'
    BY <1>2, <2>3, <2>6 DEF AskedOK, Timed
  <2> QED BY <2>5, <2>7, AskedTouched
<1>3. ASSUME NEW secs \in Delays,
             Yield(WaitingUntil(entry[cur], clock + secs), "sleep", clock + secs)
      PROVE  AskedInv'
  <2> DEFINE e == WaitingUntil(entry[c], clock + secs)
  <2>1. clock + secs \in Nat
    BY InvFacts
  <2>2. e \in Entry
    BY <1>1, <2>1, InvFacts, UpdatesTyped
  <2>3. ~ e.hasPending /\ e.status = "Waiting" /\ ~ e.nextFrame /\ e.wakeTime = clock + secs
    BY <1>1 DEF WaitingUntil, Entry
  <2> HIDE DEF e
  <2> QED BY <1>0, <1>2, <1>3, <2>2, <2>3 DEF e
<1>4. ASSUME Yield(WaitingFrame(entry[c]), "frame", 0) PROVE AskedInv'
  <2>1. WaitingFrame(entry[c]) \in Entry /\ ~ WaitingFrame(entry[c]).hasPending
    BY <1>1, InvFacts, UpdatesTyped DEF WaitingFrame, Entry
  <2> QED BY <1>2, <1>4, <2>1
<1>5. ASSUME Yield(ParkedOnEvent(entry[c]), "event", 0) PROVE AskedInv'
  <2>1. /\ ParkedOnEvent(entry[c]) \in Entry /\ ~ ParkedOnEvent(entry[c]).hasPending
        /\ ParkedOnEvent(entry[c]).status = "Waiting"
    BY <1>1, InvFacts, UpdatesTyped DEF ParkedOnEvent, Entry
  <2> QED BY <1>2, <1>5, <2>1
<1>6. ASSUME Yield(entry[c], "yield", 0) PROVE AskedInv'
  BY <1>1, <1>2, <1>6
<1> QED BY <1>0, <1>3, <1>4, <1>5, <1>6 DEF Wait, WaitEvent, BareYield

LEMMA AskedLeave ==
    ASSUME Inv, Inv', SlotInv, AskedInv, NEW status \in {"Done", "Error"}, Leave(status)
    PROVE  AskedInv'
<1>0. PICK c \in Co : c = cur
  BY RunnerFacts DEF Leave
<1>1. /\ Known(c) /\ stage = "resume" /\ call[c].op = "none" /\ NoCo \notin Co
      /\ UNCHANGED <<stage, clock, now>> /\ cur' = NoCo /\ call' = call
      /\ entry' = IF c \in Scripts THEN [entry EXCEPT ![c] = Retired(status)] ELSE Erase(entry, c)
  BY <1>0, RunnerFacts DEF Leave, ReturnToStep, AskedInv, AskedOK
<1>2. /\ \A d \in Co \ {c} : /\ Known(d)' <=> Known(d)
                             /\ Known(d) => entry'[d] = entry[d]
      /\ Known(c)' => entry'[c] = Retired(status)
  <2>1. CASE c \in Scripts
    <3>1. Written(c, Retired(status))
      BY <1>1, <2>1, InvFacts, ExceptWrites DEF Known
    <3> QED BY <3>1 DEF Written, Known
  <2>2. CASE c \notin Scripts
    BY <1>1, <2>2 DEF Erase, Known
  <2> QED BY <2>1, <2>2
<1>3. Writes(c)
  BY <1>1, <1>2, AskedFacts DEF Writes, Reached
<1>4. AskedOK(c)'
  <2>1. ~ Retired(status).hasPending
    BY DEF Retired
  <2> QED BY <1>1, <1>2, <2>1 DEF AskedOK, Timed
<1> QED BY <1>3, <1>4, AskedTouched

LEMMA AskedStep ==
    ASSUME Inv, Inv', SlotInv, AskedInv, [Next]_vars
    PROVE  AskedInv'
<1>1. CASE UNCHANGED vars \/ MainLoop \/ SleepersDone \/ MovesDone \/ ResumesDone \/ LeaveStopped
  <2>1. UNCHANGED <<entry, call>>
    BY <1>1 DEF vars, MainLoop, Tick, StartLoop, BeginStep, SleepersDone, MovesDone, ResumesDone,
                LeaveStopped
  <2> QED BY <1>1, <2>1, AskedLoop DEF MainLoop
<1>2. ASSUME NEW s \in Scripts, AddScript(s) PROVE AskedInv'
  BY <1>2, AskedAddScript
<1>3. ASSUME NEW c \in Tasks, FireListener(c) \/ TaskSpawn(c) \/ TaskDelay(c) PROVE AskedInv'
  BY <1>3, AskedCreate
<1>4. ASSUME NEW c \in Co, WakeWaiter(c) PROVE AskedInv'
  BY <1>4, AskedWaiter
<1>5. CASE WakeSleeper \/ MoveNextFrame
  BY <1>5, AskedWake
<1>6. CASE ResumeFront
  BY <1>6, AskedResume
<1>7. ASSUME NEW s \in Stoppable, StopScript(s) PROVE AskedInv'
  BY <1>7, AskedStop
<1>8. CASE Wait \/ WaitEvent \/ BareYield
  BY <1>8, AskedYield
<1>9. CASE Finish \/ Fail
  BY <1>9, AskedLeave DEF Finish, Fail
<1> QED BY <1>1, <1>2, <1>3, <1>4, <1>5, <1>6, <1>7, <1>8, <1>9 DEF Next, Stepping, Handing

\* The action property for one step.
Asked ==
    cur' # cur /\ cur' # NoCo =>
        LET c == cur'
        IN  /\ call[c].op = "event" <=> arg'.what = "event"
            /\ call[c].op \in {"sleep", "delay"} => now >= call[c].due
            /\ call[c].op = "sleep" => /\ arg'.what = "delta"
                                       /\ arg'.secs >= call[c].due - entry[c].lastResumeTime
            /\ call[c].op = "delay" => arg'.what = "start"

LEMMA AskedAnswered ==
    ASSUME Inv, SlotInv, AskedInv, [Next]_vars
    PROVE  Asked
<1> SUFFICES ASSUME cur' # cur, cur' # NoCo PROVE Asked
  BY DEF Asked
<1>1. ResumeFront
  BY OnlyResume
<1>2. PICK c \in Co : /\ c = cur' /\ Known(c) /\ entry[c].status = "Running"
                      /\ entry[c] \in Entry /\ stage = "resume" /\ arg' = ResumeArg(entry[c])
  BY <1>1, FrontFacts
<1> DEFINE e == entry[c]
<1>3. /\ e.hasPending <=> call[c].op = "event"
      /\ Timed(c) => call[c].due <= now
      /\ call[c].op = "sleep" =>
           ~ e.firstResume /\ e.passDelta /\ e.resumeDelta >= call[c].due - e.lastResumeTime
      /\ call[c].op = "delay" => e.firstResume
  BY <1>2 DEF AskedInv, AskedOK, Reached
<1> HIDE DEF e
<1>4. /\ arg'.what = "event" <=> e.hasPending
      /\ ~ e.hasPending /\ e.firstResume => arg'.what = "start"
      /\ ~ e.hasPending /\ ~ e.firstResume /\ e.passDelta => arg'.what = "delta" /\ arg'.secs = e.resumeDelta
  BY <1>2 DEF ResumeArg, Arg, e
<1>5. call[c].due \in Nat /\ now \in Nat
  BY AskedFacts
<1>6. /\ call[c].op = "event" <=> arg'.what = "event"
      /\ call[c].op \in {"sleep", "delay"} => now >= call[c].due
      /\ call[c].op = "sleep" => /\ arg'.what = "delta"
                                 /\ arg'.secs >= call[c].due - entry[c].lastResumeTime
      /\ call[c].op = "delay" => arg'.what = "start"
  BY <1>3, <1>4, <1>5 DEF Timed, e
<1> QED BY <1>2, <1>6, Zenon DEF Asked

\* Whatever call a coroutine is suspended in, it is resumed with what the call
\* promises and never before its time (LuaScheduler.cpp:253-330, 353-381).
THEOREM AskedCorrect == Spec => ResumedAsAsked
<1>1. Init => SlotInv /\ AskedInv
  BY SlotsAtInit DEF Init, AskedInv, AskedOK, Known
<1>2. Inv /\ Inv' /\ SlotInv /\ AskedInv /\ [Next]_vars => SlotInv' /\ AskedInv'
  BY SlotStep, AskedStep DEF Kept2
<1>3. Inv /\ SlotInv /\ AskedInv /\ [Next]_vars => [Asked]_vars
  BY AskedAnswered
<1> QED BY Invariant, <1>1, <1>2, <1>3, PTL DEF Spec, ResumedAsAsked, Asked

----------------------------------------------------------------------------
\* The heaps of sleepers are ordered, although their keys are in the entries:
\* nobody writes the entry of one that sleeps.

\* A step that writes no entry but c's.
WritesEntryOf(c) ==
    \A d \in Co \ {c} : (Known(d)' <=> Known(d)) /\ (Known(d) => entry'[d] = entry[d])

\* The loop that wakes the sleepers of kind k is over, and Step has not resumed anyone.
Swept(k) == stage = "move" \/ (stage = "wake" /\ kind = "task" /\ k = "script")

HeapOK(k) == HeapOrdered(sleeping[k], WakeKey) /\ (Swept(k) => Overdue(k) = {})

\* A stopped script would leave its slot in the heap with another key.
StopsAwake == \A s \in Stoppable : StopScript(s) => ~ Queued(s, sleeping)

LEMMA KeysTyped == EntriesOK => WakeKey \in [Co -> Nat]
<1> SUFFICES ASSUME EntriesOK, NEW c \in Co, Known(c) PROVE entry[c].wakeTime \in Nat
  BY DEF WakeKey
<1> QED BY DEF EntriesOK, Known, Entry

LEMMA KeysNext ==
    ASSUME NEW c, WritesEntryOf(c)
    PROVE  \A d \in Co \ {c} : WakeKey'[d] = WakeKey[d]
<1> TAKE d \in Co \ {c}
<1>1. (Known(d)' <=> Known(d)) /\ (Known(d) => entry'[d] = entry[d])
  BY DEF WritesEntryOf
<1>2. /\ WakeKey[d] = IF Known(d) THEN entry[d].wakeTime ELSE 0
      /\ WakeKey'[d] = IF Known(d)' THEN entry'[d].wakeTime ELSE 0
  BY DEF WakeKey
<1> QED BY <1>1, <1>2

\* The heap stays and no key in it changes.
LEMMA HeapStays ==
    ASSUME Inv, ShapesOK, NEW k \in Kinds, HeapOrdered(sleeping[k], WakeKey),
           sleeping'[k] = sleeping[k],
           NEW c, WritesEntryOf(c), c \in Co => ~ (Queued(c, sleeping) /\ KindOf(c) = k)
    PROVE  HeapOrdered(sleeping[k], WakeKey)'
<1>1. sleeping[k] \in Seq(Co) /\ \A d \in Range(sleeping[k]) : d \in Co /\ d # c
  <2>1. sleeping[k] \in Seq(Co) /\ \A d \in Range(sleeping[k]) : d \in Co /\ KindOf(d) = k
    BY DEF ShapesOK, Shape, Range
  <2> QED BY <2>1 DEF Queued
<1>2. \A d \in Range(sleeping[k]) : WakeKey'[d] = WakeKey[d]
  BY <1>1, KeysNext
<1>3. HeapOrdered(sleeping[k], WakeKey')
  BY <1>1, <1>2, OrderKept
<1> QED BY <1>3

\* One more sleeper, which the comparator sees with the key w it is given.
LEMMA HeapGains ==
    ASSUME Inv, ShapesOK, NEW k \in Kinds, HeapOrdered(sleeping[k], WakeKey),
           NEW c \in Co, KindOf(c) = k, ~ Queued(c, sleeping), NEW w \in Nat, WakeKey'[c] = w,
           sleeping'[k] = Push(sleeping[k], c, [WakeKey EXCEPT ![c] = w]),
           WritesEntryOf(c)
    PROVE  HeapOrdered(sleeping[k], WakeKey)'
<1> DEFINE h == sleeping[k]
           key == [WakeKey EXCEPT ![c] = w]
<1>1. WakeKey \in [Co -> Nat]
  BY InvFacts, KeysTyped
<1>2. key \in [Co -> Nat] /\ key[c] = w /\ \A d \in Co \ {c} : key[d] = WakeKey[d]
  BY <1>1
<1>3. h \in Seq(Co) /\ \A d \in Range(h) : d \in Co /\ d # c
  <2>1. h \in Seq(Co)
    BY DEF ShapesOK, Shape
  <2>2. \A d \in Range(h) : d \in Co
    BY <2>1 DEF Range
  <2> QED BY <2>1, <2>2 DEF Queued
<1> HIDE DEF key
<1>4. HeapOrdered(h, key)
  BY <1>2, <1>3, OrderKept
<1>5. HeapOrdered(Push(h, c, key), key)
  BY <1>2, <1>3, <1>4, PushOrders
<1>6. Push(h, c, key) \in Seq(Co) /\ Range(Push(h, c, key)) = Range(h) \cup {c}
  BY <1>3, PushKeeps, PushExact
<1>7. \A d \in Range(Push(h, c, key)) : WakeKey'[d] = key[d]
  BY <1>2, <1>3, <1>6, KeysNext
<1>8. HeapOrdered(Push(h, c, key), WakeKey')
  BY <1>5, <1>6, <1>7, OrderKept
<1> QED BY <1>8 DEF key

\* The top is taken; its key may change, it is no longer in the heap.
LEMMA HeapLoses ==
    ASSUME Inv, ShapesOK, NEW k \in Kinds, HeapOrdered(sleeping[k], WakeKey),
           sleeping[k] # << >>, sleeping'[k] = Pop(sleeping[k], WakeKey),
           WritesEntryOf(Head(sleeping[k]))
    PROVE  HeapOrdered(sleeping[k], WakeKey)'
<1> DEFINE h == sleeping[k]
           c == Head(h)
           p == Pop(h, WakeKey)
<1>1. h \in Seq(Co) /\ IsInjective(h) /\ WakeKey \in [Co -> Nat]
  BY InvFacts, KeysTyped DEF ShapesOK, Shape
<1>2. p \in Seq(Co) /\ Range(p) = Range(h) \ {c} /\ HeapOrdered(p, WakeKey)
  BY <1>1, PopKeeps, PopExact, PopOrders, HeadAndOthers
<1>3. \A d \in Range(p) : d \in Co \ {c}
  <2>1. \A d \in Range(h) : d \in Co
    BY <1>1 DEF Range
  <2> HIDE DEF p, c
  <2> QED BY <1>2, <2>1
<1>4. \A d \in Range(p) : WakeKey'[d] = WakeKey[d]
  BY <1>3, KeysNext
<1>5. HeapOrdered(p, WakeKey')
  BY <1>2, <1>4, OrderKept
<1> QED BY <1>5

\* The steps that leave the heaps alone.
LEMMA HeapQuiet ==
    ASSUME Inv, SlotInv, NEW k \in Kinds, HeapOrdered(sleeping[k], WakeKey), sleeping' = sleeping,
           \/ UNCHANGED entry
           \/ \E s \in Scripts : AddScript(s)
           \/ \E c \in Tasks : FireListener(c) \/ TaskSpawn(c)
           \/ \E c \in Co : WakeWaiter(c)
           \/ MoveNextFrame \/ ResumeFront \/ Finish \/ Fail
    PROVE  HeapOrdered(sleeping[k], WakeKey)'
<1>1. ASSUME NEW c \in Co, WritesEntryOf(c), ~ Queued(c, sleeping)
      PROVE  HeapOrdered(sleeping[k], WakeKey)'
  BY <1>1, HeapStays DEF SlotInv
<1>2. CASE UNCHANGED entry
  <2>1. NoCo \notin Co /\ WritesEntryOf(NoCo)
    BY <1>2, CoroutineAssumption DEF WritesEntryOf, Known
  <2> QED BY <2>1, HeapStays DEF SlotInv
<1>3. ASSUME NEW s \in Scripts, AddScript(s) PROVE HeapOrdered(sleeping[k], WakeKey)'
  <2>1. s \in Co /\ WritesEntryOf(s)
    BY <1>3, PutWrites DEF AddScript, Co, WritesEntryOf, Written, Known
  <2>2. ~ Queued(s, sleeping)
    BY <1>3, <2>1 DEF AddScript, SlotInv, SlotOK
  <2> QED BY <1>1, <2>1, <2>2
<1>4. ASSUME NEW c \in Tasks, FireListener(c) \/ TaskSpawn(c) PROVE HeapOrdered(sleeping[k], WakeKey)'
  <2>1. c \in Co /\ ~ Known(c) /\ \E e : Written(c, e)
    BY <1>4, TaskKind, PutWrites
       DEF FireListener, TaskSpawn, Schedulable, ScheduleTaskNextFrame, ScheduleTask
  <2>2. WritesEntryOf(c) /\ ~ Queued(c, sleeping)
    BY <2>1 DEF WritesEntryOf, Written, Known, SlotInv, SlotOK
  <2> QED BY <1>1, <2>1, <2>2
<1>5. ASSUME NEW c \in Co, WakeWaiter(c) PROVE HeapOrdered(sleeping[k], WakeKey)'
  <2>1. WritesEntryOf(c)
    BY <1>5, InvFacts DEF WakeWaiter, ResumeNextFrame, WritesEntryOf, Known, EntriesOK
  <2>2. ~ Queued(c, sleeping)
    BY <1>5 DEF WakeWaiter, SlotInv, SlotOK, Parked, Sleeps
  <2> QED BY <1>1, <2>1, <2>2
<1>6. CASE MoveNextFrame
  <2>1. kind \in Kinds /\ nextFrame[kind] # << >> /\ Shape(nextFrame)
    BY <1>6, InvFacts DEF MoveNextFrame, LoopOK, SlotInv, ShapesOK
  <2> DEFINE c == Head(nextFrame[kind])
  <2>2. c \in Co /\ Queued(c, nextFrame)
    BY <2>1, TailRemoves
  <2>3. ~ Queued(c, sleeping)
    BY <2>2 DEF SlotInv, SlotOK
  <2>4. WritesEntryOf(c)
    BY <1>6, InvFacts DEF MoveNextFrame, WritesEntryOf, Known, EntriesOK
  <2> HIDE DEF c
  <2> QED BY <1>1, <2>2, <2>3, <2>4
<1>7. CASE ResumeFront
  <2>1. kind \in Kinds /\ ready[kind] # << >> /\ Shape(ready)
    BY <1>7, InvFacts DEF ResumeFront, LoopOK, SlotInv, ShapesOK
  <2> DEFINE c == Head(ready[kind])
  <2>2. c \in Co /\ Queued(c, ready)
    BY <2>1, TailRemoves
  <2>3. ~ Queued(c, sleeping)
    BY <2>2 DEF SlotInv, SlotOK
  <2>4. WritesEntryOf(c)
    BY <1>7, FrontFacts, InvFacts DEF WritesEntryOf, Known, EntriesOK
  <2> HIDE DEF c
  <2> QED BY <1>1, <2>2, <2>3, <2>4
<1>8. CASE Finish \/ Fail
  <2>1. cur \in Co /\ ~ Queued(cur, sleeping)
    BY <1>8, RunnerFacts DEF Finish, Fail, Leave
  <2>2. WritesEntryOf(cur)
    BY <1>8, InvFacts DEF Finish, Fail, Leave, Erase, WritesEntryOf, Known, EntriesOK
  <2> QED BY <1>1, <2>1, <2>2
<1> QED BY <1>2, <1>3, <1>4, <1>5, <1>6, <1>7, <1>8

\* The running coroutine goes to sleep, or does not.
LEMMA HeapYields ==
    ASSUME Inv, SlotInv, NEW k \in Kinds, HeapOrdered(sleeping[k], WakeKey),
           Wait \/ WaitEvent \/ BareYield
    PROVE  HeapOrdered(sleeping[k], WakeKey)'
<1>0. PICK c \in Co : c = cur /\ Known(c) /\ entry[c] \in Entry /\ ~ Queued(c, sleeping)
  BY RunnerFacts DEF Wait, WaitEvent, BareYield
<1>1. ASSUME NEW e, NEW op, NEW due, Yield(e, op, due), e \in Entry
      PROVE  HeapOrdered(sleeping[k], WakeKey)'
  <2> DEFINE f == [e EXCEPT !.firstResume = FALSE, !.lastResumeTime = now]
  <2>1. /\ entry' = [entry EXCEPT ![c] = f]
        /\ sleeping' = IF Sleeps(e) THEN [sleeping EXCEPT ![KindOf(c)] =
                                            Push(@, c, [WakeKey EXCEPT ![c] = e.wakeTime])]
                       ELSE sleeping
    BY <1>0, <1>1 DEF Yield, Requeue
  <2>2. Written(c, f) /\ f.wakeTime = e.wakeTime /\ e.wakeTime \in Nat
    BY <1>0, <1>1, <2>1, InvFacts, ExceptWrites DEF Known, Entry
  <2> HIDE DEF f
  <2>3. WritesEntryOf(c)
    BY <1>0, <2>2 DEF Written, WritesEntryOf, Known
  <2>4. WakeKey'[c] = e.wakeTime
    BY <2>2 DEF WakeKey, Written, Known
  <2>5. CASE Sleeps(e) /\ KindOf(c) = k
    <3>1. sleeping'[k] = Push(sleeping[k], c, [WakeKey EXCEPT ![c] = e.wakeTime])
      BY <2>1, <2>5, InvFacts DEF QueuesOK
    <3> QED BY <1>0, <2>2, <2>3, <2>4, <2>5, <3>1, HeapGains DEF SlotInv
  <2>6. CASE ~ (Sleeps(e) /\ KindOf(c) = k)
    <3>1. sleeping'[k] = sleeping[k]
      BY <2>1, <2>6, InvFacts DEF QueuesOK
    <3> QED BY <1>0, <2>3, <3>1, HeapStays DEF SlotInv
  <2> QED BY <2>5, <2>6
<1>2. ASSUME NEW secs \in Delays PROVE WaitingUntil(entry[c], clock + secs) \in Entry
  <2>1. clock + secs \in Nat
    BY InvFacts
  <2> QED BY <1>0, <2>1, InvFacts, UpdatesTyped
<1>3. WaitingFrame(entry[c]) \in Entry /\ ParkedOnEvent(entry[c]) \in Entry
  BY <1>0, InvFacts, UpdatesTyped
<1> QED BY <1>0, <1>1, <1>2, <1>3 DEF Wait, WaitEvent, BareYield

LEMMA HeapStep ==
    ASSUME Inv, SlotInv, NEW k \in Kinds, HeapOrdered(sleeping[k], WakeKey), [Next]_vars,
           k = "script" => StopsAwake
    PROVE  HeapOrdered(sleeping[k], WakeKey)'
<1>1. CASE UNCHANGED vars \/ MainLoop \/ SleepersDone \/ MovesDone \/ ResumesDone
  <2>1. UNCHANGED <<entry, sleeping>>
    BY <1>1 DEF vars, queues, MainLoop, Tick, StartLoop, BeginStep, SleepersDone, MovesDone, ResumesDone
  <2> QED BY <2>1, HeapQuiet
<1>2. ASSUME NEW s \in Scripts, AddScript(s) PROVE HeapOrdered(sleeping[k], WakeKey)'
  <2>1. sleeping' = sleeping
    BY <1>2 DEF AddScript
  <2> QED BY <1>2, <2>1, HeapQuiet
<1>3. ASSUME NEW c \in Tasks, FireListener(c) \/ TaskSpawn(c)
      PROVE  HeapOrdered(sleeping[k], WakeKey)'
  <2>1. sleeping' = sleeping
    BY <1>3 DEF FireListener, TaskSpawn, ScheduleTaskNextFrame
  <2> QED BY <1>3, <2>1, HeapQuiet
<1>4. ASSUME NEW c \in Tasks, TaskDelay(c) PROVE HeapOrdered(sleeping[k], WakeKey)'
  <2>1. PICK secs \in Delays \cup {0} : ScheduleTaskAt(c, secs)
    BY <1>4 DEF TaskDelay
  <2>2. DelayUntil(secs) \in Nat
    BY InvFacts DEF DelayUntil
  <2> DEFINE e == NewEntry("Waiting", DelayUntil(secs), FALSE, TRUE)
  <2>3. Written(c, e) /\ e.wakeTime = DelayUntil(secs)
    BY <2>1, PutWrites DEF ScheduleTaskAt, ScheduleTask, NewEntry
  <2> HIDE DEF e
  <2>4. c \in Co /\ KindOf(c) = "task" /\ ~ Known(c) /\ ~ Queued(c, sleeping)
    BY <1>4, TaskKind DEF TaskDelay, Schedulable, SlotInv, SlotOK
  <2>5. WritesEntryOf(c) /\ WakeKey'[c] = DelayUntil(secs)
    BY <2>3, <2>4 DEF Written, WritesEntryOf, Known, WakeKey
  <2>6. sleeping' = [sleeping EXCEPT !["task"] = Push(@, c, [WakeKey EXCEPT ![c] = DelayUntil(secs)])]
    BY <2>1 DEF ScheduleTaskAt
  <2>7. CASE k = "task"
    <3>1. sleeping'[k] = Push(sleeping[k], c, [WakeKey EXCEPT ![c] = DelayUntil(secs)])
      BY <2>6, <2>7, InvFacts DEF QueuesOK
    <3> QED BY <2>2, <2>4, <2>5, <2>7, <3>1, HeapGains DEF SlotInv
  <2>8. CASE k # "task"
    <3>1. sleeping'[k] = sleeping[k]
      BY <2>6, <2>8, InvFacts DEF QueuesOK
    <3> QED BY <2>4, <2>5, <3>1, HeapStays DEF SlotInv
  <2> QED BY <2>7, <2>8
<1>5. ASSUME NEW c \in Co, WakeWaiter(c) PROVE HeapOrdered(sleeping[k], WakeKey)'
  <2>1. sleeping' = sleeping
    BY <1>5 DEF WakeWaiter, ResumeNextFrame
  <2> QED BY <1>5, <2>1, HeapQuiet
<1>6. CASE WakeSleeper
  <2>1. kind \in Kinds /\ sleeping[kind] # << >> /\ Shape(sleeping)
    BY <1>6, InvFacts DEF WakeSleeper, LoopOK, SlotInv, ShapesOK
  <2> DEFINE c == Head(sleeping[kind])
  <2>2. c \in Co /\ KindOf(c) = kind
    BY <2>1, PopRemoves
  <2>3. WritesEntryOf(c)
    BY <1>6, InvFacts DEF WakeSleeper, WritesEntryOf, Known, EntriesOK
  <2>4. sleeping' = [sleeping EXCEPT ![kind] = Pop(@, WakeKey)]
    BY <1>6 DEF WakeSleeper
  <2>5. CASE k = kind
    <3>1. sleeping'[k] = Pop(sleeping[k], WakeKey)
      BY <2>4, <2>5, InvFacts DEF QueuesOK
    <3> QED BY <2>1, <2>3, <2>5, <3>1, HeapLoses DEF SlotInv
  <2>6. CASE k # kind
    <3>1. sleeping'[k] = sleeping[k]
      BY <2>4, <2>6, InvFacts DEF QueuesOK
    <3> HIDE DEF c
    <3> QED BY <2>2, <2>3, <2>6, <3>1, HeapStays DEF SlotInv
  <2> QED BY <2>5, <2>6
<1>7. CASE MoveNextFrame \/ ResumeFront \/ Finish \/ Fail
  <2>1. sleeping' = sleeping
    BY <1>7 DEF MoveNextFrame, ResumeFront, Finish, Fail, Leave, queues
  <2> QED BY <1>7, <2>1, HeapQuiet
<1>8. ASSUME NEW s \in Stoppable, StopScript(s) PROVE HeapOrdered(sleeping[k], WakeKey)'
  <2>1. s \in Co /\ KindOf(s) = "script"
    BY CoroutineAssumption DEF Co, KindOf
  <2>2. WritesEntryOf(s) /\ sleeping' = sleeping
    BY <1>8 DEF StopScript, Erase, WritesEntryOf, Known
  <2>3. ~ (Queued(s, sleeping) /\ KindOf(s) = k)
    BY <1>8, <2>1 DEF StopsAwake
  <2> QED BY <2>1, <2>2, <2>3, HeapStays DEF SlotInv
<1>9. CASE Wait \/ WaitEvent \/ BareYield
  BY <1>9, HeapYields
<1>10. CASE LeaveStopped
  <2>1. cur \in Co /\ KindOf(cur) = "script" /\ ~ Queued(cur, sleeping) /\ WritesEntryOf(cur)
    BY <1>10, RunnerFacts DEF LeaveStopped, KindOf, WritesEntryOf, Known
  <2>2. WakeKey' = WakeKey /\ WakeKey \in [Co -> Nat]
    BY <1>10, InvFacts, KeysTyped DEF LeaveStopped, WakeKey, Known
  <2>3. CASE sleeping' = sleeping
    BY <2>1, <2>3, HeapStays DEF SlotInv
  <2>4. CASE sleeping' = [sleeping EXCEPT !["script"] = Push(@, cur, WakeKey)]
    <3>1. CASE k = "script"
      <4>1. [WakeKey EXCEPT ![cur] = WakeKey[cur]] = WakeKey
        BY <2>1, <2>2
      <4>2. sleeping'[k] = Push(sleeping[k], cur, [WakeKey EXCEPT ![cur] = WakeKey[cur]])
        BY <2>4, <3>1, <4>1, InvFacts DEF QueuesOK
      <4>3. WakeKey[cur] \in Nat /\ WakeKey'[cur] = WakeKey[cur]
        BY <2>1, <2>2
      <4> QED BY <2>1, <3>1, <4>2, <4>3, HeapGains DEF SlotInv
    <3>2. CASE k # "script"
      <4>1. sleeping'[k] = sleeping[k]
        BY <2>4, <3>2, InvFacts DEF QueuesOK
      <4> QED BY <2>1, <4>1, HeapStays DEF SlotInv
    <3> QED BY <3>1, <3>2
  <2> QED BY <1>10, <2>3, <2>4 DEF LeaveStopped
<1> QED BY <1>1, <1>2, <1>3, <1>4, <1>5, <1>6, <1>7, <1>8, <1>9, <1>10 DEF Next, Stepping, Handing

\* A heap whose top is not due has no sleeper that is.
LEMMA TopNotDue ==
    ASSUME Inv, ShapesOK, NEW k \in Kinds, HeapOrdered(sleeping[k], WakeKey),
           sleeping[k] # << >> => Known(Head(sleeping[k])) /\ ~ Due(entry[Head(sleeping[k])])
    PROVE  Overdue(k) = {}
<1> DEFINE h == sleeping[k]
<1> SUFFICES ASSUME NEW i \in DOMAIN h, Known(h[i]), entry[h[i]].wakeTime <= now PROVE FALSE
  BY DEF Overdue
<1>1. h \in Seq(Co) /\ WakeKey \in [Co -> Nat] /\ now \in Nat
  BY InvFacts, KeysTyped DEF ShapesOK, Shape
<1>2. i \in 1..Len(h) /\ h # << >> /\ h[i] \in Co /\ h[1] \in Co /\ Head(h) = h[1]
  BY <1>1
<1>3. WakeKey[h[1]] <= WakeKey[h[i]]
  BY <1>1, <1>2, TopLeast
<1>4. WakeKey[h[i]] <= now
  BY <1>2 DEF WakeKey
<1>5. ~ (WakeKey[h[1]] <= now)
  BY <1>2 DEF WakeKey, Due
<1>6. WakeKey[h[1]] \in Nat /\ WakeKey[h[i]] \in Nat
  BY <1>1, <1>2
<1> QED BY <1>1, <1>3, <1>4, <1>5, <1>6

LEMMA SweptStep ==
    ASSUME Inv, SlotInv, NEW k \in Kinds, HeapOK(k), [Next]_vars, Swept(k)'
    PROVE  Overdue(k)' = {}
<1>1. stage' \in {"wake", "move"} /\ (stage' = "wake" => kind' = "task" /\ k = "script")
  BY DEF Swept
<1>2. UNCHANGED vars \/ WakeSleeper \/ SleepersDone \/ MoveNextFrame \/ MovesDone
  <2>1. ASSUME NEW c, TaskSpawn(c) \/ TaskDelay(c) \/ StopScript(c) PROVE stage' = "resume"
    BY <2>1, InvFacts DEF TaskSpawn, TaskDelay, StopScript, ClockLoop, loop
  <2>2. CASE Handing \/ Tick
    <3>1. stage' = stage /\ (cur # NoCo \/ stage = "main")
      BY <2>2 DEF Handing, Tick, Wait, WaitEvent, BareYield, Finish, Fail, Leave, LeaveStopped,
                  Yield, ReturnToStep
    <3> QED BY <1>1, <3>1, InvFacts DEF ClockLoop
  <2>3. ~ (ResumeFront \/ ResumesDone \/ StartLoop \/ BeginStep)
    BY <1>1 DEF ResumeFront, ResumesDone, NextLoop, EndStep, StartLoop, BeginStep
  <2>4. ASSUME NEW c, AddScript(c) \/ FireListener(c) \/ WakeWaiter(c) PROVE FALSE
    BY <1>1, <2>4 DEF AddScript, FireListener, WakeWaiter, loop
  <2> QED BY <1>1, <2>1, <2>2, <2>3, <2>4 DEF Next, MainLoop, Stepping
<1>3. CASE UNCHANGED vars \/ MovesDone
  <2>1. /\ Swept(k) /\ UNCHANGED <<sleeping, entry, now>>
    BY <1>1, <1>3, InvFacts DEF vars, loop, queues, MovesDone, NextLoop, Swept
  <2> QED BY <2>1 DEF HeapOK, Overdue, Known
<1>4. CASE MoveNextFrame
  <2>1. kind \in Kinds /\ nextFrame[kind] # << >> /\ Shape(nextFrame) /\ stage = "move"
    BY <1>4, InvFacts DEF MoveNextFrame, LoopOK, SlotInv, ShapesOK
  <2> DEFINE c == Head(nextFrame[kind])
  <2>2. c \in Co /\ Queued(c, nextFrame)
    BY <2>1, TailRemoves
  <2>3. ~ Queued(c, sleeping)
    BY <2>2 DEF SlotInv, SlotOK
  <2>4. WritesEntryOf(c) /\ UNCHANGED <<sleeping, now>>
    BY <1>4, InvFacts DEF MoveNextFrame, WritesEntryOf, Known, EntriesOK, loop
  <2>5. \A i \in DOMAIN sleeping[k] : sleeping[k][i] \in Co /\ sleeping[k][i] # c
    <3>1. \A i \in DOMAIN sleeping[k] : sleeping[k][i] \in Co /\ KindOf(sleeping[k][i]) = k
      BY DEF SlotInv, ShapesOK, Shape, Range
    <3> QED BY <2>3, <3>1 DEF Queued, Range
  <2> HIDE DEF c
  <2>6. Overdue(k)' \subseteq Overdue(k)
    BY <2>4, <2>5 DEF Overdue, WritesEntryOf
  <2> QED BY <2>1, <2>6 DEF HeapOK, Swept
<1>5. CASE WakeSleeper
  <2>1. /\ kind \in Kinds /\ sleeping[kind] # << >> /\ Shape(sleeping)
        /\ stage = "wake" /\ kind = "task" /\ k = "script" /\ Swept(k)
    BY <1>1, <1>5, InvFacts DEF WakeSleeper, LoopOK, SlotInv, ShapesOK, Swept, loop
  <2> DEFINE c == Head(sleeping[kind])
  <2>2. c \in Co /\ KindOf(c) = kind
    BY <2>1, PopRemoves
  <2>3. WritesEntryOf(c) /\ now' = now
    BY <1>5, InvFacts DEF WakeSleeper, WritesEntryOf, Known, EntriesOK, loop
  <2>4. sleeping'[k] = sleeping[k]
    BY <1>5, <2>1, InvFacts DEF WakeSleeper, QueuesOK
  <2>5. \A i \in DOMAIN sleeping[k] : sleeping[k][i] \in Co /\ sleeping[k][i] # c
    <3>1. \A i \in DOMAIN sleeping[k] : sleeping[k][i] \in Co /\ KindOf(sleeping[k][i]) = k
      BY DEF SlotInv, ShapesOK, Shape, Range
    <3> QED BY <2>1, <2>2, <3>1
  <2> HIDE DEF c
  <2>6. Overdue(k)' \subseteq Overdue(k)
    BY <2>3, <2>4, <2>5 DEF Overdue, WritesEntryOf
  <2> QED BY <2>1, <2>6 DEF HeapOK
<1>6. CASE SleepersDone
  <2>1. UNCHANGED <<sleeping, entry, now>> /\ stage = "wake" /\ kind \in Kinds
    BY <1>6, InvFacts DEF SleepersDone, NextLoop, queues, LoopOK
  <2>2. CASE k = kind
    <3>1. Overdue(k) = {}
      BY <1>6, <2>2, TopNotDue DEF SleepersDone, HeapOK, SlotInv
    <3> QED BY <2>1, <3>1 DEF Overdue, Known
  <2>3. CASE k # kind
    <3>1. Swept(k)
      BY <1>1, <1>6, <2>1, <2>3 DEF SleepersDone, NextLoop, Swept, Kinds
    <3> QED BY <2>1, <3>1 DEF HeapOK, Overdue, Known
  <2> QED BY <2>2, <2>3
<1> QED BY <1>2, <1>3, <1>4, <1>5, <1>6

LEMMA HeapsAtInit == Init => \A k \in Kinds : HeapOK(k)
<1> SUFFICES ASSUME Init, NEW k \in Kinds PROVE HeapOK(k)
  OBVIOUS
<1>1. sleeping[k] = << >> /\ ~ Swept(k)
  BY DEF Init, Swept
<1> QED BY <1>1 DEF HeapOK, HeapOrdered

\* No task that is due sleeps on when the wake loops are over, however the
\* entries that hold the heap's keys come and go (LuaScheduler.cpp:275-296).
THEOREM TasksWakeInTime == Spec => [](stage = "move" => Overdue("task") = {})
<1>1. "task" \in Kinds
  BY DEF Kinds
<1>2. Init => SlotInv /\ HeapOK("task")
  BY <1>1, SlotsAtInit, HeapsAtInit
<1>3. Inv /\ SlotInv /\ HeapOK("task") /\ [Next]_vars => SlotInv' /\ HeapOK("task")'
  BY <1>1, SlotStep, HeapStep, SweptStep DEF Kept2, HeapOK
<1>4. HeapOK("task") => (stage = "move" => Overdue("task") = {})
  BY DEF HeapOK, Swept
<1> QED BY Invariant, <1>2, <1>3, <1>4, PTL DEF Spec

\* Nor does a script, as long as none is destroyed in its sleep: that is the one
\* thing that breaks the order of a heap (LuaScheduler.cpp:253-296, 162-170).
THEOREM SleepersWakeInTime == Spec /\ [][StopsAwake]_vars => []DueSleepersWake
<1> DEFINE AllOK == \A k \in Kinds : HeapOK(k)
<1>1. Init => SlotInv /\ AllOK
  BY SlotsAtInit, HeapsAtInit
<1>2. Inv /\ SlotInv /\ AllOK /\ [Next]_vars /\ [StopsAwake]_vars => SlotInv' /\ AllOK'
  <2> SUFFICES ASSUME Inv, SlotInv, AllOK, [Next]_vars, [StopsAwake]_vars PROVE SlotInv' /\ AllOK'
    OBVIOUS
  <2>1. SlotInv'
    BY SlotStep DEF Kept2
  <2>2. StopsAwake
    <3> SUFFICES ASSUME UNCHANGED vars, NEW s \in Stoppable, StopScript(s) PROVE FALSE
      BY DEF StopsAwake
    <3> QED BY DEF StopScript, Erase, Known, vars
  <2>3. \A k \in Kinds : HeapOK(k)'
    BY <2>2, HeapStep, SweptStep DEF HeapOK
  <2> QED BY <2>1, <2>3
<1>3. AllOK => DueSleepersWake
  BY DEF HeapOK, Swept, DueSleepersWake
<1> HIDE DEF AllOK
<1> QED BY Invariant, <1>1, <1>2, <1>3, PTL DEF Spec

=============================================================================
