------------------------------- MODULE Signal -------------------------------
(***************************************************************************)
(* RTScriptSignal (src/librebox/bootstrap/signals/Signal.cpp): the table   *)
(* of listeners with its swap-removal, the deferred dispatch of a Fire     *)
(* onto Luau threads, the list of coroutines waiting for the signal, and   *)
(* what keeps the threads from the garbage collector.                      *)
(*                                                                         *)
(* Lua code connects, disconnects and waits inside Step; the main loop     *)
(* fires between Steps.  Fire is two loops, one action per listener and    *)
(* one per waiter.  Of the scheduler only its map of tasks is kept: which  *)
(* threads are scheduled or suspended, and whether it holds a registry     *)
(* reference for them.  Engine composes the two in full.                   *)
(***************************************************************************)
EXTENDS Integers, Sequences, FiniteSets, Functions

CONSTANTS
    MaxListeners,   \* bound: connections ever made (the code never reuses one)
    Ephemerals,     \* threads created for a single dispatch
    Coroutines,     \* scripts and tasks that may wait for the signal
    Scripts         \* those of them that are scripts, and may be destroyed

\* The reusable thread that Connect creates for a listener.
Reusable(i) == <<i>>
Threads == {Reusable(i) : i \in 1..MaxListeners} \cup Ephemerals

\* Mutant: the sentinel for "not active" is negative.
NposNegative == -1

npos == 0

ASSUME SignalAssumption ==
    /\ MaxListeners \in Nat
    /\ \A e \in Ephemerals : \A i \in 1..MaxListeners : e # Reusable(i)
    /\ Scripts \subseteq Coroutines

VARIABLES
    listeners,  \* the vector; an index is also the listener's id (nextId)
    id2idx,     \* partial function from ids to indices
    activeIdx,  \* indices of the connected listeners, compacted by swapping
    tmpActive,  \* the snapshot the current Fire walks through
    cursor,     \* the position it has reached; 0 when no Fire is going on
    waiters,    \* coroutines in Wait, in order
    waking,     \* the waiters the current Fire has taken off and not yet woken
    tasks,      \* the scheduler's map: thread |-> has a registry reference
    registry,   \* threads a lua_ref of the signal or of a task holds
    lmStack,    \* reusable threads in a slot of the main state's stack
    dead,       \* reusable threads an error has left unusable
    suspended,  \* history: coroutines inside Wait
    stopped,    \* history: destroyed scripts
    owed        \* history: dispatches the current Fire still owes each listener

table   == <<listeners, id2idx, activeIdx>>
walk    == <<tmpActive, cursor>>
threads == <<tasks, registry, lmStack, dead>>
waiting == <<waiters, waking, suspended, stopped>>
vars    == <<table, walk, threads, waiting, owed>>

----------------------------------------------------------------------------
Listener == [once : BOOLEAN, connected : BOOLEAN, activePos : Nat]

NewListener(once, connected, pos) ==
    [once |-> once, connected |-> connected, activePos |-> pos]

\* Connected listeners own a function reference, a thread and a reference to it.
Connected(i) == listeners[i].connected

Init ==
    /\ listeners = << >> /\ id2idx = << >> /\ activeIdx = << >>
    /\ tmpActive = << >> /\ cursor = 0
    /\ waiters = << >> /\ waking = << >> /\ suspended = {} /\ stopped = {}
    /\ tasks = << >> /\ registry = {} /\ lmStack = {} /\ dead = {}
    /\ owed = [i \in 1..MaxListeners |-> 0]

Idle == cursor = 0 /\ waking = << >>

\* lua_ref reads the value at the top of the main state's stack and leaves it.
\* Mutant: it pops the value, as the comments at its calls say.
RefPops(stack, th) == stack

Ref(stack, th) == stack \cup {th}

\* Connect and Once.  Lua always asks for a sequential (not parallel) listener.
ConnectTable(once) ==
    LET idx == Len(listeners) + 1
    IN  /\ listeners' = Append(listeners, NewListener(once, TRUE, Len(activeIdx) + 1))
        /\ id2idx' = [j \in DOMAIN id2idx \cup {idx} |-> IF j = idx THEN idx ELSE id2idx[j]]
        /\ activeIdx' = Append(activeIdx, idx)
        /\ lmStack' = Ref(lmStack, Reusable(idx))

Connect(once) ==
    /\ Idle /\ Len(listeners) < MaxListeners
    /\ ConnectTable(once)
    /\ registry' = registry \cup {Reusable(Len(listeners) + 1)}
    /\ UNCHANGED <<walk, tasks, dead, waiting, owed>>

\* Mutant: the listener swapped into the gap keeps its old position.
MovedKeepsPosition(ls, idx, pos, last) ==
    [i \in 1..Len(ls) |-> IF i = idx THEN NewListener(ls[i].once, FALSE, npos) ELSE ls[i]]

\* The last active listener takes the place of the one that leaves.  When they
\* are the same the final write is the reset.
Moved(ls, idx, pos, last) ==
    [i \in 1..Len(ls) |->
        IF i = idx THEN NewListener(ls[i].once, FALSE, npos)
        ELSE IF i = last THEN NewListener(ls[i].once, ls[i].connected, pos)
        ELSE ls[i]]

DisconnectTable(id) ==
    LET idx  == id2idx[id]
        pos  == listeners[idx].activePos
        last == activeIdx[Len(activeIdx)]
    IN  /\ listeners' = Moved(listeners, idx, pos, last)
        /\ activeIdx' = SubSeq([activeIdx EXCEPT ![pos] = last], 1, Len(activeIdx) - 1)
        /\ id2idx' = [j \in DOMAIN id2idx \ {id} |-> id2idx[j]]

\* Disconnect; of a connection that is not in id2idx it does nothing.
Disconnect(id) ==
    /\ Idle /\ id \in DOMAIN id2idx
    /\ DisconnectTable(id)
    /\ registry' = registry \ {Reusable(id2idx[id])}
    /\ UNCHANGED <<walk, tasks, lmStack, dead, waiting, owed>>

----------------------------------------------------------------------------
\* Fire: callListenersDeferred, then wakeWaitersWithArgsOnNextFrame.

\* Bound: enough thread identities are left for the listeners that are busy.
EphemeralsSuffice ==
    Cardinality({i \in Range(activeIdx) : Reusable(i) \in DOMAIN tasks})
        <= Cardinality(Ephemerals \ DOMAIN tasks)

BeginFire ==
    /\ Idle /\ EphemeralsSuffice
    /\ tmpActive' = activeIdx
    /\ cursor' = 1
    /\ owed' = [i \in DOMAIN owed |-> IF i \in Range(activeIdx) THEN 1 ELSE 0]
    /\ UNCHANGED <<table, threads, waiting>>

\* Mutant: the loop walks the live list.
WalkLive == activeIdx

Walk == tmpActive

\* Mutant: a thread that is still active is scheduled again.
UsesReusableAlways(th) == TRUE

\* The reusable thread serves unless the scheduler still has it in its map.
UsesReusable(th) == th \notin DOMAIN tasks

\* Dispatch to the listener at the cursor, on its own thread or on a new one,
\* which the scheduler has to release; a once listener is disconnected here.
\* (The slot a new thread leaves on the main state's stack may be among those
\* that the caller of Fire pops as its arguments, so that nothing can rely on it.)
\* The code skips a listener that is no longer connected: nothing disconnects
\* one of the snapshot before its turn, so Connected is a guard that never fails.
Dispatch ==
    /\ cursor \in 1..Len(Walk)
    /\ LET idx == Walk[cursor]
           own == Reusable(idx)
           gone == IF listeners[idx].once THEN {own} ELSE {}
       IN  /\ Connected(idx)
           /\ \/ /\ UsesReusable(own)
                 /\ tasks' = [th \in DOMAIN tasks \cup {own} |->
                                 IF th = own THEN FALSE ELSE tasks[th]]
                 /\ registry' = registry \ gone
              \/ /\ ~ UsesReusable(own)
                 /\ \E new \in Ephemerals \ DOMAIN tasks :
                      /\ tasks' = [th \in DOMAIN tasks \cup {new} |->
                                      IF th = new THEN TRUE ELSE tasks[th]]
                      /\ registry' = (registry \cup {new}) \ gone
           /\ IF listeners[idx].once THEN DisconnectTable(idx) ELSE UNCHANGED table
           /\ owed' = [owed EXCEPT ![idx] = @ - 1]
    /\ cursor' = cursor + 1
    /\ UNCHANGED <<tmpActive, lmStack, dead, waiting>>

\* Mutant: the waiters stay in the list.
WaitersKept(w) == w

WaitersAfterMove(w) == << >>

\* The listeners are done: the vector of waiters is moved into a local one.
\* (Nobody waits while Fire runs; a Wait in between would be kept for the next.)
EndDispatch ==
    /\ cursor > Len(Walk)
    /\ waking' = waiters
    /\ waiters' = WaitersAfterMove(waiters)
    /\ tmpActive' = << >> /\ cursor' = 0
    /\ UNCHANGED <<table, threads, suspended, stopped, owed>>

\* The first of them is made runnable; a destroyed script has no thread any more
\* and is passed over.
WakeWaiter ==
    /\ waking # << >>
    /\ waking' = Tail(waking)
    /\ suspended' = suspended \ {Head(waking)}
    /\ UNCHANGED <<table, walk, threads, waiters, stopped, owed>>

----------------------------------------------------------------------------
\* Inside Step.

\* Excluded: a Wait below a metamethod or a C function, where lua_yield raises an
\* error after the coroutine has been listed, and which pcall lets run on.
Wait(c) ==
    /\ Idle /\ c \notin suspended \cup stopped
    /\ waiters' = Append(waiters, c)
    /\ suspended' = suspended \cup {c}
    /\ UNCHANGED <<table, walk, threads, waking, stopped, owed>>

\* A script that was destroyed while it runs calls Wait: SetWaitEvent finds no
\* entry, but the pointer is listed.
WaitStopped(c) ==
    /\ Idle /\ c \in stopped \ Range(waiters)
    /\ waiters' = Append(waiters, c)
    /\ UNCHANGED <<table, walk, threads, waking, suspended, stopped, owed>>

\* StopScript; the signal keeps its pointer and finds no thread for it later.
StopScript(c) ==
    /\ Idle /\ c \notin stopped
    /\ stopped' = stopped \cup {c}
    /\ suspended' = suspended \ {c}
    /\ UNCHANGED <<table, walk, threads, waiters, waking, owed>>

EndTask(th) ==
    /\ tasks' = [x \in DOMAIN tasks \ {th} |-> tasks[x]]
    /\ registry' = IF tasks[th] THEN registry \ {th} ELSE registry
    /\ UNCHANGED <<table, walk, lmStack, waiting, owed>>

\* A callback returns; it may have waited in between.
CallbackReturns(th) ==
    /\ Idle /\ th \in DOMAIN tasks \ dead
    /\ EndTask(th)
    /\ UNCHANGED dead

\* A callback raises an error, or lua_resume refuses the thread because an
\* earlier one did: a Luau thread that failed cannot be resumed again.
CallbackFails(th) ==
    /\ Idle /\ th \in DOMAIN tasks
    /\ EndTask(th)
    /\ dead' = IF tasks[th] THEN dead ELSE dead \cup {th}

Next ==
    \/ \E once \in BOOLEAN : Connect(once)
    \/ \E id \in 1..MaxListeners : Disconnect(id)
    \/ BeginFire \/ Dispatch \/ EndDispatch \/ WakeWaiter
    \/ \E c \in Coroutines : Wait(c)
    \/ \E c \in Scripts : StopScript(c) \/ WaitStopped(c)
    \/ \E th \in Threads : CallbackReturns(th) \/ CallbackFails(th)

Spec == Init /\ [][Next]_vars

----------------------------------------------------------------------------
\* Properties.

\* Every variable holds a value of the type the code gives it.
TypeOK ==
    /\ listeners \in Seq(Listener) /\ Len(listeners) <= MaxListeners
    /\ DOMAIN id2idx \subseteq 1..MaxListeners
    /\ \A id \in DOMAIN id2idx : id2idx[id] \in 1..MaxListeners
    /\ activeIdx \in Seq(1..MaxListeners) /\ tmpActive \in Seq(1..MaxListeners)
    /\ cursor \in Nat
    /\ waiters \in Seq(Coroutines) /\ waking \in Seq(Coroutines)
    /\ DOMAIN tasks \subseteq Threads /\ \A th \in DOMAIN tasks : tasks[th] \in BOOLEAN
    /\ registry \subseteq Threads /\ lmStack \subseteq Threads /\ dead \subseteq Threads
    /\ suspended \subseteq Coroutines /\ stopped \subseteq Scripts
    /\ owed \in [1..MaxListeners -> Int]

\* activeIdx and the activePos back-pointers are inverse to each other, and
\* activeIdx lists exactly the connected listeners, which are those id2idx
\* knows.  The swap-removal of Disconnect relies on it and maintains it.
ActiveTable ==
    /\ \A p \in 1..Len(activeIdx) :
         LET i == activeIdx[p]
         IN  i \in 1..Len(listeners) /\ Connected(i) /\ listeners[i].activePos = p
    /\ \A i \in 1..Len(listeners) :
         IF Connected(i) THEN /\ listeners[i].activePos \in 1..Len(activeIdx)
                              /\ activeIdx[listeners[i].activePos] = i
                         ELSE listeners[i].activePos = npos
    /\ DOMAIN id2idx = {i \in 1..Len(listeners) : Connected(i)}
    /\ \A id \in DOMAIN id2idx : id2idx[id] = id

\* A Fire dispatches exactly once to every listener that was connected when it
\* began, although a once listener leaves the active list on the way.
FireServesEachOnce ==
    \A i \in DOMAIN owed : owed[i] >= 0 /\ (Idle => owed[i] = 0)

\* The scheduler never holds a thread that nothing keeps from the collector:
\* neither the registry nor a slot left on the main state's stack.
ScheduledAnchored == DOMAIN tasks \subseteq registry \cup lmStack

Listed == waiters \o waking

\* The list of waiters holds each coroutine inside Wait exactly once, and
\* otherwise only destroyed scripts: no wake-up is lost and none is spurious.
WaitersExact ==
    /\ \A p, q \in DOMAIN Listed : Listed[p] = Listed[q] => p = q
    /\ Range(Listed) \ stopped = suspended

\* "Reusable coroutine for non-parallel listeners" (Signal.h:20): what a
\* connected listener is dispatched on can run.
ConnectedCanRun == \A id \in DOMAIN id2idx : Reusable(id2idx[id]) \notin dead

=============================================================================
