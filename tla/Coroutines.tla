----------------------------- MODULE Coroutines -----------------------------
(***************************************************************************)
(* What wait, task.*, Signal:Wait and Destroy promise a Luau program about *)
(* its coroutines (src/librebox/bootstrap/ScriptingAPI.cpp, LuaScheduler.h)*)
(* whatever the queues behind them: one coroutine runs at a time, a sleeper*)
(* becomes runnable once its time has come and not before, a coroutine     *)
(* parked on an event becomes runnable through that event only, and what   *)
(* has ended or has been destroyed never runs again.                       *)
(***************************************************************************)
EXTENDS Naturals

CONSTANTS
    Scripts,    \* coroutines that exist before the program starts
    Tasks,      \* identities of the coroutines it creates; they may come again
    Delays      \* the positive durations it may ask for

Co == Scripts \cup Tasks

VARIABLES
    started,    \* the program runs
    clock,
    mode,       \* what each coroutine is doing
    due         \* the time each sleeper waits for, 0 for the others

vars == <<started, clock, mode, due>>

\* A script that is destroyed while it runs is doomed until it gives control back.
Modes == {"gone", "runnable", "running", "sleeping", "parked", "ended", "doomed"}

Running(c) == mode[c] \in {"running", "doomed"}
Turns(c, m) == mode' = [mode EXCEPT ![c] = m]
Sleeps(c, until) == Turns(c, "sleeping") /\ due' = [due EXCEPT ![c] = until]

Init ==
    /\ started = FALSE /\ clock = 0
    /\ mode = [c \in Co |-> "gone"] /\ due = [c \in Co |-> 0]

Start == ~ started /\ started' = TRUE /\ UNCHANGED <<clock, mode, due>>

Tick == clock' = clock + 1 /\ UNCHANGED <<started, mode, due>>

\* A script is loaded before the start, a task is created by task.* or an event.
Create(c) ==
    /\ mode[c] = "gone" /\ (c \in Scripts => ~ started)
    /\ \/ Turns(c, "runnable") /\ UNCHANGED due
       \/ c \in Tasks /\ \E secs \in Delays \cup {0} : Sleeps(c, clock + secs)
    /\ UNCHANGED <<started, clock>>

Dispatch(c) ==
    /\ started /\ mode[c] = "runnable" /\ \A d \in Co : ~ Running(d)
    /\ Turns(c, "running")
    /\ UNCHANGED <<started, clock, due>>

\* The running coroutine waits for a time, for an event or for its next turn.
Sleep(c) ==
    /\ mode[c] = "running"
    /\ \E secs \in Delays : Sleeps(c, clock + secs)
    /\ UNCHANGED <<started, clock>>

Suspend(c) ==
    /\ mode[c] = "running"
    /\ Turns(c, "parked") \/ Turns(c, "runnable")
    /\ UNCHANGED <<started, clock, due>>

\* It ends; the identity of a task may be used again.
End(c) ==
    /\ \/ mode[c] = "running" /\ Turns(c, IF c \in Scripts THEN "ended" ELSE "gone")
       \/ mode[c] = "doomed" /\ Turns(c, "gone")
    /\ UNCHANGED <<started, clock, due>>

Wake(c) ==
    /\ mode[c] = "sleeping" /\ due[c] <= clock
    /\ Turns(c, "runnable") /\ due' = [due EXCEPT ![c] = 0]
    /\ UNCHANGED <<started, clock>>

\* The event the coroutine is parked on.
Notify(c) ==
    /\ started /\ mode[c] = "parked"
    /\ Turns(c, "runnable")
    /\ UNCHANGED <<started, clock, due>>

\* A running coroutine destroys a script, perhaps itself.
Destroy(s) ==
    /\ \E c \in Co : Running(c)
    /\ Turns(s, IF mode[s] = "running" THEN "doomed" ELSE "gone")
    /\ mode[s] # "doomed"
    /\ due' = [due EXCEPT ![s] = 0]
    /\ UNCHANGED <<started, clock>>

Next ==
    \/ Start \/ Tick
    \/ \E c \in Co : Create(c) \/ Dispatch(c) \/ Sleep(c) \/ Suspend(c) \/ End(c) \/ Wake(c) \/ Notify(c)
    \/ \E s \in Scripts : Destroy(s)

Spec == Init /\ [][Next]_vars

=============================================================================
