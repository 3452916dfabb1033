--------------------------- MODULE MCLuaScheduler ---------------------------
(***************************************************************************)
(* Bounds for checking LuaScheduler.  The scripts are interchangeable in   *)
(* every cfg that destroys all of them or none, and the tasks always are.  *)
(***************************************************************************)
EXTENDS LuaScheduler, TLC

Symmetry == Permutations(Scripts) \cup Permutations(Tasks)

\* The behaviours in which coroutines only sleep, delay, end and are destroyed:
\* they fill the heaps without the rest of the state space.
SleepNext ==
    \/ stage = "main" /\ Tick
    \/ StartLoop \/ BeginStep \/ Stepping
    \/ \E s \in Scripts : AddScript(s)
    \/ \E c \in Tasks : TaskDelay(c)
    \/ \E s \in Stoppable : StopScript(s)
    \/ Wait \/ Finish \/ LeaveStopped

SleepSpec == Init /\ [][SleepNext]_vars

\* No events: what competes for the budget of a Step by itself, with time passing
\* inside coroutines too.
QuietNext ==
    \/ SleepNext
    \/ Tick \/ BareYield \/ Fail
    \/ \E c \in Tasks : TaskSpawn(c)

QuietFairSpec == Init /\ [][QuietNext]_vars /\ Fairness

=============================================================================
