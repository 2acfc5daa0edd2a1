----------------------------- MODULE RoundRobin -----------------------------
(***************************************************************************)
(* What include/scheduler/scheduler.h promises for one core: tasks are     *)
(* added, then started, and from then on they take turns in the order in   *)
(* which they were added, every task coming round again.                   *)
(***************************************************************************)
EXTENDS Integers

VARIABLES n,         \* the number of tasks added
          turn       \* the task whose turn it is, or -1 before the start

vars == <<n, turn>>

Init == n = 0 /\ turn = -1

Add == turn = -1 /\ n' = n + 1 /\ turn' = turn

Start == turn = -1 /\ n > 0 /\ turn' = 0 /\ n' = n

Pass == turn # -1 /\ turn' = (turn + 1) % n /\ n' = n

Next == Add \/ Start \/ Pass

SafeSpec == Init /\ [][Next]_vars

Spec == SafeSpec /\ WF_vars(Pass)
=============================================================================
