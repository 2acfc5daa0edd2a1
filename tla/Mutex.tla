------------------------------- MODULE Mutex -------------------------------
(***************************************************************************)
(* What include/ipc/ipc.c promises with spinlock_acquire and               *)
(* spinlock_release: at most one core is between the two calls, and while  *)
(* cores wait and nobody is inside, some core gets in.  Nothing is said of *)
(* WHICH core: the lock is not fair.                                       *)
(***************************************************************************)
CONSTANT Cores

VARIABLE status      \* per core: outside, asking for the lock, or inside

vars == status

TypeOK == status \in [Cores -> {"out", "want", "in"}]

Init == status = [c \in Cores |-> "out"]

Ask(c) == /\ status[c] = "out"
          /\ status' = [status EXCEPT ![c] = "want"]

Enter(c) == /\ status[c] = "want"
            /\ \A d \in Cores : status[d] # "in"
            /\ status' = [status EXCEPT ![c] = "in"]

Leave(c) == /\ status[c] = "in"
            /\ status' = [status EXCEPT ![c] = "out"]

Next == \E c \in Cores : Ask(c) \/ Enter(c) \/ Leave(c)

SafeSpec == Init /\ [][Next]_vars

Spec == /\ SafeSpec
        /\ WF_vars(\E c \in Cores : Enter(c))
        /\ \A c \in Cores : WF_vars(Leave(c))
=============================================================================
