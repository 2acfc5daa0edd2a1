------------------------------ MODULE Spinlock ------------------------------
(***************************************************************************)
(* The lock of include/ipc/ipc.c, one instruction per step: the LDXR/STXR  *)
(* loop of spinlock_acquire with its trailing "dmb sy", and the "dmb sy",  *)
(* store, "dsb sy" of spinlock_release.                                    *)
(*                                                                         *)
(* The processor is modelled by what those instructions depend on: an      *)
(* exclusive monitor per core, which any store to the lock word clears;    *)
(* stores of the critical section that the other cores do not observe yet; *)
(* and loads of the protected data that are satisfied early, before the    *)
(* instructions that precede them have completed.                          *)
(***************************************************************************)
CONSTANT Cores

VARIABLES
  lock,     \* the lock word, 0 or 1
  monitor,  \* monitor[c]: core c's exclusive reservation on the lock word
  pc,       \* the next instruction of each core
  pending,  \* pending[c]: a critical-section store of c others cannot see yet
  view      \* what core c has loaded of the protected data, if anything

vars == <<lock, monitor, pc, pending, view>>

Acquiring == {"ldxr", "stxr", "dmb"}
Inside    == {"dmb", "held", "unlock"}    \* from the STXR to the clearing store

TypeOK ==
  /\ lock \in {0, 1}
  /\ monitor \in [Cores -> BOOLEAN]
  /\ pc \in [Cores -> {"idle", "ldxr", "stxr", "dmb", "held", "unlock"}]
  /\ pending \in [Cores -> BOOLEAN]
  /\ view \in [Cores -> {"none", "current", "stale"}]

Init ==
  /\ lock = 0
  /\ monitor = [c \in Cores |-> FALSE]
  /\ pc = [c \in Cores |-> "idle"]
  /\ pending = [c \in Cores |-> FALSE]
  /\ view = [c \in Cores |-> "none"]

-----------------------------------------------------------------------------
Goto(c, from, to) == pc[c] = from /\ pc' = [pc EXCEPT ![c] = to]

\* A store to the lock word by any core: every reservation on it is lost.
WriteLock(v) == lock' = v /\ monitor' = [d \in Cores |-> FALSE]

AcquireCall(c) ==
  /\ Goto(c, "idle", "ldxr")
  /\ UNCHANGED <<lock, monitor, pending, view>>

\* "1: ldxr %w0" and "cbnz %w0, 1b": reserve, and go on only if the word was 0.
LoadExclusive(c) ==
  /\ Goto(c, "ldxr", IF lock = 0 THEN "stxr" ELSE "ldxr")
  /\ monitor' = [monitor EXCEPT ![c] = TRUE]
  /\ UNCHANGED <<lock, pending, view>>

\* Variant for mutation: a plain "str" in place of the "stxr".
BugStoreExclusive(c) ==
  /\ Goto(c, "stxr", "dmb")
  /\ WriteLock(1)
  /\ UNCHANGED <<pending, view>>

\* "stxr %w0, %w1": the store takes place only under a reservation still held.
StoreExclusive(c) ==
  /\ monitor[c]
  /\ Goto(c, "stxr", "dmb")
  /\ WriteLock(1)
  /\ UNCHANGED <<pending, view>>

\* Variant for mutation: the second CBNZ goes back to the STXR, not the LDXR.
BugStoreExclusiveFails(c) ==
  /\ Goto(c, "stxr", "stxr")
  /\ monitor' = [monitor EXCEPT ![c] = FALSE]
  /\ UNCHANGED <<lock, pending, view>>

\* The STXR without a store, after a lost reservation or for no reason that
\* the program can see, and the second "cbnz %w0, 1b".
StoreExclusiveFails(c) ==
  /\ Goto(c, "stxr", "ldxr")
  /\ monitor' = [monitor EXCEPT ![c] = FALSE]
  /\ UNCHANGED <<lock, pending, view>>

\* "dmb sy" of the acquire: loads after it are not satisfied before it.
AcquireBarrier(c) ==
  /\ Goto(c, "dmb", "held")
  /\ view' = [view EXCEPT ![c] = "none"]
  /\ UNCHANGED <<lock, monitor, pending>>

\* Variant for mutation: no barrier before the store that frees the lock.
BugReleaseBarrier(c) ==
  /\ Goto(c, "held", "unlock")
  /\ UNCHANGED <<lock, monitor, pending, view>>

\* "dmb sy" of the release: complete once the stores before it are observed.
ReleaseBarrier(c) ==
  /\ ~pending[c]
  /\ Goto(c, "held", "unlock")
  /\ UNCHANGED <<lock, monitor, pending, view>>

\* "*lock = 0", with the "dsb sy" that waits for it.
ReleaseStore(c) ==
  /\ Goto(c, "unlock", "idle")
  /\ WriteLock(0)
  /\ view' = [view EXCEPT ![c] = "none"]
  /\ UNCHANGED pending

-----------------------------------------------------------------------------
\* The protected data.  A load may be satisfied early, at any time since the
\* acquire began; a store becomes visible to the others at a time of its own.
Load(c) ==
  /\ pc[c] \in Acquiring \cup {"held"}
  /\ view' = [view EXCEPT ![c] = IF view[c] = "none" THEN "current" ELSE view[c]]
  /\ UNCHANGED <<lock, monitor, pc, pending>>

Store(c) ==
  /\ pc[c] = "held"
  /\ pending' = [pending EXCEPT ![c] = TRUE]
  /\ UNCHANGED <<lock, monitor, pc, view>>

Observe(c) ==
  /\ pending[c]
  /\ pending' = [pending EXCEPT ![c] = FALSE]
  /\ view' = [d \in Cores |-> IF d # c /\ view[d] = "current" THEN "stale" ELSE view[d]]
  /\ UNCHANGED <<lock, monitor, pc>>

-----------------------------------------------------------------------------
Attempt(c) == LoadExclusive(c) \/ StoreExclusive(c) \/ StoreExclusiveFails(c)

Next ==
  \E c \in Cores :
    \/ AcquireCall(c) \/ Attempt(c) \/ AcquireBarrier(c)
    \/ ReleaseBarrier(c) \/ ReleaseStore(c)
    \/ Load(c) \/ Store(c) \/ Observe(c)

SafeSpec == Init /\ [][Next]_vars

\* A core keeps executing and its critical section ends; a store is observed
\* in the end; and among the cores that keep trying, one's STXR succeeds.
Fairness ==
  /\ \A c \in Cores : /\ WF_vars(Attempt(c))
                      /\ WF_vars(AcquireBarrier(c))
                      /\ WF_vars(ReleaseStore(c))
                      /\ SF_vars(ReleaseBarrier(c))
                      /\ WF_vars(Observe(c))
  /\ SF_vars(\E c \in Cores : StoreExclusive(c))

Spec == SafeSpec /\ Fairness

-----------------------------------------------------------------------------
\* At most one core is between the STXR that took the lock and the store that
\* frees it, whatever reservations are lost or kept (spinlock_acquire).
MutualExclusion ==
  \A c, d \in Cores : pc[c] \in Inside /\ pc[d] \in Inside => c = d

\* While a core holds the lock it works on what the previous holders wrote:
\* no other core's store is still on its way and nothing it loaded is out of
\* date.  This is what the two "dmb sy" are there for.
HolderSeesLastWrites ==
  \A c \in Cores : pc[c] = "held" =>
    /\ view[c] # "stale"
    /\ \A d \in Cores : pending[d] => d = c

-----------------------------------------------------------------------------
\* The strengthening that is inductive.
LockedIffOwned == lock = 1 <=> \E c \in Cores : pc[c] \in Inside
FreshReservation == \A c \in Cores : pc[c] = "stxr" /\ monitor[c] => lock = 0
StoresInside == \A c \in Cores : pending[c] => pc[c] = "held"

IInv == /\ TypeOK
        /\ MutualExclusion
        /\ LockedIffOwned
        /\ FreshReservation
        /\ StoresInside
        /\ HolderSeesLastWrites

-----------------------------------------------------------------------------
\* The abstract lock: a core is in from its successful STXR to its store of 0.
Status == [c \in Cores |-> IF pc[c] \in Inside THEN "in"
                           ELSE IF pc[c] = "idle" THEN "out" ELSE "want"]

M == INSTANCE Mutex WITH status <- Status

\* The instructions implement the abstract lock, progress included: while cores
\* spin on a free lock one of them gets it (the retry branches of the loop).
ImplementsMutex == M!Spec
=============================================================================
