--------------------------- MODULE ConsoleProofs ---------------------------
(***************************************************************************)
(* Proofs about Spinlock.tla and Console.tla, for any set of cores, any    *)
(* FIFO and any length of lines.  Of the lock: the inductive invariant,    *)
(* mutual exclusion, visibility of the last holder's writes, and that each *)
(* step of the instructions is a step of the abstract lock.  Of the        *)
(* console: it only takes steps of the lock, lines that are printed under  *)
(* it come out whole, and no character is lost.                            *)
(***************************************************************************)
EXTENDS Console, TLAPS

\* The initial state satisfies the inductive invariant.
LEMMA InitIInv == Init => IInv
  BY DEF Init, IInv, TypeOK, MutualExclusion, LockedIffOwned, FreshReservation,
         StoresInside, HolderSeesLastWrites, Inside

\* Every step preserves it.
LEMMA NextIInv == IInv /\ [Next]_vars => IInv'
  <1> SUFFICES ASSUME IInv, [Next]_vars PROVE IInv'
    OBVIOUS
  <1> USE DEF IInv, TypeOK, MutualExclusion, LockedIffOwned, FreshReservation,
              StoresInside, HolderSeesLastWrites, Inside
  <1>1. ASSUME NEW c \in Cores, AcquireCall(c) PROVE IInv'
    BY <1>1 DEF AcquireCall, Goto
  <1>2. ASSUME NEW c \in Cores, LoadExclusive(c) PROVE IInv'
    BY <1>2 DEF LoadExclusive, Goto
  <1>3. ASSUME NEW c \in Cores, StoreExclusive(c) PROVE IInv'
    BY <1>3 DEF StoreExclusive, Goto, WriteLock
  <1>4. ASSUME NEW c \in Cores, StoreExclusiveFails(c) PROVE IInv'
    BY <1>4 DEF StoreExclusiveFails, Goto
  <1>5. ASSUME NEW c \in Cores, AcquireBarrier(c) PROVE IInv'
    BY <1>5 DEF AcquireBarrier, Goto
  <1>6. ASSUME NEW c \in Cores, ReleaseBarrier(c) PROVE IInv'
    BY <1>6 DEF ReleaseBarrier, Goto
  <1>7. ASSUME NEW c \in Cores, ReleaseStore(c) PROVE IInv'
    BY <1>7 DEF ReleaseStore, Goto, WriteLock
  <1>8. ASSUME NEW c \in Cores, Load(c) PROVE IInv'
    BY <1>8 DEF Load, Acquiring
  <1>9. ASSUME NEW c \in Cores, Store(c) PROVE IInv'
    BY <1>9 DEF Store
  <1>10. ASSUME NEW c \in Cores, Observe(c) PROVE IInv'
    BY <1>10 DEF Observe
  <1>11. CASE UNCHANGED vars
    BY <1>11 DEF vars
  <1>12. QED
    BY <1>1, <1>2, <1>3, <1>4, <1>5, <1>6, <1>7, <1>8, <1>9, <1>10, <1>11
       DEF Next, Attempt

\* The inductive invariant holds in every reachable state.
THEOREM Invariance == SafeSpec => []IInv
  BY InitIInv, NextIInv, PTL DEF SafeSpec

\* Every variable keeps its type: the lock word is 0 or 1 and each core is at
\* an instruction of spinlock_acquire or spinlock_release.
THEOREM TypeCorrect == SafeSpec => []TypeOK
  <1>1. IInv => TypeOK
    BY DEF IInv
  <1>2. QED
    BY Invariance, <1>1, PTL

\* spinlock_acquire admits one core at a time, for any number of cores.
THEOREM Exclusion == SafeSpec => []MutualExclusion
  <1>1. IInv => MutualExclusion
    BY DEF IInv
  <1>2. QED
    BY Invariance, <1>1, PTL

\* The barriers of acquire and release order the protected data: a holder sees
\* every earlier holder's stores and works on no value loaded too early.
THEOREM Visibility == SafeSpec => []HolderSeesLastWrites
  <1>1. IInv => HolderSeesLastWrites
    BY DEF IInv
  <1>2. QED
    BY Invariance, <1>1, PTL

-----------------------------------------------------------------------------
\* The initial state maps to the abstract lock's.
LEMMA InitRefines == Init => M!Init
  BY DEF Init, M!Init, Status, Inside

\* Every step maps to a step of the abstract lock or leaves it unchanged.
LEMMA StepRefines == IInv /\ [Next]_vars => [M!Next]_(M!vars)
  <1> SUFFICES ASSUME IInv, [Next]_vars PROVE [M!Next]_(M!vars)
    OBVIOUS
  <1> USE DEF IInv, TypeOK, M!vars, Status, Inside
  <1>1. ASSUME NEW c \in Cores, AcquireCall(c) PROVE M!Ask(c)
    BY <1>1 DEF AcquireCall, Goto, M!Ask
  <1>2. ASSUME NEW c \in Cores, LoadExclusive(c) PROVE UNCHANGED Status
    BY <1>2 DEF LoadExclusive, Goto
  <1>3. ASSUME NEW c \in Cores, StoreExclusive(c) PROVE M!Enter(c)
    <2>1. pc[c] = "stxr" /\ pc' = [pc EXCEPT ![c] = "dmb"]
      BY <1>3 DEF StoreExclusive, Goto
    <2>2. \A d \in Cores : pc[d] \notin {"dmb", "held", "unlock"}
      BY <1>3, <2>1 DEF StoreExclusive, FreshReservation, LockedIffOwned
    <2>3. \A d \in Cores : Status[d] # "in"
      BY <2>2
    <2>4. Status[c] = "want"
      BY <2>1
    <2>5. Status' = [Status EXCEPT ![c] = "in"]
      BY <2>1
    <2>6. QED
      BY <2>3, <2>4, <2>5 DEF M!Enter
  <1>4. ASSUME NEW c \in Cores, StoreExclusiveFails(c) PROVE UNCHANGED Status
    BY <1>4 DEF StoreExclusiveFails, Goto
  <1>5. ASSUME NEW c \in Cores, AcquireBarrier(c) PROVE UNCHANGED Status
    BY <1>5 DEF AcquireBarrier, Goto
  <1>6. ASSUME NEW c \in Cores, ReleaseBarrier(c) PROVE UNCHANGED Status
    BY <1>6 DEF ReleaseBarrier, Goto
  <1>7. ASSUME NEW c \in Cores, ReleaseStore(c) PROVE M!Leave(c)
    BY <1>7 DEF ReleaseStore, Goto, WriteLock, M!Leave
  <1>8. ASSUME NEW c \in Cores, Load(c) \/ Store(c) \/ Observe(c)
        PROVE UNCHANGED Status
    BY <1>8 DEF Load, Store, Observe
  <1>9. CASE UNCHANGED vars
    BY <1>9 DEF vars
  <1>10. QED
    BY <1>1, <1>2, <1>3, <1>4, <1>5, <1>6, <1>7, <1>8, <1>9
       DEF Next, Attempt, M!Next

\* The LDXR/STXR loop with its barriers implements the abstract lock: what
\* MCConsole_cores checks of the safety part, for any number of cores.
THEOREM RefinesMutex == SafeSpec => M!SafeSpec
  BY Invariance, InitRefines, StepRefines, PTL DEF SafeSpec, M!SafeSpec

-----------------------------------------------------------------------------
\* The console's steps are steps of the lock.
LEMMA ConStepLocks == ConNext => [Next]_vars
  BY DEF ConNext, Transmit, Locking, PrintLocked, PrintBare, Begin, PutcCheck, PutcWrite,
         Arrive, Next

LEMMA InitConIInv == ConInit => ConIInv
  <1> SUFFICES ASSUME ConInit PROVE ConIInv
    OBVIOUS
  <1>1. IInv
    BY InitIInv DEF ConInit
  <1>2. ConTypeOK
    <2>1. TypeOK
      BY <1>1 DEF IInv
    <2>2. careless \subseteq Bare /\ line = <<>> /\ torn \in BOOLEAN /\ lost \in BOOLEAN
      BY DEF ConInit
    <2>3. fill \in 0 .. FifoSize /\ at \in [Cores -> {"none", "check", "write"}]
      BY ConsoleAssumption DEF ConInit
    <2>4. char \in [Cores -> 1 .. LineLength] /\ wire \in [Cores -> 0 .. LineLength]
      BY ConsoleAssumption DEF ConInit
    <2>5. QED
      BY <2>1, <2>2, <2>3, <2>4 DEF ConTypeOK
  <1>3. Careful
    BY ConsoleAssumption DEF ConInit, Init, Careful, Before
  <1>4. QED
    BY <1>1, <1>2, <1>3 DEF ConIInv

\* Every variable of the console keeps its type.
LEMMA ConTypes == ConTypeOK /\ IInv' /\ [ConNext]_allVars => ConTypeOK'
  <1> SUFFICES ASSUME ConTypeOK, IInv', [ConNext]_allVars PROVE ConTypeOK'
    OBVIOUS
  <1> USE ConsoleAssumption DEF ConTypeOK
  <1>0. TypeOK'
    BY DEF IInv
  <1>1. CASE Transmit
    BY <1>0, <1>1 DEF Transmit
  <1>2. ASSUME NEW c \in Cores, Locking(c) PROVE ConTypeOK'
    BY <1>0, <1>2 DEF Locking, conVars, device
  <1>3. ASSUME NEW c \in Cores, PrintLocked(c) \/ PrintBare(c) \/ PutcCheck(c)
        PROVE ConTypeOK'
    BY <1>0, <1>3 DEF PrintLocked, PrintBare, Begin, PutcCheck, device
  <1>4. ASSUME NEW c \in Cores, PutcWrite(c) PROVE ConTypeOK'
    <2>1. UNCHANGED <<careless, fill, line, torn, lost>>
      BY <1>4 DEF PutcWrite, device
    <2>2. wire' \in [Cores -> 0 .. LineLength]
      BY <1>4 DEF PutcWrite
    <2>3. at' \in [Cores -> {"none", "check", "write"}]
      BY <1>4 DEF PutcWrite
    <2>4. char' \in [Cores -> 1 .. LineLength]
      <3>1. CASE char[c] < LineLength
        BY <1>4, <3>1 DEF PutcWrite
      <3>2. CASE ~(char[c] < LineLength)
        BY <1>4, <3>2 DEF PutcWrite
      <3>3. QED
        BY <3>1, <3>2
    <2>5. QED
      BY <1>0, <2>1, <2>2, <2>3, <2>4
  <1>5. ASSUME NEW c \in Cores, Arrive(c) PROVE ConTypeOK'
    <2>1. UNCHANGED <<careless, at, char>>
      BY <1>5 DEF Arrive
    <2>2. fill' \in 0 .. FifoSize /\ wire' \in [Cores -> 0 .. LineLength]
      BY <1>5 DEF Arrive
    <2>3. torn' \in BOOLEAN
      BY <1>5 DEF Arrive
    <2>4. lost' \in BOOLEAN
      BY <1>5 DEF Arrive
    <2>5. line' = <<>> \/ line' \in Cores \X (1 .. LineLength - 1)
      <3>1. CASE wire[c] = LineLength
        BY <1>5, <3>1 DEF Arrive
      <3>2. CASE wire[c] # LineLength
        <4>1. wire[c] \in 1 .. LineLength - 1
          BY <1>5, <3>2 DEF Arrive
        <4>2. line' = <<c, wire[c]>>
          BY <1>5, <3>2 DEF Arrive
        <4>3. QED
          BY <4>1, <4>2
      <3>3. QED
        BY <3>1, <3>2
    <2>6. QED
      BY <1>0, <2>1, <2>2, <2>3, <2>4, <2>5
  <1>6. CASE UNCHANGED allVars
    BY <1>0, <1>6 DEF allVars, conVars, device
  <1>7. QED
    BY <1>1, <1>2, <1>3, <1>4, <1>5, <1>6 DEF ConNext

\* While nobody prints without the lock, only its holder has business with the
\* device, and each step leaves it where the holder's next one expects it.
LEMMA CarefulSteps ==
  ConTypeOK /\ IInv /\ Careful /\ careless = {} /\ [ConNext]_allVars => Careful'
  <1> SUFFICES ASSUME ConTypeOK, IInv, Careful, careless = {}, [ConNext]_allVars
      PROVE Careful'
    OBVIOUS
  <1> USE ConsoleAssumption DEF Careful, Before
  <1>0. \A c, d \in Cores : pc[c] \in Inside /\ pc[d] \in Inside => c = d
    BY DEF IInv, MutualExclusion
  <1>1. CASE Transmit
    BY <1>1 DEF Transmit, vars, ConTypeOK
  <1>2. ASSUME NEW c \in Cores, Locking(c) PROVE Careful'
    <2>1. UNCHANGED <<torn, lost, fill, line, at, char, wire>>
      BY <1>2 DEF Locking, conVars, device
    <2>2. CASE AcquireCall(c) \/ Attempt(c) \/ ReleaseStore(c)
      BY <2>1, <2>2 DEF AcquireCall, Attempt, LoadExclusive, StoreExclusive,
           StoreExclusiveFails, ReleaseStore, Goto, IInv, TypeOK
    <2>3. CASE AcquireBarrier(c)
      BY <1>0, <2>1, <2>3 DEF AcquireBarrier, Goto, IInv, TypeOK, Inside
    <2>4. CASE ReleaseBarrier(c) /\ at[c] = "none"
      BY <1>0, <2>1, <2>4 DEF ReleaseBarrier, Goto, IInv, TypeOK, Inside
    <2>5. CASE Load(c)
      BY <2>1, <2>5 DEF Load
    <2>6. QED
      BY <1>2, <2>2, <2>3, <2>4, <2>5 DEF Locking
  <1>3. ASSUME NEW c \in Cores, PrintLocked(c) PROVE Careful'
    BY <1>3 DEF PrintLocked, Begin, vars, device, ConTypeOK
  <1>4. ASSUME NEW c \in Cores, PrintBare(c) PROVE Careful'
    BY <1>4 DEF PrintBare
  <1>5. ASSUME NEW c \in Cores, PutcCheck(c) PROVE Careful'
    BY <1>5 DEF PutcCheck, vars, device, ConTypeOK
  <1>6. ASSUME NEW c \in Cores, PutcWrite(c) PROVE Careful'
    <2>1. pc[c] = "held" /\ Store(c)
      BY <1>6 DEF PutcWrite
    <2>2. UNCHANGED <<torn, lost, fill, line, pc>> /\ pending' = [pending EXCEPT ![c] = TRUE]
      BY <1>6, <2>1 DEF PutcWrite, Store, device
    <2>3. \A d \in Cores : d # c => pc[d] # "held"
      BY <1>0, <2>1 DEF Inside
    <2>4. /\ wire[c] = 0 /\ fill < FifoSize
          /\ line = Before(c, char[c]) /\ char[c] \in 1 .. LineLength
      BY <1>6, <2>1 DEF PutcWrite, ConTypeOK
    <2>5. wire' = [wire EXCEPT ![c] = char[c]]
      BY <1>6 DEF PutcWrite
    <2>6. CASE char[c] < LineLength
      <3>1. char' = [char EXCEPT ![c] = @ + 1] /\ at' = [at EXCEPT ![c] = "check"]
        BY <1>6, <2>6 DEF PutcWrite
      <3>2. QED
        BY <2>1, <2>2, <2>3, <2>4, <2>5, <2>6, <3>1 DEF IInv, TypeOK, ConTypeOK
    <2>7. CASE char[c] = LineLength
      <3>1. char' = [char EXCEPT ![c] = 1] /\ at' = [at EXCEPT ![c] = "none"]
        BY <1>6, <2>7 DEF PutcWrite
      <3>2. QED
        BY <2>1, <2>2, <2>3, <2>4, <2>5, <2>7, <3>1 DEF IInv, TypeOK, ConTypeOK
    <2>8. QED
      BY <2>4, <2>6, <2>7
  <1>7. ASSUME NEW c \in Cores, Arrive(c) PROVE Careful'
    <2>1. pc[c] = "held" /\ pending[c] /\ Observe(c)
      BY <1>7 DEF Arrive
    <2>2. UNCHANGED <<at, char, pc>> /\ pending' = [pending EXCEPT ![c] = FALSE]
      BY <1>7, <2>1 DEF Arrive, Observe
    <2>3. \A d \in Cores : d # c => pc[d] # "held"
      BY <1>0, <2>1 DEF Inside
    <2>4. at[c] # "write" /\ fill < FifoSize
      <3>1. at[c] # "write"
        BY <1>7 DEF Arrive
      <3>2. QED
        BY <1>7, <3>1 DEF Arrive
    <2>5. wire' = [wire EXCEPT ![c] = 0] /\ wire[c] \in 1 .. LineLength
      BY <1>7 DEF Arrive, ConTypeOK
    <2>6. line = Before(c, wire[c]) /\ ~torn'
      BY <1>7, <2>1 DEF Arrive
    <2>7. line' = Before(c, char[c])
      BY <1>7, <2>1, <2>4, <2>5 DEF Arrive, ConTypeOK
    <2>8. ~lost' /\ (at[c] = "none" => char[c] = 1)
      BY <1>7, <2>4 DEF Arrive
    <2>9. \A d \in Cores : d # c => wire'[d] = wire[d] /\ at[d] = "none" /\ wire[d] = 0
      BY <2>3, <2>5 DEF ConTypeOK
    <2>10. wire'[c] = 0
      BY <2>5 DEF ConTypeOK
    <2>11. QED
      BY <2>1, <2>2, <2>3, <2>4, <2>6, <2>7, <2>8, <2>9, <2>10
  <1>8. CASE UNCHANGED allVars
    BY <1>8 DEF allVars, vars, conVars, device
  <1>9. QED
    BY <1>1, <1>2, <1>3, <1>4, <1>5, <1>6, <1>7, <1>8 DEF ConNext

LEMMA NextConIInv == ConIInv /\ [ConNext]_allVars => ConIInv'
  <1> SUFFICES ASSUME ConIInv, [ConNext]_allVars PROVE ConIInv'
    OBVIOUS
  <1>1. [Next]_vars
    BY ConStepLocks DEF allVars
  <1>2. IInv'
    BY <1>1, NextIInv DEF ConIInv
  <1>3. ConTypeOK'
    BY <1>2, ConTypes DEF ConIInv
  <1>4. UNCHANGED careless
    BY DEF ConNext, Transmit, Locking, conVars, PrintLocked, PrintBare, Begin, PutcCheck,
           PutcWrite, Arrive, allVars
  <1>5. QED
    BY <1>2, <1>3, <1>4, CarefulSteps DEF ConIInv

\* The inductive invariant of the console, which includes its types.
THEOREM ConInvariance == ConSafeSpec => []ConIInv
  BY InitConIInv, NextConIInv, PTL DEF ConSafeSpec

\* A line printed under the lock is whole at the device, for any number of cores:
\* the barrier of spinlock_release holds the lock until the last character arrived.
THEOREM WholeLines == ConSafeSpec => []LinesWhole
  <1>1. ConIInv => LinesWhole
    BY DEF ConIInv, Careful, LinesWhole
  <1>2. QED
    BY ConInvariance, <1>1, PTL

\* The room that uart_putc saw in the FIFO is still there when its character
\* arrives, for any number of cores and any FIFO.
THEOREM NoCharacterLost == ConSafeSpec => []NothingLost
  <1>1. ConIInv => NothingLost
    BY DEF ConIInv, Careful, NothingLost
  <1>2. QED
    BY ConInvariance, <1>1, PTL

\* With prints inside and outside of its critical sections the lock is still the
\* lock of Spinlock, with all that is proved of it.
THEOREM ConsoleLocks == ConSafeSpec => SafeSpec
  <1>1. ConInit => Init
    BY DEF ConInit
  <1>2. [ConNext]_allVars => [Next]_vars
    BY ConStepLocks DEF allVars
  <1>3. QED
    BY <1>1, <1>2, PTL DEF ConSafeSpec, SafeSpec
=============================================================================
