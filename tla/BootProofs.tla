----------------------------- MODULE BootProofs -----------------------------
(***************************************************************************)
(* Proofs about Boot.tla, for any number of cores, whichever of them       *)
(* execute from reset and whichever fail their check: the inductive        *)
(* invariant, the completeness of the page table that is translated with,  *)
(* the wake-up of waiting cores, and the order of initialisation.          *)
(***************************************************************************)
EXTENDS Boot, TLAPS

\* Core 0 exists.
LEMMA CoreZero == 0 \in Cores /\ Cores \subseteq Nat
  BY BootAssumption DEF Cores

\* The initial state satisfies the inductive invariant.
LEMMA InitIInv == Init => IInv
  BY BootAssumption, CoreZero
     DEF Init, IInv, TypeOK, OneInside, FreshReservation, BuildersFirst, TableAt,
         BuiltIsFull, EventOnLoss, NoLostWakeup, OthersAreOff, TableIsComplete,
         Critical, Building, MmuIsOn, MainInits, Cores

\* Every step preserves it.
LEMMA NextIInv == IInv /\ [Next]_vars => IInv'
  <1> SUFFICES ASSUME IInv, [Next]_vars PROVE IInv'
    OBVIOUS
  <1> USE CoreZero DEF IInv, TypeOK, OneInside, FreshReservation, BuildersFirst, TableAt,
          BuiltIsFull, EventOnLoss, NoLostWakeup, OthersAreOff, TableIsComplete,
          Critical, Building, MmuIsOn, Goto, machine, walk, sync, main
  <1>1. CASE ClearBss
    BY <1>1 DEF ClearBss
  <1>2. CASE MainInit
    BY <1>2 DEF MainInit, MainInits
  <1>3. CASE CpuOn
    <2>1. next \in Cores /\ next # 0 /\ next' = next + 1 /\ next' \in 1 .. Last + 1
      BY <1>3, BootAssumption DEF CpuOn, Cores
    <2>2. inits = Len(MainInits) /\ inits' = inits
      BY <1>3 DEF CpuOn
    <2>3. CASE pc' = pc
      BY <1>3, <2>1, <2>2, <2>3 DEF CpuOn
    <2>4. CASE pc[next] = "off" /\ pc' = [pc EXCEPT ![next] = "entry"]
      BY <1>3, <2>1, <2>2, <2>4 DEF CpuOn
    <2>5. QED
      BY <1>3, <2>1, <2>3, <2>4 DEF CpuOn
  <1>4. ASSUME NEW c \in Cores, Enter(c) PROVE IInv'
    BY <1>4 DEF Enter
  <1>5. ASSUME NEW c \in Cores, Wfe(c) PROVE IInv'
    BY <1>5 DEF Wfe
  <1>6. ASSUME NEW c \in Cores, LoadExclusive(c) PROVE IInv'
    BY <1>6 DEF LoadExclusive
  <1>7. ASSUME NEW c \in Cores, StoreExclusive(c) PROVE IInv'
    BY <1>7 DEF StoreExclusive, WriteLock
  <1>8. ASSUME NEW c \in Cores, StoreExclusiveFails(c) PROVE IInv'
    BY <1>8 DEF StoreExclusiveFails
  <1>9. ASSUME NEW c \in Cores, CheckInit(c) PROVE IInv'
    BY <1>9 DEF CheckInit
  <1>10. ASSUME NEW c \in Cores, BuildTable(c) PROVE IInv'
    BY <1>10 DEF BuildTable, Build
  <1>11. ASSUME NEW c \in Cores, MarkBuilt(c) PROVE IInv'
    BY <1>11 DEF MarkBuilt
  <1>12. ASSUME NEW c \in Cores, LoadRegs(c) PROVE IInv'
    BY <1>12 DEF LoadRegs
  <1>13. ASSUME NEW c \in Cores, Flush(c) PROVE IInv'
    BY <1>13 DEF Flush
  <1>14. ASSUME NEW c \in Cores, Enable(c) PROVE IInv'
    BY <1>14 DEF Enable
  <1>15. ASSUME NEW c \in Cores, Release(c) PROVE IInv'
    BY <1>15 DEF Release, WriteLock
  <1>16. ASSUME NEW c \in Cores, LoseReservation(c) PROVE IInv'
    BY <1>16 DEF LoseReservation
  <1>17. ASSUME NEW c \in Cores, Drain(c) PROVE IInv'
    BY <1>17 DEF Drain
  <1>18. CASE UNCHANGED vars
    BY <1>18 DEF vars
  <1>19. QED
    BY <1>1, <1>2, <1>3, <1>4, <1>5, <1>6, <1>7, <1>8, <1>9, <1>10, <1>11, <1>12,
       <1>13, <1>14, <1>15, <1>16, <1>17, <1>18 DEF Next, MmuOn

\* The inductive invariant holds in every reachable state.
THEOREM Invariance == SafeSpec => []IInv
  BY InitIInv, NextIInv, PTL DEF SafeSpec

\* A core that has turned its MMU on finds a complete page table, now and later:
\* mmu_on builds it once, under mmu_lock, and waits for the stores before SCTLR.
THEOREM SafeTranslation == SafeSpec => []TableIsComplete
  <1>1. IInv => TableIsComplete
    BY DEF IInv
  <1>2. QED
    BY Invariance, <1>1, PTL

\* No core waits in the WFE of mmu_on without an event, now or at the STLR.
THEOREM WaitersWake == SafeSpec => []NoLostWakeup
  <1>1. IInv => NoLostWakeup
    BY DEF IInv
  <1>2. QED
    BY Invariance, <1>1, PTL

\* What secondary_main uses is initialised before psci_cpu_on starts a core.
THEOREM InitialisationFirst == SafeSpec => []InitialisedFirst
  <1>1. IInv => InitialisedFirst
    BY DEF IInv, TypeOK, OthersAreOff, InitialisedFirst, MainInits
  <1>2. QED
    BY Invariance, <1>1, PTL
=============================================================================
