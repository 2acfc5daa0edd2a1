CONSTANTS
  c0 = c0
  c1 = c1
  c2 = c2
  Cores = {c0, c1, c2}
  Types = {PING}
  Data = {x, y}
  None = None
  Routes <- Shared
  CounterMod = 2
  MaxFaults = 1
SPECIFICATION Spec
SYMMETRY SenderSymmetry
INVARIANTS MailboxLocked ReadyVerifies
PROPERTY ImplementsSlots
