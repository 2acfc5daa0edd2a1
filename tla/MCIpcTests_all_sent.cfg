CONSTANTS
  Cores <- AllCores
  Types = {"PING", "DATA", "ACK"}
  Data <- Payloads
  None = None
  Routes <- TestRoutes
  CounterMod = 4
  MaxFaults = 0
  Timings = {TRUE}
  PollRounds = 10
  AckStep = 8
SPECIFICATION SafeSpec
INVARIANT Test2MeansAllSent
