CONSTANTS
  Cores <- AllCores
  Types = {"PING", "DATA", "ACK"}
  Data <- Payloads
  None = None
  Routes <- TestRoutes
  CounterMod = 4
  MaxFaults = 0
  Timings = {TRUE, FALSE}
  PollRounds = 10
  AckStep = 8
SPECIFICATION TestSpec
INVARIANTS Test1Passes AcksInOrder Test2CountsThePing
PROPERTIES SettledIsReceived SuiteEnds Core3Drains
