CONSTANTS
  Last = 3
  AtReset <- Resets
  Faulty <- Failures
SPECIFICATION Spec
\* Every core ends in its main function or hangs.
CHECK_DEADLOCK FALSE
INVARIANTS TableIsComplete NoLostWakeup InitialisedFirst
PROPERTY EveryoneGetsOn
