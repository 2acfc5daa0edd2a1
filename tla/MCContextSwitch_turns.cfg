CONSTANTS
  MaxTasks = 3
  MaxTick = 2
  Delays = {1, 2}
  Frame = 2
SPECIFICATION SwitchSpec
INVARIANTS OneRunning TaskFindsItsOwn
PROPERTY ImplementsRoundRobin
