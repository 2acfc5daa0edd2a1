CONSTANTS
  MaxTasks = 2
  MaxTick = 3
  Delays = {1, 2}
SPECIFICATION SafeSpec
INVARIANT SleepLasts
