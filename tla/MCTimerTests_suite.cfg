CONSTANTS
  Freq = 20
  Start = 2
  Ticks = 3
  Tolerance = 2
  MaxLate = 1
  MaxSpurious = 1
SPECIFICATION Spec
\* Core 0 goes on to the communication tests.
CHECK_DEADLOCK FALSE
INVARIANTS TypeOK ImaskHolds CountdownNotEarly AllPass
PROPERTY TestsEnd
