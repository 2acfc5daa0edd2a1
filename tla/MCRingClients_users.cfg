CONSTANTS
  Producers <- RingWriters
  Consumers <- RingReaders
  Byte = {"x", "lf", "etx"}
  Size = 2
  Timings <- Held
  Test <- OneByte
  MaxTyped <- Typing
  MaxMail = 2
  Free = Free
SPECIFICATION ClientsSpec
\* Core 0 stops at Ctrl+C, and everyone who asks for SPINLOCK with it.
CHECK_DEADLOCK FALSE
INVARIANT EchoInOrder
PROPERTIES EveryKeyEchoed HaltIsFinal RingTestCompletes ClientsImplementFifo
