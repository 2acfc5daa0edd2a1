--------------------------- MODULE MCRingClients ---------------------------
EXTENDS RingClients

RingWriters == {"core1", "uart_rx"}
RingReaders == {"core2", "echo"}
OneByte     == <<"x">>

\* All delays hold, or all but the one that makes Core 0 wait for Core 2, or all but
\* the one that makes Core 2 wait for Core 1.
Slow  == AllPairs \ {<<2, 0>>}
Hasty == AllPairs \ {<<1, 2>>}
Held  == {AllPairs, Slow, Hasty}

\* More keys than the ring holds when all delays hold.
Typing == [order \in Held |-> CASE order = AllPairs -> 3 [] order = Slow -> 1 [] OTHER -> 0]

ASSUME UsersAssumption == RingUsers
=============================================================================
