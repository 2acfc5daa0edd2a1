------------------------------ MODULE MCMailbox ------------------------------
EXTENDS Mailbox, TLC

CONSTANTS c0, c1, c2

\* Two cores that send to a third.
Shared == {<<c0, c2>>, <<c1, c2>>}

\* Neither the code nor the properties tell the two senders or payloads apart.
SenderSymmetry == Permutations({c0, c1}) \cup Permutations(Data)
=============================================================================
