---------------------------- MODULE MCRingBuffer ----------------------------
EXTENDS RingBuffer, TLC

\* A queue does not tell bytes apart.
ByteSymmetry == Permutations(Byte)
=============================================================================
