------------------------------- MODULE MCHmac -------------------------------
EXTENDS Hmac

BitsOf(n) == {i \in 0 .. 7 : (n \div 2^i) % 2 = 1}

\* All different for 131 positions.
MCMessage == [k \in 1 .. 131 |-> BitsOf((k * 77) % 256)]
MCKey     == [k \in 1 .. 32 |-> BitsOf((k * 11 + 5) % 256)]

\* The same message with the next counter, another sender, and a payload whose
\* only bit is the highest one.
MCMailboxes == { <<{}, {0}, {4, 20}, {0}>>, <<{}, {0}, {4, 20}, {1}>>,
                 <<{0}, {0}, {4, 20}, {0}>>, <<{}, {0}, {31}, {0}>> }

\* The hypothesis under which VerifiesIffSame is proved holds of these.
ASSUME TagsDiffer == NoCollision
=============================================================================
