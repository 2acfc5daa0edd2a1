------------------------------- MODULE Fips180 -------------------------------
(***************************************************************************)
(* What SHA-256 and HMAC are: FIPS 180-4 and RFC 2104 as functions of the  *)
(* whole message, with the padding of Sha256.tla and a message schedule of *)
(* 64 words in place of the ring of 16.                                    *)
(*                                                                         *)
(* {F(x) : x \in {e}} has TLC compute e before F, and steps are doubled    *)
(* rather than counted, which keeps its evaluation from nesting deeply.    *)
(***************************************************************************)
EXTENDS Sha256

The(S) == CHOOSE x \in S : TRUE

\* Two steps, and sixteen.
Twice(F(_), x) == The({F(y) : y \in {F(x)}})
Sixteen(F(_), x) ==
  LET F2(y) == Twice(F, y)
      F4(y) == Twice(F2, y)
      F8(y) == Twice(F4, y)
  IN Twice(F8, x)

\* The next word of the message schedule after W (6.2.2, step 1).
Longer(W) ==
  LET t == Len(W) + 1
  IN Append(W, Add(Add(sigma1(W[t - 2]), W[t - 7]), Add(sigma0(W[t - 15]), W[t - 16])))

Schedule(b) ==
  LET Longer16(w) == Sixteen(Longer, w)
      first == [t \in 1 .. 16 |-> BigEndian(b, 4 * t - 3)]
  IN The({Longer16(w) : w \in {Twice(Longer16, first)}})

\* Round x[9] on the working variables x[1] to x[8] (6.2.2, step 3).
OneRound(x, W) ==
  LET t  == x[9]
      T1 == Add(Add(Add(x[8], Sigma1(x[5])), Ch(x[5], x[6], x[7])), Add(k256[t], W[t]))
      T2 == Add(Sigma0(x[1]), Maj(x[1], x[2], x[3]))
  IN <<Add(T1, T2), x[1], x[2], x[3], Add(x[4], T1), x[5], x[6], x[7], t + 1>>

\* The compression of block b into the hash value H.
Compressed(H, b) ==
  LET With(W) ==
        LET F(x)   == OneRound(x, W)
            F16(x) == Sixteen(F, x)
            F32(x) == Twice(F16, x)
        IN Twice(F32, Append(H, 1))
      last == The({With(W) : W \in {Schedule(b)}})
  IN [k \in 1 .. 8 |-> Add(H[k], last[k])]

Digest(m) ==
  LET p == The({Pad(m)})
      blocks[n \in 0 .. Len(p) \div BLOCK] ==
        IF n = 0 THEN InitialIv
        ELSE The({Compressed(H, SubSeq(p, BLOCK * (n - 1) + 1, BLOCK * n)) :
                    H \in {blocks[n - 1]}})
  IN Bytes(blocks[Len(p) \div BLOCK])

\* H(K XOR opad, H(K XOR ipad, m)) for a key of at most 64 bytes.
HmacOf(secret, m) ==
  LET K == [k \in 1 .. BLOCK |-> IF k <= Len(secret) THEN secret[k] ELSE {}]
      With(pad) == [k \in 1 .. BLOCK |-> Xor(K[k], pad)]
  IN The({Digest(With({2, 3, 4, 6}) \o inner) :
            inner \in {Digest(With({1, 2, 4, 5}) \o m)}})
=============================================================================
