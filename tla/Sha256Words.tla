---------------------------- MODULE Sha256Words ----------------------------
(***************************************************************************)
(* The arithmetic and the constants of include/crypto/sha256.c.  Bytes and *)
(* 32-bit words are the sets of their bits that are 1.                     *)
(***************************************************************************)
EXTENDS Integers, Sequences

Byte == SUBSET (0 .. 7)
Word == SUBSET (0 .. 31)

Xor(a, b)  == (a \ b) \cup (b \ a)
ROTR(a, n) == {(i - n) % 32 : i \in a}
Shr(a, n)  == {i - n : i \in a \ (0 .. n - 1)}

\* a + b, modulo 2^32: bit i gets a carry from a lower bit at which both are
\* set, if the bits between the two pass it on.
Add(a, b) ==
  LET one == a \cup b
      carry == {i \in 1 .. 31 : \E j \in a \cap b :
                  j < i /\ (j + 1) .. (i - 1) \subseteq one}
  IN Xor(Xor(a, b), carry)

Sigma0(a) == Xor(Xor(ROTR(a, 2), ROTR(a, 13)), ROTR(a, 22))
Sigma1(a) == Xor(Xor(ROTR(a, 6), ROTR(a, 11)), ROTR(a, 25))
sigma0(a) == Xor(Xor(ROTR(a, 7), ROTR(a, 18)), Shr(a, 3))
sigma1(a) == Xor(Xor(ROTR(a, 17), ROTR(a, 19)), Shr(a, 10))
Ch(a, b, c)  == Xor(a \cap b, c \ a)
Maj(a, b, c) == Xor(Xor(a \cap b, a \cap c), b \cap c)

\* The bits of n, which lies in 0 .. 2^16 - 1.
Half(n) == {i \in 0 .. 15 : (n \div 2^i) % 2 = 1}
Hex(hi, lo) == Half(lo) \cup {i + 16 : i \in Half(hi)}

\* Byte n of a word or a number, from the least significant one, and back.
ByteOf(w, n) == {i \in 0 .. 7 : i + 8 * n \in w}
BigEndian(b, at) == UNION {{i + 8 * n : i \in b[at + 3 - n]} : n \in 0 .. 3}
Bytes(ws) == [k \in 1 .. 4 * Len(ws) |-> ByteOf(ws[(k + 3) \div 4], (4 - k) % 4)]

k256 == <<
  Hex(\h428a, \h2f98), Hex(\h7137, \h4491), Hex(\hb5c0, \hfbcf), Hex(\he9b5, \hdba5),
  Hex(\h3956, \hc25b), Hex(\h59f1, \h11f1), Hex(\h923f, \h82a4), Hex(\hab1c, \h5ed5),
  Hex(\hd807, \haa98), Hex(\h1283, \h5b01), Hex(\h2431, \h85be), Hex(\h550c, \h7dc3),
  Hex(\h72be, \h5d74), Hex(\h80de, \hb1fe), Hex(\h9bdc, \h06a7), Hex(\hc19b, \hf174),
  Hex(\he49b, \h69c1), Hex(\hefbe, \h4786), Hex(\h0fc1, \h9dc6), Hex(\h240c, \ha1cc),
  Hex(\h2de9, \h2c6f), Hex(\h4a74, \h84aa), Hex(\h5cb0, \ha9dc), Hex(\h76f9, \h88da),
  Hex(\h983e, \h5152), Hex(\ha831, \hc66d), Hex(\hb003, \h27c8), Hex(\hbf59, \h7fc7),
  Hex(\hc6e0, \h0bf3), Hex(\hd5a7, \h9147), Hex(\h06ca, \h6351), Hex(\h1429, \h2967),
  Hex(\h27b7, \h0a85), Hex(\h2e1b, \h2138), Hex(\h4d2c, \h6dfc), Hex(\h5338, \h0d13),
  Hex(\h650a, \h7354), Hex(\h766a, \h0abb), Hex(\h81c2, \hc92e), Hex(\h9272, \h2c85),
  Hex(\ha2bf, \he8a1), Hex(\ha81a, \h664b), Hex(\hc24b, \h8b70), Hex(\hc76c, \h51a3),
  Hex(\hd192, \he819), Hex(\hd699, \h0624), Hex(\hf40e, \h3585), Hex(\h106a, \ha070),
  Hex(\h19a4, \hc116), Hex(\h1e37, \h6c08), Hex(\h2748, \h774c), Hex(\h34b0, \hbcb5),
  Hex(\h391c, \h0cb3), Hex(\h4ed8, \haa4a), Hex(\h5b9c, \hca4f), Hex(\h682e, \h6ff3),
  Hex(\h748f, \h82ee), Hex(\h78a5, \h636f), Hex(\h84c8, \h7814), Hex(\h8cc7, \h0208),
  Hex(\h90be, \hfffa), Hex(\ha450, \h6ceb), Hex(\hbef9, \ha3f7), Hex(\hc671, \h78f2) >>

InitialIv == <<
  Hex(\h6a09, \he667), Hex(\hbb67, \hae85), Hex(\h3c6e, \hf372), Hex(\ha54f, \hf53a),
  Hex(\h510e, \h527f), Hex(\h9b05, \h688c), Hex(\h1f83, \hd9ab), Hex(\h5be0, \hcd19) >>
=============================================================================
