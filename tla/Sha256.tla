------------------------------- MODULE Sha256 -------------------------------
(***************************************************************************)
(* One hash of include/crypto/sha256.c: tc_sha256_init, any number of      *)
(* tc_sha256_update with any pieces of a message, tc_sha256_final.  A step *)
(* is a byte of the buffer or a round of compress.                         *)
(*                                                                         *)
(* The state is a local variable of hmac_tag_compute, never a null         *)
(* pointer, so no call returns TC_CRYPTO_FAIL.                             *)
(***************************************************************************)
EXTENDS Sha256Words

CONSTANTS
  Message,   \* the bytes a caller hashes, in pieces
  Lengths    \* lengths of the pieces

ASSUME Sha256Assumption == Message \in Seq(Byte) /\ Lengths \subseteq Nat
ASSUME ShortMessage == Len(Message) < 2^28   \* see LengthByte

VARIABLES
  iv, bits_hashed, leftover, leftover_offset,  \* struct tc_sha256_state_struct
  fed,         \* history: the bytes given to tc_sha256_update since the init
  datalen,     \* how many bytes of the last piece are still to be read
  pc,          \* where the call under way is, "open" between two calls
  ret,         \* where compress returns to
  round, v, work_space,   \* i, a to h, and work_space of compress
  compressed,  \* history: the bytes of all blocks compressed since the init
  digest       \* the result of tc_sha256_final

hash   == <<iv, bits_hashed, leftover, leftover_offset>>
rounds == <<round, v, work_space>>
vars   == <<hash, fed, datalen, pc, ret, rounds, compressed, digest>>

BLOCK == 64                                  \* TC_SHA256_BLOCK_SIZE
Zero == {}
Unset == [k \in 0 .. 15 |-> Zero]   \* work_space before the first 16 rounds
Erased == [k \in 0 .. BLOCK - 1 |-> Zero]

\* _set(s, 0, sizeof(*s)), and the iv after it.
Wiped(values) == /\ iv' = values /\ bits_hashed' = 0
                 /\ leftover' = Erased /\ leftover_offset' = 0

Goto(from, to) == pc = from /\ pc' = to

\* No hash is under way; the memory of the state holds zeros, say.
Init ==
  /\ iv = InitialIv /\ bits_hashed = 0 /\ leftover = Erased /\ leftover_offset = 0
  /\ fed = <<>> /\ datalen = 0 /\ pc = "none" /\ ret = "none"
  /\ round = 0 /\ v = InitialIv /\ work_space = Unset
  /\ compressed = <<>> /\ digest = <<>>

-----------------------------------------------------------------------------
ShaInit ==
  /\ Goto("none", "open")
  /\ Wiped(InitialIv)
  /\ fed' = <<>> /\ compressed' = <<>> /\ digest' = <<>>
  /\ UNCHANGED <<datalen, ret, rounds>>

\* tc_sha256_update(s, data, Len(data))
Update(data) ==
  /\ Goto("open", "update")
  /\ fed' = fed \o data /\ datalen' = Len(data)
  /\ UNCHANGED <<hash, ret, rounds, compressed, digest>>

\* s->leftover[s->leftover_offset++] = b
Put(b) == /\ leftover' = [leftover EXCEPT ![leftover_offset] = b]
          /\ leftover_offset' = leftover_offset + 1

\* The call of compress(s->iv, s->leftover).
Compress(from, to) ==
  /\ Goto(from, "compress") /\ ret' = to
  /\ round' = 0 /\ v' = iv /\ UNCHANGED work_space

\* One turn of the loop: datalen-- > 0, and *(data++) goes into the buffer,
UpdateByte ==
  /\ pc = "update" /\ datalen > 0
  /\ datalen' = datalen - 1
  /\ Put(fed[Len(fed) - datalen + 1])
  /\ IF leftover_offset + 1 >= BLOCK THEN pc' = "full" ELSE UNCHANGED pc
  /\ UNCHANGED <<iv, bits_hashed, fed, ret, rounds, compressed, digest>>

\* ... which, when it is full, is compressed,
UpdateFull ==
  /\ Compress("full", "emptied")
  /\ UNCHANGED <<hash, fed, datalen, compressed, digest>>

\* Variant for mutation: the offset is not set back.
BugUpdateEmptied ==
  /\ Goto("emptied", "update")
  /\ bits_hashed' = bits_hashed + 8 * BLOCK
  /\ UNCHANGED <<iv, leftover, leftover_offset, fed, datalen, ret, rounds, compressed, digest>>

\* ... emptied and counted.
UpdateEmptied ==
  /\ Goto("emptied", "update")
  /\ bits_hashed' = bits_hashed + 8 * BLOCK
  /\ leftover_offset' = 0
  /\ UNCHANGED <<iv, leftover, fed, datalen, ret, rounds, compressed, digest>>

UpdateEnd ==
  /\ datalen = 0 /\ Goto("update", "open")
  /\ UNCHANGED <<hash, fed, datalen, ret, rounds, compressed, digest>>

-----------------------------------------------------------------------------
\* tc_sha256_final: the rest is counted and the bit that ends the message set,
Final ==
  /\ Goto("open", "pad")
  /\ bits_hashed' = bits_hashed + 8 * leftover_offset
  /\ Put({7})
  /\ UNCHANGED <<iv, fed, datalen, ret, rounds, compressed, digest>>

ZeroFrom(at, to) == [k \in 0 .. BLOCK - 1 |->
                       IF at <= k /\ k < to THEN Zero ELSE leftover[k]]

\* Variant for mutation: ">=" for ">".
BugNoRoom == leftover_offset >= BLOCK - 8

NoRoom == leftover_offset > BLOCK - 8

\* ... if there is no room for the length, a block is compressed before it,
FinalNoRoom ==
  /\ NoRoom
  /\ Compress("pad", "padded")
  /\ leftover' = ZeroFrom(leftover_offset, BLOCK)
  /\ UNCHANGED <<iv, bits_hashed, leftover_offset, fed, datalen, compressed, digest>>

FinalEmptied ==
  /\ Goto("padded", "pad")
  /\ leftover_offset' = 0
  /\ UNCHANGED <<iv, bits_hashed, leftover, fed, datalen, ret, rounds, compressed, digest>>

\* Byte k of the 64-bit number of bits, from the least significant one; those
\* above byte 3 are 0 for a ShortMessage.
LengthByte(n, k) == IF k > 3 THEN Zero ELSE
                    {i \in 0 .. 7 : ((n \div 256^k) \div 2^i) % 2 = 1}

\* ... zeros and the length end the last block,
FinalLength ==
  /\ ~NoRoom
  /\ Compress("pad", "hashed")
  /\ leftover' = [k \in 0 .. BLOCK - 1 |->
                    IF k >= BLOCK - 8 THEN LengthByte(bits_hashed, BLOCK - 1 - k)
                    ELSE ZeroFrom(leftover_offset, BLOCK - 8)[k]]
  /\ UNCHANGED <<iv, bits_hashed, leftover_offset, fed, datalen, compressed, digest>>

\* ... and the iv is the digest.  The state is destroyed.
FinalDigest ==
  /\ Goto("hashed", "none")
  /\ digest' = Bytes(iv)
  /\ Wiped([k \in 1 .. 8 |-> Zero])
  /\ UNCHANGED <<fed, datalen, ret, rounds, compressed>>

-----------------------------------------------------------------------------
\* Variant for mutation: the word of 14 rounds before in the place of 15.
BugScheduled == Add(Add(sigma0(work_space[(round + 2) % 16]),
                        sigma1(work_space[(round + 14) % 16])),
                    Add(work_space[(round + 9) % 16], work_space[round % 16]))

\* Word number "round" of the message schedule, from the ring of 16 words.
Scheduled == Add(Add(sigma0(work_space[(round + 1) % 16]),
                     sigma1(work_space[(round + 14) % 16])),
                 Add(work_space[(round + 9) % 16], work_space[round % 16]))

\* One turn of either loop of compress.
Round ==
  LET w  == IF round < 16 THEN BigEndian(leftover, 4 * round) ELSE Scheduled
      t1 == Add(Add(Add(w, v[8]), Add(Sigma1(v[5]), Ch(v[5], v[6], v[7]))),
                k256[round + 1])
      t2 == Add(Sigma0(v[1]), Maj(v[1], v[2], v[3]))
  IN /\ pc = "compress" /\ round < 64
     /\ round' = round + 1
     /\ work_space' = [work_space EXCEPT ![round % 16] = w]
     /\ v' = <<Add(t1, t2), v[1], v[2], v[3], Add(v[4], t1), v[5], v[6], v[7]>>
     /\ UNCHANGED <<hash, fed, datalen, pc, ret, compressed, digest>>

CompressEnd ==
  /\ round = 64 /\ Goto("compress", ret)
  /\ iv' = [k \in 1 .. 8 |-> Add(iv[k], v[k])]
  /\ compressed' = compressed \o [k \in 1 .. BLOCK |-> leftover[k - 1]]
  /\ round' = 0 /\ v' = InitialIv /\ work_space' = Unset
  /\ UNCHANGED <<bits_hashed, leftover, leftover_offset, fed, datalen, ret, digest>>

-----------------------------------------------------------------------------
\* What the functions do once they are called.
Inside == \/ UpdateByte \/ UpdateFull \/ UpdateEmptied \/ UpdateEnd
          \/ FinalNoRoom \/ FinalEmptied \/ FinalLength \/ FinalDigest
          \/ Round \/ CompressEnd

\* The next piece of the message, of n bytes.
Piece(n) == SubSeq(Message, Len(fed) + 1, Len(fed) + n)

Next == \/ ShaInit \/ Final \/ Inside
        \/ \E n \in Lengths : Len(fed) + n <= Len(Message) /\ Update(Piece(n))

Spec == Init /\ [][Next]_vars

-----------------------------------------------------------------------------
\* The padding of FIPS 180-4, section 5.1.1, to a multiple of 64 bytes.
Pad(m) ==
  LET n == Len(m)
      end == n + 9 + ((55 - n) % BLOCK)
  IN [k \in 1 .. end |-> CASE k <= n -> m[k]
                           [] k = n + 1 -> {7}
                           [] k \in n + 2 .. end - 8 -> Zero
                           [] k > end - 8 -> LengthByte(8 * n, end - k)]

\* However a message comes in pieces, and however many bytes are left at the
\* end of it, what tc_sha256_update and tc_sha256_final compress is the padded
\* message: no byte lost, repeated or left over from an earlier block.
PaddedAsFips == pc = "hashed" => compressed = Pad(fed)

\* How many bytes were given to tc_sha256_update, how many are compressed, and
\* byte number k of those compressed or still in the buffer.
Given == Len(fed)
Done  == Len(compressed)
Streamed(k) == IF k <= Done THEN compressed[k]
               ELSE leftover[k - 1 - Done]

\* Between two bytes the buffer has room for one more and holds exactly the bytes
\* that are read and not compressed; bits_hashed counts the others.
NothingSkipped ==
  pc \in {"open", "update"} =>
    /\ leftover_offset < BLOCK
    /\ bits_hashed = 8 * Done
    /\ Done + leftover_offset + datalen = Given
    /\ \A k \in 1 .. Done + leftover_offset : Streamed(k) = fed[k]

-----------------------------------------------------------------------------
\* The strengthening that is inductive.
TypeOK ==
  /\ bits_hashed \in Nat /\ leftover_offset \in 0 .. BLOCK /\ datalen \in Nat
  /\ leftover \in [0 .. BLOCK - 1 -> Byte]
  /\ fed \in Seq(Byte) /\ compressed \in Seq(Byte)
  /\ pc \in {"none", "open", "update", "full", "emptied", "pad", "padded", "hashed", "compress"}
  /\ pc = "compress" => ret \in {"emptied", "padded", "hashed"}

\* The first n bytes of the padded message are in the stream, the length aside.
Holds(n) == \A k \in 1 .. n : Streamed(k) = IF k <= Given THEN fed[k]
                                            ELSE IF k = Given + 1 THEN {7} ELSE Zero

Compressing(to) == pc = "compress" /\ ret = to

UpdateInv ==
  /\ pc \notin {"update", "full", "emptied"} /\ ~Compressing("emptied") => datalen = 0
  /\ pc \in {"open", "update"} =>
       /\ leftover_offset < BLOCK /\ bits_hashed = 8 * Done
       /\ Done + leftover_offset + datalen = Given
       /\ Holds(Done + leftover_offset)
  /\ pc = "full" \/ Compressing("emptied") =>
       /\ leftover_offset = BLOCK /\ bits_hashed = 8 * Done
       /\ Done + BLOCK + datalen = Given
       /\ Holds(Done + BLOCK)
  /\ pc = "emptied" => /\ bits_hashed + 8 * BLOCK = 8 * Done
                       /\ Done + datalen = Given
                       /\ Holds(Done)

\* The last block but one ends with the message, or up to 8 bytes after it.
FinalInv ==
  /\ pc \in {"pad", "padded"} \/ Compressing("padded") \/ Compressing("hashed") =>
       bits_hashed = 8 * Given
  /\ pc \in {"pad", "padded"} \/ Compressing("hashed") => Done <= Given + 8
  /\ pc = "pad" => /\ Given < Done + leftover_offset
                   /\ \/ leftover_offset = 0
                      \/ Done + leftover_offset = Given + 1
                   /\ Holds(Done + leftover_offset)
  /\ Compressing("padded") => /\ Done + 56 <= Given
                              /\ Given < Done + BLOCK
                              /\ Holds(Done + BLOCK)
  /\ pc = "padded" => Given < Done /\ Holds(Done)
  /\ Compressing("hashed") =>
       /\ Given < Done + 56
       /\ Holds(Done + 56)
       /\ \A k \in 56 .. BLOCK - 1 : leftover[k] = LengthByte(8 * Given, BLOCK - 1 - k)
  /\ PaddedAsFips

IInv == TypeOK /\ Done % BLOCK = 0 /\ UpdateInv /\ FinalInv
=============================================================================
