---------------------------- MODULE Sha256Proofs ----------------------------
(***************************************************************************)
(* Proofs about Sha256.tla and Hmac.tla, for any message in any pieces,    *)
(* any key and any mailboxes: the buffer never overflows, what is          *)
(* compressed is the padded message, what compress computes from it is the *)
(* digest of FIPS 180-4, and what hmac_tag_compute returns is the HMAC.    *)
(*                                                                         *)
(* The definitions of Fips180.tla are recursive over the blocks and over   *)
(* the rounds.  No induction is needed: the program's own steps, one block *)
(* or round each, are those of the invariants ChainInv and RoundsInv.      *)
(***************************************************************************)
EXTENDS Hmac, SequenceTheorems, TLAPS

\* Blocks end at multiples of the block size, so the padding ends with the block
\* after the last one that holds at most 8 bytes more than the message.
LEMMA PadEnd ==
  ASSUME NEW C \in Nat, NEW n \in Nat, C % 64 = 0, C <= n + 8, n < C + 56
  PROVE  n + 9 + ((55 - n) % 64) = C + 64
  BY SMTT(30)

LEMMA NextBlock == ASSUME NEW C \in Nat, C % 64 = 0 PROVE (C + 64) % 64 = 0
  OBVIOUS

LEMMA LengthByteType == \A n, k : LengthByte(n, k) \in Byte
  BY DEF LengthByte, Byte, Zero

LEMMA Bytes8 == {7} \in Byte /\ Zero \in Byte
  BY DEF Byte, Zero

LEMMA Counts == TypeOK => Done \in Nat /\ Given \in Nat
  BY LenProperties DEF TypeOK, Done, Given

\* CompressEnd moves the buffer to the end of what is compressed.
LEMMA BlockMoves ==
  ASSUME TypeOK, CompressEnd
  PROVE  /\ Done' = Done + 64
         /\ compressed' \in Seq(Byte)
         /\ \A k \in 1 .. Done + 64 : compressed'[k] = Streamed(k)
  <1> DEFINE block == [k \in 1 .. 64 |-> leftover[k - 1]]
  <1>0. block \in Seq(Byte)
    BY DEF TypeOK, BLOCK
  <1>1. Len(block) = 64
    OBVIOUS
  <1>2. compressed' = compressed \o block
    BY DEF CompressEnd, BLOCK
  <1>3. compressed \in Seq(Byte)
    BY DEF TypeOK
  <1>4. Done \in Nat
    BY Counts
  <1>5. \A k \in 1 .. 64 : block[k] = leftover[k - 1]
    OBVIOUS
  <1> HIDE DEF block
  <1>6. /\ compressed \o block \in Seq(Byte)
        /\ Len(compressed \o block) = Len(compressed) + Len(block)
        /\ \A i \in 1 .. Len(compressed) + Len(block) : (compressed \o block)[i] =
             IF i <= Len(compressed) THEN compressed[i] ELSE block[i - Len(compressed)]
    BY <1>0, <1>3, ConcatProperties, Zenon
  <1>7. \A i \in 1 .. Done + 64 : compressed'[i] =
             IF i <= Done THEN compressed[i] ELSE block[i - Done]
    BY <1>1, <1>2, <1>6, Zenon DEF Done
  <1>8. ASSUME NEW k \in 1 .. Done + 64 PROVE compressed'[k] = Streamed(k)
    <2>1. CASE k <= Done
      BY <1>7, <2>1 DEF Streamed
    <2>2. CASE ~(k <= Done)
      <3>1. k - Done \in 1 .. 64 /\ (k - Done) - 1 = k - 1 - Done
        BY <1>4, <2>2
      <3>2. QED
        BY <1>5, <1>7, <2>2, <3>1 DEF Streamed
    <2>3. QED
      BY <2>1, <2>2
  <1>9. QED
    BY <1>1, <1>2, <1>6, <1>8 DEF Done

-----------------------------------------------------------------------------
LEMMA InitIInv == Init => IInv
  <1> SUFFICES ASSUME Init PROVE IInv
    OBVIOUS
  <1>1. TypeOK
    BY Bytes8 DEF Init, TypeOK, Erased, BLOCK
  <1>2. Done = 0
    BY DEF Init, Done
  <1>3. QED
    BY <1>1, <1>2 DEF Init, IInv, UpdateInv, FinalInv, PaddedAsFips, Compressing, BLOCK

LEMMA ShaInitIInv == IInv /\ ShaInit => IInv'
  <1> SUFFICES ASSUME IInv, ShaInit PROVE IInv'
    OBVIOUS
  <1>1. TypeOK'
    BY Bytes8 DEF ShaInit, Wiped, IInv, TypeOK, Erased, BLOCK, Goto
  <1>2. Done' = 0 /\ Given' = 0
    BY DEF ShaInit, Done, Given
  <1>3. pc' = "open" /\ bits_hashed' = 0 /\ leftover_offset' = 0
    BY DEF ShaInit, Wiped, Goto
  <1>4. datalen' = 0
    BY DEF IInv, UpdateInv, Compressing, ShaInit, Goto
  <1>5. QED
    BY <1>1, <1>2, <1>3, <1>4 DEF IInv, UpdateInv, FinalInv, PaddedAsFips,
         Compressing, Holds, BLOCK

\* A piece of the message adds to what is given and leaves the rest alone.
LEMMA UpdateIInv ==
  ASSUME IInv, NEW data \in Seq(Byte), Update(data) PROVE IInv'
  <1>1. Done \in Nat /\ Given \in Nat /\ Len(data) \in Nat
    BY Counts, LenProperties DEF IInv
  <1>2. UNCHANGED <<compressed, leftover, leftover_offset, bits_hashed, Done>>
    BY DEF Update, hash, Done
  <1>3. /\ fed \o data \in Seq(Byte)
        /\ Len(fed \o data) = Len(fed) + Len(data)
        /\ \A i \in 1 .. Len(fed) + Len(data) : (fed \o data)[i] =
             IF i <= Len(fed) THEN fed[i] ELSE data[i - Len(fed)]
    BY ConcatProperties, Zenon DEF IInv, TypeOK
  <1>4. /\ fed' \in Seq(Byte) /\ Given' = Given + Len(data)
        /\ \A i \in 1 .. Given + Len(data) : fed'[i] =
             IF i <= Given THEN fed[i] ELSE data[i - Given]
    BY <1>3, Zenon DEF Update, Given
  <1>5. pc = "open" /\ pc' = "update" /\ datalen' = Len(data)
    BY DEF Update, Goto
  <1>6. TypeOK'
    BY <1>1, <1>2, <1>4, <1>5 DEF IInv, TypeOK, Update
  <1>7. leftover_offset < 64 /\ bits_hashed = 8 * Done /\ Done + leftover_offset = Given
    BY <1>1, <1>5 DEF IInv, UpdateInv, TypeOK, BLOCK, Compressing
  <1>8. ASSUME NEW k \in 1 .. Given PROVE Streamed(k)' = fed'[k]
    <2>1. Streamed(k)' = Streamed(k)
      BY <1>2 DEF Streamed
    <2>2. Streamed(k) = fed[k]
      BY <1>5, <1>7, <1>1 DEF IInv, UpdateInv, Holds
    <2>3. k \in 1 .. Given + Len(data)
      BY <1>1
    <2>4. QED
      BY <1>1, <1>4, <2>1, <2>2, <2>3
  <1>9. (Holds(Done + leftover_offset))'
    BY <1>1, <1>2, <1>4, <1>7, <1>8 DEF Holds
  <1>10. UpdateInv'
    BY <1>1, <1>2, <1>4, <1>5, <1>7, <1>9 DEF UpdateInv, Compressing, BLOCK
  <1>11. FinalInv'
    BY <1>5 DEF FinalInv, PaddedAsFips, Compressing
  <1>12. QED
    BY <1>2, <1>6, <1>10, <1>11 DEF IInv

\* A byte goes to the end of the stream.
LEMMA PutStreams ==
  ASSUME TypeOK, leftover_offset < 64, NEW b \in Byte, Put(b),
         UNCHANGED compressed
  PROVE  /\ leftover' \in [0 .. 63 -> Byte]
         /\ leftover_offset' = leftover_offset + 1
         /\ Done' = Done
         /\ \A k \in 1 .. Done + leftover_offset : Streamed(k)' = Streamed(k)
         /\ \A k \in Nat : k = Done + leftover_offset + 1 => Streamed(k)' = b
  <1>1. Done \in Nat /\ leftover_offset \in 0 .. 63
    BY Counts DEF TypeOK, BLOCK
  <1>2. Done' = Done
    BY DEF Done
  <1>3. leftover \in [0 .. 63 -> Byte] /\ leftover' = [leftover EXCEPT ![leftover_offset] = b]
    BY DEF TypeOK, BLOCK, Put
  <1>4. ASSUME NEW k \in 1 .. Done + leftover_offset PROVE Streamed(k)' = Streamed(k)
    BY <1>1, <1>2, <1>3 DEF Streamed
  <1>5. \A k \in Nat : k = Done + leftover_offset + 1 => Streamed(k)' = b
    BY <1>1, <1>2, <1>3 DEF Streamed
  <1>6. QED
    BY <1>1, <1>2, <1>3, <1>4, <1>5 DEF Put

LEMMA UpdateByteIInv == IInv /\ UpdateByte => IInv'
  <1> SUFFICES ASSUME IInv, UpdateByte PROVE IInv'
    OBVIOUS
  <1> DEFINE b == fed[Given - datalen + 1]
  <1>1. Done \in Nat /\ Given \in Nat /\ datalen \in Nat /\ leftover_offset \in 0 .. 63
    BY Counts DEF IInv, TypeOK, UpdateInv, UpdateByte, BLOCK
  <1>2. pc = "update" /\ datalen > 0 /\ datalen' = datalen - 1
    BY DEF UpdateByte
  <1>3. bits_hashed = 8 * Done /\ Done + leftover_offset + datalen = Given
    BY <1>2 DEF IInv, UpdateInv
  <1>4. Given - datalen + 1 = Done + leftover_offset + 1 /\ Given - datalen + 1 \in 1 .. Given
    BY <1>1, <1>2, <1>3
  <1>5. fed \in [1 .. Given -> Byte]
    BY LenProperties DEF IInv, TypeOK, Given
  <1>6. b \in Byte
    BY <1>4, <1>5
  <1>7. Put(b) /\ UNCHANGED <<compressed, fed, bits_hashed>>
    BY DEF UpdateByte, Given
  <1>8. /\ leftover' \in [0 .. 63 -> Byte]
        /\ leftover_offset' = leftover_offset + 1
        /\ Done' = Done
        /\ \A k \in 1 .. Done + leftover_offset : Streamed(k)' = Streamed(k)
        /\ \A k \in Nat : k = Done + leftover_offset + 1 => Streamed(k)' = b
    BY <1>1, <1>6, <1>7, PutStreams DEF IInv
  <1>9. Given' = Given
    BY <1>7 DEF Given
  <1>10. pc' = IF leftover_offset + 1 >= 64 THEN "full" ELSE "update"
    BY <1>2 DEF UpdateByte, BLOCK
  <1>11. (Holds(Done + leftover_offset))'
    <2> SUFFICES ASSUME NEW k \in 1 .. Done + leftover_offset + 1
        PROVE  Streamed(k)' = fed[k] /\ k <= Given
      BY <1>1, <1>7, <1>8, <1>9 DEF Holds
    <2>1. CASE k = Done + leftover_offset + 1
      BY <1>1, <1>4, <1>8, <2>1
    <2>2. CASE k # Done + leftover_offset + 1
      <3>1. k \in 1 .. Done + leftover_offset /\ k <= Given
        BY <1>1, <1>3, <2>2
      <3>2. Streamed(k) = fed[k]
        BY <1>2, <3>1 DEF IInv, UpdateInv, Holds
      <3>3. QED
        BY <1>8, <3>1, <3>2
    <2>3. QED
      BY <2>1, <2>2
  <1> HIDE DEF b
  <1>12. TypeOK'
    BY <1>1, <1>2, <1>7, <1>8, <1>10 DEF IInv, TypeOK, BLOCK
  <1>13. UpdateInv'
    BY <1>1, <1>2, <1>3, <1>7, <1>8, <1>9, <1>10, <1>11 DEF UpdateInv, Compressing, BLOCK
  <1>14. FinalInv'
    BY <1>10 DEF FinalInv, PaddedAsFips, Compressing
  <1>15. QED
    BY <1>8, <1>12, <1>13, <1>14 DEF IInv

\* A step that moves no byte moves none of the stream.
LEMMA StreamKept ==
  ASSUME UNCHANGED <<compressed, leftover, fed>>
  PROVE  /\ Done' = Done /\ Given' = Given
         /\ \A k : Streamed(k)' = Streamed(k)
  BY DEF Done, Given, Streamed

LEMMA UpdateRestIInv == IInv /\ (UpdateFull \/ UpdateEnd \/ Round) => IInv'
  <1> SUFFICES ASSUME IInv, UpdateFull \/ UpdateEnd \/ Round PROVE IInv'
    OBVIOUS
  <1>1. Done \in Nat /\ Given \in Nat
    BY Counts DEF IInv
  <1>2. UNCHANGED <<compressed, leftover, fed, datalen>>
    BY DEF UpdateFull, UpdateEnd, Round, hash
  <1>3. Done' = Done /\ Given' = Given /\ \A k : Streamed(k)' = Streamed(k)
    BY <1>2, StreamKept
  <1>4. \A n : (\A k \in 1 .. n : Streamed(k) = IF k <= Given THEN fed[k]
                                   ELSE IF k = Given + 1 THEN {7} ELSE Zero)
               => (\A k \in 1 .. n : Streamed(k)' = IF k <= Given' THEN fed'[k]
                                   ELSE IF k = Given' + 1 THEN {7} ELSE Zero)
    BY <1>2, <1>3
  <1> USE DEF IInv, TypeOK, UpdateInv, FinalInv, PaddedAsFips, Compressing, BLOCK, Holds
  <1>5. CASE UpdateFull
    <2>1. /\ pc = "full" /\ pc' = "compress" /\ ret' = "emptied"
          /\ UNCHANGED <<bits_hashed, leftover_offset>>
      BY <1>5 DEF UpdateFull, Compress, Goto, hash
    <2>2. QED
      BY <1>1, <1>2, <1>3, <1>4, <2>1
  <1>6. CASE UpdateEnd
    <2>1. /\ pc = "update" /\ pc' = "open" /\ datalen = 0
          /\ UNCHANGED <<bits_hashed, leftover_offset, ret>>
      BY <1>6 DEF UpdateEnd, Goto, hash
    <2>2. QED
      BY <1>1, <1>2, <1>3, <1>4, <2>1
  <1>7. CASE Round
    <2>1. UNCHANGED <<bits_hashed, leftover_offset, ret, pc>> /\ pc = "compress"
      BY <1>7 DEF Round, hash
    <2>2. QED
      BY <1>1, <1>2, <1>3, <1>4, <2>1
  <1>8. QED
    BY <1>5, <1>6, <1>7

\* The buffer is emptied, all of it being compressed.
LEMMA EmptiedIInv == IInv /\ (UpdateEmptied \/ FinalEmptied) => IInv'
  <1> SUFFICES ASSUME IInv, UpdateEmptied \/ FinalEmptied PROVE IInv'
    OBVIOUS
  <1>1. Done \in Nat /\ Given \in Nat /\ bits_hashed \in Nat
    BY Counts DEF IInv, TypeOK
  <1>2. UNCHANGED <<compressed, leftover, fed, datalen, ret>> /\ leftover_offset' = 0
    BY DEF UpdateEmptied, FinalEmptied
  <1>3. Done' = Done /\ Given' = Given /\ \A k : Streamed(k)' = Streamed(k)
    BY <1>2, StreamKept
  <1>4. Holds(Done)
    BY DEF IInv, UpdateInv, FinalInv, UpdateEmptied, FinalEmptied, Goto
  <1>5. (Holds(Done + leftover_offset))'
    <2>1. Done' + leftover_offset' = Done
      BY <1>1, <1>2, <1>3
    <2>2. QED
      BY <1>2, <1>3, <1>4, <2>1 DEF Holds
  <1>6. CASE UpdateEmptied
    <2>1. pc = "emptied" /\ pc' = "update" /\ bits_hashed' = bits_hashed + 8 * 64
      BY <1>6 DEF UpdateEmptied, Goto, BLOCK
    <2>2. bits_hashed' = 8 * Done /\ Done + 0 + datalen = Given
      BY <1>1, <2>1 DEF IInv, UpdateInv, TypeOK, BLOCK
    <2>3. TypeOK'
      BY <1>1, <1>2, <2>1 DEF IInv, TypeOK, BLOCK
    <2>4. UpdateInv'
      BY <1>2, <1>3, <1>5, <2>1, <2>2 DEF UpdateInv, Compressing, BLOCK
    <2>5. FinalInv'
      BY <2>1 DEF FinalInv, PaddedAsFips, Compressing
    <2>6. QED
      BY <1>3, <2>3, <2>4, <2>5 DEF IInv
  <1>7. CASE FinalEmptied
    <2>1. pc = "padded" /\ pc' = "pad" /\ bits_hashed' = bits_hashed
      BY <1>7 DEF FinalEmptied, Goto
    <2>2. bits_hashed = 8 * Given /\ Done <= Given + 8 /\ Given < Done + 0
      BY <1>1, <2>1 DEF IInv, FinalInv
    <2>3. TypeOK'
      BY <1>1, <1>2, <2>1 DEF IInv, TypeOK, BLOCK
    <2>4. UpdateInv'
      BY <1>2, <2>1 DEF IInv, UpdateInv, Compressing
    <2>5. FinalInv'
      BY <1>2, <1>3, <1>5, <2>1, <2>2 DEF FinalInv, PaddedAsFips, Compressing
    <2>6. QED
      BY <1>3, <2>3, <2>4, <2>5 DEF IInv
  <1>8. QED
    BY <1>6, <1>7

LEMMA FinalIInv == IInv /\ Final => IInv'
  <1> SUFFICES ASSUME IInv, Final PROVE IInv'
    OBVIOUS
  <1>1. Done \in Nat /\ Given \in Nat /\ leftover_offset \in 0 .. 63 /\ datalen = 0
    BY Counts DEF IInv, TypeOK, UpdateInv, Final, BLOCK, Goto, Compressing
  <1>2. pc = "open" /\ pc' = "pad" /\ bits_hashed' = bits_hashed + 8 * leftover_offset
    BY DEF Final, Goto
  <1>3. bits_hashed = 8 * Done /\ Done + leftover_offset = Given
    BY <1>1, <1>2 DEF IInv, UpdateInv
  <1>4. Put({7}) /\ UNCHANGED <<compressed, fed, datalen, ret>>
    BY DEF Final
  <1>5. /\ leftover' \in [0 .. 63 -> Byte]
        /\ leftover_offset' = leftover_offset + 1
        /\ Done' = Done
        /\ \A k \in 1 .. Done + leftover_offset : Streamed(k)' = Streamed(k)
        /\ \A k \in Nat : k = Done + leftover_offset + 1 => Streamed(k)' = {7}
    BY <1>1, <1>4, Bytes8, PutStreams DEF IInv
  <1>6. Given' = Given
    BY <1>4 DEF Given
  <1>7. (Holds(Done + leftover_offset))'
    <2> SUFFICES ASSUME NEW k \in 1 .. Given + 1
        PROVE  Streamed(k)' = IF k <= Given THEN fed[k] ELSE {7}
      BY <1>1, <1>3, <1>4, <1>5, <1>6 DEF Holds
    <2>1. CASE k = Given + 1
      BY <1>1, <1>3, <1>5, <2>1
    <2>2. CASE k # Given + 1
      <3>1. k \in 1 .. Done + leftover_offset /\ k <= Given
        BY <1>1, <1>3, <2>2
      <3>2. Streamed(k) = fed[k]
        BY <1>2, <3>1 DEF IInv, UpdateInv, Holds
      <3>3. QED
        BY <1>5, <3>1, <3>2
    <2>3. QED
      BY <2>1, <2>2
  <1>8. TypeOK'
    <2>1. bits_hashed' \in Nat
      BY <1>1, <1>2, <1>3
    <2>2. QED
      BY <1>1, <1>2, <1>4, <1>5, <2>1 DEF IInv, TypeOK, BLOCK
  <1>9. UpdateInv'
    BY <1>1, <1>2, <1>4 DEF UpdateInv, Compressing
  <1>10. FinalInv'
    BY <1>1, <1>2, <1>3, <1>5, <1>6, <1>7 DEF FinalInv, PaddedAsFips, Compressing, BLOCK
  <1>11. QED
    BY <1>5, <1>8, <1>9, <1>10 DEF IInv

\* Zeros from the end of the stream to position "to" of the buffer.
LEMMA ZerosStream ==
  ASSUME IInv, pc = "pad", NEW to \in leftover_offset .. 64,
         UNCHANGED <<compressed, fed>>,
         \A k \in 0 .. to - 1 : leftover'[k] = ZeroFrom(leftover_offset, to)[k]
  PROVE  /\ Done' = Done /\ Given' = Given
         /\ \A k \in 1 .. Done + to :
              Streamed(k)' = IF k <= Given THEN fed[k]
                             ELSE IF k = Given + 1 THEN {7} ELSE Zero
  <1>1. Done \in Nat /\ Given \in Nat /\ leftover_offset \in 0 .. 64
    BY Counts DEF IInv, TypeOK, BLOCK
  <1>2. Done' = Done /\ Given' = Given
    BY DEF Done, Given
  <1>3. ASSUME NEW k \in 1 .. Done + to
        PROVE  Streamed(k)' = IF k <= Given THEN fed[k]
                              ELSE IF k = Given + 1 THEN {7} ELSE Zero
    <2>1. CASE k <= Done
      <3>1. Streamed(k)' = Streamed(k)
        BY <1>2, <2>1 DEF Streamed
      <3>2. k \in 1 .. Done + leftover_offset
        BY <1>1, <2>1
      <3>3. QED
        BY <3>1, <3>2 DEF IInv, FinalInv, Holds
    <2>2. CASE ~(k <= Done)
      <3> DEFINE j == k - 1 - Done
      <3>1. j \in 0 .. to - 1 /\ j \in 0 .. 63
        BY <1>1, <2>2
      <3>2. Streamed(k)' = IF leftover_offset <= j /\ j < to THEN Zero ELSE leftover[j]
        <4>1. leftover'[j] = ZeroFrom(leftover_offset, to)[j]
          BY <3>1
        <4>2. ZeroFrom(leftover_offset, to)[j] =
                IF leftover_offset <= j /\ j < to THEN Zero ELSE leftover[j]
          BY <3>1 DEF ZeroFrom, BLOCK
        <4>3. Streamed(k)' = leftover'[j]
          BY <1>2, <2>2 DEF Streamed
        <4>4. QED
          BY <4>1, <4>2, <4>3
      <3>3. CASE leftover_offset <= j
        <4>1. k > Given + 1
          BY <1>1, <2>2, <3>1, <3>3 DEF IInv, FinalInv, TypeOK, BLOCK
        <4>2. QED
          BY <1>1, <3>1, <3>2, <3>3, <4>1
      <3>4. CASE ~(leftover_offset <= j)
        <4>1. k \in 1 .. Done + leftover_offset
          BY <1>1, <2>2, <3>1, <3>4
        <4>2. Streamed(k)' = Streamed(k)
          BY <2>2, <3>2, <3>4 DEF Streamed
        <4>3. QED
          BY <4>1, <4>2 DEF IInv, FinalInv, Holds
      <3>5. QED
        BY <3>3, <3>4
    <2>3. QED
      BY <2>1, <2>2
  <1>4. QED
    BY <1>2, <1>3

LEMMA FinalNoRoomIInv == IInv /\ FinalNoRoom => IInv'
  <1> SUFFICES ASSUME IInv, FinalNoRoom PROVE IInv'
    OBVIOUS
  <1>0. Done \in Nat /\ Given \in Nat
    BY Counts DEF IInv
  <1>1. leftover_offset \in 57 .. 64
    <2>1. leftover_offset \in 0 .. 64
      BY DEF IInv, TypeOK, BLOCK
    <2>2. QED
      BY <2>1 DEF BLOCK, FinalNoRoom, NoRoom
  <1>2. /\ pc = "pad" /\ pc' = "compress" /\ ret' = "padded"
        /\ UNCHANGED <<compressed, fed, datalen, bits_hashed, leftover_offset>>
    BY DEF FinalNoRoom, Compress, Goto
  <1>3. leftover' = ZeroFrom(leftover_offset, 64)
    BY DEF FinalNoRoom, BLOCK
  <1>4. leftover' \in [0 .. 63 -> Byte]
    BY <1>3, Bytes8 DEF ZeroFrom, IInv, TypeOK, BLOCK
  <1>5. 64 \in leftover_offset .. 64
    BY <1>1
  <1>6. \A k \in 0 .. 64 - 1 : leftover'[k] = ZeroFrom(leftover_offset, 64)[k]
    BY <1>3
  <1>7. /\ Done' = Done /\ Given' = Given
        /\ \A k \in 1 .. Done + 64 :
              Streamed(k)' = IF k <= Given THEN fed[k]
                             ELSE IF k = Given + 1 THEN {7} ELSE Zero
    BY <1>2, <1>5, <1>6, ZerosStream
  <1>8. (Holds(Done + BLOCK))'
    BY <1>2, <1>7 DEF Holds, BLOCK
  <1>9. Done + leftover_offset = Given + 1 /\ bits_hashed = 8 * Given
    BY <1>0, <1>1, <1>2 DEF IInv, FinalInv
  <1>10. TypeOK'
    BY <1>2, <1>4 DEF IInv, TypeOK, BLOCK
  <1>11. UpdateInv'
    BY <1>2 DEF IInv, UpdateInv, Compressing
  <1>12. Done + 56 <= Given /\ Given < Done + 64
    BY <1>0, <1>1, <1>9
  <1>13. FinalInv'
    BY <1>2, <1>7, <1>8, <1>9, <1>12 DEF FinalInv, PaddedAsFips, Compressing, BLOCK
  <1>14. QED
    BY <1>7, <1>10, <1>11, <1>13 DEF IInv

LEMMA FinalLengthIInv == IInv /\ FinalLength => IInv'
  <1> SUFFICES ASSUME IInv, FinalLength PROVE IInv'
    OBVIOUS
  <1>0. Done \in Nat /\ Given \in Nat
    BY Counts DEF IInv
  <1>1. leftover_offset \in 0 .. 56
    <2>1. leftover_offset \in 0 .. 64
      BY DEF IInv, TypeOK, BLOCK
    <2>2. QED
      BY <2>1 DEF BLOCK, FinalLength, NoRoom
  <1>2. /\ pc = "pad" /\ pc' = "compress" /\ ret' = "hashed"
        /\ UNCHANGED <<compressed, fed, datalen, bits_hashed, leftover_offset>>
    BY DEF FinalLength, Compress, Goto
  <1>3. bits_hashed = 8 * Given /\ Done <= Given + 8 /\ Given < Done + leftover_offset
    BY <1>2 DEF IInv, FinalInv
  <1>4. leftover' = [k \in 0 .. 63 |-> IF k >= 56 THEN LengthByte(8 * Given, 63 - k)
                                       ELSE ZeroFrom(leftover_offset, 56)[k]]
    BY <1>3 DEF FinalLength, BLOCK
  <1>5. ZeroFrom(leftover_offset, 56) \in [0 .. 63 -> Byte]
    BY Bytes8 DEF ZeroFrom, IInv, TypeOK, BLOCK
  <1>6. leftover' \in [0 .. 63 -> Byte]
    BY <1>4, <1>5, LengthByteType
  <1>7. \A k \in 56 .. 63 : leftover'[k] = LengthByte(8 * Given, 63 - k)
    BY <1>4
  <1>8. 56 \in leftover_offset .. 64
    BY <1>1
  <1>9. \A k \in 0 .. 56 - 1 : leftover'[k] = ZeroFrom(leftover_offset, 56)[k]
    BY <1>4
  <1>10. /\ Done' = Done /\ Given' = Given
         /\ \A k \in 1 .. Done + 56 :
              Streamed(k)' = IF k <= Given THEN fed[k]
                             ELSE IF k = Given + 1 THEN {7} ELSE Zero
    BY <1>2, <1>8, <1>9, ZerosStream
  <1>11. (Holds(Done + 56))'
    BY <1>2, <1>10 DEF Holds
  <1>12. TypeOK'
    BY <1>2, <1>6 DEF IInv, TypeOK, BLOCK
  <1>13. UpdateInv'
    BY <1>2 DEF IInv, UpdateInv, Compressing
  <1>14. Given < Done + 56
    BY <1>0, <1>1, <1>3
  <1>15. (\A k \in 56 .. BLOCK - 1 : leftover[k] = LengthByte(8 * Given, BLOCK - 1 - k))'
    BY <1>7, <1>10 DEF BLOCK
  <1>16. FinalInv'
    BY <1>2, <1>3, <1>10, <1>11, <1>14, <1>15 DEF FinalInv, PaddedAsFips, Compressing
  <1>17. QED
    BY <1>10, <1>12, <1>13, <1>16 DEF IInv

LEMMA FinalDigestIInv == IInv /\ FinalDigest => IInv'
  <1> SUFFICES ASSUME IInv, FinalDigest PROVE IInv'
    OBVIOUS
  <1>1. pc = "hashed" /\ pc' = "none" /\ UNCHANGED <<compressed, fed, datalen, ret>>
    BY DEF FinalDigest, Goto
  <1>2. TypeOK'
    BY <1>1, Bytes8 DEF IInv, TypeOK, FinalDigest, Wiped, Erased, BLOCK
  <1>3. Done' = Done
    BY <1>1 DEF Done
  <1>4. QED
    BY <1>1, <1>2, <1>3 DEF IInv, UpdateInv, FinalInv, PaddedAsFips, Compressing

\* The three places that compress is called from; after the last one, what is
\* compressed is the padded message.
LEMMA CompressEndIInv == IInv /\ CompressEnd => IInv'
  <1> SUFFICES ASSUME IInv, CompressEnd PROVE IInv'
    OBVIOUS
  <1>1. Done \in Nat /\ Given \in Nat /\ Done % 64 = 0
    BY Counts DEF IInv, BLOCK
  <1>2. /\ pc = "compress" /\ pc' = ret
        /\ UNCHANGED <<bits_hashed, leftover, leftover_offset, fed, datalen, ret>>
    BY DEF CompressEnd, Goto
  <1>3. /\ Done' = Done + 64
        /\ compressed' \in Seq(Byte)
        /\ \A k \in 1 .. Done + 64 : compressed'[k] = Streamed(k)
    BY BlockMoves DEF IInv
  <1>4. Given' = Given
    BY <1>2 DEF Given
  <1>5. Done' % 64 = 0
    BY <1>1, <1>3, NextBlock
  <1>6. ret \in {"emptied", "padded", "hashed"}
    BY <1>2 DEF IInv, TypeOK
  <1>7. TypeOK'
    BY <1>2, <1>3, <1>6 DEF IInv, TypeOK
  <1>8. ASSUME Holds(Done + 64) PROVE (Holds(Done))'
    <2> SUFFICES ASSUME NEW k \in 1 .. Done + 64
        PROVE  (Streamed(k) = IF k <= Given THEN fed[k]
                              ELSE IF k = Given + 1 THEN {7} ELSE Zero)'
      BY <1>3 DEF Holds
    <2>1. Streamed(k)' = Streamed(k)
      <3>1. k <= Done'
        BY <1>1, <1>3
      <3>2. QED
        BY <1>3, <3>1 DEF Streamed
    <2>2. QED
      BY <1>2, <1>4, <1>8, <2>1 DEF Holds
  <1>9. CASE ret = "emptied"
    <2>1. /\ bits_hashed = 8 * Done /\ Done + 64 + datalen = Given
          /\ Holds(Done + 64)
      BY <1>2, <1>9 DEF IInv, UpdateInv, Compressing, BLOCK
    <2>2. bits_hashed' + 8 * 64 = 8 * Done' /\ Done' + datalen' = Given'
      BY <1>1, <1>2, <1>3, <1>4, <2>1
    <2>3. UpdateInv'
      BY <1>2, <1>8, <1>9, <2>1, <2>2 DEF UpdateInv, Compressing, BLOCK
    <2>4. FinalInv'
      BY <1>2, <1>9 DEF FinalInv, PaddedAsFips, Compressing
    <2>5. QED
      BY <1>5, <1>7, <2>3, <2>4 DEF IInv, BLOCK
  <1>10. CASE ret = "padded"
    <2>1. /\ bits_hashed = 8 * Given /\ Done + 56 <= Given /\ Given < Done + 64
          /\ Holds(Done + 64)
      BY <1>2, <1>10 DEF IInv, FinalInv, Compressing, BLOCK
    <2>2. bits_hashed' = 8 * Given' /\ Done' <= Given' + 8 /\ Given' < Done'
      BY <1>1, <1>2, <1>3, <1>4, <2>1
    <2>3. UpdateInv'
      BY <1>2, <1>10 DEF IInv, UpdateInv, Compressing
    <2>4. FinalInv'
      BY <1>2, <1>8, <1>10, <2>1, <2>2 DEF FinalInv, PaddedAsFips, Compressing
    <2>5. QED
      BY <1>5, <1>7, <2>3, <2>4 DEF IInv, BLOCK
  <1>11. CASE ret = "hashed"
    <2>1. /\ Done <= Given + 8 /\ Given < Done + 56 /\ Holds(Done + 56)
          /\ \A k \in 56 .. 63 : leftover[k] = LengthByte(8 * Given, 63 - k)
      BY <1>2, <1>11 DEF IInv, FinalInv, Compressing, BLOCK
    <2>2. Given + 9 + ((55 - Given) % 64) = Done + 64
      BY <1>1, <2>1, PadEnd
    <2> DEFINE PadTo(end, k) == CASE k <= Given -> fed[k]
                                  [] k = Given + 1 -> {7}
                                  [] k \in Given + 2 .. end - 8 -> Zero
                                  [] k > end - 8 -> LengthByte(8 * Given, end - k)
               PadByte(k) == PadTo(Done + 64, k)
               size == Given + 9 + ((55 - Given) % 64)
    <2>3. Pad(fed) = [k \in 1 .. Done + 64 |-> PadByte(k)]
      <3>1. Pad(fed) = [k \in 1 .. size |-> PadTo(size, k)]
        BY Zenon DEF Pad, Given, BLOCK
      <3>2. size = Done + 64
        BY <2>2
      <3> HIDE DEF PadTo, size
      <3>3. QED
        BY <3>1, <3>2
    <2>4. ASSUME NEW k \in 1 .. Done + 64 PROVE Streamed(k) = PadByte(k)
      <3>1. CASE k <= Done + 56
        <4>1. Streamed(k) = IF k <= Given THEN fed[k]
                            ELSE IF k = Given + 1 THEN {7} ELSE Zero
          BY <1>1, <2>1, <3>1 DEF Holds
        <4>2. PadByte(k) = IF k <= Given THEN fed[k]
                           ELSE IF k = Given + 1 THEN {7} ELSE Zero
          BY <1>1, <2>1, <3>1
        <4>3. QED
          BY <4>1, <4>2
      <3>2. CASE ~(k <= Done + 56)
        <4>1. Streamed(k) = leftover[k - 1 - Done] /\ k - 1 - Done \in 56 .. 63
          BY <1>1, <3>2 DEF Streamed
        <4>2. 63 - (k - 1 - Done) = Done + 64 - k
          BY <1>1
        <4>3. PadByte(k) = LengthByte(8 * Given, Done + 64 - k)
          BY <1>1, <2>1, <3>2
        <4>4. QED
          BY <2>1, <4>1, <4>2, <4>3
      <3>3. QED
        BY <3>1, <3>2
    <2> HIDE DEF PadByte
    <2>5. compressed' = [k \in 1 .. Done + 64 |-> compressed'[k]]
      BY <1>3, LenProperties DEF Done
    <2>6. compressed' = Pad(fed)
      BY <1>3, <2>3, <2>4, <2>5
    <2>7. UpdateInv'
      BY <1>2, <1>11 DEF IInv, UpdateInv, Compressing
    <2>8. FinalInv'
      BY <1>2, <1>11, <2>6 DEF FinalInv, PaddedAsFips, Compressing
    <2>9. QED
      BY <1>5, <1>7, <2>7, <2>8 DEF IInv, BLOCK
  <1>12. QED
    BY <1>6, <1>9, <1>10, <1>11

-----------------------------------------------------------------------------
LEMMA PieceType ==
  ASSUME IInv, NEW n \in Lengths, Len(fed) + n <= Len(Message)
  PROVE  Piece(n) \in Seq(Byte)
  <1>1. Given \in Nat /\ n \in Nat
    BY Counts, Sha256Assumption DEF IInv
  <1>2. Message \in [1 .. Len(Message) -> Byte] /\ Len(Message) \in Nat
    BY Sha256Assumption, LenProperties
  <1>3. \A i \in Given + 1 .. Given + n : Message[i] \in Byte
    BY <1>1, <1>2 DEF Given
  <1>4. SubSeq(Message, Given + 1, Given + n) \in Seq(Byte)
    BY <1>1, <1>3, SubSeqProperties
  <1>5. QED
    BY <1>4 DEF Piece, Given

LEMMA NextIInv == IInv /\ [Next]_vars => IInv'
  <1> SUFFICES ASSUME IInv, [Next]_vars PROVE IInv'
    OBVIOUS
  <1>1. CASE ShaInit
    BY <1>1, ShaInitIInv
  <1>2. CASE Final
    BY <1>2, FinalIInv
  <1>3. CASE Inside
    BY <1>3, UpdateByteIInv, UpdateRestIInv, EmptiedIInv, FinalNoRoomIInv, FinalLengthIInv,
       FinalDigestIInv, CompressEndIInv DEF Inside
  <1>4. ASSUME NEW n \in Lengths, Len(fed) + n <= Len(Message), Update(Piece(n))
        PROVE  IInv'
    BY <1>4, PieceType, UpdateIInv
  <1>5. CASE UNCHANGED vars
    <2>1. UNCHANGED <<compressed, leftover, fed, leftover_offset, bits_hashed, datalen, pc, ret>>
      BY <1>5 DEF vars, hash
    <2>2. UNCHANGED <<Done, Given>> /\ \A k : Streamed(k)' = Streamed(k)
      BY <2>1, StreamKept
    <2>3. QED
      BY <2>1, <2>2 DEF IInv, TypeOK, UpdateInv, FinalInv, PaddedAsFips, Compressing, Holds
  <1>6. QED
    BY <1>1, <1>2, <1>3, <1>4, <1>5 DEF Next

\* The inductive invariant of a hash, which includes the types of its state.
THEOREM Invariance == Spec => []IInv
  BY InitIInv, NextIInv, PTL DEF Spec

\* tc_sha256_update and tc_sha256_final compress the padded message, for every
\* message and whatever pieces it comes in.
THEOREM PadsAsFips == Spec => []PaddedAsFips
  <1>1. IInv => PaddedAsFips
    BY DEF IInv, FinalInv
  <1>2. QED
    BY Invariance, <1>1, PTL

\* leftover never overflows and holds exactly the bytes that compress has not had,
\* for every message and whatever pieces it comes in.
THEOREM SkipsNothing == Spec => []NothingSkipped
  <1>1. IInv => NothingSkipped
    <2> SUFFICES ASSUME IInv, pc \in {"open", "update"}
        PROVE  /\ leftover_offset < BLOCK
               /\ bits_hashed = 8 * Done
               /\ Done + leftover_offset + datalen = Given
               /\ \A k \in 1 .. Done + leftover_offset : Streamed(k) = fed[k]
      BY DEF NothingSkipped
    <2>1. /\ leftover_offset < BLOCK
          /\ bits_hashed = 8 * Done
          /\ Done + leftover_offset + datalen = Given
          /\ Holds(Done + leftover_offset)
      BY DEF IInv, UpdateInv
    <2>2. Done \in Nat /\ Given \in Nat
      BY Counts DEF IInv
    <2>3. datalen \in Nat /\ leftover_offset \in Nat
      BY DEF IInv, TypeOK, BLOCK
    <2>4. \A k \in 1 .. Done + leftover_offset : k <= Given
      BY <2>1, <2>2, <2>3
    <2>5. QED
      BY <2>1, <2>4 DEF Holds
  <1>2. QED
    BY Invariance, <1>1, PTL

-----------------------------------------------------------------------------
\* Words: addition modulo 2^32 is associative and commutative.

\* The bits that get a carry when a and b are added.
Carries(a, b) ==
  {i \in 1 .. 31 : \E j \in a \cap b : j < i /\ (j + 1) .. (i - 1) \subseteq a \cup b}

\* An odd number of three are true, or two of them at least.
Odd(p, q, r) == IF p THEN (q <=> r) ELSE (q <=> ~r)
Two(p, q, r) == (p /\ q) \/ ((p \/ q) /\ r)

\* Add is the sum of the two and their carries, bit by bit.
LEMMA AddBits ==
  ASSUME NEW a \in Word, NEW b \in Word
  PROVE  /\ Add(a, b) \in Word
         /\ \A i \in 0 .. 31 :
              i \in Add(a, b) <=> Odd(i \in a, i \in b, i \in Carries(a, b))
  <1>1. Add(a, b) = Xor(Xor(a, b), Carries(a, b))
    BY DEF Add, Carries
  <1>2. Carries(a, b) \subseteq 0 .. 31
    BY DEF Carries
  <1>3. Add(a, b) \in Word
    <2>1. a \subseteq 0 .. 31 /\ b \subseteq 0 .. 31
      BY DEF Word
    <2>2. Xor(Xor(a, b), Carries(a, b)) \subseteq 0 .. 31
      BY <1>2, <2>1, Zenon DEF Xor
    <2>3. QED
      BY <1>1, <2>2 DEF Word
  <1>4. ASSUME NEW i
        PROVE  i \in Xor(Xor(a, b), Carries(a, b)) <=>
                 Odd(i \in a, i \in b, i \in Carries(a, b))
    <2>1. i \in Xor(a, b) <=> (i \in a /\ i \notin b) \/ (i \in b /\ i \notin a)
      BY Zenon DEF Xor
    <2>2. i \in Xor(Xor(a, b), Carries(a, b)) <=>
            (i \in Xor(a, b) /\ i \notin Carries(a, b)) \/ (i \in Carries(a, b) /\ i \notin Xor(a, b))
      BY Zenon DEF Xor
    <2>3. QED
      BY <2>1, <2>2 DEF Odd
  <1>5. QED
    BY <1>1, <1>3, <1>4

\* The carries ripple from each bit to the next.
LEMMA CarriesRipple ==
  ASSUME NEW a \in Word, NEW b \in Word
  PROVE  /\ 0 \notin Carries(a, b)
         /\ \A i \in 0 .. 30 :
              (i + 1) \in Carries(a, b) <=>
                Two(i \in a, i \in b, i \in Carries(a, b))
  <1>1. 0 \notin Carries(a, b)
    BY DEF Carries
  <1>2. ASSUME NEW i \in 0 .. 30
        PROVE  (i + 1) \in Carries(a, b) <=>
                 Two(i \in a, i \in b, i \in Carries(a, b))
    <2>1. ASSUME NEW j \in a \cap b, j < i + 1, (j + 1) .. ((i + 1) - 1) \subseteq a \cup b
          PROVE  Two(i \in a, i \in b, i \in Carries(a, b))
      <3>1. j \in 0 .. 31
        BY DEF Word
      <3>2. CASE j = i
        BY <3>2 DEF Two
      <3>3. CASE j # i
        <4>1. j < i /\ i \in (j + 1) .. ((i + 1) - 1)
          BY <2>1, <3>1, <3>3
        <4>2. (j + 1) .. (i - 1) \subseteq (j + 1) .. ((i + 1) - 1)
          BY <3>1
        <4>3. (j + 1) .. (i - 1) \subseteq a \cup b
          BY <2>1, <4>2
        <4>4. i \in 1 .. 31
          BY <3>1, <4>1
        <4>5. i \in Carries(a, b) /\ i \in a \cup b
          BY <2>1, <4>1, <4>3, <4>4 DEF Carries
        <4>6. QED
          BY <4>5 DEF Two
      <3>4. QED
        BY <3>2, <3>3
    <2>2. ASSUME i \in a, i \in b PROVE (i + 1) \in Carries(a, b)
      <3>1. (i + 1) .. ((i + 1) - 1) \subseteq a \cup b /\ i < i + 1 /\ (i + 1) \in 1 .. 31
        OBVIOUS
      <3>2. QED
        BY <2>2, <3>1 DEF Carries
    <2>3. ASSUME i \in a \cup b, i \in Carries(a, b) PROVE (i + 1) \in Carries(a, b)
      <3>1. PICK j \in a \cap b : j < i /\ (j + 1) .. (i - 1) \subseteq a \cup b
        BY <2>3 DEF Carries
      <3>2. j \in 0 .. 31
        BY DEF Word
      <3>3. \A k \in (j + 1) .. ((i + 1) - 1) : k = i \/ k \in (j + 1) .. (i - 1)
        BY <3>2
      <3>4. (j + 1) .. ((i + 1) - 1) \subseteq a \cup b
        BY <2>3, <3>1, <3>3
      <3>5. j < i + 1 /\ (i + 1) \in 1 .. 31
        BY <3>1, <3>2
      <3>6. QED
        BY <3>4, <3>5 DEF Carries
    <2>4. (i + 1) \in Carries(a, b) =>
            \E j \in a \cap b : j < i + 1 /\ (j + 1) .. ((i + 1) - 1) \subseteq a \cup b
      BY DEF Carries
    <2>5. QED
      BY <2>1, <2>2, <2>3, <2>4 DEF Two
  <1>3. QED
    BY <1>1, <1>2

\* What holds of bit 0, and of each bit if it holds of the one before, holds of all.
LEMMA BitByBit ==
  ASSUME NEW T, 0 \in T, \A i \in 0 .. 30 : i \in T => (i + 1) \in T
  PROVE  \A i \in 0 .. 31 : i \in T
  <1>1. {0, 1, 2, 3, 4, 5, 6, 7} \subseteq T
    OBVIOUS
  <1>2. {8, 9, 10, 11, 12, 13, 14, 15} \subseteq T
    BY <1>1
  <1>3. {16, 17, 18, 19, 20, 21, 22, 23} \subseteq T
    BY <1>2
  <1>4. {24, 25, 26, 27, 28, 29, 30, 31} \subseteq T
    BY <1>3
  <1>5. QED
    BY <1>1, <1>2, <1>3, <1>4

\* Addition modulo 2^32 is commutative ...
LEMMA AddCommutes ==
  ASSUME NEW a, NEW b
  PROVE  Add(a, b) = Add(b, a)
  BY DEF Add, Xor

\* ... and associative: the carries of the two sums are the same number at each bit.
LEMMA AddAssociates ==
  ASSUME NEW a \in Word, NEW b \in Word, NEW c \in Word
  PROVE  Add(Add(a, b), c) = Add(a, Add(b, c))
  <1> DEFINE s == Add(a, b)
             u == Add(b, c)
             C1 == Carries(a, b)
             D1 == Carries(s, c)
             C2 == Carries(b, c)
             D2 == Carries(a, u)
             T == {i \in 0 .. 31 : /\ (i \in C1 /\ i \in D1) <=> (i \in C2 /\ i \in D2)
                                   /\ (i \in C1 \/ i \in D1) <=> (i \in C2 \/ i \in D2)}
  <1>1. s \in Word /\ u \in Word
    BY AddBits
  <1>2. \A i \in 0 .. 31 : /\ i \in s <=> Odd(i \in a, i \in b, i \in C1)
                           /\ i \in u <=> Odd(i \in b, i \in c, i \in C2)
    BY AddBits
  <1>3. \A i \in 0 .. 31 : /\ i \in Add(s, c) <=> Odd(i \in s, i \in c, i \in D1)
                           /\ i \in Add(a, u) <=> Odd(i \in a, i \in u, i \in D2)
    BY <1>1, AddBits
  <1>4. 0 \notin C1 /\ 0 \notin C2 /\ 0 \notin D1 /\ 0 \notin D2
    BY <1>1, CarriesRipple
  <1>5. \A i \in 0 .. 30 :
          /\ (i + 1) \in C1 <=> Two(i \in a, i \in b, i \in C1)
          /\ (i + 1) \in C2 <=> Two(i \in b, i \in c, i \in C2)
          /\ (i + 1) \in D1 <=> Two(i \in s, i \in c, i \in D1)
          /\ (i + 1) \in D2 <=> Two(i \in a, i \in u, i \in D2)
    BY <1>1, CarriesRipple
  <1> HIDE DEF s, u, C1, D1, C2, D2
  <1>6. \A i \in 0 .. 31 : i \in T
    <2>1. 0 \in T
      BY <1>4
    <2>2. ASSUME NEW i \in 0 .. 30, i \in T PROVE (i + 1) \in T
      <3>1. i \in 0 .. 31 /\ (i + 1) \in 0 .. 31
        OBVIOUS
      <3>2. /\ (i \in C1 /\ i \in D1) <=> (i \in C2 /\ i \in D2)
            /\ (i \in C1 \/ i \in D1) <=> (i \in C2 \/ i \in D2)
        BY <2>2
      <3>3. /\ ((i + 1) \in C1 /\ (i + 1) \in D1) <=> ((i + 1) \in C2 /\ (i + 1) \in D2)
            /\ ((i + 1) \in C1 \/ (i + 1) \in D1) <=> ((i + 1) \in C2 \/ (i + 1) \in D2)
        <4>1. /\ i \in s <=> Odd(i \in a, i \in b, i \in C1)
              /\ i \in u <=> Odd(i \in b, i \in c, i \in C2)
          BY <1>2, <3>1
        <4>2. /\ (i + 1) \in C1 <=> Two(i \in a, i \in b, i \in C1)
              /\ (i + 1) \in C2 <=> Two(i \in b, i \in c, i \in C2)
              /\ (i + 1) \in D1 <=> Two(i \in s, i \in c, i \in D1)
              /\ (i + 1) \in D2 <=> Two(i \in a, i \in u, i \in D2)
          BY <1>5
        <4>3. QED
          BY <3>2, <4>1, <4>2 DEF Odd, Two
      <3>4. QED
        BY <3>1, <3>3
    <2> HIDE DEF T
    <2>3. QED
      BY <2>1, <2>2, BitByBit
  <1>7. \A i \in 0 .. 31 : i \in Add(s, c) <=> i \in Add(a, u)
    BY <1>2, <1>3, <1>6 DEF Odd
  <1>8. Add(s, c) \in Word /\ Add(a, u) \in Word
    BY <1>1, AddBits
  <1>9. QED
    BY <1>7, <1>8 DEF s, u, Word

-----------------------------------------------------------------------------
\* Words: types.

\* All operators on words return words.
LEMMA AddType == \A a, b \in Word : Add(a, b) \in Word
  BY AddBits

\* ... so are exclusive ors,
LEMMA XorType == \A a, b \in Word : Xor(a, b) \in Word
  BY DEF Xor, Word

\* ... rotations
LEMMA RotrType == \A a \in Word, n \in 0 .. 31 : ROTR(a, n) \in Word
  BY DEF ROTR, Word

\* ... and shifts of words,
LEMMA ShrType == \A a \in Word, n \in 0 .. 31 : Shr(a, n) \in Word
  <1> SUFFICES ASSUME NEW a \in Word, NEW n \in 0 .. 31, NEW i \in a \ (0 .. n - 1)
               PROVE  i - n \in 0 .. 31
    BY DEF Shr, Word
  <1>1. i \in 0 .. 31
    BY DEF Word
  <1>2. QED
    BY <1>1

\* ... and so are the functions of FIPS 180-4, 4.1.2.
LEMMA WordTypes ==
  ASSUME NEW a \in Word, NEW b \in Word, NEW c \in Word
  PROVE  /\ sigma0(a) \in Word /\ sigma1(a) \in Word /\ Sigma0(a) \in Word /\ Sigma1(a) \in Word
         /\ Ch(a, b, c) \in Word /\ Maj(a, b, c) \in Word
  <1>1. sigma0(a) \in Word /\ sigma1(a) \in Word
    BY XorType, RotrType, ShrType DEF sigma0, sigma1
  <1>2. Sigma0(a) \in Word /\ Sigma1(a) \in Word
    BY XorType, RotrType DEF Sigma0, Sigma1
  <1>3. a \cap b \in Word /\ c \ a \in Word /\ a \cap c \in Word /\ b \cap c \in Word
    BY DEF Word
  <1>4. QED
    BY <1>1, <1>2, <1>3, XorType DEF Ch, Maj

\* Constants are words,
LEMMA HexType == \A hi, lo : Hex(hi, lo) \in Word
  BY DEF Hex, Half, Word

\* ... those of the rounds
LEMMA KType == k256 \in Seq(Word) /\ Len(k256) = 64
  BY HexType DEF k256

\* ... and the initial hash value.
LEMMA IvType == InitialIv \in Seq(Word) /\ Len(InitialIv) = 8
  BY HexType DEF InitialIv

\* Four bytes are a word.
LEMMA BigEndianType ==
  ASSUME NEW b, NEW at \in Int, \A i \in at .. at + 3 : b[i] \in Byte
  PROVE  BigEndian(b, at) \in Word
  <1> SUFFICES ASSUME NEW n \in 0 .. 3, NEW i \in b[at + 3 - n]
               PROVE  i + 8 * n \in 0 .. 31
    BY DEF BigEndian, Word
  <1>1. i \in 0 .. 7
    BY DEF Byte
  <1>2. QED
    BY <1>1

-----------------------------------------------------------------------------
\* The message schedule of a block.

\* A set of one element is chosen from.
LEMMA TheOne == \A x : The({x}) = x
  BY DEF The

\* A beginning of the message schedule of a block, or all of it.
IsSchedule(W, b) ==
  /\ W \in Seq(Word) /\ Len(W) >= 16
  /\ \A t \in 1 .. 16 : W[t] = BigEndian(b, 4 * t - 3)
  /\ \A t \in 17 .. Len(W) :
       W[t] = Add(Add(sigma1(W[t - 2]), W[t - 7]), Add(sigma0(W[t - 15]), W[t - 16]))

\* The next word continues it.
LEMMA LongerSchedule ==
  ASSUME NEW b, NEW W, IsSchedule(W, b)
  PROVE  IsSchedule(Longer(W), b) /\ Len(Longer(W)) = Len(W) + 1
  <1> DEFINE n == Len(W)
             t0 == n + 1
             w == Add(Add(sigma1(W[t0 - 2]), W[t0 - 7]), Add(sigma0(W[t0 - 15]), W[t0 - 16]))
             V == Append(W, w)
  <1>1. W \in Seq(Word) /\ n \in Nat /\ n >= 16
    BY LenProperties DEF IsSchedule
  <1>2. \A t \in 1 .. n : W[t] \in Word
    BY <1>1, ElementOfSeq
  <1>3. w \in Word
    <2>1. /\ t0 - 2 \in 1 .. n /\ t0 - 7 \in 1 .. n /\ t0 - 15 \in 1 .. n /\ t0 - 16 \in 1 .. n
      BY <1>1
    <2>2. W[t0 - 2] \in Word /\ W[t0 - 7] \in Word /\ W[t0 - 15] \in Word /\ W[t0 - 16] \in Word
      BY <1>2, <2>1
    <2>3. sigma1(W[t0 - 2]) \in Word /\ sigma0(W[t0 - 15]) \in Word
      BY <2>2, WordTypes
    <2>4. Add(sigma1(W[t0 - 2]), W[t0 - 7]) \in Word /\ Add(sigma0(W[t0 - 15]), W[t0 - 16]) \in Word
      BY <2>2, <2>3, AddType
    <2>5. QED
      BY <2>4, AddType
  <1>4. Longer(W) = V
    BY DEF Longer
  <1> HIDE DEF w
  <1>5. /\ V \in Seq(Word) /\ Len(V) = n + 1 /\ V[n + 1] = w
        /\ \A t \in 1 .. n : V[t] = W[t]
    BY <1>1, <1>3, AppendProperties
  <1> HIDE DEF V
  <1>6. \A t \in 1 .. 16 : V[t] = BigEndian(b, 4 * t - 3)
    <2> SUFFICES ASSUME NEW t \in 1 .. 16 PROVE V[t] = BigEndian(b, 4 * t - 3)
      OBVIOUS
    <2>1. t \in 1 .. n
      BY <1>1
    <2>2. W[t] = BigEndian(b, 4 * t - 3)
      BY DEF IsSchedule
    <2>3. QED
      BY <1>5, <2>1, <2>2
  <1>7. ASSUME NEW t \in 17 .. n + 1
        PROVE  V[t] = Add(Add(sigma1(V[t - 2]), V[t - 7]), Add(sigma0(V[t - 15]), V[t - 16]))
    <2>1. /\ t - 2 \in 1 .. n /\ t - 7 \in 1 .. n /\ t - 15 \in 1 .. n /\ t - 16 \in 1 .. n
      BY <1>1
    <2>2. V[t - 2] = W[t - 2] /\ V[t - 7] = W[t - 7] /\ V[t - 15] = W[t - 15] /\ V[t - 16] = W[t - 16]
      BY <1>5, <2>1
    <2>3. CASE t = n + 1
      BY <1>5, <2>2, <2>3 DEF w
    <2>4. CASE t # n + 1
      <3>1. t \in 17 .. n /\ t \in 1 .. n
        BY <1>1, <2>4
      <3>2. W[t] = Add(Add(sigma1(W[t - 2]), W[t - 7]), Add(sigma0(W[t - 15]), W[t - 16]))
        BY <3>1 DEF IsSchedule
      <3>3. V[t] = W[t]
        BY <1>5, <3>1
      <3>4. QED
        BY <2>2, <3>2, <3>3
    <2>5. QED
      BY <2>3, <2>4
  <1>8. IsSchedule(V, b)
    <2>1. Len(V) >= 16
      BY <1>1, <1>5
    <2>2. QED
      BY <1>5, <1>6, <1>7, <2>1 DEF IsSchedule
  <1>9. QED
    BY <1>4, <1>5, <1>8

\* Longer, twice as often each time.
Longer2(W)  == Twice(Longer, W)
Longer4(W)  == Twice(Longer2, W)
Longer8(W)  == Twice(Longer4, W)
Longer16(W) == Twice(Longer8, W)

\* Which adds 2, 4, 8 and 16 words.
LEMMA LongerTwice ==
  /\ \A W : Longer2(W) = Longer(Longer(W))
  /\ \A W : Longer4(W) = Longer2(Longer2(W))
  /\ \A W : Longer8(W) = Longer4(Longer4(W))
  /\ \A W : Longer16(W) = Longer8(Longer8(W))
  <1>1. \A W : Longer2(W) = Longer(Longer(W))
    BY TheOne DEF Longer2, Twice
  <1>2. \A W : Longer4(W) = Longer2(Longer2(W))
    BY TheOne DEF Longer4, Twice
  <1>3. \A W : Longer8(W) = Longer4(Longer4(W))
    BY TheOne DEF Longer8, Twice
  <1>4. \A W : Longer16(W) = Longer8(Longer8(W))
    BY TheOne DEF Longer16, Twice
  <1>5. QED
    BY <1>1, <1>2, <1>3, <1>4

\* The schedule of a block has 64 words.
LEMMA ScheduleIs ==
  ASSUME NEW b, \A i \in 1 .. 64 : b[i] \in Byte
  PROVE  IsSchedule(Schedule(b), b) /\ Len(Schedule(b)) = 64
  <1> DEFINE first == [t \in 1 .. 16 |-> BigEndian(b, 4 * t - 3)]
  <1>1. IsSchedule(first, b) /\ Len(first) = 16
    <2>1. \A t \in 1 .. 16 : BigEndian(b, 4 * t - 3) \in Word
      <3> SUFFICES ASSUME NEW t \in 1 .. 16 PROVE BigEndian(b, 4 * t - 3) \in Word
        OBVIOUS
      <3>1. 4 * t - 3 \in Int /\ \A i \in (4 * t - 3) .. (4 * t - 3) + 3 : i \in 1 .. 64
        OBVIOUS
      <3>2. QED
        BY <3>1, BigEndianType
    <2>2. first \in Seq(Word) /\ Len(first) = 16
      BY <2>1
    <2>3. QED
      BY <2>2 DEF IsSchedule
  <1>2. ASSUME NEW W, IsSchedule(W, b)
        PROVE  IsSchedule(Longer16(W), b) /\ Len(Longer16(W)) = Len(W) + 16
    <2> DEFINE Ext(V, n) == IsSchedule(V, b) /\ Len(V) = Len(W) + n
    <2>0. Len(W) \in Nat
      BY <1>2, LenProperties DEF IsSchedule
    <2>1. \A V : IsSchedule(V, b) => IsSchedule(Longer2(V), b) /\ Len(Longer2(V)) = Len(V) + 2
      <3> SUFFICES ASSUME NEW V, IsSchedule(V, b)
                   PROVE  IsSchedule(Longer2(V), b) /\ Len(Longer2(V)) = Len(V) + 2
        OBVIOUS
      <3>1. Len(V) \in Nat
        BY LenProperties DEF IsSchedule
      <3>2. IsSchedule(Longer(V), b) /\ Len(Longer(V)) = Len(V) + 1
        BY LongerSchedule
      <3>3. IsSchedule(Longer(Longer(V)), b) /\ Len(Longer(Longer(V))) = Len(Longer(V)) + 1
        BY <3>2, LongerSchedule
      <3>4. QED
        BY <3>1, <3>2, <3>3, LongerTwice
    <2>2. \A V : IsSchedule(V, b) => Len(V) \in Nat
      BY LenProperties DEF IsSchedule
    <2>3. \A V : IsSchedule(V, b) => IsSchedule(Longer4(V), b) /\ Len(Longer4(V)) = Len(V) + 4
      BY <2>1, <2>2, LongerTwice
    <2>4. \A V : IsSchedule(V, b) => IsSchedule(Longer8(V), b) /\ Len(Longer8(V)) = Len(V) + 8
      BY <2>2, <2>3, LongerTwice
    <2>5. \A V : IsSchedule(V, b) => IsSchedule(Longer16(V), b) /\ Len(Longer16(V)) = Len(V) + 16
      BY <2>2, <2>4, LongerTwice
    <2>6. QED
      BY <1>2, <2>5
  <1>3. Schedule(b) = Longer16(Longer16(Longer16(first)))
    <2>1. \A W : Sixteen(Longer, W) = Longer16(W)
      BY DEF Sixteen, Longer16, Longer8, Longer4, Longer2, Twice
    <2> DEFINE V == The({Sixteen(Longer, y) : y \in {Sixteen(Longer, first)}})
    <2>2. Schedule(b) = The({Sixteen(Longer, w) : w \in {V}})
      BY DEF Schedule, Twice
    <2>3. V = Longer16(Longer16(first))
      <3>1. {Sixteen(Longer, y) : y \in {Sixteen(Longer, first)}} = {Longer16(Longer16(first))}
        BY <2>1
      <3>2. QED
        BY <3>1, TheOne
    <2> HIDE DEF V
    <2>4. {Sixteen(Longer, w) : w \in {V}} = {Longer16(V)}
      BY <2>1
    <2>5. QED
      BY <2>2, <2>3, <2>4, TheOne
  <1> HIDE DEF first
  <1>4. IsSchedule(Longer16(first), b) /\ Len(Longer16(first)) = 16 + 16
    BY <1>1, <1>2, Zenon
  <1>5. /\ IsSchedule(Longer16(Longer16(first)), b)
        /\ Len(Longer16(Longer16(first))) = (16 + 16) + 16
    BY <1>2, <1>4, Zenon
  <1>6. /\ IsSchedule(Longer16(Longer16(Longer16(first))), b)
        /\ Len(Longer16(Longer16(Longer16(first)))) = ((16 + 16) + 16) + 16
    BY <1>2, <1>5, Zenon
  <1>7. ((16 + 16) + 16) + 16 = 64
    OBVIOUS
  <1>8. QED
    BY <1>3, <1>6, <1>7, Zenon

-----------------------------------------------------------------------------
\* The rounds of a block.

\* The working variables, and the number of the round, before each of the first n
\* rounds of the compression into H, and after them.
IsTrace(tr, H, W, n) ==
  /\ tr[0] = Append(H, 1)
  /\ \A i \in 0 .. n - 1 : tr[i + 1] = OneRound(tr[i], W)

\* OneRound, twice as often each time.
Rounds2(x, W)  == The({OneRound(y, W) : y \in {OneRound(x, W)}})
Rounds4(x, W)  == The({Rounds2(y, W) : y \in {Rounds2(x, W)}})
Rounds8(x, W)  == The({Rounds4(y, W) : y \in {Rounds4(x, W)}})
Rounds16(x, W) == The({Rounds8(y, W) : y \in {Rounds8(x, W)}})
Rounds32(x, W) == The({Rounds16(y, W) : y \in {Rounds16(x, W)}})
Rounds64(x, W) == The({Rounds32(y, W) : y \in {Rounds32(x, W)}})

\* Compressed is 64 rounds.
LEMMA CompressedRounds ==
  ASSUME NEW H, NEW b
  PROVE  Compressed(H, b) =
           [k \in 1 .. 8 |-> Add(H[k], Rounds64(Append(H, 1), Schedule(b))[k])]
  <1> DEFINE W == Schedule(b)
             With(X) == LET F(x)   == OneRound(x, X)
                            F16(x) == Sixteen(F, x)
                            F32(x) == Twice(F16, x)
                        IN Twice(F32, Append(H, 1))
             last == The({With(X) : X \in {Schedule(b)}})
  <1>1. \A X : With(X) = Rounds64(Append(H, 1), X)
    BY DEF Rounds64, Rounds32, Rounds16, Rounds8, Rounds4, Rounds2, Twice, Sixteen
  <1>2. Compressed(H, b) = [k \in 1 .. 8 |-> Add(H[k], last[k])]
    BY DEF Compressed
  <1> HIDE DEF With
  <1>3. last = Rounds64(Append(H, 1), Schedule(b))
    <2>1. {With(X) : X \in {Schedule(b)}} = {Rounds64(Append(H, 1), Schedule(b))}
      BY <1>1
    <2>2. QED
      BY <2>1, TheOne
  <1> HIDE DEF last
  <1>4. QED
    BY <1>2, <1>3

\* 64 rounds one after another are those of Compressed.
LEMMA TraceEnds ==
  ASSUME NEW tr, NEW H, NEW W, IsTrace(tr, H, W, 64)
  PROVE  Rounds64(Append(H, 1), W) = tr[64]
  <1>1. \A i \in 0 .. 63 : OneRound(tr[i], W) = tr[i + 1]
    <2>1. \A i \in 0 .. 64 - 1 : tr[i + 1] = OneRound(tr[i], W)
      BY Zenon DEF IsTrace
    <2>2. 64 - 1 = 63
      OBVIOUS
    <2>3. QED
      BY <2>1, <2>2, Zenon
  <1>2. \A i \in 0 .. 62 : Rounds2(tr[i], W) = tr[i + 2]
    <2> SUFFICES ASSUME NEW i \in 0 .. 62 PROVE Rounds2(tr[i], W) = tr[i + 2]
      OBVIOUS
    <2>1. Rounds2(tr[i], W) = OneRound(OneRound(tr[i], W), W)
      BY TheOne DEF Rounds2
    <2>2. i \in 0 .. 63 /\ i + 1 \in 0 .. 63 /\ (i + 1) + 1 = i + 2
      OBVIOUS
    <2>3. QED
      BY <1>1, <2>1, <2>2
  <1>3. \A i \in 0 .. 60 : Rounds4(tr[i], W) = tr[i + 4]
    <2> SUFFICES ASSUME NEW i \in 0 .. 60 PROVE Rounds4(tr[i], W) = tr[i + 4]
      OBVIOUS
    <2>1. Rounds4(tr[i], W) = Rounds2(Rounds2(tr[i], W), W)
      BY TheOne DEF Rounds4
    <2>2. i \in 0 .. 62 /\ i + 2 \in 0 .. 62 /\ (i + 2) + 2 = i + 4
      OBVIOUS
    <2>3. QED
      BY <1>2, <2>1, <2>2
  <1>4. \A i \in 0 .. 56 : Rounds8(tr[i], W) = tr[i + 8]
    <2> SUFFICES ASSUME NEW i \in 0 .. 56 PROVE Rounds8(tr[i], W) = tr[i + 8]
      OBVIOUS
    <2>1. Rounds8(tr[i], W) = Rounds4(Rounds4(tr[i], W), W)
      BY TheOne DEF Rounds8
    <2>2. i \in 0 .. 60 /\ i + 4 \in 0 .. 60 /\ (i + 4) + 4 = i + 8
      OBVIOUS
    <2>3. QED
      BY <1>3, <2>1, <2>2
  <1>5. \A i \in 0 .. 48 : Rounds16(tr[i], W) = tr[i + 16]
    <2> SUFFICES ASSUME NEW i \in 0 .. 48 PROVE Rounds16(tr[i], W) = tr[i + 16]
      OBVIOUS
    <2>1. Rounds16(tr[i], W) = Rounds8(Rounds8(tr[i], W), W)
      BY TheOne DEF Rounds16
    <2>2. i \in 0 .. 56 /\ i + 8 \in 0 .. 56 /\ (i + 8) + 8 = i + 16
      OBVIOUS
    <2>3. QED
      BY <1>4, <2>1, <2>2
  <1>6. Rounds32(tr[0], W) = tr[32] /\ Rounds32(tr[32], W) = tr[64]
    <2>1. \A x : Rounds32(x, W) = Rounds16(Rounds16(x, W), W)
      BY TheOne DEF Rounds32
    <2>2. /\ Rounds16(tr[0], W) = tr[0 + 16] /\ Rounds16(tr[16], W) = tr[16 + 16]
          /\ Rounds16(tr[32], W) = tr[32 + 16] /\ Rounds16(tr[48], W) = tr[48 + 16]
      BY <1>5
    <2>3. 0 + 16 = 16 /\ 16 + 16 = 32 /\ 32 + 16 = 48 /\ 48 + 16 = 64
      OBVIOUS
    <2>4. QED
      BY <2>1, <2>2, <2>3
  <1>7. Rounds64(tr[0], W) = Rounds32(Rounds32(tr[0], W), W)
    BY TheOne DEF Rounds64
  <1>8. QED
    BY <1>6, <1>7 DEF IsTrace

\* Both groupings of the sum of a word of the schedule, ...
LEMMA FourSum ==
  ASSUME NEW a \in Word, NEW b \in Word, NEW c \in Word, NEW d \in Word
  PROVE  Add(Add(a, b), Add(c, d)) = Add(Add(b, c), Add(a, d))
  <1>1. Add(b, c) \in Word /\ Add(c, d) \in Word
    BY AddType
  <1>2. Add(Add(a, b), Add(c, d)) = Add(a, Add(b, Add(c, d)))
    BY <1>1, AddAssociates
  <1>3. Add(b, Add(c, d)) = Add(Add(b, c), d)
    BY AddAssociates
  <1>4. Add(a, Add(Add(b, c), d)) = Add(Add(a, Add(b, c)), d)
    BY <1>1, AddAssociates
  <1>5. Add(a, Add(b, c)) = Add(Add(b, c), a)
    BY AddCommutes
  <1>6. Add(Add(Add(b, c), a), d) = Add(Add(b, c), Add(a, d))
    BY <1>1, AddAssociates
  <1>7. QED
    BY <1>2, <1>3, <1>4, <1>5, <1>6

\* ... and of that of a round.
LEMMA FiveSum ==
  ASSUME NEW a \in Word, NEW b \in Word, NEW c \in Word, NEW d \in Word, NEW e \in Word
  PROVE  Add(Add(Add(a, b), Add(c, d)), e) = Add(Add(Add(b, c), d), Add(e, a))
  <1>1. Add(b, c) \in Word /\ Add(a, d) \in Word /\ Add(d, a) \in Word /\ Add(a, e) \in Word
    BY AddType
  <1>2. Add(Add(a, b), Add(c, d)) = Add(Add(b, c), Add(d, a))
    BY FourSum, AddCommutes
  <1>3. Add(Add(b, c), Add(d, a)) = Add(Add(Add(b, c), d), a)
    BY <1>1, AddAssociates
  <1>4. Add(Add(b, c), d) \in Word
    BY <1>1, AddType
  <1>5. Add(Add(Add(Add(b, c), d), a), e) = Add(Add(Add(b, c), d), Add(a, e))
    BY <1>4, AddAssociates
  <1>6. Add(a, e) = Add(e, a)
    BY AddCommutes
  <1>7. QED
    BY <1>2, <1>3, <1>5, <1>6

-----------------------------------------------------------------------------
\* compress: the ring of 16 words.

\* The block that is in the buffer, as bytes 1 to 64.
Block == [k \in 1 .. 64 |-> leftover[k - 1]]

\* The ring of 16 words after n words of the schedule.
RingHolds(n, ws, W) == \A t \in 1 .. n : n - 16 < t => ws[(t - 1) % 16] = W[t]

\* In compress, the ring holds the last 16 words of the message schedule, and the
\* working variables are those after the rounds that are over.
InRound(t0, ws, x, W) ==
  /\ RingHolds(t0, ws, W)
  /\ \E tr : /\ IsTrace(tr, iv, W, t0)
             /\ tr[t0][9] = t0 + 1
             /\ \A k \in 1 .. 8 : tr[t0][k] = x[k]

RoundsInv ==
  /\ iv \in [1 .. 8 -> Word] /\ v \in [1 .. 8 -> Word]
  /\ work_space \in [0 .. 15 -> Word]
  /\ round \in 0 .. 64
  /\ pc = "compress" => InRound(round, work_space, v, Schedule(Block))

\* What a step of the schedule reads from the ring.
LEMMA RingReads ==
  ASSUME NEW r \in 16 .. 63, NEW ws, NEW W, RingHolds(r, ws, W)
  PROVE  /\ ws[(r + 1) % 16] = W[r - 14] /\ ws[(r + 14) % 16] = W[r - 1]
         /\ ws[(r + 9) % 16] = W[r - 6]  /\ ws[r % 16] = W[r - 15]
  <1>1. /\ (r - 15) % 16 = (r + 1) % 16 /\ (r - 2) % 16 = (r + 14) % 16
        /\ (r - 7) % 16 = (r + 9) % 16  /\ (r - 16) % 16 = r % 16
    OBVIOUS
  <1>2. /\ r - 14 \in 1 .. r /\ r - 16 < r - 14 /\ (r - 14) - 1 = r - 15
        /\ r - 1 \in 1 .. r /\ r - 16 < r - 1 /\ (r - 1) - 1 = r - 2
        /\ r - 6 \in 1 .. r /\ r - 16 < r - 6 /\ (r - 6) - 1 = r - 7
        /\ r - 15 \in 1 .. r /\ r - 16 < r - 15 /\ (r - 15) - 1 = r - 16
    OBVIOUS
  <1>3. /\ ws[((r - 14) - 1) % 16] = W[r - 14] /\ ws[((r - 1) - 1) % 16] = W[r - 1]
        /\ ws[((r - 6) - 1) % 16] = W[r - 6]   /\ ws[((r - 15) - 1) % 16] = W[r - 15]
    BY <1>2 DEF RingHolds
  <1>4. QED
    BY <1>1, <1>2, <1>3

\* The ring after a word is put in it.
LEMMA RingWrites ==
  ASSUME NEW r \in 0 .. 63, NEW ws \in [0 .. 15 -> Word], NEW W, NEW w \in Word,
         w = W[r + 1], RingHolds(r, ws, W)
  PROVE  /\ [ws EXCEPT ![r % 16] = w] \in [0 .. 15 -> Word]
         /\ RingHolds(r + 1, [ws EXCEPT ![r % 16] = w], W)
  <1> DEFINE ws2 == [ws EXCEPT ![r % 16] = w]
  <1>1. r % 16 \in 0 .. 15
    OBVIOUS
  <1>2. ws2 \in [0 .. 15 -> Word] /\ ws2[r % 16] = w /\ \A i \in 0 .. 15 : i # r % 16 => ws2[i] = ws[i]
    BY <1>1
  <1> HIDE DEF ws2
  <1>3. ASSUME NEW t \in 1 .. r + 1, (r + 1) - 16 < t
        PROVE  ws2[(t - 1) % 16] = W[t]
    <2>1. CASE t = r + 1
      BY <1>2, <2>1
    <2>2. CASE t # r + 1
      <3>1. t \in 1 .. r /\ r - 16 < t
        BY <1>3, <2>2
      <3>2. (t - 1) % 16 \in 0 .. 15 /\ (t - 1) % 16 # r % 16
        BY <1>3, <3>1
      <3>3. QED
        BY <1>2, <3>1, <3>2 DEF RingHolds
    <2>3. QED
      BY <2>1, <2>2
  <1>4. RingHolds(r + 1, ws2, W)
    BY <1>3 DEF RingHolds
  <1>5. QED
    BY <1>2, <1>4 DEF ws2

\* The word that a round puts there is the next one of the schedule.
LEMMA RoundWord ==
  ASSUME TypeOK, work_space \in [0 .. 15 -> Word], round \in 0 .. 63,
         RingHolds(round, work_space, Schedule(Block))
  PROVE  /\ Schedule(Block)[round + 1] \in Word
         /\ (IF round < 16 THEN BigEndian(leftover, 4 * round) ELSE Scheduled)
              = Schedule(Block)[round + 1]
  <1> DEFINE W == Schedule(Block)
  <1>0. leftover \in [0 .. 63 -> Byte]
    BY DEF TypeOK, BLOCK
  <1>1. \A i \in 1 .. 64 : Block[i] \in Byte /\ Block[i] = leftover[i - 1]
    BY <1>0 DEF Block
  <1>2. IsSchedule(W, Block) /\ Len(W) = 64
    BY <1>1, ScheduleIs
  <1>3. \A t \in 1 .. 64 : W[t] \in Word
    BY <1>2, ElementOfSeq DEF IsSchedule
  <1>4. CASE round < 16
    <2>1. round + 1 \in 1 .. 16 /\ 4 * (round + 1) - 3 = 4 * round + 1
      BY <1>4
    <2>2. W[round + 1] = BigEndian(Block, 4 * round + 1)
      <3>1. \A t \in 1 .. 16 : W[t] = BigEndian(Block, 4 * t - 3)
        BY <1>2 DEF IsSchedule
      <3>2. W[round + 1] = BigEndian(Block, 4 * (round + 1) - 3)
        BY <2>1, <3>1
      <3>3. QED
        BY <2>1, <3>2
    <2>3. ASSUME NEW n \in 0 .. 3
          PROVE  Block[4 * round + 1 + 3 - n] = leftover[4 * round + 3 - n]
      <3>1. /\ 4 * round + 1 + 3 - n \in 1 .. 64
            /\ (4 * round + 1 + 3 - n) - 1 = 4 * round + 3 - n
        BY <1>4
      <3>2. QED
        BY <1>1, <3>1
    <2>4. BigEndian(Block, 4 * round + 1) = BigEndian(leftover, 4 * round)
      <3> DEFINE F(n) == {i + 8 * n : i \in Block[4 * round + 1 + 3 - n]}
                 G(n) == {i + 8 * n : i \in leftover[4 * round + 3 - n]}
      <3>1. \A n \in 0 .. 3 : F(n) = G(n)
        BY <2>3
      <3>2. /\ BigEndian(Block, 4 * round + 1) = UNION {F(n) : n \in 0 .. 3}
            /\ BigEndian(leftover, 4 * round) = UNION {G(n) : n \in 0 .. 3}
        BY DEF BigEndian
      <3> HIDE DEF F, G
      <3>3. {F(n) : n \in 0 .. 3} = {G(n) : n \in 0 .. 3}
        BY <3>1
      <3>4. QED
        BY <3>2, <3>3
    <2>5. QED
      BY <1>3, <1>4, <2>1, <2>2, <2>4
  <1>5. CASE ~(round < 16)
    <2>1. round \in 16 .. 63
      BY <1>5
    <2> DEFINE w1 == work_space[(round + 1) % 16]
               w14 == work_space[(round + 14) % 16]
               w9 == work_space[(round + 9) % 16]
               w0 == work_space[round % 16]
    <2>2. w1 = W[round - 14] /\ w14 = W[round - 1] /\ w9 = W[round - 6] /\ w0 = W[round - 15]
      BY <2>1, RingReads
    <2>3. /\ round - 14 \in 1 .. 64 /\ round - 1 \in 1 .. 64 /\ round - 6 \in 1 .. 64
          /\ round - 15 \in 1 .. 64 /\ round + 1 \in 17 .. 64 /\ round + 1 \in 1 .. 64
          /\ (round + 1) - 2 = round - 1 /\ (round + 1) - 7 = round - 6
          /\ (round + 1) - 15 = round - 14 /\ (round + 1) - 16 = round - 15
      BY <2>1
    <2>4. w1 \in Word /\ w14 \in Word /\ w9 \in Word /\ w0 \in Word
      BY <1>3, <2>2, <2>3
    <2>5. W[round + 1] = Add(Add(sigma1(w14), w9), Add(sigma0(w1), w0))
      <3>1. \A t \in 17 .. 64 :
               W[t] = Add(Add(sigma1(W[t - 2]), W[t - 7]), Add(sigma0(W[t - 15]), W[t - 16]))
        BY <1>2 DEF IsSchedule
      <3>2. W[round + 1] = Add(Add(sigma1(W[(round + 1) - 2]), W[(round + 1) - 7]),
                               Add(sigma0(W[(round + 1) - 15]), W[(round + 1) - 16]))
        BY <2>3, <3>1
      <3>3. QED
        BY <2>2, <2>3, <3>2
    <2>6. Scheduled = Add(Add(sigma0(w1), sigma1(w14)), Add(w9, w0))
      BY DEF Scheduled
    <2> HIDE DEF w1, w14, w9, w0
    <2>7. sigma0(w1) \in Word /\ sigma1(w14) \in Word
      BY <2>4, WordTypes
    <2>8. Add(Add(sigma0(w1), sigma1(w14)), Add(w9, w0))
            = Add(Add(sigma1(w14), w9), Add(sigma0(w1), w0))
      BY <2>4, <2>7, FourSum
    <2>9. QED
      BY <1>3, <1>5, <2>3, <2>5, <2>6, <2>8
  <1>6. QED
    BY <1>4, <1>5

-----------------------------------------------------------------------------
\* compress: a round.

\* v after a round with word w, as the code adds it up.
NewT1(w) == Add(Add(Add(w, v[8]), Add(Sigma1(v[5]), Ch(v[5], v[6], v[7]))), k256[round + 1])
NewT2    == Add(Sigma0(v[1]), Maj(v[1], v[2], v[3]))
NewVariables(w) ==
  <<Add(NewT1(w), NewT2), v[1], v[2], v[3], Add(v[4], NewT1(w)), v[5], v[6], v[7]>>

\* The first sum of the code is that of FIPS 180-4.
LEMMA NewT1Is ==
  ASSUME NEW w \in Word, v[5] \in Word, v[6] \in Word, v[7] \in Word, v[8] \in Word,
         k256[round + 1] \in Word
  PROVE  NewT1(w) = Add(Add(Add(v[8], Sigma1(v[5])), Ch(v[5], v[6], v[7])),
                        Add(k256[round + 1], w))
  <1> DEFINE h == v[8]
             s == Sigma1(v[5])
             c == Ch(v[5], v[6], v[7])
             k == k256[round + 1]
  <1>1. h \in Word /\ s \in Word /\ c \in Word /\ k \in Word
    BY WordTypes
  <1>2. NewT1(w) = Add(Add(Add(w, h), Add(s, c)), k)
    BY DEF NewT1
  <1> HIDE DEF h, s, c, k
  <1>3. Add(Add(Add(w, h), Add(s, c)), k) = Add(Add(Add(h, s), c), Add(k, w))
    BY <1>1, FiveSum
  <1>4. QED
    BY <1>2, <1>3 DEF h, s, c, k

\* A round of the code is one of FIPS 180-4.
LEMMA RoundVariables ==
  ASSUME NEW w \in Word, v \in [1 .. 8 -> Word], round \in 0 .. 63,
         NEW x, \A k \in 1 .. 8 : x[k] = v[k], x[9] = round + 1,
         NEW W, W[round + 1] = w
  PROVE  /\ NewVariables(w) \in [1 .. 8 -> Word]
         /\ \A k \in 1 .. 8 : OneRound(x, W)[k] = NewVariables(w)[k]
         /\ OneRound(x, W)[9] = (round + 1) + 1
  <1> DEFINE t1 == NewT1(w)
             t2 == NewT2
  <1>1. /\ v[1] \in Word /\ v[2] \in Word /\ v[3] \in Word /\ v[4] \in Word
        /\ v[5] \in Word /\ v[6] \in Word /\ v[7] \in Word /\ v[8] \in Word
    OBVIOUS
  <1>2. k256[round + 1] \in Word
    <2>1. round + 1 \in 1 .. Len(k256)
      BY KType
    <2>2. QED
      BY <2>1, KType, ElementOfSeq
  <1>3. /\ x[1] = v[1] /\ x[2] = v[2] /\ x[3] = v[3] /\ x[4] = v[4]
        /\ x[5] = v[5] /\ x[6] = v[6] /\ x[7] = v[7] /\ x[8] = v[8]
    OBVIOUS
  <1> DEFINE S1 == Sigma1(v[5])
             C == Ch(v[5], v[6], v[7])
             S0 == Sigma0(v[1])
             M == Maj(v[1], v[2], v[3])
             K == k256[round + 1]
  <1>4. S1 \in Word /\ C \in Word /\ S0 \in Word /\ M \in Word
    BY <1>1, WordTypes
  <1>5. OneRound(x, W) =
          LET T1 == Add(Add(Add(v[8], S1), C), Add(K, w))
              T2 == Add(S0, M)
          IN <<Add(T1, T2), v[1], v[2], v[3], Add(v[4], T1), v[5], v[6], v[7], (round + 1) + 1>>
    BY <1>3, Zenon DEF OneRound
  <1>6. t1 = Add(Add(Add(w, v[8]), Add(S1, C)), K) /\ t2 = Add(S0, M)
    BY DEF NewT1, NewT2
  <1> HIDE DEF S1, C, S0, M, K, t1, t2
  <1>7. K \in Word
    BY <1>2 DEF K
  <1>8. t1 = Add(Add(Add(v[8], S1), C), Add(K, w))
    BY <1>1, <1>2, NewT1Is DEF t1, S1, C, K
  <1>9. t1 \in Word /\ t2 \in Word
    <2>1. Add(w, v[8]) \in Word /\ Add(S1, C) \in Word
      BY <1>1, <1>4, AddType
    <2>2. Add(Add(w, v[8]), Add(S1, C)) \in Word
      BY <2>1, AddType
    <2>3. QED
      BY <1>4, <1>6, <1>7, <2>2, AddType
  <1>10. OneRound(x, W) =
          <<Add(t1, t2), v[1], v[2], v[3], Add(v[4], t1), v[5], v[6], v[7], (round + 1) + 1>>
    BY <1>5, <1>6, <1>8, Zenon
  <1>11. Add(t1, t2) \in Word /\ Add(v[4], t1) \in Word
    BY <1>1, <1>9, AddType
  <1>12. NewVariables(w) = <<Add(t1, t2), v[1], v[2], v[3], Add(v[4], t1), v[5], v[6], v[7]>>
    BY DEF NewVariables, t1, t2
  <1>13. NewVariables(w) \in [1 .. 8 -> Word]
    BY <1>1, <1>11, <1>12
  <1>14. QED
    BY <1>10, <1>12, <1>13

\* A round of the code is the next one of the trace.
LEMMA RoundRoundsInv ==
  ASSUME IInv, RoundsInv, Round
  PROVE  RoundsInv'
  <1> DEFINE W == Schedule(Block)
             w == IF round < 16 THEN BigEndian(leftover, 4 * round) ELSE Scheduled
  <1>1. /\ pc = "compress" /\ round < 64
        /\ round' = round + 1
        /\ work_space' = [work_space EXCEPT ![round % 16] = w]
        /\ v' = NewVariables(w)
        /\ iv' = iv /\ leftover' = leftover /\ pc' = pc
    BY DEF Round, hash, NewVariables, NewT1, NewT2
  <1>2. round \in 0 .. 63
    BY <1>1 DEF RoundsInv
  <1>3. RingHolds(round, work_space, W)
    BY <1>1 DEF RoundsInv, InRound
  <1>4. work_space \in [0 .. 15 -> Word] /\ v \in [1 .. 8 -> Word] /\ iv \in [1 .. 8 -> Word]
    BY DEF RoundsInv
  <1>5. W[round + 1] \in Word /\ w = W[round + 1]
    BY <1>2, <1>3, <1>4, RoundWord DEF IInv
  <1>6. W' = W
    BY <1>1 DEF Block
  <1> HIDE DEF w, W
  <1>7. /\ work_space' \in [0 .. 15 -> Word]
        /\ RingHolds(round + 1, work_space', W)
    <2>1. /\ [work_space EXCEPT ![round % 16] = w] \in [0 .. 15 -> Word]
          /\ RingHolds(round + 1, [work_space EXCEPT ![round % 16] = w], W)
      BY <1>2, <1>3, <1>4, <1>5, RingWrites
    <2>2. QED
      BY <1>1, <2>1, Zenon
  <1>8. PICK tr : /\ IsTrace(tr, iv, W, round)
                  /\ tr[round][9] = round + 1
                  /\ \A k \in 1 .. 8 : tr[round][k] = v[k]
    BY <1>1 DEF RoundsInv, InRound, W
  <1> DEFINE x == tr[round]
             tr2 == [i \in 0 .. round + 1 |-> IF i <= round THEN tr[i] ELSE OneRound(x, W)]
  <1>9. /\ v' \in [1 .. 8 -> Word]
        /\ \A k \in 1 .. 8 : OneRound(x, W)[k] = v'[k]
        /\ OneRound(x, W)[9] = (round + 1) + 1
    <2>1. w \in Word /\ W[round + 1] = w
      BY <1>5
    <2>2. /\ NewVariables(w) \in [1 .. 8 -> Word]
          /\ \A k \in 1 .. 8 : OneRound(x, W)[k] = NewVariables(w)[k]
          /\ OneRound(x, W)[9] = (round + 1) + 1
      BY <1>2, <1>4, <1>8, <2>1, RoundVariables
    <2>3. QED
      BY <1>1, <2>2
  <1>10. IsTrace(tr2, iv, W, round + 1)
    <2>1. \A i \in 0 .. round : tr2[i] = tr[i]
      BY <1>2
    <2>2. tr2[round + 1] = OneRound(tr[round], W)
      BY <1>2
    <2> HIDE DEF tr2
    <2>3. tr2[0] = Append(iv, 1)
      BY <1>2, <1>8, <2>1 DEF IsTrace
    <2>4. ASSUME NEW i \in 0 .. (round + 1) - 1 PROVE tr2[i + 1] = OneRound(tr2[i], W)
      <3>1. CASE i = round
        BY <1>2, <2>1, <2>2, <3>1
      <3>2. CASE i # round
        <4>1. i \in 0 .. round - 1 /\ i + 1 \in 0 .. round /\ i \in 0 .. round
          BY <1>2, <3>2
        <4>2. tr[i + 1] = OneRound(tr[i], W)
          BY <1>8, <4>1 DEF IsTrace
        <4>3. QED
          BY <2>1, <4>1, <4>2
      <3>3. QED
        BY <3>1, <3>2
    <2>5. QED
      BY <2>3, <2>4 DEF IsTrace
  <1>11. tr2[round + 1] = OneRound(x, W)
    BY <1>2
  <1> HIDE DEF tr2, x
  <1>12. (InRound(round, work_space, v, W))'
    <2>1. \E tr3 : /\ IsTrace(tr3, iv, W, round + 1)
                   /\ tr3[round + 1][9] = (round + 1) + 1
                   /\ \A k \in 1 .. 8 : tr3[round + 1][k] = v'[k]
      BY <1>9, <1>10, <1>11
    <2>2. InRound(round + 1, work_space', v', W)
      BY <1>7, <2>1 DEF InRound
    <2>3. QED
      BY <1>1, <1>6, <2>2 DEF InRound
  <1>13. QED
    BY <1>1, <1>2, <1>4, <1>7, <1>9, <1>12 DEF RoundsInv, W

-----------------------------------------------------------------------------
\* compress: its first step and its last.

\* The types of what the state is set to.
LEMMA WordFunctions ==
  /\ Zero \in Word
  /\ InitialIv \in [1 .. 8 -> Word]
  /\ Unset \in [0 .. 15 -> Word]
  <1>1. Zero \in Word
    BY DEF Zero, Word
  <1>2. InitialIv \in [1 .. 8 -> Word]
    BY IvType, LenProperties
  <1>3. QED
    BY <1>1, <1>2 DEF Unset

\* The invariant of the rounds: it holds at first, ...
LEMMA InitRoundsInv == Init => RoundsInv
  BY WordFunctions DEF Init, RoundsInv

\* The working variables start as the iv, in round 1.
LEMMA IvAndRound ==
  ASSUME NEW H \in [1 .. 8 -> Word]
  PROVE  /\ Append(H, 1)[9] = 1
         /\ \A k \in 1 .. 8 : Append(H, 1)[k] = H[k]
  <1> DEFINE G == [k \in 1 .. 8 |-> H[k]]
             S == Word \cup {1}
  <1>1. G = H
    OBVIOUS
  <1>2. \A k \in 1 .. 8 : H[k] \in S
    OBVIOUS
  <1>3. 1 \in S
    OBVIOUS
  <1> HIDE DEF S
  <1>4. G \in Seq(S) /\ Len(G) = 8
    BY <1>2
  <1> HIDE DEF G
  <1>5. G \in Seq(S)
    BY <1>4
  <1>6. Append(G, 1)[9] = 1 /\ \A k \in 1 .. 8 : Append(G, 1)[k] = G[k]
    <2>1. Append(G, 1)[Len(G) + 1] = 1
      BY <1>3, <1>5, AppendProperties, Zenon
    <2>2. \A k \in 1 .. Len(G) : Append(G, 1)[k] = G[k]
      <3>1. ASSUME NEW k \in 1 .. Len(G) PROVE Append(G, 1)[k] = G[k]
        BY <1>3, <1>5, AppendProperties, SMT
      <3>2. QED
        BY <3>1
    <2>3. Len(G) = 8 /\ 8 + 1 = 9
      BY <1>4
    <2>4. QED
      BY <2>1, <2>2, <2>3, Zenon
  <1>7. QED
    BY <1>1, <1>6, Zenon

\* compress starts with the iv.
LEMMA CompressRoundsInv ==
  ASSUME RoundsInv, NEW from, NEW to, Compress(from, to), UNCHANGED iv
  PROVE  RoundsInv'
  <1>1. round' = 0 /\ v' = iv /\ work_space' = work_space /\ iv' = iv
    BY DEF Compress
  <1>2. (RingHolds(round, work_space, Schedule(Block)))'
    <2> DEFINE W == Schedule(Block)'
    <2>1. RingHolds(0, work_space', W)
      BY DEF RingHolds
    <2>2. QED
      BY <1>1, <2>1
  <1> DEFINE tr == [i \in {0} |-> Append(iv, 1)]
             W == Schedule(Block)'
  <1> HIDE DEF W
  <1>3. IsTrace(tr, iv, W, 0)
    BY DEF IsTrace
  <1>4. tr[0][9] = 0 + 1 /\ \A k \in 1 .. 8 : tr[0][k] = v'[k]
    <2>1. iv \in [1 .. 8 -> Word]
      BY DEF RoundsInv
    <2>2. Append(iv, 1)[9] = 1 /\ \A k \in 1 .. 8 : Append(iv, 1)[k] = iv[k]
      BY <2>1, IvAndRound
    <2>3. tr[0] = Append(iv, 1)
      OBVIOUS
    <2>4. 0 + 1 = 1
      OBVIOUS
    <2>5. QED
      BY <1>1, <2>2, <2>3, <2>4, Zenon
  <1> HIDE DEF tr
  <1>5. (InRound(round, work_space, v, Schedule(Block)))'
    BY <1>1, <1>2, <1>3, <1>4 DEF InRound, W
  <1>6. QED
    BY <1>1, <1>5 DEF RoundsInv

\* What compress adds to the iv is what FIPS 180-4 adds.
LEMMA CompressEndIv ==
  ASSUME IInv, RoundsInv, CompressEnd
  PROVE  iv' = Compressed(iv, Block) /\ RoundsInv'
  <1> DEFINE W == Schedule(Block)
  <1>1. /\ round = 64 /\ pc = "compress" /\ pc' = ret
        /\ iv' = [k \in 1 .. 8 |-> Add(iv[k], v[k])]
        /\ round' = 0 /\ v' = InitialIv /\ work_space' = Unset
    BY DEF CompressEnd, Goto
  <1>2. PICK tr : /\ IsTrace(tr, iv, W, 64)
                  /\ \A k \in 1 .. 8 : tr[64][k] = v[k]
    BY <1>1 DEF RoundsInv, InRound
  <1>3. Rounds64(Append(iv, 1), W) = tr[64]
    BY <1>2, TraceEnds
  <1>4. Compressed(iv, Block) = [k \in 1 .. 8 |-> Add(iv[k], tr[64][k])]
    BY <1>3, CompressedRounds
  <1>5. iv' = Compressed(iv, Block)
    BY <1>1, <1>2, <1>4
  <1>6. iv' \in [1 .. 8 -> Word]
    <2>1. \A k \in 1 .. 8 : Add(iv[k], v[k]) \in Word
      BY AddType DEF RoundsInv
    <2>2. QED
      BY <1>1, <2>1
  <1>7. pc' # "compress"
    BY <1>1 DEF IInv, TypeOK
  <1>8. RoundsInv'
    BY <1>1, <1>6, <1>7, WordFunctions DEF RoundsInv
  <1>9. QED
    BY <1>5, <1>8

\* ... what the functions do keeps it,
LEMMA InsideRoundsInv == IInv /\ RoundsInv /\ Inside => RoundsInv'
  <1> SUFFICES ASSUME IInv, RoundsInv, Inside PROVE RoundsInv'
    OBVIOUS
  <1>1. CASE UpdateByte
    BY <1>1 DEF UpdateByte, RoundsInv, rounds
  <1>2. CASE UpdateFull
    BY <1>2, CompressRoundsInv DEF UpdateFull, hash
  <1>3. CASE UpdateEmptied
    BY <1>3 DEF UpdateEmptied, RoundsInv, rounds, Goto
  <1>4. CASE UpdateEnd
    BY <1>4 DEF UpdateEnd, RoundsInv, rounds, hash, Goto
  <1>5. CASE FinalNoRoom
    BY <1>5, CompressRoundsInv DEF FinalNoRoom
  <1>6. CASE FinalEmptied
    BY <1>6 DEF FinalEmptied, RoundsInv, rounds, Goto
  <1>7. CASE FinalLength
    BY <1>7, CompressRoundsInv DEF FinalLength
  <1>8. CASE FinalDigest
    BY <1>8, WordFunctions DEF FinalDigest, RoundsInv, rounds, Goto, Wiped
  <1>9. CASE Round
    BY <1>9, RoundRoundsInv
  <1>10. CASE CompressEnd
    BY <1>10, CompressEndIv
  <1>11. QED
    BY <1>1, <1>2, <1>3, <1>4, <1>5, <1>6, <1>7, <1>8, <1>9, <1>10 DEF Inside

\* ... and so do the calls of them.
LEMMA CallRoundsInv ==
  ASSUME RoundsInv, ShaInit \/ Final \/ \E data : Update(data)
  PROVE  RoundsInv'
  <1>1. CASE ShaInit
    BY <1>1, WordFunctions DEF ShaInit, RoundsInv, rounds, Goto, Wiped
  <1>2. CASE Final
    BY <1>2 DEF Final, RoundsInv, rounds, Goto
  <1>3. CASE \E data : Update(data)
    BY <1>3 DEF Update, RoundsInv, rounds, hash, Goto
  <1>4. QED
    BY <1>1, <1>2, <1>3

-----------------------------------------------------------------------------
\* Block n of m, and the hash values between the blocks of m.
BlockOf(m, n) == SubSeq(m, BLOCK * (n - 1) + 1, BLOCK * n)

IsChain(c, m) ==
  c = [n \in 0 .. Len(m) \div BLOCK |->
         IF n = 0 THEN InitialIv ELSE The({Compressed(H, BlockOf(m, n)) : H \in {c[n - 1]}})]

\* h is the one after the last block.
Chained(h, m) ==
  /\ \E c : IsChain(c, m)
  /\ \A c : IsChain(c, m) => c[Len(m) \div BLOCK] = h

\* A chain, with the choice from one value made.
LEMMA ChainDef ==
  ASSUME NEW m, NEW c, Len(m) \in Nat
  PROVE  IsChain(c, m) <=>
           c = [n \in 0 .. Len(m) \div 64 |->
                  IF n = 0 THEN InitialIv ELSE Compressed(c[n - 1], BlockOf(m, n))]
  <1>1. \A n : The({Compressed(H, BlockOf(m, n)) : H \in {c[n - 1]}})
               = Compressed(c[n - 1], BlockOf(m, n))
    <2> SUFFICES ASSUME NEW n
        PROVE The({Compressed(H, BlockOf(m, n)) : H \in {c[n - 1]}})
               = Compressed(c[n - 1], BlockOf(m, n))
      OBVIOUS
    <2>1. {Compressed(H, BlockOf(m, n)) : H \in {c[n - 1]}} = {Compressed(c[n - 1], BlockOf(m, n))}
      OBVIOUS
    <2>2. QED
      BY <2>1, TheOne
  <1>2. [n \in 0 .. Len(m) \div 64 |->
           IF n = 0 THEN InitialIv ELSE The({Compressed(H, BlockOf(m, n)) : H \in {c[n - 1]}})]
        = [n \in 0 .. Len(m) \div 64 |->
             IF n = 0 THEN InitialIv ELSE Compressed(c[n - 1], BlockOf(m, n))]
    BY <1>1
  <1>3. QED
    BY <1>2 DEF IsChain, BLOCK

\* Before any block, the hash value is the initial one.
LEMMA ChainedNothing == Chained(InitialIv, <<>>)
  <1>1. Len(<<>>) = 0 /\ 0 \div 64 = 0 /\ 0 \in Nat
    OBVIOUS
  <1>2. \A c : IsChain(c, <<>>) <=>
           c = [n \in 0 .. 0 |->
                  IF n = 0 THEN InitialIv ELSE Compressed(c[n - 1], BlockOf(<<>>, n))]
    <2>1. \A c : IsChain(c, <<>>) <=>
             c = [n \in 0 .. Len(<<>>) \div 64 |->
                    IF n = 0 THEN InitialIv ELSE Compressed(c[n - 1], BlockOf(<<>>, n))]
      <3>1. Len(<<>>) \in Nat
        OBVIOUS
      <3>2. QED
        BY <3>1, ChainDef
    <2>2. Len(<<>>) \div 64 = 0
      OBVIOUS
    <2>3. QED
      BY <2>1, <2>2, Zenon
  <1> DEFINE c0 == [n \in 0 .. 0 |-> InitialIv]
  <1>3. \A c : [n \in 0 .. 0 |->
                  IF n = 0 THEN InitialIv ELSE Compressed(c[n - 1], BlockOf(<<>>, n))] = c0
    OBVIOUS
  <1>4. \A c : IsChain(c, <<>>) <=> c = c0
    BY <1>2, <1>3
  <1>5. c0[0] = InitialIv
    OBVIOUS
  <1> HIDE DEF c0
  <1>6. QED
    BY <1>1, <1>4, <1>5 DEF Chained, BLOCK

\* Theorems of the library, for bytes.
LEMMA BytesJoin ==
  ASSUME NEW s \in Seq(Byte), NEW t \in Seq(Byte)
  PROVE  /\ s \o t \in Seq(Byte)
         /\ Len(s \o t) = Len(s) + Len(t)
         /\ \A i \in 1 .. Len(s) + Len(t) :
              (s \o t)[i] = IF i <= Len(s) THEN s[i] ELSE t[i - Len(s)]
  BY ConcatProperties, Zenon

\* ... and for a part of bytes.
LEMMA BytesPart ==
  ASSUME NEW s, NEW lo \in Int, NEW hi \in Int, \A i \in lo .. hi : s[i] \in Byte
  PROVE  /\ SubSeq(s, lo, hi) \in Seq(Byte)
         /\ Len(SubSeq(s, lo, hi)) = IF lo <= hi THEN hi - lo + 1 ELSE 0
         /\ \A i \in 1 .. hi - lo + 1 : SubSeq(s, lo, hi)[i] = s[lo + i - 1]
  BY SubSeqProperties, SMT

Taken(s, lo)   == [i \in 1 .. 64 |-> s[lo + i - 1]]
BytesAt(s, lo) == \A i \in lo .. lo + 63 : s[i] \in Byte

\* A part of 64 bytes is the function it looks like.
LEMMA SubSeq64 ==
  ASSUME NEW s, NEW lo \in Int, BytesAt(s, lo)
  PROVE  SubSeq(s, lo, lo + 63) = Taken(s, lo)
  <1> DEFINE hi == lo + 63
  <1>1. hi \in Int /\ lo <= hi /\ hi - lo + 1 = 64
    OBVIOUS
  <1>0. \A i \in lo .. hi : s[i] \in Byte
    BY DEF BytesAt
  <1> HIDE DEF hi
  <1> DEFINE p == SubSeq(s, lo, hi)
  <1>2. p \in Seq(Byte) /\ Len(p) = 64 /\ \A i \in 1 .. 64 : p[i] = s[lo + i - 1]
    BY <1>0, <1>1, BytesPart
  <1> HIDE DEF p
  <1>3. p = [i \in 1 .. 64 |-> p[i]]
    BY <1>2, LenProperties
  <1>4. p = [i \in 1 .. 64 |-> s[lo + i - 1]]
    BY <1>2, <1>3
  <1>5. QED
    BY <1>4 DEF p, hi, Taken

\* What blocks m and m \o b have.
LEMMA BlocksOfMore ==
  ASSUME NEW m \in Seq(Byte), NEW N \in Nat, Len(m) = 64 * N,
         NEW b \in Seq(Byte), Len(b) = 64
  PROVE  /\ Len(m \o b) = 64 * (N + 1)
         /\ \A n \in 1 .. N : BlockOf(m \o b, n) = BlockOf(m, n)
         /\ BlockOf(m \o b, N + 1) = b
  <1> DEFINE mb2 == m \o b
  <1>1. /\ mb2 \in Seq(Byte)
        /\ Len(mb2) = Len(m) + Len(b)
        /\ \A i \in 1 .. Len(m) + Len(b) :
             mb2[i] = IF i <= Len(m) THEN m[i] ELSE b[i - Len(m)]
    BY BytesJoin
  <1> HIDE DEF mb2
  <1>2. /\ Len(mb2) = 64 * N + 64
        /\ \A i \in 1 .. 64 * N + 64 : mb2[i] \in Byte
        /\ \A i \in 1 .. 64 * N : m[i] \in Byte /\ mb2[i] = m[i]
        /\ \A i \in 1 .. 64 : mb2[64 * N + i] = b[i]
    <2>1. Len(mb2) = 64 * N + 64
      BY <1>1
    <2>2. \A i \in 1 .. 64 * N + 64 : mb2[i] \in Byte
      BY <1>1, <2>1, ElementOfSeq
    <2>3. \A i \in 1 .. 64 * N : m[i] \in Byte
      BY ElementOfSeq
    <2>4. \A i \in 1 .. 64 * N : mb2[i] = m[i]
      BY <1>1
    <2>5. \A i \in 1 .. 64 : mb2[64 * N + i] = b[i]
      BY <1>1
    <2>6. QED
      BY <2>1, <2>2, <2>3, <2>4, <2>5
  <1>3. ASSUME NEW n \in 1 .. N PROVE BlockOf(mb2, n) = BlockOf(m, n)
    <2> DEFINE lo == 64 * (n - 1) + 1
    <2>1. /\ lo \in Int
          /\ \A i \in lo .. lo + 63 : i \in 1 .. 64 * N /\ i \in 1 .. 64 * N + 64
          /\ \A i \in 1 .. 64 : lo + i - 1 \in 1 .. 64 * N
          /\ 64 * n = lo + 63
      OBVIOUS
    <2> HIDE DEF lo
    <2>2. BytesAt(m, lo) /\ BytesAt(mb2, lo)
      BY <1>2, <2>1 DEF BytesAt
    <2>3. lo \in Int
      BY <2>1
    <2>4. /\ SubSeq(m, lo, lo + 63) = Taken(m, lo)
          /\ SubSeq(mb2, lo, lo + 63) = Taken(mb2, lo)
      BY <2>2, <2>3, SubSeq64
    <2>5. \A i \in 1 .. 64 : mb2[lo + i - 1] = m[lo + i - 1]
      BY <1>2, <2>1
    <2>6. Taken(m, lo) = Taken(mb2, lo)
      BY <2>5 DEF Taken
    <2>7. SubSeq(mb2, lo, 64 * n) = SubSeq(m, lo, 64 * n)
      BY <2>1, <2>4, <2>6
    <2>8. QED
      BY <2>7 DEF BlockOf, BLOCK, lo
  <1>4. BlockOf(mb2, N + 1) = b
    <2> DEFINE lo == 64 * N + 1
    <2>1. /\ lo \in Int
          /\ \A i \in lo .. lo + 63 : i \in 1 .. 64 * N + 64
          /\ \A i \in 1 .. 64 : lo + i - 1 = 64 * N + i
      OBVIOUS
    <2>2. 64 * ((N + 1) - 1) + 1 = lo /\ 64 * (N + 1) = lo + 63
      OBVIOUS
    <2> HIDE DEF lo
    <2>3. BytesAt(mb2, lo) /\ lo \in Int
      BY <1>2, <2>1 DEF BytesAt
    <2>4. SubSeq(mb2, lo, lo + 63) = Taken(mb2, lo)
      BY <2>3, SubSeq64
    <2>5. \A i \in 1 .. 64 : mb2[lo + i - 1] = b[i]
      BY <1>2, <2>1
    <2>6. Taken(mb2, lo) = b
      <3>1. b = [i \in 1 .. 64 |-> b[i]]
        BY LenProperties
      <3>2. QED
        BY <2>5, <3>1 DEF Taken
    <2>7. QED
      BY <2>2, <2>4, <2>6 DEF BlockOf, BLOCK
  <1>5. QED
    BY <1>2, <1>3, <1>4 DEF mb2

\* A chain of N blocks.
ChainOf(c, m, N) ==
  c = [n \in 0 .. N |-> IF n = 0 THEN InitialIv ELSE Compressed(c[n - 1], BlockOf(m, n))]

\* The length of a chain, and the chain, for a message of N blocks.
LEMMA ChainIs ==
  ASSUME NEW m, NEW N \in Nat, Len(m) = 64 * N
  PROVE  /\ Len(m) \div BLOCK = N
         /\ \A c : IsChain(c, m) <=> ChainOf(c, m, N)
  <1>1. Len(m) \in Nat /\ Len(m) \div 64 = N
    OBVIOUS
  <1>2. ASSUME NEW c PROVE IsChain(c, m) <=> ChainOf(c, m, N)
    <2>1. IsChain(c, m) <=>
           c = [n \in 0 .. Len(m) \div 64 |->
                  IF n = 0 THEN InitialIv ELSE Compressed(c[n - 1], BlockOf(m, n))]
      BY <1>1, ChainDef
    <2>2. QED
      BY <1>1, <2>1, Zenon DEF ChainOf
  <1>3. QED
    BY <1>1, <1>2 DEF BLOCK

\* The hash value after one more block.
LEMMA ChainedMore ==
  ASSUME NEW m \in Seq(Byte), Len(m) % 64 = 0, NEW b \in Seq(Byte), Len(b) = 64,
         NEW h, Chained(h, m)
  PROVE  Chained(Compressed(h, b), m \o b)
  <1> DEFINE N == Len(m) \div 64
             m2 == m \o b
             h2 == Compressed(h, b)
  <1>1. N \in Nat /\ Len(m) = 64 * N
    BY LenProperties
  <1> HIDE DEF N
  <1>2. /\ Len(m2) = 64 * (N + 1)
        /\ \A n \in 1 .. N : BlockOf(m2, n) = BlockOf(m, n)
        /\ BlockOf(m2, N + 1) = b
    BY <1>1, BlocksOfMore
  <1> HIDE DEF m2
  <1>3. /\ Len(m) \div BLOCK = N
        /\ \A c : IsChain(c, m) <=> ChainOf(c, m, N)
    BY <1>1, ChainIs
  <1>4. /\ Len(m2) \div BLOCK = N + 1
        /\ \A c : IsChain(c, m2) <=> ChainOf(c, m2, N + 1)
    <2>1. N + 1 \in Nat /\ Len(m2) = 64 * (N + 1)
      BY <1>1, <1>2
    <2>2. QED
      BY <2>1, ChainIs
  <1>5. PICK c : ChainOf(c, m, N)
    BY <1>3 DEF Chained
  <1>6. c[N] = h
    BY <1>3, <1>5 DEF Chained
  <1> DEFINE c2 == [n \in 0 .. N + 1 |-> IF n <= N THEN c[n] ELSE h2]
  <1>7. ChainOf(c2, m2, N + 1)
    <2>1. c[0] = InitialIv /\ \A n \in 1 .. N : c[n] = Compressed(c[n - 1], BlockOf(m, n))
      BY <1>1, <1>5 DEF ChainOf
    <2>2. (\A n \in 0 .. N : c2[n] = c[n]) /\ c2[N + 1] = h2
      BY <1>1
    <2> DEFINE G(n) == IF n = 0 THEN InitialIv ELSE Compressed(c2[n - 1], BlockOf(m2, n))
    <2> HIDE DEF c2
    <2>3. ASSUME NEW n \in 0 .. N + 1 PROVE c2[n] = G(n)
      <3>1. CASE n = 0
        BY <1>1, <2>1, <2>2, <3>1
      <3>2. CASE n \in 1 .. N
        <4>1. n - 1 \in 0 .. N /\ n \in 0 .. N /\ n # 0
          BY <1>1, <3>2
        <4>2. c2[n] = Compressed(c2[n - 1], BlockOf(m2, n))
          BY <1>2, <2>1, <2>2, <3>2, <4>1
        <4>3. QED
          BY <4>1, <4>2
      <3>3. CASE n = N + 1
        <4>1. n - 1 = N /\ n # 0 /\ N \in 0 .. N
          BY <1>1, <3>3
        <4>2. c2[n] = Compressed(c2[n - 1], BlockOf(m2, n))
          BY <1>2, <1>6, <2>2, <3>3, <4>1
        <4>3. QED
          BY <4>1, <4>2
      <3>4. QED
        BY <1>1, <3>1, <3>2, <3>3
    <2>4. c2 = [n \in 0 .. N + 1 |-> c2[n]]
      BY DEF c2
    <2> HIDE DEF G
    <2>5. c2 = [n \in 0 .. N + 1 |-> G(n)]
      BY <2>3, <2>4
    <2>6. QED
      BY <2>5 DEF ChainOf, G
  <1>8. ASSUME NEW d, ChainOf(d, m2, N + 1) PROVE d[N + 1] = h2
    <2>1. d[0] = InitialIv /\ \A n \in 1 .. N + 1 : d[n] = Compressed(d[n - 1], BlockOf(m2, n))
      BY <1>1, <1>8 DEF ChainOf
    <2> DEFINE e == [n \in 0 .. N |-> d[n]]
               G(n) == IF n = 0 THEN InitialIv ELSE Compressed(e[n - 1], BlockOf(m, n))
    <2>2. \A n \in 0 .. N : e[n] = d[n]
      OBVIOUS
    <2> HIDE DEF e
    <2>3. ASSUME NEW n \in 0 .. N PROVE d[n] = G(n)
      <3>1. CASE n = 0
        BY <2>1, <3>1
      <3>2. CASE n # 0
        <4>1. n \in 1 .. N /\ n \in 1 .. N + 1 /\ n - 1 \in 0 .. N
          BY <1>1, <3>2
        <4>2. QED
          BY <1>2, <2>1, <2>2, <3>2, <4>1
      <3>3. QED
        BY <3>1, <3>2
    <2> HIDE DEF G
    <2>4. e = [n \in 0 .. N |-> G(n)]
      BY <2>3 DEF e
    <2>5. ChainOf(e, m, N)
      BY <2>4 DEF ChainOf, G
    <2>6. e[N] = h
      BY <1>3, <2>5 DEF Chained
    <2>7. N \in 0 .. N /\ N + 1 \in 1 .. N + 1 /\ (N + 1) - 1 = N
      BY <1>1
    <2>8. QED
      BY <1>2, <2>1, <2>2, <2>6, <2>7
  <1> HIDE DEF c2, h2
  <1>9. Chained(h2, m2)
    BY <1>4, <1>7, <1>8 DEF Chained
  <1>10. QED
    BY <1>9 DEF h2, m2

\* The digest of FIPS 180-4 is that of the chain of the padded message.
LEMMA DigestOfChain ==
  ASSUME NEW m, NEW h, Chained(h, Pad(m))
  PROVE  Digest(m) = Bytes(h)
  <1> DEFINE p == The({Pad(m)})
  <1>1. p = Pad(m)
    BY TheOne
  <1> HIDE DEF p
  <1>2. PICK c : IsChain(c, p)
    BY <1>1 DEF Chained
  <1> DEFINE Link(d) == d = [n \in 0 .. Len(p) \div BLOCK |->
                               IF n = 0 THEN InitialIv
                               ELSE The({Compressed(H, SubSeq(p, BLOCK * (n - 1) + 1, BLOCK * n)) :
                                           H \in {d[n - 1]}})]
             blocks == CHOOSE d : Link(d)
  <1>3. \A d : IsChain(d, p) <=> Link(d)
    BY DEF IsChain, BlockOf
  <1>4. Digest(m) = Bytes(blocks[Len(p) \div BLOCK])
    BY DEF Digest, p
  <1> HIDE DEF Link
  <1>5. Link(blocks)
    BY <1>2, <1>3
  <1>6. blocks[Len(p) \div BLOCK] = h
    BY <1>1, <1>3, <1>5 DEF Chained
  <1>7. QED
    BY <1>4, <1>6

-----------------------------------------------------------------------------
\* The digest.

\* The iv is the hash value of the blocks compressed so far, and a digest that is
\* ready is that of FIPS 180-4.
ChainInv  == pc # "none" => Chained(iv, compressed)
DigestInv == digest # <<>> => /\ digest \in [1 .. 32 -> Byte]
                              /\ pc = "none" => digest = Digest(fed)
HashInv == IInv /\ RoundsInv /\ ChainInv /\ DigestInv

\* Words as bytes.
LEMMA BytesType ==
  ASSUME NEW ws, NEW n \in Nat, Len(ws) = n
  PROVE  Bytes(ws) \in [1 .. 4 * n -> Byte] /\ Bytes(ws) \in Seq(Byte)
  <1> DEFINE F(k) == ByteOf(ws[(k + 3) \div 4], (4 - k) % 4)
  <1>1. \A k : F(k) \in Byte
    BY DEF ByteOf, Byte
  <1>2. Bytes(ws) = [k \in 1 .. 4 * n |-> F(k)]
    BY DEF Bytes
  <1> HIDE DEF F
  <1>3. 4 * n \in Nat
    OBVIOUS
  <1>4. QED
    BY <1>1, <1>2, <1>3

\* The invariant of the hash: it holds at first, ...
LEMMA InitHashInv == Init => HashInv
  BY InitIInv, InitRoundsInv DEF HashInv, ChainInv, DigestInv, Init

\* ... the calls keep it, with whatever bytes,
LEMMA CallHashInv ==
  ASSUME HashInv, ShaInit \/ Final \/ \E data \in Seq(Byte) : Update(data)
  PROVE  HashInv'
  <1>1. IInv'
    BY ShaInitIInv, FinalIInv, UpdateIInv DEF HashInv
  <1>2. RoundsInv'
    BY CallRoundsInv DEF HashInv
  <1>3. CASE ShaInit
    <2>1. iv' = InitialIv /\ compressed' = <<>> /\ digest' = <<>>
      BY <1>3 DEF ShaInit, Wiped
    <2>2. QED
      BY <1>1, <1>2, <2>1, ChainedNothing DEF HashInv, ChainInv, DigestInv
  <1>4. CASE Final
    <2>1. pc = "open" /\ pc' = "pad" /\ UNCHANGED <<iv, compressed, digest>>
      BY <1>4 DEF Final, Goto
    <2>2. QED
      BY <1>1, <1>2, <2>1 DEF HashInv, ChainInv, DigestInv
  <1>5. ASSUME NEW data \in Seq(Byte), Update(data) PROVE HashInv'
    <2>1. pc = "open" /\ pc' = "update" /\ UNCHANGED <<iv, compressed, digest>>
      BY <1>5 DEF Update, Goto, hash
    <2>2. QED
      BY <1>1, <1>2, <2>1 DEF HashInv, ChainInv, DigestInv
  <1>6. QED
    BY <1>3, <1>4, <1>5

\* A step that compresses no block and returns no digest.
LEMMA SteadyHashInv ==
  ASSUME HashInv, IInv', RoundsInv', pc # "none", pc' # "none",
         UNCHANGED <<iv, compressed, digest, fed>>
  PROVE  HashInv'
  BY DEF HashInv, ChainInv, DigestInv

\* ... the end of compress adds its block to the chain,
LEMMA CompressEndHashInv ==
  ASSUME HashInv, CompressEnd
  PROVE  HashInv'
  <1>1. IInv' /\ RoundsInv' /\ iv' = Compressed(iv, Block)
    BY CompressEndIInv, CompressEndIv DEF HashInv
  <1>2. /\ pc = "compress" /\ pc' = ret /\ digest' = digest
        /\ compressed' = compressed \o Block
    BY DEF CompressEnd, Goto, Block, BLOCK
  <1>3. compressed \in Seq(Byte) /\ Len(compressed) % 64 = 0 /\ pc' # "none"
    BY <1>2 DEF HashInv, IInv, TypeOK, Done, BLOCK
  <1>4. Block \in Seq(Byte) /\ Len(Block) = 64
    BY DEF HashInv, IInv, TypeOK, BLOCK, Block
  <1>5. Chained(iv, compressed)
    BY <1>2 DEF HashInv, ChainInv
  <1>6. Chained(iv', compressed')
    BY <1>1, <1>2, <1>3, <1>4, <1>5, ChainedMore
  <1>7. QED
    BY <1>1, <1>2, <1>3, <1>6 DEF HashInv, ChainInv, DigestInv

\* ... tc_sha256_final returns the digest of what was given,
LEMMA FinalDigestHashInv ==
  ASSUME HashInv, FinalDigest
  PROVE  HashInv' /\ digest' # <<>>
  <1>1. pc = "hashed" /\ pc' = "none" /\ digest' = Bytes(iv) /\ fed' = fed
    BY DEF FinalDigest, Goto
  <1>2. IInv' /\ RoundsInv'
    BY FinalDigestIInv, InsideRoundsInv DEF HashInv, Inside
  <1>3. compressed = Pad(fed)
    BY <1>1 DEF HashInv, IInv, FinalInv, PaddedAsFips
  <1>4. Chained(iv, Pad(fed))
    BY <1>1, <1>3 DEF HashInv, ChainInv
  <1>5. digest' = Digest(fed)
    BY <1>1, <1>4, DigestOfChain
  <1>6. digest' \in [1 .. 32 -> Byte]
    <2>1. Len(iv) = 8
      BY DEF HashInv, RoundsInv
    <2>2. Bytes(iv) \in [1 .. 4 * 8 -> Byte]
      BY <2>1, BytesType
    <2>3. QED
      BY <1>1, <2>2
  <1>7. digest' # <<>>
    <2>1. DOMAIN digest' = 1 .. 32 /\ DOMAIN <<>> = 1 .. 0
      BY <1>6
    <2>2. 1 \in 1 .. 32 /\ 1 \notin 1 .. 0
      OBVIOUS
    <2>3. QED
      BY <2>1, <2>2
  <1>8. QED
    BY <1>1, <1>2, <1>5, <1>6, <1>7 DEF HashInv, ChainInv, DigestInv

\* ... and so all steps of the functions keep it.
LEMMA InsideHashInv == HashInv /\ Inside => HashInv'
  <1> SUFFICES ASSUME HashInv, Inside PROVE HashInv'
    OBVIOUS
  <1>1. CASE CompressEnd
    BY <1>1, CompressEndHashInv
  <1>2. CASE FinalDigest
    BY <1>2, FinalDigestHashInv
  <1>3. CASE UpdateByte \/ UpdateFull \/ UpdateEmptied \/ UpdateEnd
             \/ FinalNoRoom \/ FinalEmptied \/ FinalLength \/ Round
    <2>1. IInv'
      BY <1>3, UpdateByteIInv, UpdateRestIInv, EmptiedIInv, FinalNoRoomIInv, FinalLengthIInv
      DEF HashInv
    <2>2. RoundsInv'
      BY InsideRoundsInv DEF HashInv
    <2>3. pc # "none" /\ pc' # "none" /\ UNCHANGED <<iv, compressed, digest, fed>>
      BY <1>3 DEF UpdateByte, UpdateFull, UpdateEmptied, UpdateEnd, FinalNoRoom, FinalEmptied,
         FinalLength, Round, Goto, Compress, hash
    <2>4. QED
      BY <2>1, <2>2, <2>3, SteadyHashInv
  <1>4. QED
    BY <1>1, <1>2, <1>3 DEF Inside

\* A caller of the hash alone keeps it.
LEMMA NextHashInv == HashInv /\ [Next]_vars => HashInv'
  <1> SUFFICES ASSUME HashInv, [Next]_vars PROVE HashInv'
    OBVIOUS
  <1>1. CASE ShaInit \/ Final
    BY <1>1, CallHashInv
  <1>2. CASE Inside
    BY <1>2, InsideHashInv
  <1>3. ASSUME NEW n \in Lengths, Len(fed) + n <= Len(Message), Update(Piece(n))
        PROVE  HashInv'
    <2>1. Piece(n) \in Seq(Byte)
      BY <1>3, PieceType DEF HashInv
    <2>2. QED
      BY <1>3, <2>1, CallHashInv
  <1>4. CASE UNCHANGED vars
    <2>1. IInv'
      BY <1>4, NextIInv DEF HashInv
    <2>2. UNCHANGED <<iv, v, work_space, round, pc, leftover, compressed, digest, fed>>
      BY <1>4 DEF vars, hash, rounds
    <2>3. RoundsInv'
      <3>1. Block' = Block
        BY <2>2 DEF Block
      <3>2. QED
        BY <2>2, <3>1 DEF HashInv, RoundsInv, InRound
    <2>4. QED
      BY <2>1, <2>2, <2>3 DEF HashInv, ChainInv, DigestInv
  <1>5. QED
    BY <1>1, <1>2, <1>3, <1>4 DEF Next

-----------------------------------------------------------------------------
\* hmac_tag_compute and hmac_tag_verify.

\* The key in a block, combined with ipad or opad.
KeyBlock(pad) == [k \in 1 .. 64 |-> IF k <= 32 THEN Xor(Key[k], pad) ELSE pad]

\* The two hashes of HMAC for the fields of a mailbox.
InnerOf(fields) == KeyBlock(Ipad) \o Bytes(fields)
OuterOf(fields) == KeyBlock(Opad) \o Digest(InnerOf(fields))

\* HMAC of RFC 2104 for a key of 32 bytes.
LEMMA HmacIs == \A m : HmacOf(Key, m) = Digest(KeyBlock(Opad) \o Digest(KeyBlock(Ipad) \o m))
  <1> SUFFICES ASSUME NEW m
               PROVE  HmacOf(Key, m) = Digest(KeyBlock(Opad) \o Digest(KeyBlock(Ipad) \o m))
    OBVIOUS
  <1> DEFINE K == [k \in 1 .. BLOCK |-> IF k <= Len(Key) THEN Key[k] ELSE {}]
             With(pad) == [k \in 1 .. BLOCK |-> Xor(K[k], pad)]
  <1>1. \A pad : With(pad) = KeyBlock(pad)
    <2> SUFFICES ASSUME NEW pad PROVE With(pad) = KeyBlock(pad)
      OBVIOUS
    <2>1. \A k \in 1 .. 64 : K[k] = IF k <= 32 THEN Key[k] ELSE {}
      BY HmacAssumption DEF BLOCK
    <2>2. Xor({}, pad) = pad
      BY DEF Xor
    <2> HIDE DEF K
    <2>3. \A k \in 1 .. 64 : Xor(K[k], pad) = IF k <= 32 THEN Xor(Key[k], pad) ELSE pad
      BY <2>1, <2>2
    <2>4. QED
      BY <2>3 DEF KeyBlock, BLOCK
  <1> DEFINE inner == Digest(With(Ipad) \o m)
  <1>2. HmacOf(Key, m) = The({Digest(With(Opad) \o i) : i \in {inner}})
    BY DEF HmacOf, Ipad, Opad
  <1>3. inner = Digest(KeyBlock(Ipad) \o m)
    BY <1>1
  <1> HIDE DEF inner, With
  <1>4. {Digest(With(Opad) \o i) : i \in {inner}} = {Digest(With(Opad) \o inner)}
    OBVIOUS
  <1>5. QED
    BY <1>1, <1>2, <1>3, <1>4, TheOne

\* What is hashed is bytes: the block of the key,
LEMMA KeyBlockType ==
  /\ KeyBlock(Ipad) \in Seq(Byte)
  /\ KeyBlock(Opad) \in Seq(Byte)
  <1>1. Ipad \in Byte /\ Opad \in Byte
    BY DEF Ipad, Opad, Byte
  <1>2. \A k \in 1 .. 32 : Key[k] \in Byte
    BY HmacAssumption, ElementOfSeq
  <1>3. \A a, b \in Byte : Xor(a, b) \in Byte
    BY DEF Xor, Byte
  <1>4. ASSUME NEW pad \in Byte PROVE KeyBlock(pad) \in Seq(Byte)
    <2>1. \A k \in 1 .. 64 : (IF k <= 32 THEN Xor(Key[k], pad) ELSE pad) \in Byte
      BY <1>2, <1>3
    <2>2. QED
      BY <2>1 DEF KeyBlock
  <1>5. QED
    BY <1>1, <1>4

\* ... and the fields of a mailbox.
LEMMA SixteenBytes == \A fields \in Mailboxes : Bytes(fields) \in Seq(Byte)
  <1> SUFFICES ASSUME NEW fields \in Mailboxes PROVE Bytes(fields) \in Seq(Byte)
    OBVIOUS
  <1>1. Len(fields) = 4
    BY HmacAssumption
  <1>2. QED
    BY <1>1, BytesType

-----------------------------------------------------------------------------
\* Where hmac_tag_compute is, and what the hash has been given.
Computing == step \notin {"boot", "hashing", "idle"}

FedInv ==
  /\ step \in {"ipad", "opad"} => fed = <<>>
  /\ step = "msg" => fed = KeyBlock(Ipad)
  /\ step \in {"inner final", "outer"} => fed = InnerOf(mb)
  /\ step = "inner hash" => fed = KeyBlock(Opad)
  /\ step \in {"outer final", "tag"} => fed = OuterOf(mb)
  /\ step \in {"opad", "inner hash"} => /\ inner_hash = Digest(InnerOf(mb))
                                        /\ inner_hash \in Seq(Byte)
  /\ step \in {"outer", "tag"} /\ pc = "none" => digest # <<>>

HmacInv ==
  /\ HashInv
  /\ step \notin {"boot", "hashing"} => key = Key
  /\ Computing => mb \in Mailboxes
  /\ FedInv

\* The code pads the key it was given.
LEMMA PaddedKey == \A pad : key = Key => Padded(pad) = KeyBlock(pad)
  BY DEF Padded, KeyBlock

\* The steps of the hash itself are given nothing.
LEMMA InsideFed ==
  ASSUME HashInv, Inside
  PROVE  fed' = fed /\ (pc' = "none" => digest' # <<>>)
  <1>1. fed' = fed
    BY DEF Inside, UpdateByte, UpdateFull, UpdateEmptied, UpdateEnd, FinalNoRoom, FinalEmptied,
         FinalLength, FinalDigest, Round, CompressEnd
  <1>2. CASE FinalDigest
    BY <1>1, <1>2, FinalDigestHashInv
  <1>3. CASE CompressEnd
    BY <1>1, <1>3 DEF CompressEnd, Goto, HashInv, IInv, TypeOK
  <1>4. CASE ~(FinalDigest \/ CompressEnd)
    BY <1>1, <1>4 DEF Inside, UpdateByte, UpdateFull, UpdateEmptied, UpdateEnd, FinalNoRoom,
         FinalEmptied, FinalLength, Round, Goto, Compress, hash
  <1>5. QED
    BY <1>2, <1>3, <1>4

\* The invariant of hmac_tag_compute: it holds at first, ...
LEMMA InitHmacInv == HmacInit => HmacInv
  BY InitHashInv DEF HmacInit, HmacInv, FedInv, Computing

\* A step that leaves the hash alone keeps what is true of it.
LEMMA IdleHashInv == HashInv /\ UNCHANGED vars => HashInv'
  BY NextHashInv

\* tc_sha256_update is given its data.
LEMMA UpdateFed ==
  ASSUME NEW data, Update(data)
  PROVE  fed' = fed \o data
  BY DEF Update

\* A call of the hash by hmac_tag_compute.
LEMMA InnerHmacInv == HmacInv /\ InnerHash => HmacInv'
  <1> SUFFICES ASSUME HmacInv, InnerHash PROVE HmacInv'
    OBVIOUS
  <1>1. /\ step \in {"inner", "ipad", "msg", "inner final"}
        /\ step' \in {"ipad", "msg", "inner final", "outer"}
        /\ UNCHANGED <<key, mb, inner_hash>>
    BY DEF InnerHash, Call
  <1>2. key = Key /\ mb \in Mailboxes
    BY <1>1 DEF HmacInv, Computing
  <1>3. Padded(Ipad) = KeyBlock(Ipad) /\ KeyBlock(Ipad) \in Seq(Byte) /\ Msg \in Seq(Byte)
    BY <1>2, PaddedKey, KeyBlockType, SixteenBytes DEF Msg
  <1>4. HashInv'
    BY <1>3, CallHashInv DEF InnerHash, Call, HmacInv
  <1>5. CASE Call("inner", "ipad", ShaInit)
    <2>1. step' = "ipad" /\ fed' = <<>>
      BY <1>5 DEF Call, ShaInit
    <2>2. QED
      BY <1>1, <1>2, <1>4, <2>1 DEF HmacInv, FedInv, Computing
  <1>6. CASE Call("ipad", "msg", Update(Padded(Ipad)))
    <2>1. step = "ipad" /\ step' = "msg" /\ fed' = fed \o KeyBlock(Ipad)
      BY <1>3, <1>6, UpdateFed DEF Call
    <2>2. fed = <<>>
      BY <2>1 DEF HmacInv, FedInv
    <2>3. <<>> \o KeyBlock(Ipad) = KeyBlock(Ipad)
      BY <1>3, ConcatEmptySeq
    <2>4. fed' = KeyBlock(Ipad)
      BY <2>1, <2>2, <2>3
    <2>5. QED
      BY <1>1, <1>2, <1>4, <2>1, <2>4 DEF HmacInv, FedInv, Computing
  <1>7. CASE Call("msg", "inner final", Update(Msg))
    <2>1. step = "msg" /\ step' = "inner final" /\ fed' = fed \o Bytes(mb)
      BY <1>7, UpdateFed DEF Call, Msg
    <2>2. fed' = InnerOf(mb)
      BY <2>1 DEF HmacInv, FedInv, InnerOf
    <2>3. QED
      BY <1>1, <1>2, <1>4, <2>1, <2>2 DEF HmacInv, FedInv, Computing, InnerOf
  <1>8. CASE Call("inner final", "outer", Final)
    <2>1. step = "inner final" /\ step' = "outer" /\ fed' = fed /\ pc' = "pad"
      BY <1>8 DEF Call, Final, Goto
    <2>2. fed' = InnerOf(mb)
      BY <2>1 DEF HmacInv, FedInv
    <2>3. QED
      BY <1>1, <1>2, <1>4, <2>1, <2>2 DEF HmacInv, FedInv, Computing, InnerOf
  <1>9. QED
    BY <1>5, <1>6, <1>7, <1>8 DEF InnerHash

\* Its digest is taken, and the state starts the outer hash.
LEMMA OuterInitHmacInv == HmacInv /\ OuterInit => HmacInv'
  <1> SUFFICES ASSUME HmacInv, OuterInit PROVE HmacInv'
    OBVIOUS
  <1>1. /\ step = "outer" /\ step' = "opad" /\ inner_hash' = digest
        /\ pc = "none" /\ fed' = <<>> /\ UNCHANGED <<key, mb>>
    BY DEF OuterInit, ShaInit, Goto
  <1>2. HashInv'
    BY CallHashInv DEF OuterInit, HmacInv
  <1>3. fed = InnerOf(mb) /\ digest # <<>> /\ key = Key /\ mb \in Mailboxes
    BY <1>1 DEF HmacInv, FedInv, Computing
  <1>4. digest = Digest(fed) /\ digest \in [1 .. 32 -> Byte]
    BY <1>1, <1>3 DEF HmacInv, HashInv, DigestInv
  <1>5. digest \in Seq(Byte)
    <2>1. digest = [k \in 1 .. 32 |-> digest[k]] /\ \A k \in 1 .. 32 : digest[k] \in Byte
      BY <1>4
    <2>2. [k \in 1 .. 32 |-> digest[k]] \in Seq(Byte)
      BY <2>1
    <2>3. QED
      BY <2>1, <2>2
  <1>6. (Digest(InnerOf(mb)))' = Digest(InnerOf(mb))
    BY <1>1
  <1>7. QED
    BY <1>1, <1>2, <1>3, <1>4, <1>5, <1>6 DEF HmacInv, FedInv, Computing

\* The calls of the outer hash.
LEMMA OuterHmacInv == HmacInv /\ OuterHash => HmacInv'
  <1> SUFFICES ASSUME HmacInv, OuterHash PROVE HmacInv'
    OBVIOUS
  <1>1. /\ step \in {"opad", "inner hash", "outer final"}
        /\ step' \in {"inner hash", "outer final", "tag"}
        /\ UNCHANGED <<key, mb, inner_hash>>
    BY DEF OuterHash, Call
  <1>2. key = Key /\ mb \in Mailboxes
    BY <1>1 DEF HmacInv, Computing
  <1>3. Padded(Opad) = KeyBlock(Opad) /\ KeyBlock(Opad) \in Seq(Byte)
    BY <1>2, PaddedKey, KeyBlockType
  <1>4. step \in {"opad", "inner hash"} =>
          inner_hash \in Seq(Byte) /\ inner_hash = Digest(InnerOf(mb))
    BY DEF HmacInv, FedInv
  <1>5. HashInv'
    BY <1>3, <1>4, CallHashInv DEF OuterHash, Call, HmacInv
  <1>6. (Digest(InnerOf(mb)))' = Digest(InnerOf(mb)) /\ (OuterOf(mb))' = OuterOf(mb)
    BY <1>1
  <1>7. CASE Call("opad", "inner hash", Update(Padded(Opad)))
    <2>1. step = "opad" /\ step' = "inner hash" /\ fed' = fed \o KeyBlock(Opad)
      BY <1>3, <1>7, UpdateFed DEF Call
    <2>2. fed = <<>>
      BY <2>1 DEF HmacInv, FedInv
    <2>3. <<>> \o KeyBlock(Opad) = KeyBlock(Opad)
      BY <1>3, ConcatEmptySeq
    <2>4. fed' = KeyBlock(Opad)
      BY <2>1, <2>2, <2>3
    <2>5. QED
      BY <1>1, <1>2, <1>4, <1>5, <1>6, <2>1, <2>4 DEF HmacInv, FedInv, Computing
  <1>8. CASE Call("inner hash", "outer final", Update(inner_hash))
    <2>1. step = "inner hash" /\ step' = "outer final" /\ fed' = fed \o inner_hash
      BY <1>8, UpdateFed DEF Call
    <2>2. fed' = OuterOf(mb)
      BY <1>4, <2>1 DEF HmacInv, FedInv, OuterOf
    <2>3. QED
      BY <1>1, <1>2, <1>5, <1>6, <2>1, <2>2 DEF HmacInv, FedInv, Computing
  <1>9. CASE Call("outer final", "tag", Final)
    <2>1. step = "outer final" /\ step' = "tag" /\ fed' = fed /\ pc' = "pad"
      BY <1>9 DEF Call, Final, Goto
    <2>2. fed' = OuterOf(mb)
      BY <2>1 DEF HmacInv, FedInv
    <2>3. QED
      BY <1>1, <1>2, <1>5, <1>6, <2>1, <2>2 DEF HmacInv, FedInv, Computing
  <1>10. QED
    BY <1>7, <1>8, <1>9 DEF OuterHash

\* What the hash does between the calls.
LEMMA InsideHmacInv ==
  ASSUME HmacInv, Inside, UNCHANGED hmacVars
  PROVE  HmacInv'
  <1>1. fed' = fed /\ (pc' = "none" => digest' # <<>>)
    BY InsideFed DEF HmacInv
  <1>2. UNCHANGED <<key, step, mb, inner_hash>>
    BY DEF hmacVars
  <1>3. HashInv'
    BY InsideHashInv DEF HmacInv
  <1>4. FedInv'
    BY <1>1, <1>2 DEF HmacInv, FedInv, InnerOf, OuterOf
  <1>5. QED
    BY <1>2, <1>3, <1>4 DEF HmacInv, Computing

\* ... and every step keeps it.
LEMMA NextHmacInv == HmacInv /\ [HmacNext]_allVars => HmacInv'
  <1> SUFFICES ASSUME HmacInv, [HmacNext]_allVars PROVE HmacInv'
    OBVIOUS
  <1>1. CASE KeyInit
    <2>1. UNCHANGED vars /\ step' = "idle" /\ key' = Key
      BY <1>1 DEF KeyInit
    <2>2. QED
      BY <2>1, IdleHashInv DEF HmacInv, FedInv, Computing
  <1>2. ASSUME NEW fields \in Mailboxes, NEW verify \in BOOLEAN, TagCompute(fields, verify)
        PROVE  HmacInv'
    <2>1. UNCHANGED vars /\ step = "idle" /\ step' = "inner" /\ key' = key /\ mb' = fields
      BY <1>2 DEF TagCompute
    <2>2. QED
      BY <2>1, IdleHashInv DEF HmacInv, FedInv, Computing
  <1>3. CASE InnerHash
    BY <1>3, InnerHmacInv
  <1>4. CASE OuterInit
    BY <1>4, OuterInitHmacInv
  <1>5. CASE OuterHash
    BY <1>5, OuterHmacInv
  <1>6. CASE Inside /\ UNCHANGED hmacVars
    BY <1>6, InsideHmacInv
  <1>7. CASE Tagged \/ Verify
    <2>1. UNCHANGED vars /\ step = "tag" /\ step' = "idle" /\ key' = key
      BY <1>7 DEF Tagged, Verify
    <2>2. QED
      BY <2>1, IdleHashInv DEF HmacInv, FedInv, Computing
  <1>8. CASE step = "hashing" /\ Next /\ UNCHANGED hmacVars
    <2>1. step = "hashing" /\ step' = "hashing"
      BY <1>8 DEF hmacVars
    <2>2. HashInv'
      BY <1>8, NextHashInv DEF HmacInv
    <2>3. QED
      BY <2>1, <2>2 DEF HmacInv, FedInv, Computing
  <1>9. CASE UNCHANGED allVars
    <2>1. UNCHANGED vars /\ UNCHANGED hmacVars
      BY <1>9 DEF allVars
    <2>2. UNCHANGED <<key, step, mb, inner_hash, fed, pc, digest>>
      BY <2>1 DEF vars, hmacVars
    <2>3. HashInv'
      BY <2>1, IdleHashInv DEF HmacInv
    <2>4. QED
      BY <2>2, <2>3 DEF HmacInv, FedInv, Computing, InnerOf, OuterOf
  <1>10. QED
    BY <1>1, <1>2, <1>3, <1>4, <1>5, <1>6, <1>7, <1>8, <1>9 DEF HmacNext

\* The inductive invariant of tags: what the hash has been given at each place of
\* hmac_tag_compute, on top of that of the hash itself.
THEOREM HmacInvariance == HmacSpec => []HmacInv
  BY InitHmacInv, NextHmacInv, PTL DEF HmacSpec

\* tc_sha256_init, _update and _final compute the digest of FIPS 180-4, for every
\* message in any pieces and for the two hashes of hmac_tag_compute.
THEOREM DigestsAreFips == HmacSpec => []DigestIsFips
  <1>1. HmacInv => DigestIsFips
    BY DEF HmacInv, HashInv, DigestInv, DigestIsFips
  <1>2. QED
    BY <1>1, HmacInvariance, PTL

\* A call of compress adds to the iv what FIPS 180-4 adds for the block in the
\* buffer, whoever calls it.
THEOREM CompressesAsFips ==
  HmacSpec => [][CompressEnd => iv' = Compressed(iv, Block)]_allVars
  <1>1. HmacInv /\ [HmacNext]_allVars => [CompressEnd => iv' = Compressed(iv, Block)]_allVars
    BY CompressEndIv DEF HmacInv, HashInv
  <1>2. QED
    BY <1>1, HmacInvariance, PTL DEF HmacSpec

\* When the outer hash has returned, its digest is the tag of the fields.
LEMMA TagReady ==
  ASSUME HmacInv, step = "tag", pc = "none"
  PROVE  /\ digest = HmacOf(Key, Bytes(mb))
         /\ digest \in [1 .. 32 -> Byte]
         /\ mb \in Mailboxes
  <1>1. fed = OuterOf(mb) /\ digest # <<>> /\ mb \in Mailboxes
    BY DEF HmacInv, FedInv, Computing
  <1>2. digest = Digest(fed) /\ digest \in [1 .. 32 -> Byte]
    BY <1>1 DEF HmacInv, HashInv, DigestInv
  <1>3. HmacOf(Key, Bytes(mb)) = Digest(OuterOf(mb))
    BY HmacIs DEF OuterOf, InnerOf
  <1>4. QED
    BY <1>1, <1>2, <1>3

\* hmac_tag_compute computes the HMAC of the four fields, for every key and every
\* set of mailboxes, though both hashes use one state and any number of tags were
\* computed before.
THEOREM TagsAreHmac == HmacSpec => []TagIsHmac
  <1>1. HmacInv => TagIsHmac
    BY TagReady DEF TagIsHmac
  <1>2. QED
    BY <1>1, HmacInvariance, PTL

-----------------------------------------------------------------------------
\* What mb->tag is, and what hmac_tag_verify has found out about it.
TagInv ==
  /\ tagged # <<>> => /\ tagged \in Mailboxes
                      /\ tag = HmacOf(Key, Bytes(tagged))
                      /\ tag \in [1 .. 32 -> Byte]
  /\ Computing /\ verifying => tagged # <<>>
  /\ verified # "none" => step = "idle" /\ (verified = "yes" <=> mb = tagged)

\* No bit of the two differs only if they are equal.
LEMMA EqualBytes ==
  ASSUME NEW a \in [1 .. 32 -> Byte], NEW b \in [1 .. 32 -> Byte]
  PROVE  UNION {Xor(a[i], b[i]) : i \in 1 .. 32} = {} <=> a = b
  <1>1. \A s, t : Xor(s, t) = {} <=> s = t
    BY DEF Xor
  <1>2. UNION {Xor(a[i], b[i]) : i \in 1 .. 32} = {} <=> \A i \in 1 .. 32 : Xor(a[i], b[i]) = {}
    OBVIOUS
  <1>3. (\A i \in 1 .. 32 : a[i] = b[i]) <=> a = b
    OBVIOUS
  <1>4. QED
    BY <1>1, <1>2, <1>3

\* The tag, and what is found out by verifying, stay right.
LEMMA NextTagInv == NoCollision /\ HmacInv /\ TagInv /\ [HmacNext]_allVars => TagInv'
  <1> SUFFICES ASSUME NoCollision, HmacInv, TagInv, [HmacNext]_allVars PROVE TagInv'
    OBVIOUS
  <1>1. CASE KeyInit
    BY <1>1 DEF KeyInit, TagInv, Computing
  <1>2. ASSUME NEW fields \in Mailboxes, NEW verify \in BOOLEAN, TagCompute(fields, verify)
        PROVE  TagInv'
    BY <1>2 DEF TagCompute, TagInv, Computing
  <1>3. CASE InnerHash
    <2>1. /\ step \in {"inner", "ipad", "msg", "inner final"}
          /\ step' \in {"ipad", "msg", "inner final", "outer"}
          /\ UNCHANGED <<mb, tag, tagged, verifying, verified>>
      BY <1>3 DEF InnerHash, Call
    <2>2. QED
      BY <2>1 DEF TagInv, Computing
  <1>4. CASE OuterInit
    BY <1>4 DEF OuterInit, TagInv, Computing
  <1>5. CASE OuterHash
    <2>1. /\ step \in {"opad", "inner hash", "outer final"}
          /\ step' \in {"inner hash", "outer final", "tag"}
          /\ UNCHANGED <<mb, tag, tagged, verifying, verified>>
      BY <1>5 DEF OuterHash, Call
    <2>2. QED
      BY <2>1 DEF TagInv, Computing
  <1>6. CASE UNCHANGED hmacVars
    BY <1>6 DEF hmacVars, TagInv, Computing
  <1>7. CASE Tagged
    <2>1. step = "tag" /\ pc = "none" /\ step' = "idle" /\ tag' = digest /\ tagged' = mb
          /\ UNCHANGED <<verifying, verified>>
      BY <1>7 DEF Tagged
    <2>2. verified = "none"
      BY <2>1 DEF TagInv
    <2>3. QED
      BY <2>1, <2>2, TagReady DEF TagInv, Computing
  <1>8. CASE Verify
    <2>1. step = "tag" /\ pc = "none" /\ verifying /\ step' = "idle"
          /\ UNCHANGED <<tag, tagged, mb>>
      BY <1>8 DEF Verify
    <2>2. /\ tagged \in Mailboxes /\ tag = HmacOf(Key, Bytes(tagged)) /\ tag \in [1 .. 32 -> Byte]
      BY <2>1 DEF TagInv, Computing
    <2>3. /\ digest = HmacOf(Key, Bytes(mb)) /\ digest \in [1 .. 32 -> Byte] /\ mb \in Mailboxes
      BY <2>1, TagReady
    <2>4. digest = tag <=> mb = tagged
      BY <2>2, <2>3 DEF NoCollision
    <2>5. verified' = IF UNION {Xor(digest[i], tag[i]) : i \in 1 .. 32} = {} THEN "yes" ELSE "no"
      BY <1>8 DEF Verify
    <2>6. UNION {Xor(digest[i], tag[i]) : i \in 1 .. 32} = {} <=> digest = tag
      BY <2>2, <2>3, EqualBytes
    <2>7. verified' = "yes" <=> mb' = tagged'
      BY <2>1, <2>4, <2>5, <2>6
    <2>8. QED
      BY <2>1, <2>2, <2>7 DEF TagInv, Computing
  <1>9. CASE UNCHANGED allVars
    BY <1>9 DEF allVars, hmacVars, TagInv, Computing
  <1>10. QED
    BY <1>1, <1>2, <1>3, <1>4, <1>5, <1>6, <1>7, <1>8, <1>9 DEF HmacNext

\* If no two mailboxes have the same HMAC under the key, hmac_tag_verify says yes
\* for the fields that the tag was computed from and for no others.
THEOREM TagsVerify == ASSUME NoCollision PROVE HmacSpec => []VerifiesIffSame
  <1>1. HmacInit => TagInv
    BY DEF HmacInit, TagInv, Computing
  <1>2. HmacSpec => []TagInv
    BY <1>1, NextTagInv, HmacInvariance, PTL DEF HmacSpec
  <1>3. TagInv => VerifiesIffSame
    BY DEF TagInv, VerifiesIffSame
  <1>4. QED
    BY <1>2, <1>3, PTL
=============================================================================
