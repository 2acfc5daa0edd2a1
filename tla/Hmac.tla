-------------------------------- MODULE Hmac --------------------------------
(***************************************************************************)
(* include/crypto/hmac_sha256.c: the key, the tag of a mailbox's fields    *)
(* and its verification, as calls of Sha256.  A behaviour is that of one   *)
(* mailbox whose fields may change between the tag and its verification,   *)
(* or that of a caller who hashes a message in pieces.                     *)
(***************************************************************************)
EXTENDS Fips180

CONSTANTS
  Key,       \* secret_key of main.c
  Mailboxes  \* sender_id, msg_type, msg_data, counter: sequences of four words

\* uint8_t secret_key[HMAC_KEY_SIZE], and four fields of 32 bits.
ASSUME HmacAssumption ==
  /\ Key \in Seq(Byte) /\ Len(Key) = 32
  /\ \A fields \in Mailboxes : fields \in Seq(Word) /\ Len(fields) = 4

VARIABLES
  key,         \* the 32 bytes at HMAC_KEY_ADDR
  step,        \* where hmac_tag_compute is
  mb,          \* the fields it reads
  verifying,   \* hmac_tag_verify has called it, not mailbox_send
  inner_hash,
  tag,         \* mb->tag
  tagged,      \* history: the fields that tag was computed from
  verified     \* the result of hmac_tag_verify

hmacVars == <<key, step, mb, verifying, inner_hash, tag, tagged, verified>>
allVars  == <<vars, hmacVars>>

HmacInit ==
  /\ Init
  /\ key = [k \in 1 .. 32 |-> Zero]
  /\ step \in {"boot", "hashing"}
  /\ mb = <<>> /\ verifying = FALSE /\ inner_hash = <<>>
  /\ tag = <<>> /\ tagged = <<>> /\ verified = "none"

\* hmac_key_init
KeyInit ==
  /\ step = "boot" /\ step' = "idle"
  /\ key' = Key
  /\ UNCHANGED <<vars, mb, verifying, inner_hash, tag, tagged, verified>>

\* hmac_tag_compute is called by mailbox_send, or by hmac_tag_verify on fields
\* that have come with the tag of the last send.
TagCompute(fields, verify) ==
  /\ step = "idle" /\ step' = "inner"
  /\ verify => tagged # <<>>
  /\ mb' = fields /\ verifying' = verify /\ verified' = "none" /\ inner_hash' = <<>>
  /\ UNCHANGED <<vars, key, tag, tagged>>

\* k_padded XOR HMAC_IPAD (36h) or HMAC_OPAD (5Ch)
Padded(pad) == [k \in 1 .. 64 |-> IF k <= 32 THEN Xor(key[k], pad) ELSE pad]
Ipad == {1, 2, 4, 5}
Opad == {2, 3, 4, 6}

\* Variant for mutation: the tag leaves out the counter.
BugMsg == Bytes(SubSeq(mb, 1, 3))

\* msg[16], the fields with their most significant bytes first
Msg == Bytes(mb)

\* A call of tc_sha256_*, after which hmac_tag_compute goes on at "to".
Call(from, to, Function) ==
  /\ step = from /\ step' = to
  /\ Function
  /\ UNCHANGED <<key, mb, verifying, inner_hash, tag, tagged, verified>>

\* Variant for mutation: the key is padded with opad for both hashes.
BugInnerHash == \/ Call("inner", "ipad", ShaInit)
                \/ Call("ipad", "msg", Update(Padded(Opad)))
                \/ Call("msg", "inner final", Update(Msg))
                \/ Call("inner final", "outer", Final)

InnerHash == \/ Call("inner", "ipad", ShaInit)
             \/ Call("ipad", "msg", Update(Padded(Ipad)))
             \/ Call("msg", "inner final", Update(Msg))
             \/ Call("inner final", "outer", Final)

\* The same state is used again for the outer hash.
OuterInit ==
  /\ step = "outer" /\ step' = "opad"
  /\ inner_hash' = digest
  /\ ShaInit
  /\ UNCHANGED <<key, mb, verifying, tag, tagged, verified>>

OuterHash == \/ Call("opad", "inner hash", Update(Padded(Opad)))
             \/ Call("inner hash", "outer final", Update(inner_hash))
             \/ Call("outer final", "tag", Final)

\* hmac_tag_compute returns to mailbox_send, which has given it mb->tag.
Tagged ==
  /\ step = "tag" /\ pc = "none" /\ ~verifying /\ step' = "idle"
  /\ tag' = digest /\ tagged' = mb
  /\ UNCHANGED <<vars, key, mb, verifying, inner_hash, verified>>

\* ... or to hmac_tag_verify: all differing bits of the two are collected.
Verify ==
  /\ step = "tag" /\ pc = "none" /\ verifying /\ step' = "idle"
  /\ LET change == UNION {Xor(digest[i], tag[i]) : i \in 1 .. 32}
     IN verified' = IF change = {} THEN "yes" ELSE "no"
  /\ UNCHANGED <<vars, key, mb, verifying, inner_hash, tag, tagged>>

HmacNext ==
  \/ KeyInit
  \/ \E fields \in Mailboxes, verify \in BOOLEAN : TagCompute(fields, verify)
  \/ InnerHash \/ OuterInit \/ OuterHash
  \/ step \notin {"boot", "hashing"} /\ Inside /\ UNCHANGED hmacVars
  \/ Tagged \/ Verify
  \/ step = "hashing" /\ Next /\ UNCHANGED hmacVars

HmacSpec == HmacInit /\ [][HmacNext]_allVars

-----------------------------------------------------------------------------
\* compress, with its ring of 16 words, and the stream of blocks compute the
\* digest of FIPS 180-4, for the hashes that hmac_tag_compute asks for as well.
DigestIsFips == pc = "none" /\ digest # <<>> => digest = Digest(fed)

\* The two hashes, in the memory of one, are HMAC of the four fields under the
\* key: nothing of the first is left over in the second.
TagIsHmac == step = "tag" /\ pc = "none" => digest = HmacOf(Key, Bytes(mb))

\* What is taken for granted of HMAC: no two of the mailboxes have the same.
NoCollision ==
  \A m1, m2 \in Mailboxes : HmacOf(Key, Bytes(m1)) = HmacOf(Key, Bytes(m2)) => m1 = m2

\* A tag verifies for the fields it was computed from, whichever way the call
\* was reached, and for no others: what Mailbox takes for granted of tags.
VerifiesIffSame ==
  verified # "none" => (verified = "yes" <=> mb = tagged)
=============================================================================
