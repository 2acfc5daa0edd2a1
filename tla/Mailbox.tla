------------------------------ MODULE Mailbox ------------------------------
(***************************************************************************)
(* mailbox_send, mailbox_receive and mailbox_clear of include/ipc/ipc.c,   *)
(* one group of accesses to shared memory per step, called by any core at  *)
(* any time: send along Routes, receive and clear on the core's own.       *)
(*                                                                         *)
(* The lock of a mailbox is taken in one step (Spinlock.tla shows why that *)
(* is sound).  The HMAC tag of include/crypto/hmac_sha256.c is idealised:  *)
(* a tag is the record of the four fields it was computed over, so that    *)
(* two tags are equal exactly when the fields are.  The prints are left    *)
(* out, and so is the final SEV: no caller waits for a mailbox in WFE.     *)
(***************************************************************************)
EXTENDS Integers

CONSTANTS Cores, Types, Data,
          Routes,       \* <<c, d>>: core c sends to core d's mailbox
          None,         \* MSG_NONE; also the absent message and tag
          CounterMod,   \* the counter wraps here (2^32 in the code)
          MaxFaults     \* how many messages at rest may be damaged

Msg == [sender : Cores, type : Types, data : Data]

ASSUME MailboxAssumption ==
  /\ Routes \subseteq Cores \X Cores
  /\ CounterMod \in Nat \ {0}
  /\ MaxFaults \in Nat
  /\ None \notin Types \cup Msg

VARIABLES
  lock, status, fields, tag,   \* mailbox_t of each core; fields: all that the tag covers
  pc,      \* where each core is in the function it has called
  arg,     \* that call and its arguments
  ret,     \* the result of each core's last call: code and received message
  faults   \* messages damaged so far

mailboxes == <<lock, status, fields, tag>>
vars == <<mailboxes, pc, arg, ret, faults>>

Fields == [sender : Cores, type : Types, data : Data, counter : 0 .. CounterMod - 1]
Tags   == [over : Fields]

Send(d, t, x) == [op |-> "send", to |-> d, type |-> t, data |-> x]
Receive       == [op |-> "receive"]
Clear         == [op |-> "clear"]
Requests == [op : {"send"}, to : Cores, type : Types, data : Data]
              \cup {Receive, Clear}

\* A core sends along its routes; it reads its own mailbox if anyone sends there.
RequestsOf(c) ==
  [op : {"send"}, to : {d \in Cores : <<c, d>> \in Routes}, type : Types, data : Data]
    \cup (IF \E b \in Cores : <<b, c>> \in Routes THEN {Receive, Clear} ELSE {})

Result(k, m) == [code |-> k, msg |-> m]

TypeOK ==
  /\ lock \in [Cores -> {0, 1}]
  /\ status \in [Cores -> {0, 1, 2}]
  /\ fields \in [Cores -> [sender : Cores \cup {None}, type : Types \cup {None},
                          data : Data \cup {None}, counter : 0 .. CounterMod - 1]]
  /\ tag \in [Cores -> Tags \cup {None}]
  /\ pc \in [Cores -> {"idle", "lock", "check", "tag", "ready",
                       "verify", "take", "status", "type", "unlock"}]
  /\ arg \in [Cores -> Requests]
  /\ ret \in [Cores -> [code : {-1, 0, 1}, msg : Msg \cup {None}]]
  /\ faults \in 0 .. MaxFaults

\* After mailbox_init of every mailbox, which main does before it starts the
\* other cores.  It leaves the tag as the memory has it: no tag of a message.
Init ==
  /\ lock = [c \in Cores |-> 0]
  /\ status = [c \in Cores |-> 0]
  /\ fields = [c \in Cores |-> [sender |-> None, type |-> None, data |-> None, counter |-> 0]]
  /\ tag = [c \in Cores |-> None]
  /\ pc = [c \in Cores |-> "idle"]
  /\ arg = [c \in Cores |-> Clear]
  /\ ret = [c \in Cores |-> Result(0, None)]
  /\ faults = 0

-----------------------------------------------------------------------------
Goto(c, from, to) == pc[c] = from /\ pc' = [pc EXCEPT ![c] = to]

\* The mailbox that core c's call works on.
Box(c) == IF arg[c].op = "send" THEN arg[c].to ELSE c

\* hmac_tag_compute: the tag of the four fields as mailbox d holds them.
Hmac(d) == [over |-> fields[d]]

\* Variant for mutation: the payload is left out of the comparison.
BugVerifies(d) == tag[d] # None /\ tag[d].over.counter = fields[d].counter

\* hmac_tag_verify: the stored tag against the one the fields give now.
Verifies(d) == tag[d] = Hmac(d)

Call(c, request) ==
  /\ Goto(c, "idle", "lock")
  /\ arg' = [arg EXCEPT ![c] = request]
  /\ UNCHANGED <<mailboxes, ret, faults>>

\* Variant for mutation: the lock is not waited for.
BugLock(c) ==
  /\ Goto(c, "lock", CASE arg[c].op = "send"    -> "check"
                       [] arg[c].op = "receive" -> "verify"
                       [] arg[c].op = "clear"   -> "status")
  /\ lock' = [lock EXCEPT ![Box(c)] = 1]
  /\ UNCHANGED <<status, fields, tag, arg, ret, faults>>

\* spinlock_acquire(&mb->lock)
Lock(c) ==
  /\ lock[Box(c)] = 0
  /\ Goto(c, "lock", CASE arg[c].op = "send"    -> "check"
                       [] arg[c].op = "receive" -> "verify"
                       [] arg[c].op = "clear"   -> "status")
  /\ lock' = [lock EXCEPT ![Box(c)] = 1]
  /\ UNCHANGED <<status, fields, tag, arg, ret, faults>>

\* spinlock_release(&mb->lock), and the function returns.
Unlock(c) ==
  /\ Goto(c, "unlock", "idle")
  /\ lock' = [lock EXCEPT ![Box(c)] = 0]
  /\ UNCHANGED <<status, fields, tag, arg, ret, faults>>

-----------------------------------------------------------------------------
\* Variant for mutation: the early return leaves the mailbox locked.
BugSendFull(c) ==
  /\ status[Box(c)] = 1
  /\ Goto(c, "check", "idle")
  /\ ret' = [ret EXCEPT ![c] = Result(-1, None)]
  /\ UNCHANGED <<mailboxes, arg, faults>>

\* mailbox_send: the mailbox still holds a message nobody received.
SendFull(c) ==
  /\ status[Box(c)] = 1
  /\ Goto(c, "check", "unlock")
  /\ ret' = [ret EXCEPT ![c] = Result(-1, None)]
  /\ UNCHANGED <<mailboxes, arg, faults>>

\* Variant for mutation: a message that is still ready is written over.
BugSendWrite(c) ==
  /\ Goto(c, "check", "tag")
  /\ fields' = [fields EXCEPT ![Box(c)] =
                  [sender |-> c, type |-> arg[c].type, data |-> arg[c].data,
                   counter |-> (fields[Box(c)].counter + 1) % CounterMod]]
  /\ UNCHANGED <<lock, status, tag, arg, ret, faults>>

\* mailbox_send: the fields and the counter.
SendWrite(c) ==
  /\ status[Box(c)] # 1
  /\ Goto(c, "check", "tag")
  /\ fields' = [fields EXCEPT ![Box(c)] =
                  [sender |-> c, type |-> arg[c].type, data |-> arg[c].data,
                   counter |-> (fields[Box(c)].counter + 1) % CounterMod]]
  /\ UNCHANGED <<lock, status, tag, arg, ret, faults>>

\* Variant for mutation: the tag is computed before the counter is advanced.
BugSendTag(c) ==
  /\ Goto(c, "tag", "ready")
  /\ tag' = [tag EXCEPT ![Box(c)] =
               [Hmac(Box(c)) EXCEPT !.over.counter = (@ + CounterMod - 1) % CounterMod]]
  /\ UNCHANGED <<lock, status, fields, arg, ret, faults>>

\* mailbox_send: hmac_tag_compute(mb, mb->tag)
SendTag(c) ==
  /\ Goto(c, "tag", "ready")
  /\ tag' = [tag EXCEPT ![Box(c)] = Hmac(Box(c))]
  /\ UNCHANGED <<lock, status, fields, arg, ret, faults>>

\* mailbox_send: from here on the owner may receive the message.
SendReady(c) ==
  /\ Goto(c, "ready", "unlock")
  /\ status' = [status EXCEPT ![Box(c)] = 1]
  /\ ret' = [ret EXCEPT ![c] = Result(0, None)]
  /\ UNCHANGED <<lock, fields, tag, arg, faults>>

-----------------------------------------------------------------------------
\* mailbox_receive: nothing to receive.
ReceiveNothing(c) ==
  /\ status[c] # 1
  /\ Goto(c, "verify", "unlock")
  /\ ret' = [ret EXCEPT ![c] = Result(0, None)]
  /\ UNCHANGED <<mailboxes, arg, faults>>

\* mailbox_receive: a ready message whose tag fits the fields ...
ReceiveVerify(c) ==
  /\ status[c] = 1 /\ Verifies(c)
  /\ Goto(c, "verify", "take")
  /\ UNCHANGED <<mailboxes, arg, ret, faults>>

\* ... is copied out and marked as processed.
ReceiveTake(c) ==
  /\ Goto(c, "take", "unlock")
  /\ ret' = [ret EXCEPT ![c] = Result(1, [sender |-> fields[c].sender,
                                      type |-> fields[c].type, data |-> fields[c].data])]
  /\ status' = [status EXCEPT ![c] = 2]
  /\ UNCHANGED <<lock, fields, tag, arg, faults>>

\* mailbox_receive: a ready message whose tag does not fit is dropped.
ReceiveReject(c) ==
  /\ status[c] = 1 /\ ~Verifies(c)
  /\ Goto(c, "verify", "unlock")
  /\ status' = [status EXCEPT ![c] = 2]
  /\ ret' = [ret EXCEPT ![c] = Result(0, None)]
  /\ UNCHANGED <<lock, fields, tag, arg, faults>>

-----------------------------------------------------------------------------
\* Variant for mutation: the type is erased and the status left as it is.
BugClearStatus(c) ==
  /\ Goto(c, "status", "type")
  /\ ret' = [ret EXCEPT ![c] = Result(0, None)]
  /\ UNCHANGED <<mailboxes, arg, faults>>

\* mailbox_clear, whatever the mailbox holds by now.
ClearStatus(c) ==
  /\ Goto(c, "status", "type")
  /\ status' = [status EXCEPT ![c] = 0]
  /\ ret' = [ret EXCEPT ![c] = Result(0, None)]
  /\ UNCHANGED <<lock, fields, tag, arg, faults>>

ClearType(c) ==
  /\ Goto(c, "type", "unlock")
  /\ fields' = [fields EXCEPT ![c].type = None]
  /\ UNCHANGED <<lock, status, tag, arg, ret, faults>>

-----------------------------------------------------------------------------
\* What the tag is there for: the payload of a message at rest changes, by a
\* store that is none of this module's.
Damage(d) ==
  /\ lock[d] = 0 /\ status[d] = 1
  /\ faults < MaxFaults
  /\ faults' = faults + 1
  /\ \E x \in Data \ {fields[d].data} : fields' = [fields EXCEPT ![d].data = x]
  /\ UNCHANGED <<lock, status, tag, pc, arg, ret>>

\* One step of core c inside the function it has called.
Step(c) ==
  \/ Lock(c) \/ Unlock(c)
  \/ SendFull(c) \/ SendWrite(c) \/ SendTag(c) \/ SendReady(c)
  \/ ReceiveNothing(c) \/ ReceiveVerify(c) \/ ReceiveTake(c) \/ ReceiveReject(c)
  \/ ClearStatus(c) \/ ClearType(c)

Next == \E c \in Cores : \/ \E request \in RequestsOf(c) : Call(c, request)
                         \/ Step(c)
                         \/ Damage(c)

Spec == Init /\ [][Next]_vars

-----------------------------------------------------------------------------
Holds(c, d) == pc[c] \notin {"idle", "lock"} /\ Box(c) = d

\* At most one core works on a mailbox at a time, and exactly while it does the
\* lock word is set, whichever mailboxes the cores send to.
MailboxLocked ==
  \A d \in Cores :
    /\ lock[d] = 1 <=> \E c \in Cores : Holds(c, d)
    /\ \A b, c \in Cores : Holds(b, d) /\ Holds(c, d) => b = c

\* A ready message that nothing damaged verifies, at every instant: neither a
\* later send nor a clear can leave a tag that does not fit the fields, so
\* mailbox_receive rejects no message that mailbox_send delivered.
ReadyVerifies ==
  faults = 0 => \A d \in Cores : status[d] = 1 => Verifies(d)

-----------------------------------------------------------------------------
\* The strengthening that is inductive.
InItsFunction ==
  \A c \in Cores :
    /\ pc[c] \in {"check", "tag", "ready"} => arg[c].op = "send"
    /\ pc[c] \in {"verify", "take"} => arg[c].op = "receive"
    /\ pc[c] \in {"status", "type"} => arg[c].op = "clear"

\* A core between two accesses of a send, a receive or a clear finds the
\* mailbox as its last access left it.
AsLeftBy(c) ==
  LET d == Box(c)
      sent == [sender |-> c, type |-> arg[c].type, data |-> arg[c].data,
               counter |-> fields[d].counter]
  IN /\ pc[c] \in {"tag", "ready", "type"} => status[d] # 1
     /\ pc[c] \in {"tag", "ready"} => fields[d] = sent
     /\ pc[c] = "ready" => Verifies(d)
     /\ pc[c] = "take" => status[d] = 1 /\ Verifies(d)

AsLeft == \A c \in Cores : AsLeftBy(c)

\* The tag of a ready message was computed over a message.
ReadyTagged == \A d \in Cores : status[d] = 1 => tag[d] \in Tags

IInv == TypeOK /\ MailboxLocked /\ InItsFunction /\ AsLeft /\ ReadyTagged /\ ReadyVerifies

-----------------------------------------------------------------------------
\* The abstract slots: the message a ready mailbox was tagged with.
Slot == [d \in Cores |->
           IF status[d] = 1
           THEN [sender |-> tag[d].over.sender, type |-> tag[d].over.type,
                 data |-> tag[d].over.data]
           ELSE None]

InCall == [c \in Cores |->
             IF pc[c] = "idle" THEN [op |-> "idle"]
             ELSE IF pc[c] \in {"type", "unlock"}
             THEN [op |-> "return", code |-> ret[c].code, msg |-> ret[c].msg]
             ELSE arg[c]]

S == INSTANCE MailboxSlot WITH slot <- Slot, call <- InCall, NoMsg <- None,
                               Lossy <- MaxFaults > 0

\* Each call takes effect at one instant: a send returns 0 exactly when it put
\* its message in an empty slot, a receive returns 1 exactly with the message
\* that was sent and takes it away, and no damaged message is ever returned.
ImplementsSlots == S!Spec
=============================================================================
