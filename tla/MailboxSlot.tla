---------------------------- MODULE MailboxSlot ----------------------------
(***************************************************************************)
(* What the mailboxes of include/ipc/ipc.c promise their callers: per core *)
(* a slot for one message, on which a call acts at one instant between its *)
(* start and its return.  A message is taken at most once and exactly as   *)
(* it was sent.  A ready message goes away without being received only by  *)
(* the owner's clear or, where Lossy, because its tag no longer fits it.   *)
(***************************************************************************)
EXTENDS Integers

CONSTANTS Cores, Types, Data,
          NoMsg,      \* an empty slot
          Lossy       \* whether something may damage a message at rest

VARIABLES slot,       \* the message ready in each core's mailbox, or NoMsg
          call        \* the call each core is in, or its result

vars == <<slot, call>>

Msg == [sender : Cores, type : Types, data : Data]

Idle       == [op |-> "idle"]
Send(d, t, x) == [op |-> "send", to |-> d, type |-> t, data |-> x]
Receive    == [op |-> "receive"]
Clear      == [op |-> "clear"]
Returns(k, m) == [op |-> "return", code |-> k, msg |-> m]

Requests == [op : {"send"}, to : Cores, type : Types, data : Data]
              \cup {Receive, Clear}
Init == /\ slot = [c \in Cores |-> NoMsg]
        /\ call = [c \in Cores |-> Idle]

Become(c, from, to) == call[c] = from /\ call' = [call EXCEPT ![c] = to]

Start(c) == /\ \E r \in Requests : Become(c, Idle, r)
            /\ UNCHANGED slot

SendOk(c) ==
  \E d \in Cores, t \in Types, x \in Data :
    /\ slot[d] = NoMsg
    /\ Become(c, Send(d, t, x), Returns(0, NoMsg))
    /\ slot' = [slot EXCEPT ![d] = [sender |-> c, type |-> t, data |-> x]]

SendFull(c) ==
  \E d \in Cores, t \in Types, x \in Data :
    /\ slot[d] # NoMsg
    /\ Become(c, Send(d, t, x), Returns(-1, NoMsg))
    /\ UNCHANGED slot

Take(c) == /\ slot[c] # NoMsg
           /\ Become(c, Receive, Returns(1, slot[c]))
           /\ slot' = [slot EXCEPT ![c] = NoMsg]

Nothing(c) == /\ slot[c] = NoMsg
              /\ Become(c, Receive, Returns(0, NoMsg))
              /\ UNCHANGED slot

Reject(c) == /\ Lossy
             /\ slot[c] # NoMsg
             /\ Become(c, Receive, Returns(0, NoMsg))
             /\ slot' = [slot EXCEPT ![c] = NoMsg]

Wipe(c) == /\ Become(c, Clear, Returns(0, NoMsg))
           /\ slot' = [slot EXCEPT ![c] = NoMsg]

Return(c) == /\ call[c].op = "return"
             /\ call' = [call EXCEPT ![c] = Idle]
             /\ UNCHANGED slot

Next == \E c \in Cores :
          \/ Start(c) \/ SendOk(c) \/ SendFull(c) \/ Take(c)
          \/ Nothing(c) \/ Reject(c) \/ Wipe(c) \/ Return(c)

Spec == Init /\ [][Next]_vars
=============================================================================
