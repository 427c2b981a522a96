-------------------------- MODULE TransportChannel --------------------------
(***************************************************************************)
(* The TransportChannel of rcore/aida.cc, which carries the messages of a  *)
(* connection from any thread to the one thread that dispatches them: the  *)
(* lock-free MpScQueueF, and the EventFd that lets the receiver sleep      *)
(* while the queue is empty.  An action is one access to memory or one     *)
(* system call that another thread can observe.                            *)
(*                                                                         *)
(* A list of nodes is the sequence of its messages.  Every message is sent *)
(* once, so equal non-empty lists are equal pointers.  An address that is  *)
(* reused between a read of head_ and its compare-and-swap changes nothing *)
(* here: the swap installs what it would have built from a new read.       *)
(***************************************************************************)
EXTENDS Naturals, Sequences, SequencesExt

CONSTANTS
  Producer,   \* threads that send
  Message,    \* ProtoMsg objects, each is sent at most once
  NoMsg       \* NULL

ASSUME ChannelAssumption == NoMsg \notin Message

VARIABLES
  head,       \* MpScQueueF::head_, newest message first
  local,      \* MpScQueueF::local_, oldest message first
  last_fb,    \* TransportChannel::last_fb
  efd,        \* the eventfd is readable
  ppc,        \* where each producer is in send_msg()
  pmsg,       \* the message it sends
  may,        \* its may_wakeup
  last_head,  \* its last_head
  cpc,        \* where the consumer is in get_msg()
  op,         \* its op
  retry,      \* it already flushed the eventfd
  node,       \* its node in pop_node()
  result,     \* what its last get_msg() returned
  sent,       \* history: messages that have been pushed
  received    \* history: messages that left the channel, in order

queueVars    == <<head, local>>
producerVars == <<ppc, pmsg, may, last_head>>
consumerVars == <<cpc, op, retry, node, result, last_fb, received>>
channelVars  == <<queueVars, efd, producerVars, consumerVars, sent>>

Op == {"PEEK", "POP", "POP_BLOCKED"}

ChannelInit ==
  /\ head = <<>> /\ local = <<>>
  /\ last_fb = NoMsg
  /\ efd = FALSE
  /\ ppc = [p \in Producer |-> "out"]
  /\ pmsg = [p \in Producer |-> NoMsg]
  /\ may = [p \in Producer |-> TRUE]
  /\ last_head = [p \in Producer |-> <<>>]
  /\ cpc = "out"
  /\ op = "POP"
  /\ retry = FALSE
  /\ node = <<>>
  /\ result = NoMsg
  /\ sent = {}
  /\ received = <<>>

-----------------------------------------------------------------------------
(* send_msg() and MpScQueueF::push().  after is where the producer goes once *)
(* send_msg() has returned.                                                  *)

StartSend(p, m, mayWakeup) ==
  /\ ppc[p] = "out"
  /\ m \notin sent
  /\ \A q \in Producer : ppc[q] # "out" => pmsg[q] # m
  /\ ppc' = [ppc EXCEPT ![p] = "read"]
  /\ pmsg' = [pmsg EXCEPT ![p] = m]
  /\ may' = [may EXCEPT ![p] = mayWakeup]
  /\ UNCHANGED <<queueVars, efd, last_head, consumerVars, sent>>

ReadHead(p) ==
  /\ ppc[p] = "read"
  /\ last_head' = [last_head EXCEPT ![p] = head]
  /\ ppc' = [ppc EXCEPT ![p] = "swap"]
  /\ UNCHANGED <<queueVars, efd, pmsg, may, consumerVars, sent>>

\* Mutant of MustWakeup: wakes up for every message but the first.
MustWakeupLater(p) == may[p] /\ last_head[p] # <<>>

MustWakeup(p) == may[p] /\ last_head[p] = <<>>

\* Mutant of SwapHead: a plain store instead of the compare-and-swap.
StoreHead(p, after) ==
  /\ ppc[p] = "swap"
  /\ head' = <<pmsg[p]>> \o last_head[p]
  /\ sent' = sent \cup {pmsg[p]}
  /\ ppc' = [ppc EXCEPT ![p] = IF MustWakeup(p) THEN "wake" ELSE after]
  /\ UNCHANGED <<local, efd, pmsg, may, last_head, consumerVars>>

SwapHead(p, after) ==
  /\ ppc[p] = "swap"
  /\ IF head = last_head[p]
       THEN /\ head' = <<pmsg[p]>> \o head
            /\ sent' = sent \cup {pmsg[p]}
            /\ ppc' = [ppc EXCEPT ![p] = IF MustWakeup(p) THEN "wake" ELSE after]
       ELSE /\ ppc' = [ppc EXCEPT ![p] = "read"]
            /\ UNCHANGED <<head, sent>>
  /\ UNCHANGED <<local, efd, pmsg, may, last_head, consumerVars>>

WakeUp(p, after) ==
  /\ ppc[p] = "wake"
  /\ efd' = TRUE
  /\ ppc' = [ppc EXCEPT ![p] = after]
  /\ UNCHANGED <<queueVars, pmsg, may, last_head, consumerVars, sent>>

SendStep(p, after) == ReadHead(p) \/ SwapHead(p, after) \/ WakeUp(p, after)

-----------------------------------------------------------------------------
(* get_msg(), MpScQueueF::pop() and pop_node().                              *)

\* get_msg() returns m: PEEK leaves it in last_fb, the others advance.
Return(o, m) ==
  /\ cpc' = "out"
  /\ result' = m
  /\ IF o = "PEEK" THEN last_fb' = m /\ UNCHANGED received
                   ELSE last_fb' = NoMsg /\ received' = Append(received, m)

StartGet(o) ==
  /\ cpc = "out"
  /\ op' = o
  /\ retry' = FALSE
  /\ IF last_fb # NoMsg
       THEN Return(o, last_fb)
       ELSE cpc' = "pop" /\ UNCHANGED <<result, last_fb, received>>
  /\ UNCHANGED <<queueVars, efd, producerVars, node, sent>>

\* The first node of local_.
PopLocal ==
  /\ cpc = "pop"
  /\ local # <<>>
  /\ local' = Tail(local)
  /\ Return(op, Head(local))
  /\ UNCHANGED <<head, efd, producerVars, op, retry, node, sent>>

\* local_ is empty: the whole list behind head_ will be reversed into it.
PopRead ==
  /\ cpc = "pop"
  /\ local = <<>>
  /\ node' = head
  /\ cpc' = "take"
  /\ UNCHANGED <<queueVars, efd, producerVars, op, retry, result, last_fb, received, sent>>

\* pop() found nothing: look again after a flush; then PEEK and POP give up.
NoMessage ==
  \/ /\ ~retry
     /\ cpc' = "flush"
     /\ UNCHANGED result
  \/ /\ retry
     /\ op = "POP_BLOCKED"
     /\ cpc' = "poll"
     /\ UNCHANGED result
  \/ /\ retry
     /\ op # "POP_BLOCKED"
     /\ cpc' = "out"
     /\ result' = NoMsg

PopTake ==
  /\ cpc = "take"
  /\ \/ /\ head # node
        /\ cpc' = "pop"
        /\ UNCHANGED <<queueVars, result, last_fb, received>>
     \/ /\ head = node /\ node # <<>>
        /\ head' = <<>>
        /\ local' = Tail(Reverse(node))
        /\ Return(op, Head(Reverse(node)))
     \/ /\ head = node /\ node = <<>>
        /\ NoMessage
        /\ UNCHANGED <<queueVars, last_fb, received>>
  /\ UNCHANGED <<efd, producerVars, op, retry, node, sent>>

Flush ==
  /\ cpc = "flush"
  /\ efd' = FALSE
  /\ retry' = TRUE
  /\ cpc' = "pop"
  /\ UNCHANGED <<queueVars, producerVars, op, node, result, last_fb, received, sent>>

PollIn ==
  /\ cpc = "poll"
  /\ efd
  /\ retry' = FALSE
  /\ cpc' = "pop"
  /\ UNCHANGED <<queueVars, efd, producerVars, op, node, result, last_fb, received, sent>>

GetStep == PopLocal \/ PopRead \/ PopTake \/ Flush \/ PollIn

-----------------------------------------------------------------------------
ChannelTypeOK ==
  /\ head \in Seq(Message) /\ local \in Seq(Message)
  /\ last_fb \in Message \cup {NoMsg}
  /\ efd \in BOOLEAN
  /\ pmsg \in [Producer -> Message \cup {NoMsg}]
  /\ may \in [Producer -> BOOLEAN]
  /\ last_head \in [Producer -> Seq(Message)]
  /\ cpc \in {"out", "pop", "take", "flush", "poll"}
  /\ op \in Op
  /\ retry \in BOOLEAN
  /\ node \in Seq(Message)
  /\ result \in Message \cup {NoMsg}
  /\ sent \subseteq Message
  /\ received \in Seq(Message)

\* Everything in the channel, in the order it will come out.
Contents == (IF last_fb = NoMsg THEN <<>> ELSE <<last_fb>>) \o local \o Reverse(head)

Fifo == INSTANCE Channel WITH queue <- Contents
=============================================================================
