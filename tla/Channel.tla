------------------------------ MODULE Channel ------------------------------
(***************************************************************************)
(* What a TransportChannel promises: senders append messages to one queue, *)
(* a single receiver looks at its front or takes it away, and is told that *)
(* there is no message only while the queue is empty.                      *)
(***************************************************************************)
EXTENDS Sequences

CONSTANTS Message, NoMsg

VARIABLES
  queue,     \* messages sent and not yet received, in order of sending
  sent,      \* messages sent so far
  result,    \* what the receiver was last told
  received   \* messages received, in order

vars == <<queue, sent, result, received>>

Init == /\ queue = <<>>
        /\ sent = {}
        /\ result = NoMsg
        /\ received = <<>>

Send(m) == /\ m \in Message \ sent
           /\ queue' = Append(queue, m)
           /\ sent' = sent \cup {m}
           /\ UNCHANGED <<result, received>>

Look == /\ queue # <<>>
        /\ result' = Head(queue)
        /\ UNCHANGED <<queue, sent, received>>

Receive == /\ queue # <<>>
           /\ result' = Head(queue)
           /\ queue' = Tail(queue)
           /\ received' = Append(received, Head(queue))
           /\ UNCHANGED sent

FindEmpty == /\ queue = <<>>
             /\ result' = NoMsg
             /\ UNCHANGED <<queue, sent, received>>

Next == (\E m \in Message : Send(m)) \/ Look \/ Receive \/ FindEmpty

Spec == Init /\ [][Next]_vars
=============================================================================
