---------------------------- MODULE ClientCalls ----------------------------
(***************************************************************************)
(* How the thread of a ClientConnectionImpl (rcore/aida.cc) waits for      *)
(* messages: in call_remote() on transport_sem_ for the result of a        *)
(* two-way call, and in its event loop (AppSource in ui/clientglue.cc) on  *)
(* the eventfd of its TransportChannel.  blocking_for_sem_ tells the       *)
(* server thread which of the two it has to trigger; the server reads it   *)
(* twice per message without any synchronisation.                          *)
(***************************************************************************)
EXTENDS TransportChannel, SequenceLemmas

CONSTANTS
  Server,   \* the thread of the ServerConnection
  Results,  \* results of two-way calls
  Events    \* EMIT and DISCONNECT messages

ClientAssumption ==
  /\ Producer = {Server}
  /\ Message = Results \cup Events
  /\ Results \cap Events = {}

VARIABLES
  blocking,    \* blocking_for_sem_
  sem,         \* the value of transport_sem_
  eventQueue,  \* event_queue_
  requested,   \* a two-way call has reached the server and is not answered
  kpc,         \* where the client thread is
  back,        \* where it goes on after call_remote()
  dispatched   \* history: events handed to signal handlers, in order

clientVars == <<blocking, sem, eventQueue, requested, kpc, back, dispatched>>
vars == <<channelVars, clientVars>>

Init ==
  /\ ChannelInit
  /\ blocking = FALSE
  /\ sem = 0
  /\ eventQueue = <<>>
  /\ requested = FALSE
  /\ kpc = "app"
  /\ back = "app"
  /\ dispatched = <<>>

\* The client thread is at k and not inside get_msg().
At(k) == kpc = k /\ cpc = "out"

Goto(k) == kpc' = k

-----------------------------------------------------------------------------
(* call_remote() for a call that needs a result.  Application code calls it  *)
(* outside of the loop, in a signal handler, or in another source's callback *)
(* between check() and dispatch() of the AppSource.                          *)

\* The calls to come are bounded by the results that were not sent yet.
StartCall ==
  /\ At("app") \/ At("ready")
  /\ Results \ sent # {}
  /\ blocking' = TRUE
  /\ back' = kpc
  /\ Goto("post")
  /\ UNCHANGED <<channelVars, sem, eventQueue, requested, dispatched>>

PostCall ==
  /\ At("post")
  /\ requested' = TRUE
  /\ Goto("fetch")
  /\ UNCHANGED <<channelVars, blocking, sem, eventQueue, back, dispatched>>

FetchResult ==
  /\ At("fetch")
  /\ StartGet("POP")
  /\ Goto("fetched")
  /\ UNCHANGED <<blocking, sem, eventQueue, requested, back, dispatched>>

Fetched ==
  /\ At("fetched")
  /\ \/ /\ result = NoMsg
        /\ Goto("block")
        /\ UNCHANGED <<blocking, eventQueue>>
     \/ /\ result \in Events
        /\ eventQueue' = Append(eventQueue, result)
        /\ Goto("fetch")
        /\ UNCHANGED blocking
     \/ /\ result \in Results
        /\ blocking' = FALSE
        /\ Goto(back)
        /\ UNCHANGED eventQueue
  /\ UNCHANGED <<channelVars, sem, requested, back, dispatched>>

BlockForResult ==
  /\ At("block")
  /\ sem > 0
  /\ sem' = sem - 1
  /\ Goto("fetch")
  /\ UNCHANGED <<channelVars, blocking, eventQueue, requested, back, dispatched>>

-----------------------------------------------------------------------------
(* AppSource in the event loop of the client: prepare() and check() ask      *)
(* pending(), dispatch() handles the message that pop() finds.               *)

Pending ==
  /\ At("app")
  /\ IF eventQueue # <<>>
       THEN Goto("ready") /\ UNCHANGED channelVars
       ELSE StartGet("PEEK") /\ Goto("peeked")
  /\ UNCHANGED <<blocking, sem, eventQueue, requested, back, dispatched>>

Peeked ==
  /\ At("peeked")
  /\ Goto(IF result = NoMsg THEN "poll" ELSE "ready")
  /\ UNCHANGED <<channelVars, blocking, sem, eventQueue, requested, back, dispatched>>

\* The loop's poll() returns for the eventfd, or for another source.
LoopWakes ==
  /\ At("poll")
  /\ Goto("app")
  /\ UNCHANGED <<channelVars, blocking, sem, eventQueue, requested, back, dispatched>>

Handle(m) == dispatched' = Append(dispatched, m) /\ Goto("app")

Dispatch ==
  /\ At("ready")
  /\ IF eventQueue # <<>>
       THEN /\ Handle(Head(eventQueue))
            /\ eventQueue' = Tail(eventQueue)
            /\ UNCHANGED channelVars
       ELSE /\ StartGet("POP")
            /\ Goto("popped")
            /\ UNCHANGED <<eventQueue, dispatched>>
  /\ UNCHANGED <<blocking, sem, requested, back>>

Popped ==
  /\ At("popped")
  /\ IF result = NoMsg THEN Goto("app") /\ UNCHANGED dispatched ELSE Handle(result)
  /\ UNCHANGED <<channelVars, blocking, sem, eventQueue, requested, back>>

InGetMsg == GetStep /\ UNCHANGED clientVars

-----------------------------------------------------------------------------
(* The server thread: receive_msg() of the client for every message.         *)

\* !blocking_for_sem_ is evaluated before the call of send_msg().
ReceiveMsg(m) == StartSend(Server, m, ~blocking)

Reply ==
  /\ requested
  /\ \E m \in Results : ReceiveMsg(m)
  /\ requested' = FALSE
  /\ UNCHANGED <<blocking, sem, eventQueue, kpc, back, dispatched>>

Emit == (\E m \in Events : ReceiveMsg(m)) /\ UNCHANGED clientVars

Sending == SendStep(Server, "notify") /\ UNCHANGED clientVars

\* Mutant of NotifyForResult: never posts.
NotifyNever ==
  /\ ppc[Server] = "notify"
  /\ ppc' = [ppc EXCEPT ![Server] = "out"]
  /\ UNCHANGED <<queueVars, efd, pmsg, may, last_head, consumerVars, sent, clientVars>>

\* notify_for_result() reads blocking_for_sem_ again ...
NotifyForResult ==
  /\ ppc[Server] = "notify"
  /\ ppc' = [ppc EXCEPT ![Server] = IF blocking THEN "post" ELSE "out"]
  /\ UNCHANGED <<queueVars, efd, pmsg, may, last_head, consumerVars, sent, clientVars>>

\* ... and posts, even if the call has ended meanwhile.
SemPost ==
  /\ ppc[Server] = "post"
  /\ sem' = sem + 1
  /\ ppc' = [ppc EXCEPT ![Server] = "out"]
  /\ UNCHANGED <<queueVars, efd, pmsg, may, last_head, consumerVars, sent,
                 blocking, eventQueue, requested, kpc, back, dispatched>>

-----------------------------------------------------------------------------
Calling == PostCall \/ FetchResult \/ Fetched \/ BlockForResult
Looping == Pending \/ Peeked \/ Dispatch \/ Popped
Serving == Sending \/ NotifyForResult \/ SemPost

Next == \/ StartCall \/ Calling \/ Looping \/ LoopWakes \/ InGetMsg
        \/ Reply \/ Emit \/ Serving

Spec == Init /\ [][Next]_vars

\* The client finishes the calls it starts, the server answers every call and
\* its thread runs on inside receive_msg().
Fairness == /\ WF_vars(Calling)
            /\ WF_vars(InGetMsg)
            /\ WF_vars(Reply)
            /\ WF_vars(Serving)

FairSpec == Spec /\ Fairness

-----------------------------------------------------------------------------
TypeOK ==
  /\ ChannelTypeOK
  /\ ppc \in [Producer -> {"out", "read", "swap", "wake", "notify", "post"}]
  /\ blocking \in BOOLEAN
  /\ sem \in Nat
  /\ eventQueue \in Seq(Events)
  /\ requested \in BOOLEAN
  /\ kpc \in {"app", "ready", "post", "fetch", "fetched", "block", "peeked",
              "poll", "popped"}
  /\ back \in {"app", "ready"}
  /\ dispatched \in Seq(Events)

\* The server has pushed a message and not yet notified the client of it.
Notifying == ppc[Server] \in {"wake", "notify", "post"}

(* While the client sleeps on the semaphore with a message in its channel,
   either the semaphore is posted or the server is on its way to post it:
   block_for_result() against the unsynchronised notify_for_result().      *)
NoLostPost == At("block") /\ sem = 0 => Contents = <<>> \/ Notifying

(* Every two-way call returns, whatever is emitted meanwhile and however
   many stale posts earlier calls left behind.                             *)
CallsReturn == kpc = "post" ~> kpc \in {"app", "ready"}

\* The event that the client took from its channel and has not stored.
InHand == IF (At("fetched") \/ At("popped")) /\ result \in Events THEN <<result>> ELSE <<>>

(* Signal handlers run in the order in which the server emitted, although
   some events take the way through event_queue_ and others do not.        *)
EventsInOrder ==
  dispatched \o eventQueue \o InHand = Without(received, Results)

(* A client that sleeps in its event loop with a message in its channel has
   a readable eventfd, or the server is about to make it so.               *)
NoLostWakeup == At("poll") /\ ~efd => Contents = <<>> \/ ppc[Server] = "wake"
=============================================================================
