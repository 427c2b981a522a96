--------------------------- MODULE RemoteObjects ---------------------------
(***************************************************************************)
(* The protocol between a ClientConnectionImpl and a ServerConnectionImpl  *)
(* (rcore/aida.cc): method calls, signal connections and emissions, the    *)
(* ids under which the server's ObjectMap exports its objects, and the     *)
(* garbage collection that releases those the client has forgotten.  Each  *)
(* direction is the first-in first-out queue that a TransportChannel       *)
(* implements; who is woken up when is left to ThreadParts and             *)
(* ClientCalls.  An action is what one side does between two messages.     *)
(***************************************************************************)
EXTENDS Naturals, Sequences, SequencesExt, FiniteSets

CONSTANTS
  Object,        \* instances in the server
  Origin,        \* the one that remote_origin() gives to the client
  Handler,       \* signal handlers of the client
  Emission,      \* ids of two-way emissions under way
  EmitsCarry,    \* the instances that signals have as arguments
  FreeLength,    \* FREE_LENGTH of ObjectMap::next_index()
  MaxQueue,      \* bound: messages under way that nobody waits for
  NoObject, NoHandler, NoEmission

ASSUME RemoteAssumption ==
  /\ Origin \in Object /\ NoObject \notin Object
  /\ NoHandler \notin Handler /\ NoEmission \notin Emission
  /\ EmitsCarry \subseteq Object
  /\ FreeLength \in Nat \ {0} /\ MaxQueue \in Nat

VARIABLES
  entries,      \* object_map_.entries_: the instance exported under each id
  freeList,     \* object_map_.free_list_
  live,         \* the ids in live_remotes_
  sweep,        \* the ids in sweep_remotes_
  sweeping,     \* sweep_remotes_ is not NULL
  signalOf,     \* the object in whose signal a handler is linked
  answering,    \* the keys of emit_result_map_
  denotes,      \* id2orbo_map_, and the object a handle was received for
  handles,      \* ids for which client code holds a RemoteHandle
  remote,       \* SignalHandler::remote, 0 for a deleted handler
  slot,         \* signal_handlers_: "unused", "set", or NULL again
  seenGarbage,  \* seen_garbage_
  eventQueue,   \* event_queue_
  phase,        \* what the client waits for in call_remote(), or "app"
  calling,      \* the handler it connects or disconnects
  toServer, toClient,  \* the messages under way
  failed,       \* the assertion that ended the process, or "no"
  overtaken     \* history: a sweep reported an id that a queued event carries

mapVars    == <<entries, freeList>>
sweepVars  == <<live, sweep, sweeping>>
serverVars == <<mapVars, sweepVars, signalOf, answering>>
handleVars == <<denotes, handles, remote, seenGarbage>>
clientVars == <<handleVars, slot, eventQueue, phase, calling>>
ghostVars  == <<failed, overtaken>>
vars == <<serverVars, clientVars, toServer, toClient, ghostVars>>

NoMessage == [kind |-> "none", id |-> 0, obj |-> NoObject, handler |-> NoHandler,
              emission |-> NoEmission, ids |-> {}, ok |-> TRUE]

\* A message that carries an object has its id; obj is what the id stands for.
About(k, id, o) == [NoMessage EXCEPT !.kind = k, !.id = id, !.obj = o]

Post(q, m) == Append(q, m)

Init ==
  /\ entries = <<>> /\ freeList = <<>>
  /\ live = {} /\ sweep = {} /\ sweeping = FALSE
  /\ signalOf = [h \in Handler |-> NoObject]
  /\ answering = {}
  /\ denotes = <<>>
  /\ handles = {}
  /\ remote = [h \in Handler |-> 0]
  /\ slot = [h \in Handler |-> "unused"]
  /\ seenGarbage = FALSE
  /\ eventQueue = <<>>
  /\ phase = "start"
  /\ calling = NoHandler
  /\ toServer = <<>> /\ toClient = <<>>
  /\ failed = "no"
  /\ overtaken = FALSE

-----------------------------------------------------------------------------
(* ObjectMap.  An entry is in use while its MappedObject has references,     *)
(* which are those of live_remotes_ and sweep_remotes_.                      *)

IdOf(o) == {i \in DOMAIN entries : entries[i] = o}

\* next_index() hashes a free slot out of all but the last once there are
\* more than FreeLength of them, and grows entries_ otherwise.
NextIndex(i) ==
  IF Len(freeList) > FreeLength
    THEN \E j \in 1 .. Len(freeList) - 1 :
           /\ i = freeList[j]
           /\ freeList' = Front([freeList EXCEPT ![j] = Last(freeList)])
    ELSE i = Len(entries) + 1 /\ UNCHANGED freeList

\* Mutant of Export: a new orbo for an instance that has one.
ExportTwice(o, i) ==
  /\ NextIndex(i)
  /\ entries' = [k \in DOMAIN entries \cup {i} |-> IF k = i THEN o ELSE entries[k]]

\* orbo_from_instance().
Export(o, i) ==
  IF IdOf(o) # {}
    THEN i \in IdOf(o) /\ UNCHANGED mapVars
    ELSE /\ NextIndex(i)
         /\ entries' = [k \in DOMAIN entries \cup {i} |-> IF k = i THEN o ELSE entries[k]]

\* add_interface(): o is sent to the client as id i.
AddInterface(o, i) ==
  /\ i \in 1 .. Len(entries) + 1
  /\ Export(o, i)
  /\ live' = live \cup {i}

\* delete_orbid() for the ids whose last reference went away, in any order.
DeleteOrbids(ids) ==
  /\ entries' = [k \in DOMAIN entries |-> IF k \in ids THEN NoObject ELSE entries[k]]
  /\ \E order \in SetToSeqs(ids) : freeList' = freeList \o order

\* pop_interface(): the instance behind an id, or NULL.
PopInterface(i) == IF i \in DOMAIN entries THEN entries[i] ELSE NoObject

-----------------------------------------------------------------------------
(* The client.                                                               *)

\* ClientOrbObjects that exist: some RemoteHandle refers to them.
Alive(hs, rem) == (hs \cup {rem[h] : h \in Handler}) \ {0}

\* ~ClientOrbObject -> client_orb_object_deleting() for the ids that lost
\* their last handle: request a collection unless one is requested.
Deleting(hs, rem, queue) ==
  IF Alive(handles, remote) \ Alive(hs, rem) # {} /\ ~seenGarbage
    THEN /\ seenGarbage' = TRUE
         /\ toServer' = Post(queue, About("SEEN_GARBAGE", 0, NoObject))
    ELSE /\ UNCHANGED seenGarbage
         /\ toServer' = queue

\* pop_handle(): the id's ClientOrbObject, or a new one.
PopHandle(m) ==
  /\ handles' = handles \cup {m.id}
  /\ denotes' = IF m.id \in Alive(handles, remote) THEN denotes
                ELSE [i \in DOMAIN denotes \cup {m.id} |->
                        IF i = m.id THEN m.obj ELSE denotes[i]]

\* Mutant of GcSweep: the flag is not reset.
GcSweepOnce ==
  LET trash == DOMAIN denotes \ Alive(handles, remote)
  IN /\ denotes' = [i \in DOMAIN denotes \ trash |-> denotes[i]]
     /\ toServer' = Post(toServer, [About("REPORT", 0, NoObject) EXCEPT !.ids = trash])
     /\ UNCHANGED <<seenGarbage, overtaken>>

\* gc_sweep(): report and forget the expired ids.
GcSweep ==
  LET trash == DOMAIN denotes \ Alive(handles, remote)
  IN /\ denotes' = [i \in DOMAIN denotes \ trash |-> denotes[i]]
     /\ toServer' = Post(toServer, [About("REPORT", 0, NoObject) EXCEPT !.ids = trash])
     /\ seenGarbage' = FALSE
     /\ overtaken' = (overtaken \/ \E k \in DOMAIN eventQueue : eventQueue[k].id \in trash)

\* remote_origin(): HELLO, answered by WELCOME.
Hello ==
  /\ failed = "no" /\ phase = "start"
  /\ phase' = "WELCOME"
  /\ toServer' = Post(toServer, About("HELLO", 0, NoObject))
  /\ UNCHANGED <<serverVars, handleVars, slot, eventQueue, calling, toClient, ghostVars>>

InApp == failed = "no" /\ phase = "app"

\* A two-way or a one-way method call on a handle.
Call(i) ==
  /\ InApp /\ i \in handles
  /\ \/ /\ phase' = "CALL_RESULT"
        /\ toServer' = Post(toServer, About("CALL_TWOWAY", i, denotes[i]))
     \/ /\ Len(toServer) < MaxQueue
        /\ UNCHANGED phase
        /\ toServer' = Post(toServer, About("CALL_ONEWAY", i, denotes[i]))
  /\ UNCHANGED <<serverVars, handleVars, slot, eventQueue, calling, toClient, ghostVars>>

\* Client code lets go of its last handle for an id.
DropHandle(i) ==
  /\ InApp /\ i \in handles
  /\ handles' = handles \ {i}
  /\ Deleting(handles', remote, toServer)
  /\ UNCHANGED <<serverVars, denotes, remote, slot, eventQueue, phase, calling,
                 toClient, ghostVars>>

\* signal_connect(), its new SignalHandler holds a handle of the emitter.
SignalConnect(h, i) ==
  /\ InApp /\ i \in handles /\ slot[h] = "unused"
  /\ slot' = [slot EXCEPT ![h] = "set"]
  /\ remote' = [remote EXCEPT ![h] = i]
  /\ toServer' = Post(toServer, [About("CONNECT", i, denotes[i]) EXCEPT !.handler = h])
  /\ phase' = "CONNECT_RESULT"
  /\ UNCHANGED <<serverVars, denotes, handles, seenGarbage, eventQueue, calling,
                 toClient, ghostVars>>

\* Mutant of SignalDisconnect: the slot keeps its handler.
SignalDisconnectKeepsSlot(h) ==
  /\ InApp /\ slot[h] = "set" /\ remote[h] # 0
  /\ toServer' = Post(toServer, [About("DISCONNECT", remote[h], denotes[remote[h]])
                                   EXCEPT !.handler = h])
  /\ phase' = "CONNECT_RESULT"
  /\ UNCHANGED <<serverVars, handleVars, slot, eventQueue, calling, toClient, ghostVars>>

\* signal_disconnect(), up to the result.
SignalDisconnect(h) ==
  /\ InApp /\ slot[h] = "set"
  /\ slot' = [slot EXCEPT ![h] = "null"]
  /\ toServer' = Post(toServer, [About("DISCONNECT", remote[h], denotes[remote[h]])
                                   EXCEPT !.handler = h])
  /\ phase' = "CONNECT_RESULT"
  /\ calling' = h
  /\ UNCHANGED <<serverVars, handleVars, eventQueue, toClient, ghostVars>>

\* The result ends call_remote(): results that carry an object become handles,
\* signal_disconnect() deletes its handler.
TakeResult ==
  /\ failed = "no"
  /\ toClient # <<>> /\ phase = Head(toClient).kind
  /\ toClient' = Tail(toClient)
  /\ phase' = "app"
  /\ calling' = NoHandler
  /\ IF calling # NoHandler
       THEN /\ remote' = [remote EXCEPT ![calling] = 0]
            /\ Deleting(handles, remote', toServer)
            /\ UNCHANGED <<denotes, handles>>
       ELSE /\ IF Head(toClient).id # 0 THEN PopHandle(Head(toClient))
                                        ELSE UNCHANGED <<denotes, handles>>
            /\ UNCHANGED <<remote, seenGarbage, toServer>>
  /\ UNCHANGED <<serverVars, slot, eventQueue, ghostVars>>

\* Events that arrive during the call are queued, a sweep is served at once.
TakeOther ==
  /\ failed = "no" /\ phase \notin {"app", "start"}
  /\ toClient # <<>>
  /\ \/ /\ Head(toClient).kind = "EMIT"
        /\ eventQueue' = Append(eventQueue, Head(toClient))
        /\ UNCHANGED <<denotes, seenGarbage, toServer, overtaken>>
     \/ /\ Head(toClient).kind = "SWEEP"
        /\ GcSweep
        /\ UNCHANGED eventQueue
  /\ toClient' = Tail(toClient)
  /\ UNCHANGED <<serverVars, handles, remote, slot, phase, calling, failed>>

\* The seh of the handler: unmarshals the arguments and runs the callback; the
\* result of a two-way emission is posted.
RunHandler(m) ==
  IF slot[m.handler] # "set"
    THEN failed' = "handler" /\ UNCHANGED <<denotes, handles, toServer>>
    ELSE /\ UNCHANGED failed
         /\ IF m.id # 0 THEN PopHandle(m) ELSE UNCHANGED <<denotes, handles>>
         /\ toServer' = IF m.emission = NoEmission THEN toServer
                        ELSE Post(toServer, [About("EMIT_RESULT", 0, NoObject)
                                               EXCEPT !.emission = m.emission])

\* dispatch() of an EMIT message, queued events first.
DispatchEvent ==
  /\ InApp
  /\ \/ /\ eventQueue # <<>>
        /\ RunHandler(Head(eventQueue))
        /\ eventQueue' = Tail(eventQueue)
        /\ UNCHANGED toClient
     \/ /\ eventQueue = <<>>
        /\ toClient # <<>> /\ Head(toClient).kind = "EMIT"
        /\ RunHandler(Head(toClient))
        /\ toClient' = Tail(toClient)
        /\ UNCHANGED eventQueue
  /\ UNCHANGED <<serverVars, remote, seenGarbage, slot, phase, calling, overtaken>>

\* dispatch() of a GARBAGE_SWEEP message.
DispatchSweep ==
  /\ InApp /\ eventQueue = <<>>
  /\ toClient # <<>> /\ Head(toClient).kind = "SWEEP"
  /\ GcSweep
  /\ toClient' = Tail(toClient)
  /\ UNCHANGED <<serverVars, handles, remote, slot, eventQueue, phase, calling, failed>>

-----------------------------------------------------------------------------
(* The server: dispatch() by message kind, and emissions of its signals.     *)

Serves(k) == failed = "no" /\ toServer # <<>> /\ Head(toServer).kind = k

\* Answers the front of toServer with message m.
Reply(m) == toServer' = Tail(toServer) /\ toClient' = Post(toClient, m)
NoReply  == toServer' = Tail(toServer) /\ UNCHANGED toClient

\* The implementation aborts on "invalid 'this' pointer".
SelfIsNull == PopInterface(Head(toServer).id) = NoObject

ServeHello ==
  /\ Serves("HELLO")
  /\ \E i \in 1 .. Len(entries) + 1 :
       AddInterface(Origin, i) /\ Reply(About("WELCOME", i, Origin))
  /\ UNCHANGED <<clientVars, sweep, sweeping, signalOf, answering, ghostVars>>

\* A method may return any of the server's objects, or none.
ServeTwoway ==
  /\ Serves("CALL_TWOWAY") /\ ~SelfIsNull
  /\ \/ /\ Reply(About("CALL_RESULT", 0, NoObject))
        /\ UNCHANGED <<mapVars, live>>
     \/ \E o \in Object, i \in 1 .. Len(entries) + 1 :
          AddInterface(o, i) /\ Reply(About("CALL_RESULT", i, o))
  /\ UNCHANGED <<clientVars, sweep, sweeping, signalOf, answering, ghostVars>>

ServeOneway ==
  /\ Serves("CALL_ONEWAY") /\ ~SelfIsNull
  /\ NoReply
  /\ UNCHANGED <<serverVars, clientVars, ghostVars>>

\* The connect stub links a closure into the signal, or unlinks one.
ServeConnect ==
  LET m == Head(toServer)
      self == PopInterface(m.id)
  IN /\ Serves("CONNECT") /\ ~SelfIsNull
     /\ signalOf' = [signalOf EXCEPT ![m.handler] = self]
     /\ Reply(About("CONNECT_RESULT", 0, NoObject))
     /\ UNCHANGED <<mapVars, sweepVars, answering, clientVars, ghostVars>>

ServeDisconnect ==
  LET m == Head(toServer)
      self == PopInterface(m.id)
      found == signalOf[m.handler] = self
  IN /\ Serves("DISCONNECT") /\ ~SelfIsNull
     /\ signalOf' = [signalOf EXCEPT ![m.handler] = IF found THEN NoObject ELSE @]
     /\ Reply([About("CONNECT_RESULT", 0, NoObject) EXCEPT !.ok = found])
     /\ UNCHANGED <<mapVars, sweepVars, answering, clientVars, ghostVars>>

ServeOnNull ==
  /\ \E k \in {"CALL_TWOWAY", "CALL_ONEWAY", "CONNECT", "DISCONNECT"} : Serves(k)
  /\ SelfIsNull
  /\ failed' = "self"
  /\ NoReply
  /\ UNCHANGED <<serverVars, clientVars, overtaken>>

StartGarbageCollection ==
  /\ sweeping' = TRUE
  /\ sweep' = live
  /\ live' = {}
  /\ Reply(About("SWEEP", 0, NoObject))

ServeSeenGarbage ==
  /\ Serves("SEEN_GARBAGE")
  /\ IF sweeping THEN NoReply /\ UNCHANGED sweepVars ELSE StartGarbageCollection
  /\ UNCHANGED <<mapVars, signalOf, answering, clientVars, ghostVars>>

\* Mutant of Retained: a trash id is purged even if it was sent again.
RetainedNotSent(trash) == (live \cup sweep) \ trash

\* What stays alive after a report: unreported ids, and all sent since the swap.
Retained(trash) == live \cup (sweep \ trash)

ServeReport ==
  /\ Serves("REPORT")
  /\ IF sweeping
       THEN /\ live' = Retained(Head(toServer).ids)
            /\ DeleteOrbids((live \cup sweep) \ live')
            /\ sweep' = {} /\ sweeping' = FALSE
       ELSE UNCHANGED <<mapVars, sweepVars>>
  /\ NoReply
  /\ UNCHANGED <<signalOf, answering, clientVars, ghostVars>>

ServeEmitResult ==
  LET e == Head(toServer).emission
  IN /\ Serves("EMIT_RESULT")
     /\ IF e \in answering THEN answering' = answering \ {e} /\ UNCHANGED failed
                           ELSE failed' = "emission" /\ UNCHANGED answering
     /\ NoReply
     /\ UNCHANGED <<mapVars, sweepVars, signalOf, clientVars, overtaken>>

\* emit_result_handler_add(), for a two-way emission.
AddEmitResultHandler(e) == answering' = answering \cup ({e} \ {NoEmission})

\* An emission reaches the closure of handler h: one-way, or two-way with an
\* EmitResultHandler; its argument may be an object.
Emit(h) ==
  /\ failed = "no"
  /\ signalOf[h] # NoObject
  /\ Len(toClient) + Len(eventQueue) < MaxQueue
  /\ \E e \in {NoEmission} \cup (Emission \ answering) :
       /\ AddEmitResultHandler(e)
       /\ \/ /\ toClient' = Post(toClient, [About("EMIT", 0, NoObject)
                                 EXCEPT !.handler = h, !.emission = e])
             /\ UNCHANGED <<mapVars, live>>
          \/ \E o \in EmitsCarry, i \in 1 .. Len(entries) + 1 :
               /\ AddInterface(o, i)
               /\ toClient' = Post(toClient, [About("EMIT", i, o)
                                EXCEPT !.handler = h, !.emission = e])
  /\ UNCHANGED <<sweep, sweeping, signalOf, clientVars, toServer, ghostVars>>

-----------------------------------------------------------------------------
\* Messages are taken from the channels.
ClientReceives == TakeResult \/ TakeOther \/ DispatchEvent \/ DispatchSweep
ServerReceives == \/ ServeHello \/ ServeTwoway \/ ServeOneway \/ ServeConnect
                  \/ ServeDisconnect \/ ServeOnNull \/ ServeSeenGarbage
                  \/ ServeReport \/ ServeEmitResult
ClientCode == \/ Hello
              \/ \E i \in handles : Call(i) \/ DropHandle(i)
              \/ \E h \in Handler, i \in handles : SignalConnect(h, i)
              \/ \E h \in Handler : SignalDisconnect(h)

Next == ClientReceives \/ ServerReceives \/ ClientCode \/ \E h \in Handler : Emit(h)

Spec == Init /\ [][Next]_vars

\* Both sides keep dispatching; what application code does is up to it.
Fairness == WF_vars(ClientReceives) /\ WF_vars(ServerReceives)
FairSpec == Spec /\ Fairness

-----------------------------------------------------------------------------
Ids == DOMAIN entries
MessageKinds == {"HELLO", "CALL_TWOWAY", "CALL_ONEWAY", "CONNECT", "DISCONNECT",
                 "SEEN_GARBAGE", "REPORT", "EMIT_RESULT", "WELCOME", "CALL_RESULT",
                 "CONNECT_RESULT", "SWEEP", "EMIT"}
Messages == [kind : MessageKinds, id : Ids \cup {0}, obj : Object \cup {NoObject},
             handler : Handler \cup {NoHandler}, emission : Emission \cup {NoEmission},
             ids : SUBSET Ids, ok : BOOLEAN]

TypeOK ==
  /\ entries \in Seq(Object \cup {NoObject})
  /\ freeList \in Seq(Ids)
  /\ live \subseteq Ids /\ sweep \subseteq Ids /\ sweeping \in BOOLEAN
  /\ signalOf \in [Handler -> Object \cup {NoObject}]
  /\ answering \subseteq Emission
  /\ DOMAIN denotes \subseteq Ids
  /\ \A i \in DOMAIN denotes : denotes[i] \in Object
  /\ handles \subseteq DOMAIN denotes
  /\ remote \in [Handler -> DOMAIN denotes \cup {0}]
  /\ slot \in [Handler -> {"unused", "set", "null"}]
  /\ seenGarbage \in BOOLEAN
  /\ phase \in {"start", "WELCOME", "app", "CALL_RESULT", "CONNECT_RESULT"}
  /\ calling \in Handler \cup {NoHandler}
  /\ failed \in {"no", "self", "handler", "emission"}
  /\ overtaken \in BOOLEAN
  /\ \A q \in {toServer, toClient, eventQueue} : q \in Seq(Messages)

(* The ObjectMap is consistent: an entry is in use exactly while its id is in
   live_remotes_ or sweep_remotes_, an instance has one entry, and the free
   list names every hole once (what the assertions of delete_orbid() check
   one by one), with handles only for ids that were received; and the client
   asks for a collection only while none is under way: the server never has
   to refuse a "duplicate garbage collection request".                     *)
MapConsistent ==
  /\ TypeOK
  /\ \A i \in Ids : entries[i] # NoObject <=> i \in live \cup sweep
  /\ \A o \in Object : Cardinality(IdOf(o)) <= 1
  /\ IsInjective(freeList)
  /\ ToSet(freeList) = IdOf(NoObject)
  /\ Serves("SEEN_GARBAGE") => ~sweeping

(* A handle of the client, and a message on its way to the server that names
   one, resolve to the object the client received it for: "ServerConnection
   keeps a list of all instance references that are sent to the Client ...
   that keep the instances alive" (aidacc/about-aida.dox).                 *)
HandlesResolve ==
  /\ \A i \in Alive(handles, remote) : PopInterface(i) = denotes[i]
  /\ \A k \in DOMAIN toServer :
       toServer[k].id # 0 => PopInterface(toServer[k].id) = toServer[k].obj

(* So they do as long as no sweep is served in call_remote() ahead of queued
   events that carry the ids it reports: nothing else can break them.      *)
HandlesResolveInOrder == ~overtaken => HandlesResolve

(* What a request refers to is there when the server serves it: a handler is
   found when it is disconnected, "should always succeed due to the above
   guard" in signal_disconnect(), and the result of a two-way emission finds
   its EmitResultHandler, however the messages of both sides cross.        *)
ReferencesAreFound ==
  /\ \A k \in DOMAIN toClient : toClient[k].ok
  /\ failed # "emission"

(* The client finds the handler of every signal it receives, as dispatch()
   asserts of signal_lookup().                                             *)
EmitFindsHandler == failed # "handler"

Carries(q, o) == \E k \in DOMAIN q : q[k].obj = o

\* The server exports o, but the client has no handle and will receive none.
Forgotten(o) ==
  /\ failed = "no"
  /\ \E i \in IdOf(o) : i \notin Alive(handles, remote)
  /\ ~Carries(toClient, o) /\ ~Carries(eventQueue, o)

(* Objects the client has forgotten are released, or sent again.           *)
ForgottenIsReleased == \A o \in Object : Forgotten(o) ~> ~Forgotten(o)
=============================================================================
