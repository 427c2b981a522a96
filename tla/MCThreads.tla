----------------------------- MODULE MCThreads -----------------------------
(***************************************************************************)
(* What the threads of an application do with each other, for TLC: eight   *)
(* specifications side by side, those of ThreadParts, the signal, the      *)
(* commands of a window and its bindings.  They share no state: `part'     *)
(* says which of them a behaviour is about, and the others stay in their   *)
(* first state.                                                            *)
(***************************************************************************)
EXTENDS ThreadParts, Signal

CONSTANTS WindowLinks, WindowConnects, NoEmission   \* WindowCommands

VARIABLES
  part,
  cHeap, cRing, cAlive, cFrames, cIds, cCount, emission, asked, failures,
  value, widget, bound, context, anchored, requests, toClient, toServer, edits, rebinds, latest, crossed

commandVars == <<cHeap, cRing, cAlive, cFrames, cIds, cCount, emission, asked, failures>>
bindingVars == <<value, widget, bound, context, anchored, requests, toClient, toServer, edits,
                 rebinds, latest, crossed>>
partVars    == <<part, channelVars, callVars, signalVars, commandVars, updateVars, threadVars,
                 bindingVars, bufferVars>>

Commands == INSTANCE WindowCommands WITH
  Address <- WindowLinks, MaxConnects <- WindowConnects, MaxDepth <- 0,
  heap <- cHeap, ring <- cRing, alive <- cAlive, frames <- cFrames, ids <- cIds, count <- cCount
Bound == INSTANCE Bindings WITH
  Bindings <- <<"binding">>, OwnContext <- {}, Values <- {"u", "v"}, Initial <- "i",
  MaxEdits <- 2, MaxRebinds <- 4, MaxRequests <- 8, CutsOff <- FALSE

ASSUME CommandsAssumption ==
  /\ NULL \notin WindowLinks /\ IsFiniteSet(WindowLinks) /\ NULL \notin Nat /\ WindowConnects \in Nat
  /\ NoEmission \notin [links : Seq(WindowLinks), current : Nat, future : {"none", "waiting", "handled", "refused"}]

Part == {"server", "calls", "signals", "commands", "updates", "thread", "bindings", "buffer"}

InitParts ==
  /\ part \in Part
  /\ ChannelInit /\ Calls!Init /\ Commands!CommandInit /\ Updates!Init
  /\ Thread!Init /\ Bound!Init /\ Buffer!Init /\ SignalInit
  /\ ring = NULL \/ part = "signals"
  /\ cRing = NULL \/ part = "commands"

-----------------------------------------------------------------------------
(* A step of the specification that the behaviour is about.                  *)
Only(p) ==
  /\ part = p /\ UNCHANGED part
  /\ IF p = "server" THEN TRUE ELSE UNCHANGED channelVars
  /\ IF p = "calls" THEN TRUE ELSE UNCHANGED callVars
  /\ IF p = "signals" THEN TRUE ELSE UNCHANGED signalVars
  /\ IF p = "commands" THEN TRUE ELSE UNCHANGED commandVars
  /\ IF p = "updates" THEN TRUE ELSE UNCHANGED updateVars
  /\ IF p = "thread" THEN TRUE ELSE UNCHANGED threadVars
  /\ IF p = "bindings" THEN TRUE ELSE UNCHANGED bindingVars
  /\ IF p = "buffer" THEN TRUE ELSE UNCHANGED bufferVars

ServerMoves   == Only("server") /\ Next
CallsMove     == Only("calls") /\ Calls!Next
SignalsMove   == Only("signals") /\ SignalNext
CommandsMove  == Only("commands") /\ Commands!CommandNext
UpdatesMove   == Only("updates") /\ Updates!Next
ThreadMoves   == Only("thread") /\ Thread!Next
BindingsMove  == Only("bindings") /\ Bound!Next
BufferMoves   == Only("buffer") /\ Buffer!Next

NextParts == \/ ServerMoves \/ CallsMove \/ SignalsMove \/ CommandsMove
             \/ UpdatesMove \/ ThreadMoves \/ BindingsMove \/ BufferMoves

(* The fairness that each specification assumes, in the behaviours about it. *)
FairParts ==
  /\ InitParts /\ [][NextParts]_partVars
  /\ \A p \in Producer : WF_channelVars(part = "server" /\ SendStep(p, "out"))
  /\ WF_channelVars(part = "server" /\ Consuming)
  /\ WF_callVars(part = "calls" /\ Calls!Calling)
  /\ WF_callVars(part = "calls" /\ Calls!InGetMsg)
  /\ WF_callVars(part = "calls" /\ Calls!Reply)
  /\ WF_callVars(part = "calls" /\ Calls!Serving)
  /\ WF_commandVars(part = "commands" /\ Commands!CommandDispatcher)
  /\ WF_commandVars(part = "commands" /\ Commands!Answer)
  /\ WF_updateVars(part = "updates" /\ Updates!DispatchEvent)
  /\ WF_updateVars(part = "updates" /\ Updates!DrawNow)
  /\ WF_updateVars(part = "updates" /\ Updates!Resize)
  /\ WF_updateVars(part = "updates" /\ Updates!IdleSizing)
  /\ WF_updateVars(part = "updates" /\ Updates!DisplayThread)
  /\ WF_threadVars(part = "thread" /\ (Thread!Bootup \/ Thread!Booted \/ Thread!Joined))
  /\ WF_threadVars(part = "thread" /\ Thread!Ui)
  /\ WF_threadVars(part = "thread" /\ Thread!Working)
  /\ WF_bindingVars(part = "bindings" /\ Bound!Messages)

-----------------------------------------------------------------------------
(* The properties, which their modules explain.                              *)

(* Calls: a call returns, whatever is emitted meanwhile.                     *)
(* Commands of a window end, unhandled only if all handlers refused.         *)
CallsAreAnswered == Calls!CallsReturn /\ Commands!UnhandledWasRefused /\ Commands!CommandsEnd

(* Calls: signal handlers run in the order in which the server emitted.      *)
(* Commands: a link is referred to by the ring and by the emission.          *)
(* Updates: when both threads rest, all that the window shows is current.    *)
(* The display thread and the UI thread end with nothing left to do.         *)
(* Ring buffer: what is read is what was written, in order.                  *)
NothingIsLost ==
  /\ Calls!EventsInOrder /\ Commands!EmissionReferences
  /\ Updates!SettledIsDrawn /\ Thread!DriverEndsIdle /\ Thread!NothingRunsAfterShutdown /\ Buffer!Fifo

(* Updates: both threads come to rest; and shutdown() returns.               *)
ThreadsRest == Updates!Settles /\ Thread!ShutdownEnds

(* Bindings come to rest, with the same value on both sides.                 *)
BindingsConverge ==
  /\ Bound!Settles
  /\ [](Bound!Converged /\ Bound!RequestsEnd /\ Bound!BoundToContext /\ Bound!LatestStays)
=============================================================================
