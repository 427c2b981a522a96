--------------------------- MODULE WindowCommands ---------------------------
(***************************************************************************)
(* The commands of a window: AsyncSignal::Emission (rcore/aidasignal.hh)   *)
(* and the source of WindowImpl (ui/window.cc) that drives it.  Handlers   *)
(* are asked one after the other until one handles the command; a remote   *)
(* handler answers through a future, later.  The AsyncSignal keeps the     *)
(* same ring of HandlerLinks that module Signal describes.                 *)
(***************************************************************************)
EXTENDS Signal

CONSTANT NoEmission

VARIABLES
  emission,  \* commands_emission_
  asked,     \* the handlers this command was passed to
  failures   \* commands that ended with critical ("Command unhandled"), up to 2

commandVars == <<heap, ring, alive, frames, ids, count, emission, asked, failures>>

\* Mutant of Done: an emission is done once its last handler was called.
DoneEarly(e) == e.current >= Len(e.links) - 1 /\ e.future = "none"

Done(e)     == e.current = Len(e.links) /\ e.future = "none"
HasValue(e) == e.future \in {"handled", "refused"}
Pending(e)  == HasValue(e) \/ (e.future = "none" /\ e.current < Len(e.links))

-----------------------------------------------------------------------------
CommandInit == SignalInit /\ emission = NoEmission /\ asked = {} /\ failures = 0

\* custom_command() refuses a command while another one is under way.
CustomCommand ==
  LET all   == (IF ring = NULL THEN <<>> ELSE <<ring>>) \o Siblings(heap, ring)
      links == Without(all, {a \in Address : heap[a].function = NULL})
  IN /\ alive /\ emission = NoEmission
     /\ heap' = Incref(heap, ToSet(links))
     /\ emission' = [links |-> links, current |-> 0, future |-> "none"]
     /\ asked' = {}
     /\ UNCHANGED <<ring, alive, frames, ids, count, failures>>

\* emit_stepwise() of a handler connected with connect() or connect_future().
Step(e, future) ==
  IF e.future # "none" \/ e.current = Len(e.links) THEN e
  ELSE [e EXCEPT !.current = @ + 1,
                 !.future = IF heap[e.links[e.current + 1]].function = NULL THEN "none" ELSE future]

\* ~Emission()
Release(e) == Decref(heap, ToSet(e.links))

\* get_value()
Taken(e) == IF HasValue(e) THEN [e EXCEPT !.future = "none"] ELSE e

\* command_dispatcher() in phase DISPATCH
CommandDispatcher ==
  /\ emission # NoEmission /\ Pending(emission)
  /\ \E future \in {"waiting", "handled", "refused"} :
       LET stepped == Step(emission, future)
           called  == emission.current < stepped.current /\ stepped.future # "none"
           handled == stepped.future = "handled"
           ends    == handled \/ Done(Taken(stepped))
       IN /\ asked' = asked \cup IF called THEN {heap[stepped.links[stepped.current]].function} ELSE {}
          /\ emission' = IF ends THEN NoEmission ELSE Taken(stepped)
          /\ heap' = IF ends THEN Release(stepped) ELSE heap
          /\ failures' = IF ends /\ ~handled THEN (failures + 1) % 3 ELSE failures
  /\ UNCHANGED <<ring, alive, frames, ids, count>>

\* The answer of a remote handler arrives.
Answer ==
  /\ emission # NoEmission /\ emission.future = "waiting"
  /\ \E value \in {"handled", "refused"} : emission' = [emission EXCEPT !.future = value]
  /\ UNCHANGED <<heap, ring, alive, frames, ids, count, asked, failures>>

\* ~WindowImpl() destroys its loop, then its signals: phase DESTROY.
DestroyWindow ==
  /\ alive
  /\ IF emission = NoEmission
       THEN Destroy /\ UNCHANGED emission
       ELSE /\ heap' = (LET kept == Release(emission)
                            gone == UnlinkAll(kept, ring)
                        IN IF ring = NULL THEN kept ELSE Decref(Decref(gone, {ring}), {ring}))
            /\ emission' = NoEmission
            /\ alive' = FALSE /\ ring' = NULL
            /\ ids' = [c \in Connection |-> NULL]
            /\ UNCHANGED <<frames, count>>
  /\ asked' = {}
  /\ UNCHANGED failures

CommandNext ==
  \/ CustomCommand \/ CommandDispatcher \/ Answer \/ DestroyWindow
  \/ /\ Connect \/ \E c \in Connection : Disconnect(c)
     /\ UNCHANGED <<emission, asked, failures>>

CommandSpec == CommandInit /\ [][CommandNext]_commandVars

\* The source runs at PRIORITY_NOW, and remote handlers answer.
FairCommandSpec == CommandSpec /\ WF_commandVars(CommandDispatcher) /\ WF_commandVars(Answer)

-----------------------------------------------------------------------------
(* The references to a link are those of the ring and one of the emission:
   a link that was disconnected while the command waits for an answer stays
   until the command is done and not longer.                               *)
EmissionReferences ==
  \A a \in Address :
    heap[a].ref = (IF a = ring THEN 2 ELSE 0) + (IF a \in ToSet(Siblings(heap, ring)) THEN 1 ELSE 0)
                + IF emission # NoEmission /\ a \in ToSet(emission.links) THEN 1 ELSE 0

(* A command that is reported as unhandled was refused by every handler that
   was connected when it came and still is.                                *)
UnhandledWasRefused ==
  [][failures' # failures =>
       \A a \in ToSet(emission.links) : heap[a].function \in asked' \cup {NULL}]_commandVars

(* A command with handlers is done at last, the window takes the next one,
   whether handlers answer at once, later, or are disconnected meanwhile.  *)
CommandsEnd ==
  emission # NoEmission /\ emission.links # <<>> ~> emission = NoEmission

(* "ultimately Window *always* handles commands", widget.cc:685.             *)
CommandsAlwaysEnd == emission # NoEmission ~> emission = NoEmission
=============================================================================
