------------------------------ MODULE MCToolkit ------------------------------
(***************************************************************************)
(* The parts of the toolkit that work on their own, for TLC: specifications *)
(* side by side, as in MCInterface.  `part' says which of them a behaviour *)
(* is about.                                                               *)
(***************************************************************************)
EXTENDS Integers, Sequences, CrossLinks

CONSTANTS
  Changing, MaxChanges, Ours, Foreign, Properties, Size, Most, Width, MaxTransfers,  \* DisplayDriver
  Track, Skid, Flipped, Ports, Children, MaxSteps, Heights, MaxRows, Views, Scale    \* Scrolling

VARIABLES
  part,
  ed, pending, edits, model, answer, events,
  server, now, wire, window, state, published, queued, armed, configures, stamp, heard,
  alive, recycled, selected, slot, got, deletes, stakes, transfers, count,
  adj, port, offset, shifts, skid, grip, pointer, focus, linked, steps,
  heights, view, value, focusRow

textVars   == <<ed, pending, edits, model, answer, events>>
stateVars  == <<server, now, wire, window, state, published, queued, armed, configures, stamp, heard>>
incrVars   == <<alive, recycled, selected, slot, got, deletes, stakes, transfers, count>>
scrollVars == <<adj, port, offset, shifts, skid, grip, pointer, focus, linked, steps>>
rowVars    == <<heights, view, value, focusRow>>

-----------------------------------------------------------------------------
(* CrossLinks, with its variables and constants: a box "a" with "a1" in it,  *)
(* and "b" beside it.                                                        *)
Nesting == {<<"a", "a">>, <<"a1", "a1">>, <<"b", "b">>, <<"a1", "a">>}

Editor == INSTANCE TextEditing WITH
  Chars <- {"a", "u"}, Wide <- {"u"}, Texts <- {<<>>, <<"a", "u", "a">>}, Width <- 2, MaxEvents <- 4,
  Careful <- TRUE

Driver == INSTANCE DisplayDriver WITH
  pending <- configures, time <- stamp, told <- heard

Slide == INSTANCE Scrolling

-----------------------------------------------------------------------------
ASSUME ToolkitAssumption ==
  /\ Editor!TextEditingAssumption /\ Driver!DriverAssumption /\ Driver!IncrAssumption /\ Slide!ScrollingAssumption

Part == {"links", "text", "window", "incr", "scroll", "rows"}

InitParts ==
  /\ part \in Part
  /\ LinksInit /\ Editor!Init /\ Driver!Init /\ Driver!InitIncr
  /\ Slide!Init /\ (part = "scroll" \/ (port = [x \in {"h", "v"} |-> 1] /\ \A x \in {"h", "v"} : adj[x].upper = 2))
  /\ Slide!InitRows /\ (part = "rows" \/ (heights = <<1>> /\ view = 4))

(* A step of the specification that the behaviour is about.                  *)
Only(p) ==
  /\ part = p /\ UNCHANGED part
  /\ IF p = "links" THEN TRUE ELSE UNCHANGED linkVars
  /\ IF p = "text" THEN TRUE ELSE UNCHANGED textVars
  /\ IF p = "window" THEN TRUE ELSE UNCHANGED stateVars
  /\ IF p = "incr" THEN TRUE ELSE UNCHANGED incrVars
  /\ IF p = "scroll" THEN TRUE ELSE UNCHANGED scrollVars
  /\ IF p = "rows" THEN TRUE ELSE UNCHANGED rowVars

LinksMove    == Only("links") /\ LinksNext
TextMoves    == Only("text") /\ Editor!Next
WindowMoves  == Only("window") /\ Driver!Next
TransferMoves == Only("incr") /\ Driver!NextIncr
SlideMoves   == Only("scroll") /\ Slide!Next
RowsMove     == Only("rows") /\ Slide!NextRows

NextParts == LinksMove \/ TextMoves \/ WindowMoves \/ TransferMoves \/ SlideMoves
             \/ RowsMove
partVars == <<part, linkVars, textVars, stateVars, incrVars, scrollVars, rowVars>>
SpecParts == InitParts /\ [][NextParts]_partVars

-----------------------------------------------------------------------------
(* The properties, which their modules explain.                              *)

(* LinksAreKept of CrossLinks: the program keeps the cross links it made, and *)
(* unlinks no others.                                                         *)

(* The editor shows what a reader of the keys expects, and answers requests  *)
(* for the selection with the selected text.                                 *)
EditsAreSeen == part = "text" => Editor!EditsAreSeen /\ Editor!SelectionIsOwned

(* Once nothing is under way the state the user interface was told is that   *)
(* of the X server; every transfer whose requestor reads goes on until the   *)
(* end of the data.                                                          *)
DriverKeepsUp ==
  /\ part = "window" => Driver!StateConverges
  /\ part = "incr" => Driver!TransfersGoOn

(* Viewport, sliders and adjustments agree; the focus row of a list is in    *)
(* view, and both ends of the list can be.                                   *)
ViewsFollow ==
  /\ part = "scroll" => Slide!ViewsFollow
  /\ part = "rows" => Slide!FocusRowShows /\ Slide!EndsMeet

(* The time that a window stamps on its requests never goes back from one X  *)
(* event to the next, whatever is synthesized in between; a dragged skid     *)
(* stays under the pointer.                                                  *)
PointerAndTimeMoveOn == Driver!TimeAdvances /\ Slide!SkidFollowsPointer
=============================================================================
