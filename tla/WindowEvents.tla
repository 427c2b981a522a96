---------------------------- MODULE WindowEvents ----------------------------
(***************************************************************************)
(* How WindowImpl (ui/window.cc) tracks the pointer, grabs and pressed     *)
(* buttons, and delivers mouse events to the ButtonAreas (ui/buttons.cc)   *)
(* and SliderSkids (ui/slider.cc) in it, whose handlers call the window.   *)
(*                                                                         *)
(* Everything runs in the UI thread.  An action is one event or one call   *)
(* of the application with all that it causes, so the operations are       *)
(* functions of the state s of the window.  Children are nested, Child[1]  *)
(* is in the window, and places are named by the innermost widget there.   *)
(***************************************************************************)
EXTENDS Integers, Sequences, SequencesExt, FiniteSets, FiniteSetsExt

CONSTANTS
  Window, Child,
  Skids,               \* the children that are SliderSkids and grab unconfined
  Button,              \* the mouse buttons that widgets react to
  RemoveWhilePressed,  \* the application may remove widgets at any time
  NoButton, Outside

Children == ToSet(Child)
Widget == {Window} \cup Children

WindowEventsAssumption ==
  /\ IsInjective(Child) /\ Window \notin Children /\ Skids \subseteq Children
  /\ NoButton \notin Button /\ Outside \notin Widget
  /\ IsFiniteSet(Button)

VARIABLES
  s,         \* the window
  attached,  \* widgets that have the window as an ancestor
  hidden,    \* widgets that are not visible()
  insensitive

vars == <<s, attached, hidden, insensitive>>

Path(w) == LET all == <<Window>> \o Child
           IN SubSeq(all, 1, SelectInSeq(all, LAMBDA v : v = w))

AncestorsAndSelf(w) == ToSet(Path(w))
Visible(w)   == w \notin hidden
Drawable(w)  == AncestorsAndSelf(w) \cap hidden = {}
Sensitive(w) == AncestorsAndSelf(w) \cap insensitive = {}

\* The attached children of w at a place, outermost first.
PointChildren(w, place) ==
  SelectSeq(Path(place), LAMBDA v : v \in attached /\ w \in AncestorsAndSelf(v) \ {v} /\ Drawable(v))

Without(list, minus) == SelectSeq(list, LAMBDA w : w \notin ToSet(minus))

-----------------------------------------------------------------------------
(* Handlers of ENTER and LEAVE only set hover().                             *)

Left(t, ws)    == [t EXCEPT !.hover = @ \ ws]
Entered(t, ws) == [t EXCEPT !.hover = @ \cup (ws \ {Window})]

VisibleGrabs(t) == SelectSeq(t.grabs, Visible)

Pierced(t) ==
  LET grab == Last(VisibleGrabs(t))
  IN IF VisibleGrabs(t) # <<>>
       THEN IF grab \in Skids \/ (grab \in AncestorsAndSelf(t.place) /\ Drawable(grab))
              THEN <<grab>> \o PointChildren(grab, t.place) ELSE <<>>
     ELSE IF Visible(Window)
       THEN <<Window>> \o (IF t.entered THEN PointChildren(Window, t.place) ELSE <<>>)
     ELSE <<>>

\* Mutant of MouseMovement: no LEAVE events.
MovementWithoutLeaves(t, place) ==
  LET at == [t EXCEPT !.place = place]
      pierced == Pierced(at)
  IN [Entered(at, ToSet(Without(pierced, at.last))) EXCEPT !.last = pierced]

\* dispatch_mouse_movement(); MOVE events change nothing here.
Crossed(t, pierced) ==
  [Entered(Left(t, ToSet(Without(t.last, pierced))), ToSet(Without(pierced, t.last))) EXCEPT !.last = pierced]
MouseMovement(t, place) == Crossed([t EXCEPT !.place = place], Pierced([t EXCEPT !.place = place]))

LeaveEvent(t, place) ==
  LET moved == [MouseMovement(t, place) EXCEPT !.entered = FALSE]
  IN IF VisibleGrabs(moved) # <<>> THEN moved
     ELSE [Left(moved, ToSet(moved.last)) EXCEPT !.last = <<>>]

GrabStackChanged(t) ==
  LET moved == MouseMovement(t, t.place)
  IN IF moved.grabs = <<>> /\ ~moved.entered /\ moved.display
       THEN LeaveEvent(moved, moved.place) ELSE moved

\* remove_grab() throws if w has no grab; removes the latest one.
RemoveGrab(t, w) ==
  LET k == SelectLastInSeq(t.grabs, LAMBDA g : g = w)
  IN IF k = 0 THEN [t EXCEPT !.thrown = TRUE]
              ELSE GrabStackChanged([t EXCEPT !.grabs = RemoveAt(@, k)])

RemoveGrabWidget(t, w) ==
  IF w \in ToSet(t.grabs) THEN GrabStackChanged([t EXCEPT !.grabs = SelectSeq(@, LAMBDA g : g # w)])
                          ELSE t

-----------------------------------------------------------------------------
(* Button events of a widget w: handle_event() of ButtonArea and SliderSkid. *)

\* BUTTON_RELEASE and BUTTON_CANCELED, but for the command.
ReleaseWidget(t, w, b) ==
  IF w = Window \/ t.button[w] # b THEN t
  ELSE [RemoveGrab(t, w) EXCEPT !.button[w] = NoButton]

\* Mutant of CancelWidgetEvents: the map is dropped without telling anyone.
CancelSilently(t, ws) ==
  [Left(t, ToSet(t.last) \cap ws) EXCEPT
     !.last = SelectSeq(@, LAMBDA w : w \notin ws), !.pressed = {}]

\* cancel_widget_events() of one widget or of all, the entries of other
\* widgets are erased as well.
CancelWidgetEvents(t, ws) ==
  LET left == [Left(t, ToSet(t.last) \cap ws) EXCEPT
                 !.last = SelectSeq(@, LAMBDA w : w \notin ws), !.pressed = {}]
  IN FoldSet(LAMBDA p, u : ReleaseWidget(u, p[1], p[2]), left, {p \in t.pressed : p[1] \in ws})

\* destroy_display_window()
DestroyDisplayWindow(t) ==
  IF t.display THEN CancelWidgetEvents([t EXCEPT !.display = FALSE], Widget) ELSE t

\* The on_click command of a ButtonArea is "Window::close" or one that is queued.
Click(t, closes) == IF closes THEN DestroyDisplayWindow(t) ELSE t

\* BUTTON_PRESS: [1] the state it leads to, [2] handled.
PressWidget(t, w, b, closes) ==
  IF w = Window \/ t.button[w] # NoButton THEN <<t, FALSE>>
  ELSE <<Click([t EXCEPT !.button[w] = b, !.grabs = Append(@, w)], closes /\ w \in t.hover \ Skids), TRUE>>

\* dispatch_button_press(): innermost first until one handles it.
ButtonPress(t, b, closes) ==
  FoldRight(LAMBDA w, u :
      IF u[2] \/ ~Sensitive(w) \/ <<w, b>> \in u[1].pressed THEN u
      ELSE PressWidget([u[1] EXCEPT !.pressed = @ \cup {<<w, b>>}], w, b, closes),
    t.last, <<t, FALSE>>)[1]

\* dispatch_button_release()
ButtonRelease(t, b, closes) ==
  FoldSet(LAMBDA p, u :
      IF p \notin u.pressed THEN u
      ELSE LET released == ReleaseWidget([u EXCEPT !.pressed = @ \ {p}], p[1], b)
               clicked  == p[1] \in Children \ Skids /\ u.button[p[1]] = b /\ p[1] \in u.hover
           IN Click(released, closes /\ clicked),
    t, {p \in t.pressed : p[2] = b})

-----------------------------------------------------------------------------
Init ==
  /\ s = [display |-> TRUE, entered |-> FALSE, last |-> <<>>, grabs |-> <<>>, pressed |-> {},
          place |-> Outside, hover |-> {}, button |-> [w \in Children |-> NoButton], thrown |-> FALSE]
  /\ attached = Widget /\ hidden = {} /\ insensitive = {}

\* dispatch_event() of a window that has a display window.
Event(t) == /\ s.display /\ ~s.thrown
            /\ s' = t
            /\ UNCHANGED <<attached, hidden, insensitive>>

Enter(place) == Event(MouseMovement([s EXCEPT !.entered = TRUE], place))
Move(place)  == Event(MouseMovement(s, place))
Leave(place) == Event(LeaveEvent(s, place))
CancelEvents == Event(CancelWidgetEvents(s, Widget))

\* dispatch_button_event()
Press(b, place, closes) ==
  Event(MouseMovement(ButtonPress(MouseMovement(s, place), b, closes), place))
Release(b, place, closes) ==
  Event(MouseMovement(ButtonRelease(MouseMovement(s, place), b, closes), place))

\* ContainerImpl::remove(): set_parent() resets the button of the widget itself.
RemoveWidget(w) ==
  /\ ~s.thrown /\ w \in attached
  /\ RemoveWhilePressed \/ s.pressed = {}
  /\ s' = [CancelWidgetEvents(RemoveGrabWidget(s, w), {w}) EXCEPT !.button[w] = NoButton]
  /\ attached' = {v \in attached : w \notin AncestorsAndSelf(v)}
  /\ UNCHANGED <<hidden, insensitive>>

\* visible() and sensitive()
SetVisible(w) ==
  /\ ~s.thrown
  /\ hidden' = SymDiff(hidden, {w})
  /\ UNCHANGED <<s, attached, insensitive>>
SetSensitive(w) ==
  /\ ~s.thrown
  /\ insensitive' = SymDiff(insensitive, {w})
  /\ UNCHANGED <<s, attached, hidden>>

\* close() and show()
Close == /\ s.display /\ ~s.thrown
         /\ s' = DestroyDisplayWindow(s)
         /\ UNCHANGED <<attached, hidden, insensitive>>
Show  == /\ ~s.display /\ ~s.thrown
         /\ s' = [s EXCEPT !.display = TRUE]
         /\ UNCHANGED <<attached, hidden, insensitive>>

Next ==
  \/ CancelEvents \/ Close \/ Show
  \/ \E place \in Widget : Enter(place)
  \/ \E place \in Widget \cup {Outside} : Move(place) \/ Leave(place)
  \/ \E b \in Button, place \in Widget \cup {Outside}, closes \in BOOLEAN :
       Press(b, place, closes) \/ Release(b, place, closes)
  \/ \E w \in Children : RemoveWidget(w) \/ SetVisible(w) \/ SetSensitive(w)

Spec == Init /\ [][Next]_vars

-----------------------------------------------------------------------------
(* Every widget that got ENTER and no LEAVE since is one the window will send
   LEAVE to, and the other way round.                                      *)
HoverIsTracked == s.hover = ToSet(s.last) \ {Window}

(* With the pointer outside and nothing grabbed no widget believes it is
   inside, whatever order grabs ended and the pointer left in.             *)
OutsideNothingHovers == ~s.entered /\ s.grabs = <<>> => s.hover = {}

(* A widget that shows a button pressed will hear of the release or that it
   was canceled, wherever the pointer is by then.                          *)
PressesAreReleased ==
  \A w \in Children : s.button[w] # NoButton => <<w, s.button[w]>> \in s.pressed

(* A widget has one grab while a button is pressed on it and none otherwise,
   a closed window has none.                                               *)
GrabWhilePressed ==
  /\ \A w \in Children : Cardinality({k \in DOMAIN s.grabs : s.grabs[k] = w})
                           = IF s.button[w] # NoButton THEN 1 ELSE 0
  /\ ~s.display => s.grabs = <<>> /\ s.pressed = {}

(* Whoever calls remove_grab() holds a grab: it throws "no such child in grab
   stack" otherwise, and no caller catches that.                           *)
GrabsAreRemovedOnce == ~s.thrown
=============================================================================
