----------------------------- MODULE Scrolling -----------------------------
(* A scroll port, the two adjustments of the scroll area around it, and a     *)
(* slider on the vertical one.  The adjustments tell both by signals whenever *)
(* a value changes, from inside thaw(), value() and each other's updates: the *)
(* port shifts its child, the trough moves the skid.  The value of an         *)
(* adjustment is a real number; it is counted here in units of 1/Track, which *)
(* every value a slider of that length can set is a multiple of.              *)
(*                                                                            *)
(* At the end of the module: the virtual position scrolling of WidgetListImpl *)
(* by an adjustment of its own.                                               *)
EXTENDS Integers, Sequences, SequencesExt, FiniteSetsExt

CONSTANTS Track,     \* pixels the skid can move: trough minus skid
          Skid,      \* length of the skid, even
          Flipped,   \* the slider runs the other way
          Ports,     \* sizes of the port
          Children,  \* sizes of the port's child
          MaxSteps,  \* bound of the steps
          Heights,   \* of a list: row heights
          MaxRows,   \* bound of the number of rows
          Views,     \* heights of the list on screen
          Scale      \* unit of positions: more than 4 times the largest height

ScrollingAssumption ==
  /\ Track \in Nat \ {0} /\ Skid \in Nat /\ Skid % 2 = 0 /\ Flipped \in BOOLEAN
  /\ Ports \subseteq Nat /\ Children \subseteq Nat /\ MaxSteps \in Nat

VARIABLES adj,     \* the adjustments "h" and "v"; lower is always 0
          port,    \* allocation of the port in each direction
          offset,  \* ViewportImpl::xoffset_ and yoffset_
          shifts,  \* the offsets scroll_offsets() was called with in the last step
          skid,    \* position of the skid in the trough
          grip,    \* where the pointer holds the skid: coffset_ times length, or -1
          pointer, \* where the pointer is, along the trough
          focus,   \* area of the focus widget last scrolled to
          linked,  \* the port is anchored and found its adjustments
          steps

vars == <<adj, port, offset, shifts, skid, grip, pointer, focus, linked, steps>>
Axes == {"h", "v"}

Confine(v, low, high) == IF v > high THEN high ELSE IF v < low THEN low ELSE v
Lesser(a, b) == IF a < b THEN a ELSE b
Greater(a, b) == IF a < b THEN b ELSE a
Rounded(v, unit) == (2 * v + unit) \div (2 * unit)   \* of v/unit, v not negative

(* ------------------------------- Adjustment --------------------------------- *)
AbsRange(a) == a.upper - a.page
Confined(a) == [a EXCEPT !.value = Confine(@, 0, AbsRange(a) * Track)]

\* constrain(): the page fits the range, increments the page, the value the rest
Constrained(a) ==
  LET page == Confine(a.page, 0, a.upper)
      pageIncrement == IF page > 0 THEN Lesser(a.pageIncrement, page) ELSE a.pageIncrement
      step == IF pageIncrement > 0 THEN Lesser(a.step, pageIncrement) ELSE Lesser(a.step, page)
  IN  Confined([a EXCEPT !.page = page, !.pageIncrement = pageIncrement, !.step = step])

\* where the trough puts the skid, by nvalue(): at its start without a range
Normal(a) == IF AbsRange(a) > 0 THEN Rounded(a.value, AbsRange(a)) ELSE 0
SkidAt(a) == IF Flipped THEN Track - Normal(a) ELSE Normal(a)


\* mutant: the page is not subtracted from the range
AtUpper(a, n) == [a EXCEPT !.value = Confine((IF Flipped THEN Track - n ELSE n) * a.upper, 0, AbsRange(a) * Track)]

\* nvalue (n): the value that belongs to a place of the skid
At(a, n) == [a EXCEPT !.value = Confine((IF Flipped THEN Track - n ELSE n) * AbsRange(a), 0, AbsRange(a) * Track)]

(* --------------------- the views that follow adjustments -------------------- *)
Offsets(a) == [x \in Axes |-> Rounded(a[x].value, Track)]

\* the slider listens to changes of the value and of the range
SkidMoves(a) == skid' = IF a["v"] # adj["v"] THEN SkidAt(a["v"]) ELSE skid

\* adjustments change from adj to a; sig_value_changed runs where a value did
Tell(a) ==
  /\ adj' = a
  /\ shifts' = IF linked /\ \E x \in Axes : a[x].value # adj[x].value THEN <<Offsets(a)>> ELSE <<>>
  /\ offset' = IF shifts' = <<>> THEN offset ELSE shifts'[1]
  /\ SkidMoves(a)

(* ------------------------------- the operations ------------------------------ *)
Step == steps < MaxSteps /\ steps' = steps + 1

\* what size_allocate() stores in a frozen adjustment; small views step by pixels
Ranged(a, size, upper) ==
  LET w == Lesser(size, upper)
  IN  [a EXCEPT !.upper = upper, !.page = size, !.step = Confine(Rounded(size, 10), Lesser(size, 1), w),
                !.pageIncrement = Confine(Greater(10, Rounded(size, 3)), Lesser(size, 1), w)]

\* mutant: each adjustment is constrained when it is thawed, not before
ConstrainedLate(a) == a

\* both are constrained before the first is thawed and runs its signals
ConstrainedBoth(a) == [x \in Axes |-> Constrained(a[x])]

\* the vertical adjustment is thawed after the horizontal one told of itself
SizeAllocate ==
  /\ Step /\ linked
  /\ \E size \in [Axes -> Ports], upper \in [Axes -> Children] :
       LET a == ConstrainedBoth([x \in Axes |-> Ranged(adj[x], size[x], upper[x])])
           h == [a EXCEPT !["h"] = Constrained(@)]
           v == [h EXCEPT !["v"] = Constrained(@)]
       IN  /\ port' = size
           /\ adj' = v
           /\ shifts' = (IF h["h"].value # adj["h"].value THEN <<Offsets(h)>> ELSE <<>>)
                        \o (IF v["v"].value # adj["v"].value THEN <<Offsets(v)>> ELSE <<>>) \o <<Offsets(v)>>
           /\ offset' = Offsets(v)
           /\ SkidMoves(v)
  /\ focus' = <<>>
  /\ UNCHANGED <<grip, pointer, linked>>

\* ScrollAreaImpl::scroll_to(), in whole pixels
ScrollTo == /\ Step
            /\ \E to \in [Axes -> 0..3] : Tell([x \in Axes |-> Confined([adj[x] EXCEPT !.value = to[x] * Track])])
            /\ focus' = <<>> /\ UNCHANGED <<port, grip, pointer, linked>>

\* move() by a step or a page, clamped by value()
Moved(x, distance) == Tell([adj EXCEPT ![x] = Confined([adj[x] EXCEPT !.value = @ + distance * Track])])

\* a wheel turned over the port
Wheel == /\ Step /\ linked
         /\ \E x \in Axes, way \in {-1, 1} : Moved(x, way * adj[x].step)
         /\ focus' = <<>> /\ UNCHANGED <<port, grip, pointer, linked>>

\* a key or a wheel turned over the slider, flipped or not
SliderMove == /\ Step
              /\ \E way \in {-1, 1}, distance \in {adj["v"].step, adj["v"].pageIncrement} : Moved("v", way * distance)
              /\ focus' = <<>> /\ UNCHANGED <<port, grip, pointer, linked>>

\* scroll_to_child(): the upper edge comes into view, then the lower one, which wins
Delta(from, size, x) ==
  LET up == IF from + size > port[x] THEN from + size - port[x] ELSE 0
  IN  IF from < up THEN from ELSE up
InView(area) ==
  [x \in Axes |-> Confined([adj[x] EXCEPT !.value = @ + Track * Delta(area[x].from - offset[x], area[x].size, x)])]
ScrollToChild ==
  /\ Step /\ linked
  /\ \E area \in [Axes -> [from : 0..2, size : 1..2]] :
       /\ \A x \in Axes : area[x].from + area[x].size <= adj[x].upper
       /\ Tell(InView(area))
       /\ focus' = <<area>>
  /\ UNCHANGED <<port, grip, pointer, linked>>

\* the skid is taken where it was hit; a press beside it takes it at its middle,
\* but for what would slip off the trough
Press == /\ Step /\ grip = -1
         /\ \E p \in 0..(Track + Skid) :
              LET start == p - Skid \div 2
              IN  /\ pointer' = p
                  /\ grip' = IF p >= skid /\ p < skid + Skid THEN p - skid
                             ELSE p - (start + Greater(0, -start) - Greater(0, start - Track))
         /\ shifts' = <<>> /\ UNCHANGED <<adj, port, offset, skid, focus, linked>>

Drag == /\ Step /\ grip >= 0
        /\ \E p \in -1..(Track + Skid + 1) :
             /\ pointer' = p
             /\ Tell([adj EXCEPT !["v"] = At(@, Confine(p - grip, 0, Track))])
        /\ focus' = <<>> /\ UNCHANGED <<port, grip, linked>>

Release == /\ Step /\ grip >= 0 /\ grip' = -1
           /\ shifts' = <<>> /\ UNCHANGED <<adj, port, offset, skid, pointer, focus, linked>>

\* hierarchy_changed(): an unanchored port lets go of its adjustments; anchored
\* again it finds them, and is allocated anew before anything else happens to it
Unlink == /\ Step /\ linked /\ linked' = FALSE
          /\ shifts' = <<>> /\ focus' = <<>> /\ UNCHANGED <<adj, port, offset, skid, grip, pointer>>
Link == /\ Step /\ ~linked /\ linked' = TRUE
        /\ shifts' = <<Offsets(adj)>> /\ offset' = Offsets(adj)
        /\ focus' = <<>> /\ UNCHANGED <<adj, port, skid, grip, pointer>>

New(size, upper) == Constrained(Ranged([value |-> 0, upper |-> upper, page |-> 0, step |-> 0, pageIncrement |-> 0], size, upper))
Init == /\ \E size \in [Axes -> Ports], upper \in [Axes -> Children] :
             port = size /\ adj = [x \in Axes |-> New(size[x], upper[x])]
        /\ offset = [x \in Axes |-> 0] /\ shifts = <<>>
        /\ skid = SkidAt(adj["v"]) /\ grip = -1 /\ pointer = 0
        /\ focus = <<>> /\ linked = TRUE /\ steps = 0

Next == SizeAllocate \/ ScrollTo \/ Wheel \/ SliderMove \/ ScrollToChild \/ Press \/ Drag \/ Release \/ Unlink \/ Link
Spec == Init /\ [][Next]_vars

(* -------------------------------- properties --------------------------------- *)
\* Every offset the port is given, also the ones given while the adjustments are
\* being updated one after the other, lies in its child; at rest the port and
\* the skid show the values; a focus widget that fits is in view.
ViewsFollow ==
  /\ \A i \in DOMAIN shifts, x \in Axes : shifts[i][x] \in 0..Greater(0, AbsRange(adj[x]))
  /\ linked => offset = Offsets(adj)
  /\ skid = SkidAt(adj["v"])
  /\ linked /\ focus # <<>> => \A x \in Axes :
       LET from == focus[1][x].from - offset[x]
       IN  focus[1][x].size <= port[x] => from >= 0 /\ from + focus[1][x].size <= port[x]

\* While it is dragged, the skid stays under the pointer where it was gripped, up
\* to the ends of the trough, even if the range changes between the moves.
SkidFollowsPointer ==
  [][grip >= 0 /\ pointer' # pointer /\ AbsRange(adj["v"]) > 0 => skid' = Confine(pointer' - grip, 0, Track)]_vars

(* -------------------- the invariant behind SkidFollowsPointer --------------- *)
Adjustments == [value : Int, upper : Int, page : Int, step : Int, pageIncrement : Int]

\* The skid shows the value of the vertical adjustment between all steps.
SkidInv == /\ adj \in [Axes -> Adjustments] /\ grip \in Int
           /\ skid = SkidAt(adj["v"])
           /\ port \in [Axes -> Int] /\ offset \in [Axes -> Int]

(* ------------------------------ rows of a list ------------------------------- *)
(* The scroll position of a WidgetListImpl is a number between 0 and the number *)
(* of rows.  Its integer part picks a row, its fraction a point in that row,    *)
(* and the row is placed so that this point meets the same relative point of    *)
(* the list.  Row heights differ and only the rows around the position are ever *)
(* measured.  Positions are fixed point numbers with Scale as the unit, fine    *)
(* enough for every bisection step.                                             *)
VARIABLES heights,  \* of the rows
          view,     \* list_area.height
          value,    \* the scroll position, nvalue() * count()
          focusRow  \* the row grab_row_focus() scrolled to last, -1: none

rowVars == <<heights, view, value, focusRow>>

Count == Len(heights)
Height(row) == heights[row + 1]
Total(first, last) == FoldLeftDomain(LAMBDA sum, i : IF i - 1 \in first..last THEN sum + heights[i] ELSE sum, 0, heights)

\* the row at a position, and how far into it the position points
RowAt(v) == Lesser(Count - 1, v \div Scale)
Fraction(v) == Lesser(Scale, v - RowAt(v) * Scale)

\* vscroll_row_yoffset(): where a row's top is at position v; also where
\* vscroll_layout() puts it
RowY(v, row) ==
  LET at == RowAt(v)
      y == (view * v) \div (Count * Scale) - (Height(at) * Fraction(v)) \div Scale
  IN  IF row >= at THEN y + Total(at, row - 1) ELSE y - Total(row, at - 1)

\* vscroll_relative_row(): the row reached after so many pixels up or down
RowAbove(row, pixels) == Max({0} \cup {r \in 0..(row - 1) : Total(r, row - 1) >= pixels} \cup (IF pixels <= 0 THEN {row} ELSE {}))
RowBelow(row, pixels) == Min({Count - 1} \cup {r \in (row + 1)..(Count - 1) : Total(row + 1, r) >= pixels})

\* vscroll_row_position(): bisection for the position that shows the row at the
\* top (align = 0) or at the bottom (align = 1) of the list
RowPosition(row, align) ==
  LET wanted == view * align
      point == Height(row) * align
      search[s \in [low : Nat, high : Nat, v : Nat]] ==
        LET at == RowY(s.v, row) + point
            low == IF at > wanted THEN s.v ELSE s.low
            high == IF at < wanted THEN s.v ELSE s.high
            next == (low + high) \div 2
            delta == IF next > s.v THEN next - s.v ELSE s.v - next
        IN  IF at = wanted THEN s.v
            ELSE IF delta * 2 * Height(RowAt(next)) <= Scale THEN next
            ELSE search[[low |-> low, high |-> high, v |-> next]]
  IN  search[[low |-> RowAbove(row, view) * Scale,
              high |-> (RowBelow(row, view + Height(row)) + 1) * Scale,
              v |-> row * Scale + Scale \div 2]]

\* mutant: the row is always attracted by the bottom
AttractedDown(lower, upper, v) == IF upper <= Scale THEN 0 ELSE Confine(v, lower, Count * Scale)

\* grab_row_focus(): the position moves as little as the row needs to be seen
Attracted(lower, upper, v) ==
  IF upper <= Scale THEN 0
  ELSE IF lower >= (Count - 1) * Scale THEN Count * Scale
  ELSE Confine(v, lower, upper)

GrabRowFocus(row) ==
  /\ value' = Attracted(RowPosition(row, 1), RowPosition(row, 0), value)
  /\ focusRow' = row
  /\ UNCHANGED <<heights, view>>

\* a slider moves the position anywhere
SetValue == /\ value' \in {n * (Scale \div 4) : n \in 0..(4 * Count)}
            /\ focusRow' = -1
            /\ UNCHANGED <<heights, view>>

InitRows == /\ heights \in UNION {[1..n -> Heights] : n \in 1..MaxRows}
            /\ view \in Views /\ value = 0 /\ focusRow = -1

NextRows == SetValue \/ \E row \in 0..(Count - 1) : GrabRowFocus(row)
SpecRows == InitRows /\ [][NextRows]_rowVars

(* -------------------------------- properties --------------------------------- *)
\* After a row got the focus it is in view as a whole if it fits, but for one
\* pixel: bisection runs over a function that truncation makes uneven.
FocusRowShows ==
  focusRow >= 0 /\ Height(focusRow) <= view =>
    /\ RowY(value, focusRow) >= -1
    /\ RowY(value, focusRow) + Height(focusRow) <= view + 1

\* "the top of the first row and the bottom of the last row are aligned with top
\* and bottom of the list view respectively": no end of the list is out of reach.
EndsMeet == /\ RowY(0, 0) = 0
            /\ RowY(Count * Scale, Count - 1) + Height(Count - 1) = view
=============================================================================
