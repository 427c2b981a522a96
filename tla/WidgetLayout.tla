---------------------------- MODULE WidgetLayout ----------------------------
(* One dimension of TableLayoutImpl (ui/table.cc): how the requisitions of   *)
(* the children become the requisitions of the columns, and how a given      *)
(* width is distributed over the columns.  The code repeats everything for   *)
(* the rows.  Spacings between cells are kept, those around a child are part *)
(* of what it wants.                                                         *)
(*                                                                           *)
(* At the end of the module: size requests and allocations of widgets.       *)
EXTENDS Integers, Sequences, FiniteSets, SequencesExt, FiniteSetsExt, Functions

CONSTANTS MaxColumns, MaxChildren, MaxWant, MaxArea, Spacing

TableAssumption ==
  MaxColumns \in Nat \ {0} /\ {MaxChildren, MaxWant, MaxArea, Spacing} \subseteq Nat

VARIABLES children,     \* the visible children in the order they were added
          homogeneous, area,
          columns       \* requisition and allocation of every column
tableVars == <<children, homogeneous, area, columns>>

Child == [left : 1..MaxColumns, right : 1..MaxColumns, want : 0..MaxWant,
          hexpand : BOOLEAN, hshrink : BOOLEAN]
Span(c) == c.left..c.right
Single(c) == c.left = c.right
Columns(cs) == 1..Max({1} \union {cs[i].right : i \in DOMAIN cs})
Total(f) == MapThenSumSet(LAMBDA c : f[c], DOMAIN f)
Gaps(cols) == Spacing * (Cardinality(cols) - 1)

(* total / n to the first of n columns, then (the rest) / (n - 1) ...        *)
EqualShares(total, order) ==            \* mutant: the rest is lost
  [c \in ToSet(order) |-> total \div Len(order)]
Shares(total, order) ==
  LET give[i \in 0..Len(order)] ==      \* what is left after i columns
        IF i = 0 THEN total ELSE give[i - 1] - give[i - 1] \div (Len(order) - i + 1)
  IN [c \in ToSet(order) |-> LET i == CHOOSE j \in DOMAIN order : order[j] = c
                             IN give[i - 1] - give[i]]
AddShares(f, total, order) ==
  LET s == Shares(total, order)
  IN [c \in DOMAIN f |-> f[c] + IF c \in DOMAIN s THEN s[c] ELSE 0]

(* --- requisition --------------------------------------------------------- *)
ExpandBySingles(cs, c) == \E i \in DOMAIN cs : Single(cs[i]) /\ cs[i].left = c /\ cs[i].hexpand

(* size_request_pass3() for one child: what its columns lack goes to those   *)
(* that expand, or to all.                                                   *)
Widen(cs, req, c) ==
  LET has == Total([k \in Span(c) |-> req[k]]) + Spacing * (c.right - c.left)
      expanding == {k \in Span(c) : ExpandBySingles(cs, k)}
      order == SetToSortSeq(IF expanding = {} THEN Span(c) ELSE expanding, LAMBDA x, y : x < y)
  IN IF Single(c) \/ has >= c.want THEN req ELSE AddShares(req, c.want - has, order)

Equalise(req) == LET m == Max(Range(req)) IN [c \in DOMAIN req |-> m]
Request(cs, same) ==
  LET singles == [c \in Columns(cs) |->
                    Max({0} \union {cs[i].want : i \in {j \in DOMAIN cs : Single(cs[j]) /\ cs[j].left = c}})]
      start == IF same THEN Equalise(singles) ELSE singles
      wide == FoldLeft(LAMBDA req, c : Widen(cs, req, c), start, cs)
  IN IF same THEN Equalise(wide) ELSE wide

(* --- allocation ---------------------------------------------------------- *)
(* size_allocate_init(): a column expands or shrinks as its single children  *)
(* say; a wider child that expands, or must not shrink, decides for columns  *)
(* of which none does so already.  An empty column does neither.             *)
Flags(cs) ==
  LET wide == {i \in DOMAIN cs : ~Single(cs[i])}
      empty(c) == \A i \in DOMAIN cs : c \notin Span(cs[i])
      rigid(c) == \E i \in DOMAIN cs : Single(cs[i]) /\ cs[i].left = c /\ ~cs[i].hshrink
  IN [expand |-> {c \in Columns(cs) : ~empty(c) /\
        (ExpandBySingles(cs, c) \/ \E i \in wide : /\ c \in Span(cs[i]) /\ cs[i].hexpand
                                                   /\ \A k \in Span(cs[i]) : ~ExpandBySingles(cs, k))},
      shrink |-> {c \in Columns(cs) : ~empty(c) /\ ~rigid(c) /\
        \A i \in wide : c \in Span(cs[i]) /\ ~cs[i].hshrink => \E k \in Span(cs[i]) : rigid(k)}]

(* From the center outwards: n/2, n/2 - 1, n/2 + 1, ...                      *)
Centered(n) == [j \in 1..n |-> 1 + n \div 2 + (IF j % 2 = 0 THEN -(j \div 2) ELSE j \div 2)]

(* Rounds over the columns that shrink, until the excess is gone or none is  *)
(* left that has more than one pixel.                                        *)
ShrinkRound(s, order) ==
  LET step(t, c) ==
        LET a == Max({1, t.alloc[c] - t.extra \div t.left})
        IN IF c \notin t.shrink THEN t
           ELSE [alloc |-> [t.alloc EXCEPT ![c] = a], extra |-> t.extra - (t.alloc[c] - a),
                 left |-> t.left - 1, shrink |-> IF a < 2 THEN t.shrink \ {c} ELSE t.shrink]
  IN FoldLeft(step, [s EXCEPT !.left = Cardinality(s.shrink)], order)
RECURSIVE ShrinkSome(_, _)
ShrinkSome(s, order) ==
  IF s.shrink = {} \/ s.extra <= 0 THEN s ELSE ShrinkSome(ShrinkRound(s, order), order)

(* The last resort shrinks all columns in proportion, the biggest first.     *)
RECURSIVE ShrinkAll(_, _, _)
ShrinkAll(s, width, order) ==
  LET step(t, c) ==
        LET cut == Max({1, (s.extra * t.alloc[c]) \div width})
            less == IF cut > t.alloc[c] THEN t.alloc[c] ELSE cut
        IN IF t.extra = 0 \/ t.alloc[c] = 0 THEN t
           ELSE [t EXCEPT !.alloc[c] = @ - less, !.extra = @ - less]
  IN IF s.extra = 0 \/ s.alloc[order[1]] = 0 THEN s
     ELSE ShrinkAll(FoldLeft(step, s, order), width, order)
BiggestFirst(alloc, order) ==
  LET place(c) == CHOOSE i \in DOMAIN order : order[i] = c
  IN SetToSortSeq(DOMAIN alloc, LAMBDA x, y : \/ alloc[x] > alloc[y]
                                              \/ alloc[x] = alloc[y] /\ place(x) < place(y))

(* size_allocate_pass1().                                                    *)
Allocate(cs, same, req, width) ==
  LET cols == Columns(cs)
      n == Cardinality(cols)
      flags == Flags(cs)
      need == Total(req) + Gaps(cols)
      order == Centered(n)
      growing == SelectSeq(order, LAMBDA c : c \in flags.expand)
      some == ShrinkSome([alloc |-> req, extra |-> need - width, left |-> 0, shrink |-> flags.shrink], order)
      all == ShrinkAll(some, need, BiggestFirst(some.alloc, order))
  IN IF same THEN IF cs # <<>> /\ flags.expand = {} THEN req
                  ELSE LET s == Shares(width - Gaps(cols), [c \in 1..n |-> c])
                       IN [c \in cols |-> Max({1, s[c]})]
     ELSE IF width < need THEN all.alloc
     ELSE IF growing = <<>> THEN req ELSE AddShares(req, width - need, growing)

Layout(cs, same, width) ==
  LET req == Request(cs, same)
  IN [requisition |-> req, allocation |-> Allocate(cs, same, req, width)]

(* size_allocate_pass2(): the area of a child is that of its columns, cut at *)
(* the table and less the spacings around it; one that scales fills it, the  *)
(* others keep what they requested and are aligned to the left or right.     *)
ChildArea(c, alloc, width, pi) ==
  LET x0 == Total([k \in 1..(c.left - 1) |-> alloc[k]]) + Spacing * (c.left - 1)
      most == Total([k \in Span(c) |-> alloc[k]]) + Spacing * (c.right - c.left)
      cut == IF x0 + most > width THEN width - x0 ELSE most
      inner == cut - Min({cut, pi.left_spacing + pi.right_spacing})
      x1 == x0 + Min({inner, pi.left_spacing})
      crq == c.want - pi.left_spacing - pi.right_spacing
      scaled == IF inner > crq /\ ~pi.hscale THEN crq ELSE inner
  IN [x |-> x1 + (IF pi.halign THEN inner - scaled ELSE 0), width |-> scaled]
Around == [left_spacing : 0..1, right_spacing : 0..1, hscale : BOOLEAN, halign : BOOLEAN]

InitTable == /\ children = <<>> /\ homogeneous = FALSE /\ area = 0
        /\ columns = Layout(<<>>, FALSE, 0)

(* The program adds a child, toggles homogeneous, or the table gets another  *)
(* width: the table is laid out again.                                       *)
AddChild(c) == /\ Len(children) < MaxChildren /\ c.left <= c.right
               /\ children' = Append(children, c)
               /\ columns' = Layout(children', homogeneous, area)
               /\ UNCHANGED <<homogeneous, area>>
SetHomogeneous == /\ homogeneous' = ~homogeneous
                  /\ columns' = Layout(children, homogeneous', area)
                  /\ UNCHANGED <<children, area>>
SetArea(width) == /\ width # area /\ area' = width
                  /\ columns' = Layout(children, homogeneous, width)
                  /\ UNCHANGED <<children, homogeneous>>
NextTable == (\E c \in Child : AddChild(c)) \/ SetHomogeneous \/ (\E w \in 0..MaxArea : SetArea(w))
SpecTable == InitTable /\ [][NextTable]_tableVars

-----------------------------------------------------------------------------
(* What the columns request holds every child in full.  Given that much, no  *)
(* column gets less than it requests and, if any column expands, none of the *)
(* width is left over; given less, the columns shrink until they fit, unless *)
(* the gaps alone are wider; equal columns keep a pixel each (size_request(), *)
(* size_allocate_pass1()).                                                   *)
ColumnsHold ==
  LET req == columns.requisition
      alloc == columns.allocation
      cols == DOMAIN req
      need == Total(req) + Gaps(cols)
      given == Total(alloc) + Gaps(cols)
  IN /\ \A i \in DOMAIN children :
          Total([c \in Span(children[i]) |-> req[c]])
            + Spacing * (children[i].right - children[i].left) >= children[i].want
     /\ area >= need => /\ \A c \in cols : alloc[c] >= req[c]
                        /\ Flags(children).expand # {} /\ area >= Gaps(cols) + Cardinality(cols) => given = area
     /\ area < need /\ ~homogeneous => given = Max({area, Gaps(cols)})

(* Children stay within the table and within their columns, so that those of *)
(* different columns never overlap, however little they are given and        *)
(* however they are spaced and aligned; with enough room (a pixel for every  *)
(* column, too, as equal columns have) each gets what it requested           *)
(* (size_allocate_pass2()).                                                  *)
ChildrenStay ==
  \A i \in DOMAIN children, pi \in Around :
    LET c == children[i]
        alloc == columns.allocation
        start == Total([k \in 1..(c.left - 1) |-> alloc[k]]) + Spacing * (c.left - 1)
        end == start + Total([k \in Span(c) |-> alloc[k]]) + Spacing * (c.right - c.left)
        need == Total(columns.requisition) + Gaps(DOMAIN alloc)
    IN c.want >= pi.left_spacing + pi.right_spacing => \A a \in {ChildArea(c, alloc, area, pi)} :
         /\ a.x >= start /\ a.x + a.width <= end
         /\ a.width >= 0 /\ (a.width > 0 => a.x + a.width <= area)
         /\ area >= Max({need, Gaps(DOMAIN alloc) + Cardinality(DOMAIN alloc)}) => a.width >= c.want - pi.left_spacing - pi.right_spacing
ColumnsFit == ColumnsHold /\ ChildrenStay

-----------------------------------------------------------------------------
(* Size requests and allocations of a window with a box that holds a         *)
(* viewport: the INVALID_ flags, how invalidate() carries them to parents    *)
(* and to the other widgets of a size group, the resize callbacks of viewport*)
(* and window, and the negotiation that clears the flags and shares out what *)
(* the display window has (ui/widget.cc, ui/sizegroup.cc, ui/container.cc,   *)
(* ui/window.cc).  Only the width; tune_requisition() is left out.           *)

CONSTANTS Window, Box, Viewport, Inner,  \* Inner is the viewport's child
          Packed,                        \* the children of the box from left to right
          Group,                         \* the widgets of one size group
          Hides, Shows,                  \* widgets the program hides, shows again
          MaxSize, MaxChanges,
          Given                          \* sizes the window manager gives

Labels == ToSet(Packed) \ {Viewport}
SizeAssumption ==
  /\ Group \subseteq Labels \union {Inner} /\ MaxSize \in Nat \ {0} /\ MaxChanges \in Nat
  /\ Viewport \in ToSet(Packed) /\ Given \subseteq Nat \ {0}
  /\ Hides \union Shows \subseteq Labels \union {Inner, Viewport, Box}

VARIABLES visible,     \* VISIBLE of every widget
          invalidReq,  \* INVALID_REQUISITION
          invalidAll,  \* INVALID_ALLOCATION
          want,        \* what size_request() of a leaf would say
          req,         \* requisition_
          cells,       \* the requisition of every column of the box
          alloc,       \* allocation_
          dirty,       \* SizeGroup::all_dirty_
          groupReq,    \* SizeGroup::req_
          resizer,     \* those of window and viewport that have a resizer_ queued
          pending,     \* pending_win_size_
          display,     \* the display window: its size, 0 when there is none, the CONFIGURE
                       \* commands it was sent and sizes that the X server will tell it
          events,      \* queued WIN_SIZE events
          changes      \* bound of what program and window manager change
sizes == <<visible, invalidReq, invalidAll, want, req, cells, alloc, dirty, groupReq, resizer>>
screen == <<pending, display, events>>
vars == <<sizes, screen, changes>>

Leaves == Labels \union {Inner}
Widgets == Leaves \union {Window, Box, Viewport}
Parent(w) == CASE w = Inner -> Viewport [] w = Box -> Window [] OTHER -> Box
Kids(w) == {k \in Widgets \ {Window} : Parent(k) = w}
Sum(f, S) == MapThenSumSet(LAMBDA k : f[k], S)

(* w and what is below it through visible widgets.                           *)
Shown(vis, w) ==
  LET more(S) == S \union (UNION {Kids(k) : k \in S} \intersect vis)
      down[n \in 0..3] == IF n = 0 THEN {w} \intersect vis ELSE more(down[n - 1])
  IN down[3]
Drawable(vis, w) == w \in Shown(vis, Window) /\ alloc[w] > 0

(* The window and the viewport resize by themselves once they are drawable.  *)
Resizes(vis, w) == w \in {Window, Viewport} /\ Drawable(vis, w)

(* --- invalidation -------------------------------------------------------- *)
(* The widgets invalidate_size() reaches from some: a widget that had both   *)
(* flags stops; one that resizes by itself does not pass on; a size group    *)
(* that is not dirty invalidates all of its widgets.                         *)
Reached(vis, from) ==
  LET fresh(S) == {x \in S : ~(invalidReq[x] /\ invalidAll[x])}
      passing(S) == {x \in fresh(S) : x # Window /\ ~Resizes(vis, x)}
      more(S) == S \union {Parent(x) : x \in passing(S)}
                   \union (IF fresh(S) \intersect Group # {} /\ ~dirty THEN Group ELSE {})
      grow[n \in 0..5] == IF n = 0 THEN from ELSE more(grow[n - 1])
  IN grow[5]

(* What the program's change leaves: from are the widgets invalidate() is    *)
(* called on, asking those whose invalidate_parent() is called as well.      *)
Invalidate(vis, from, asking) ==
  LET up == {Parent(w) : w \in {a \in asking : ~Resizes(vis, a)}}
  IN \E all \in {Reached(vis, from \union up)} :
       LET fresh == {x \in all : ~(invalidReq[x] /\ invalidAll[x])}
       IN /\ invalidReq' = [w \in Widgets |-> invalidReq[w] \/ w \in all]
          /\ invalidAll' = [w \in Widgets |-> invalidAll[w] \/ w \in all]
          /\ dirty' = (dirty \/ fresh \intersect Group # {})
          /\ resizer' = resizer \union {w \in fresh \union asking : Resizes(vis, w)}

(* The program gives a leaf other contents.                                  *)
Change(m, size) ==
  /\ changes < MaxChanges /\ size # want[m]
  /\ want' = [want EXCEPT ![m] = size]
  /\ Invalidate(visible, {m}, {})
  /\ changes' = changes + 1
  /\ UNCHANGED <<visible, req, cells, alloc, groupReq, screen>>

(* set_flag (VISIBLE): propagate_state() invalidates every widget below that *)
(* is viewable now and was not, or the other way round; repack() and the     *)
(* explicit invalidate_parent() tell the parent in any case.                 *)
Toggled(w) == IF w \in visible THEN visible \ {w} ELSE visible \union {w}
SetVisibleOnce(w) ==                    \* mutant: no explicit invalidate_parent()
  /\ changes < MaxChanges /\ w \in IF w \in visible THEN Hides ELSE Shows
  /\ visible' = Toggled(w)
  /\ Invalidate(Toggled(w), {w}, {})
  /\ changes' = changes + 1
  /\ UNCHANGED <<want, req, cells, alloc, groupReq, screen>>
SetVisible(w) ==
  /\ changes < MaxChanges /\ w \in IF w \in visible THEN Hides ELSE Shows
  /\ visible' = Toggled(w)
  /\ LET before == Shown(visible, Window)
         now == Shown(Toggled(w), Window)
     IN Invalidate(Toggled(w), (before \ now) \union (now \ before) \union {w}, {w})
  /\ changes' = changes + 1
  /\ UNCHANGED <<want, req, cells, alloc, groupReq, screen>>

(* --- negotiation --------------------------------------------------------- *)
(* requisition() of the widgets asked: group_requisition() of a dirty group  *)
(* asks every visible one of its widgets; a widget whose requisition is      *)
(* valid answers with the old one, and a box keeps its columns.              *)
Ask(asked) ==
  LET grouped == dirty /\ asked \intersect Group \intersect visible # {}
      anew == asked \union (IF grouped THEN Group \intersect visible ELSE {})
      inner == [m \in Leaves |->
                  IF m \notin visible THEN 0
                  ELSE IF m \in anew /\ invalidReq[m] THEN want[m] ELSE req[m]]
      shared == IF grouped THEN Max({0} \union {inner[m] : m \in Group}) ELSE groupReq
      outer(m) == IF m \in Group /\ m \in visible /\ shared > inner[m] THEN shared ELSE inner[m]
      said[w \in Widgets] ==
        IF w \in Leaves THEN outer(w)
        ELSE IF w \in asked /\ invalidReq[w] THEN Sum(said, Kids(w) \intersect visible) ELSE req[w]
  IN [anew |-> anew, grouped |-> grouped, shared |-> shared, said |-> said,
      cells |-> IF Box \in asked /\ invalidReq[Box]
                THEN [k \in ToSet(Packed) |-> IF k \in visible THEN said[k] ELSE 0] ELSE cells,
      req |-> [w \in Widgets |-> IF w \in anew THEN (IF w \in Leaves THEN inner[w] ELSE said[w]) ELSE req[w]]]

(* The box is a table of one row whose columns neither expand nor shrink:    *)
(* those that do not fit give way as in ShrinkAll.                           *)
ShareOut(wide, width) ==
  LET need == Sum(wide, DOMAIN wide)
      order == [j \in DOMAIN Packed |-> Packed[Centered(Len(Packed))[j]]]
  IN IF width >= need THEN wide
     ELSE ShrinkAll([alloc |-> wide, extra |-> need - width], need, BiggestFirst(wide, order)).alloc

(* negotiate_size() of the window or of the viewport with the area given:    *)
(* all that is shown below is asked and allocated.  The box fills the        *)
(* window, the viewport's child gets what it requests.                       *)
Negotiate(top, width) ==
  \E shown \in {Shown(visible, top)} : \E a \in {Ask(shown)} : \E share \in {ShareOut(a.cells, width)} :
    LET given(w) == CASE w \in {Window, Box} -> width
                     [] w = Inner -> a.said[w]
                     [] OTHER -> share[w]
    IN
     /\ invalidReq' = [w \in Widgets |-> invalidReq[w] /\ w \notin a.anew]
     /\ invalidAll' = [w \in Widgets |-> invalidAll[w] /\ w \notin shown]
     /\ dirty' = (dirty /\ ~a.grouped)
     /\ groupReq' = a.shared
     /\ req' = a.req /\ cells' = a.cells
     /\ alloc' = [w \in Widgets |-> IF w \in shown /\ (w # Viewport \/ top = Window) THEN given(w) ELSE alloc[w]]
Requested(w) == Ask(Shown(visible, w)).said[w]
WinSize(size, more) == [size |-> size, intermediate |-> more]

(* create_display_window(): the X window gets the size that is requested.    *)
Show ==
  LET size == Max({1, Requested(Window)})
  IN /\ display.size = 0
     /\ Negotiate(Window, Requested(Window))
     /\ display' = [display EXCEPT !.size = size]
     /\ pending' = TRUE /\ events' = <<WinSize(size, FALSE), WinSize(size, FALSE)>>
     /\ UNCHANGED <<visible, want, resizer, changes>>

(* WindowImpl::resizing_dispatcher() and resize_window (NULL): a display     *)
(* window that is too small is asked for its size by a CONFIGURE, one that   *)
(* is large enough is filled.                                                *)
NeedResize == display.size > 0 /\ ~pending /\ (invalidReq[Window] \/ invalidAll[Window])
ResizeWindow ==
  /\ NeedResize
  /\ \E rsize \in {Requested(Window)} :
       /\ Negotiate(Window, Max({rsize, display.size}))
       /\ IF rsize > display.size
          THEN pending' = TRUE /\ display' = [display EXCEPT !.commands = @ + 1]
          ELSE UNCHANGED <<pending, display>>
  /\ UNCHANGED <<visible, want, resizer, events, changes>>

(* dispatch_win_size_event()                                                 *)
DispatchWinSize ==
  /\ events # <<>> /\ events' = Tail(events)
  /\ pending' = (Head(events).intermediate \/ Tail(events) # <<>>)
  /\ IF ~pending' /\ Head(events).size # alloc[Window] THEN Negotiate(Window, Head(events).size)
     ELSE UNCHANGED <<invalidReq, invalidAll, dirty, groupReq, req, cells, alloc>>
  /\ UNCHANGED <<visible, want, resizer, display, changes>>

(* ResizeContainerImpl::idle_sizing(), with the area the container has.  The *)
(* resizing dispatcher was added to the loop before and has the same         *)
(* priority, so it goes first.                                               *)
IdleSizing(w) ==
  /\ w \in resizer /\ resizer' = resizer \ {w}
  /\ ~NeedResize
  /\ IF Drawable(visible, w) /\ (w = Window \/ ~(invalidReq[Box] \/ invalidAll[Box]))
     THEN Negotiate(w, alloc[w])
     ELSE UNCHANGED <<invalidReq, invalidAll, dirty, groupReq, req, cells, alloc>>
  /\ UNCHANGED <<visible, want, screen, changes>>

(* Widget.requisition() called by the program on a leaf.                     *)
AskSize(m) ==
  LET a == Ask({m})
  IN /\ changes < MaxChanges /\ changes' = changes + 1
     /\ invalidReq' = [w \in Widgets |-> invalidReq[w] /\ w \notin a.anew]
     /\ dirty' = (dirty /\ ~a.grouped) /\ groupReq' = a.shared /\ req' = a.req
     /\ UNCHANGED <<visible, invalidAll, want, cells, alloc, resizer, screen>>

(* The window manager gives the X window another size, the display thread    *)
(* hears of it and answers a CONFIGURE with the size it knows.               *)
Give(size) ==
  /\ display.size > 0 /\ changes < MaxChanges /\ changes' = changes + 1
  /\ display' = [display EXCEPT !.notifies = Append(@, size)]
  /\ UNCHANGED <<sizes, pending, events>>
ConfigureNotify ==
  /\ display.notifies # <<>>
  /\ display' = [display EXCEPT !.size = Head(display.notifies), !.notifies = Tail(@)]
  /\ events' = Append(events, WinSize(display'.size, display'.notifies # <<>>))
  /\ UNCHANGED <<sizes, pending, changes>>
ConfigureWindow ==
  /\ display.commands > 0 /\ display' = [display EXCEPT !.commands = @ - 1]
  /\ \E more \in {FALSE, display.notifies # <<>>} : events' = Append(events, WinSize(display.size, more))
  /\ UNCHANGED <<sizes, pending, changes>>

Init ==
  /\ \E hidden \in SUBSET (Shows \intersect Leaves) : visible = Widgets \ hidden
  /\ want = [m \in Leaves |-> 1]
  /\ invalidReq = [w \in Widgets |-> TRUE] /\ invalidAll = [w \in Widgets |-> TRUE]
  /\ req = [w \in Widgets |-> 0] /\ alloc = [w \in Widgets |-> 0] /\ cells = [k \in ToSet(Packed) |-> 0]
  /\ dirty = TRUE /\ groupReq = 0 /\ resizer = {} /\ changes = 0
  /\ pending = FALSE /\ events = <<>> /\ display = [size |-> 0, commands |-> 0, notifies |-> <<>>]

Next == \/ \E m \in Leaves : AskSize(m) \/ \E size \in 1..MaxSize : Change(m, size)
        \/ \E w \in Widgets : SetVisible(w) \/ IdleSizing(w)
        \/ Show \/ ResizeWindow \/ DispatchWinSize
        \/ ConfigureNotify \/ ConfigureWindow \/ \E size \in Given : Give(size)

Spec == Init /\ [][Next]_vars

-----------------------------------------------------------------------------
Settled ==
  /\ resizer = {} /\ ~invalidReq[Window] /\ ~invalidAll[Window]
  /\ ~pending /\ events = <<>> /\ display.notifies = <<>> /\ display.commands = 0 /\ display.size > 0
OnScreen == Shown(visible, Window)
HasRoom == alloc[Window] >= req[Window]

(* Once no resize is queued and no size is on its way, the window has the    *)
(* size of the X window and whatever is drawn has been laid out for what it  *)
(* is now: no drawn widget is flagged invalid, the children of the box share *)
(* out what it requested, or the box if that is less, and a drawn leaf has   *)
(* the size it wants if it scrolls or the window has room for what it        *)
(* requested.  render_recursive() calls anything else critical.              *)
DrawnIsLaidOut ==
  Settled =>
    /\ alloc[Window] = display.size
    /\ \A w \in OnScreen : ~invalidReq[w] /\ ~invalidAll[w]
    /\ Box \in OnScreen => Sum(alloc, Kids(Box) \intersect OnScreen) = Min({alloc[Box], req[Box]})
    /\ \A m \in Leaves \intersect OnScreen : HasRoom \/ m = Inner => alloc[m] >= want[m]

(* Once no resize is queued, the drawn widgets of a size group all have the  *)
(* size of the one that wants most, whichever containers they are in, unless *)
(* the window has less room than it requested.                               *)
GroupSharesSize ==
  Settled => \A m \in Group \intersect OnScreen : HasRoom \/ m = Inner =>
    alloc[m] = Max({want[g] : g \in Group \intersect visible})

(* Not checked: "grow display window if needed" (ui/window.cc:296).          *)
WindowGrows == Settled => HasRoom
=============================================================================
