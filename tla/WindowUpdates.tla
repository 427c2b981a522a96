---------------------------- MODULE WindowUpdates ----------------------------
(***************************************************************************)
(* Resizing and drawing of a WindowImpl in the UI thread (ui/window.cc),   *)
(* and its DisplayWindowX11 in the display thread (ui/displaywindow-x11.cc *)
(* over the queues of ui/displaywindow.cc).  The X server reports sizes    *)
(* the window was given, the display thread keeps a surface that it        *)
(* answers Expose events from, and draws BLIT commands onto it.            *)
(*                                                                         *)
(* A size is a number, regions are sets of Areas.  What is drawn is fresh  *)
(* until the widgets in the area change or are laid out anew.              *)
(***************************************************************************)
EXTENDS Naturals, Sequences, SequencesExt

CONSTANTS
  MaxSize, MaxChanges,  \* bounds of sizes, of invalidations and window sizes
  ShrinkBack,           \* the window may be given smaller sizes again
  NULL

Areas == {"child", "rest"}
Size  == 1 .. MaxSize

VARIABLES
  ui,        \* the WindowImpl
  display,   \* it has a display window
  events,    \* async_event_queue_: the WIN_SIZE events for the UI thread
  commands,  \* CONFIGURE and BLIT for the display thread
  x,         \* the DisplayWindowX11
  notifies,  \* ConfigureNotify events in the queue of the X connection
  changes    \* how often widgets and the window manager changed something

vars == <<ui, display, events, commands, x, notifies, changes>>

-----------------------------------------------------------------------------
Blit(u)            == [type |-> "BLIT", region |-> u.exposed, fresh |-> u.exposed, size |-> u.alloc]
Configure          == [type |-> "CONFIGURE"]
WinSize(d, n)      == [size |-> n, intermediate |-> d.pending_configures > 0]
HasQueuedWinSize   == Tail(events) # <<>>

\* What is drawn in these areas already is out of date.
Outdate(areas) ==
  /\ x' = IF x.surface = NULL THEN x ELSE [x EXCEPT !.surface = @ \ areas]
  /\ commands' = [k \in DOMAIN commands |->
                    IF commands[k].type = "BLIT" THEN [commands[k] EXCEPT !.fresh = @ \ areas] ELSE commands[k]]

\* set_allocation(): exposes what moved and what has INVALID_CONTENT.
Allocate(u, n) ==
  [u EXCEPT !.alloc = n, !.invalid = FALSE,
            !.exposed = @ \cup (IF u.alloc # n THEN Areas ELSE {}) \cup IF u.invalid THEN {"child"} ELSE {}]

\* negotiate_size (NULL)
Negotiate(u) == IF u.invalid THEN Allocate(u, u.req) ELSE u

\* resize_window() with a display window of this size.
ResizeWindow(u, size) ==
  LET n == [Negotiate(u) EXCEPT !.pending_expose = TRUE]
  IN IF n.req > size THEN [n EXCEPT !.pending_win_size = TRUE, !.exposed = {}]
     ELSE IF n.req # size THEN Allocate(n, size)
     ELSE n

\* dispatch_win_size_event()
WinSizeEvent(u, e, queued) ==
  LET told    == [u EXCEPT !.pending_win_size = e.intermediate \/ queued]
      sized   == IF e.size = u.alloc THEN told
                 ELSE IF told.pending_win_size THEN [told EXCEPT !.exposed = {}]
                 ELSE [Allocate(told, e.size) EXCEPT !.pending_expose = TRUE]
  IN IF ~sized.pending_win_size /\ sized.pending_expose
       THEN [sized EXCEPT !.exposed = Areas, !.pending_expose = FALSE] ELSE sized

-----------------------------------------------------------------------------
Init ==
  /\ ui = [alloc |-> 1, req |-> 1, invalid |-> TRUE, resizer |-> FALSE, exposed |-> {},
           pending_win_size |-> FALSE, pending_expose |-> TRUE]
  /\ display = FALSE /\ events = <<>> /\ commands = <<>> /\ notifies = <<>> /\ changes = 0
  /\ x = [size |-> 1, surface |-> NULL, pending_configures |-> 0]

Change == changes < MaxChanges /\ changes' = changes + 1

\* WidgetImpl::expose() of a widget with new content.
Expose ==
  /\ Change
  /\ ui' = [ui EXCEPT !.exposed = @ \cup IF ui.invalid THEN {} ELSE {"child"}]
  /\ Outdate({"child"})
  /\ UNCHANGED <<display, events, notifies>>

\* WidgetImpl::invalidate() of a widget that now needs the size n.
Invalidate(n) ==
  /\ Change
  /\ ui' = [ui EXCEPT !.req = n, !.invalid = TRUE, !.resizer = TRUE,
                      !.exposed = @ \cup IF ui.invalid THEN {} ELSE {"child"}]
  /\ Outdate({"child"})
  /\ UNCHANGED <<display, events, notifies>>

\* create_display_window() waits for the display thread, which sends two WIN_SIZE.
Show ==
  /\ ~display /\ display' = TRUE
  /\ ui' = [Negotiate(ui) EXCEPT !.pending_expose = TRUE, !.pending_win_size = TRUE]
  /\ x' = [size |-> ui.req, surface |-> NULL, pending_configures |-> 0]
  /\ events' = <<WinSize(x', ui.req), WinSize(x', ui.req)>>
  /\ commands' = <<>> /\ notifies' = <<>>
  /\ UNCHANGED changes

\* destroy_display_window()
Close ==
  /\ display /\ display' = FALSE
  /\ Change
  /\ events' = <<>> /\ commands' = <<>> /\ notifies' = <<>>
  /\ x' = [x EXCEPT !.surface = NULL]
  /\ UNCHANGED ui

\* event_dispatcher()
DispatchEvent ==
  /\ events # <<>>
  /\ ui' = WinSizeEvent(ui, Head(events), HasQueuedWinSize)
  /\ events' = Tail(events)
  /\ Outdate(IF ui'.alloc # ui.alloc THEN Areas ELSE {})
  /\ UNCHANGED <<display, notifies, changes>>

\* drawing_dispatcher() at PRIORITY_UPDATE.
DrawNow ==
  /\ ui.exposed # {}
  /\ ui' = [ui EXCEPT !.exposed = {}]
  /\ commands' = IF display THEN Append(commands, Blit(ui)) ELSE commands
  /\ UNCHANGED <<display, events, x, notifies, changes>>

\* resizing_dispatcher() at PRIORITY_RESIZE, which is below PRIORITY_UPDATE.
Resize ==
  /\ ui.exposed = {} /\ ui.invalid /\ display /\ ~ui.pending_win_size
  /\ ui' = ResizeWindow(ui, x.size)
  /\ IF ui.req > x.size
       THEN /\ commands' = Append([k \in DOMAIN commands |->
                                     IF commands[k].type = "BLIT" THEN [commands[k] EXCEPT !.fresh = {}] ELSE commands[k]],
                                  Configure)
            /\ x' = IF x.surface = NULL THEN x ELSE [x EXCEPT !.surface = {}]
       ELSE Outdate(IF ui'.alloc # ui.alloc THEN Areas ELSE {})
  /\ UNCHANGED <<display, events, notifies, changes>>

\* Mutant of IdleSizing: the handler stays installed when nothing is invalid.
IdleSizingStays ==
  /\ ui.exposed = {} /\ ui.resizer
  /\ ui' = IF ui.invalid THEN [Allocate(ui, ui.alloc) EXCEPT !.resizer = FALSE] ELSE ui
  /\ UNCHANGED <<display, events, commands, x, notifies, changes>>

\* idle_sizing() of the window, at PRIORITY_RESIZE as well.
IdleSizing ==
  /\ ui.exposed = {} /\ ui.resizer
  /\ ui' = [(IF ui.invalid THEN Allocate(ui, ui.alloc) ELSE ui) EXCEPT !.resizer = FALSE]
  /\ UNCHANGED <<display, events, commands, x, notifies, changes>>

-----------------------------------------------------------------------------
(* The display thread.                                                       *)

HandleConfigure ==
  /\ commands # <<>> /\ Head(commands).type = "CONFIGURE"
  /\ events' = Append(events, WinSize(x, x.size))
  /\ commands' = Tail(commands)
  /\ UNCHANGED <<ui, display, x, notifies, changes>>

\* Mutant of Paint: a partial surface replaces the one that is shown.
PaintReplaces(d, c) == [d EXCEPT !.surface = c.fresh]

\* blit()
Paint(d, c) ==
  [d EXCEPT !.surface = IF c.region = Areas /\ c.size = d.size THEN c.fresh
                        ELSE ((IF @ = NULL THEN {} ELSE @) \ c.region) \cup c.fresh]

HandleBlit ==
  /\ commands # <<>> /\ Head(commands).type = "BLIT"
  /\ x' = Paint(x, Head(commands))
  /\ commands' = Tail(commands)
  /\ UNCHANGED <<ui, display, events, notifies, changes>>

\* The window manager gives the window a size.
ServerResize(n) ==
  /\ display /\ Change
  /\ ShrinkBack \/ n > Max({x.size} \cup ToSet(notifies))
  /\ notifies' = Append(notifies, n)
  /\ UNCHANGED <<ui, display, events, commands, x>>

\* process_event() of ConfigureNotify, with check_pending().
ConfigureNotify ==
  /\ notifies # <<>>
  /\ x' = [size |-> Head(notifies),
           surface |-> IF Head(notifies) # x.size THEN NULL ELSE x.surface,
           pending_configures |-> IF x.pending_configures > 1 THEN x.pending_configures - 1
                                  ELSE Len(Tail(notifies))]
  /\ notifies' = Tail(notifies)
  /\ events' = Append(events, WinSize(x', x'.size))
  /\ UNCHANGED <<ui, display, commands, changes>>

DisplayThread == HandleConfigure \/ HandleBlit \/ ConfigureNotify

Next ==
  \/ Expose \/ Show \/ Close \/ DispatchEvent \/ DrawNow \/ Resize \/ IdleSizing
  \/ HandleConfigure \/ HandleBlit \/ ConfigureNotify
  \/ \E n \in Size : Invalidate(n) \/ ServerResize(n)

Spec == Init /\ [][Next]_vars

\* Both threads run their loops.
FairSpec == Spec /\ WF_vars(DispatchEvent) /\ WF_vars(DrawNow) /\ WF_vars(Resize)
                 /\ WF_vars(IdleSizing) /\ WF_vars(DisplayThread)

-----------------------------------------------------------------------------
Settled ==
  /\ display /\ events = <<>> /\ commands = <<>> /\ notifies = <<>>
  /\ ui.exposed = {} /\ ~ui.invalid /\ ~ui.resizer

(* Once both threads have nothing left to do the widgets have the size of the
   X window and all of what it shows is current, whatever was discarded in
   wait for another WIN_SIZE meanwhile: "we'll get more WIN_SIZE events".  *)
SettledIsDrawn ==
  Settled => ~ui.pending_win_size /\ ui.alloc = x.size /\ x.surface = Areas

(* The two threads do settle, they do not ask each other for sizes forever.  *)
Settles == <>[](~display \/ Settled)

(* "Execute resizes right before GUI updates", window.hh:36: widgets are not
   drawn while their layout is invalid.                                    *)
DrawsValidLayout == [][DrawNow => ~ui.invalid \/ "child" \notin ui.exposed]_vars
=============================================================================
