--------------------------- MODULE DisplayDriver ---------------------------
(* What a DisplayWindowX11 believes about its X11 window.  The X server and   *)
(* the window manager change the window at any time and report it in events,  *)
(* some of which carry the new value (size, position, focus), while others    *)
(* (PropertyNotify) only name what changed: the names are collected and read  *)
(* back by a timer 50 ms later, when the server may already be further on.    *)
(* The result, state_, is published for the UI thread, and size and focus are *)
(* told to it in events as well.                                              *)
(*                                                                            *)
(* At the end of the module: how large selections are sent to other clients.  *)
EXTENDS Integers, Sequences, FiniteSets, SequencesExt

CONSTANTS Changing,   \* properties the window manager changes
          MaxChanges  \* bound of the changes of server, manager, user and commands

Extents == "_NET_FRAME_EXTENTS"
Title == "_NET_WM_VISIBLE_NAME"
Known == {Title, "WM_STATE", "_NET_WM_STATE", "_MOTIF_WM_HINTS"}

DriverAssumption == Changing \subseteq Known /\ MaxChanges \in Nat

VARIABLES server,    \* the window as the X server knows it
          now,       \* X server time: the number of changes so far
          wire,      \* events under way to the client
          window,    \* window_ is set and registered in x11ids_
          state,     \* DisplayWindowX11::state_
          published, \* the copy update_state() hands to the UI thread
          queued,    \* DisplayWindowX11::queued_updates_
          armed,     \* X11Context::queued_updates_ holds the window: a timer runs
          pending,   \* pending_configures_
          time,      \* event_context_.time
          told       \* what the events enqueued for the UI thread say

vars == <<server, now, wire, window, state, published, queued, armed, pending, time, told>>
client == <<window, state, published, queued, armed, pending, time, told>>

Blank == [width |-> 1, root |-> 0, deco |-> 0, visible |-> FALSE, active |-> FALSE,
          prop |-> [n \in Known |-> 0]]

Init == /\ server = [alive |-> FALSE, mapped |-> FALSE, width |-> 1, x |-> 0, frame |-> 0,
                     focus |-> FALSE, prop |-> [n \in Known |-> 0]]
        /\ now = 0 /\ wire = <<>> /\ window = FALSE /\ armed = FALSE
        /\ state = Blank /\ published = Blank
        /\ queued = {} /\ pending = 0 /\ time = 0
        /\ told = [width |-> 0, more |-> FALSE, active |-> FALSE, gone |-> FALSE]

Event(type) == [type |-> type, at |-> now + 1]
Property(name) == [type |-> "Property", at |-> now + 1, name |-> name]
Configure(sent, w, x) == [type |-> "Configure", at |-> now + 1, sent |-> sent, width |-> w, x |-> x]
Focus(in, ours) == [type |-> "Focus", at |-> now + 1, in |-> in, ours |-> ours]

(* ------------------------- reading the window back ------------------------- *)
\* a property that is not set leaves ICONIFY alone and clears everything else
ReadBack(n, old) == IF n = "WM_STATE" /\ server.prop[n] = 0 THEN old ELSE server.prop[n]

\* window_deco_origin(): both origins are 0 for a window that was destroyed
Origin(s) == IF server.alive THEN [s EXCEPT !.root = server.x, !.deco = server.x - server.frame]
             ELSE [s EXCEPT !.root = 0, !.deco = 0]

Reread(s, names) ==
  LET read == [s EXCEPT !.prop = [n \in Known |-> IF n \in names THEN ReadBack(n, s.prop[n]) ELSE s.prop[n]]]
  IN  IF Extents \in names THEN Origin(read) ELSE read

UpdateKeeping(s, names, kept) ==
  /\ state' = Reread(s, names)
  /\ queued' = kept
  /\ published' = IF names \cap (Known \cup {Extents}) = {} THEN published ELSE state'

\* mutant: the names are forgotten once they were read
ForceUpdateOnce(s, names) == UpdateKeeping(s, names, {})

\* the names are never cleared: each update reads all of them again
ForceUpdate(s, names) == UpdateKeeping(s, names, names)

(* -------------------------------- commands --------------------------------- *)
\* the window is created, set up, configured, and its creation handled as the
\* first ConfigureNotify; setup_window() sets two of the properties read back
CreateWindow ==
  /\ now = 0 /\ now' = 1
  /\ server' = [server EXCEPT !.alive = TRUE, !.prop["_NET_WM_STATE"] = 1, !.prop["_MOTIF_WM_HINTS"] = 1]
  /\ wire' = <<Property("_NET_WM_STATE"), Property("_MOTIF_WM_HINTS"), Property("WM_NAME")>>
  /\ window' = TRUE
  /\ state' = [Blank EXCEPT !.prop[Title] = 1]
  /\ queued' = {Extents} /\ armed' = TRUE
  /\ told' = [told EXCEPT !.width = 1]
  /\ UNCHANGED <<published, pending, time>>

Changes == server.alive /\ now > 0 /\ now < MaxChanges /\ now' = now + 1

\* a new title is visible at once, for managers without _NET_WM_VISIBLE_NAME
ConfigureWindow ==
  /\ window /\ Changes
  /\ ForceUpdate([state EXCEPT !.prop[Title] = 2], queued)
  /\ wire' = Append(wire, Property("WM_NAME"))
  /\ told' = [told EXCEPT !.width = state'.width, !.more = pending > 0]
  /\ UNCHANGED <<server, window, armed, pending, time>>

DestroyWindow ==
  /\ window /\ Changes
  /\ window' = FALSE
  /\ server' = [server EXCEPT !.alive = FALSE]
  /\ wire' = Append(wire, Event("Destroy"))
  /\ UNCHANGED <<state, published, queued, armed, pending, time, told>>

(* --------------------- the server, the manager, the user -------------------- *)
Report(s, events) == Changes /\ server' = s /\ wire' = wire \o events /\ UNCHANGED client

Shows == \/ ~server.mapped /\ Report([server EXCEPT !.mapped = TRUE], <<Event("Map")>>)
         \/ server.mapped /\ Report([server EXCEPT !.mapped = FALSE], <<Event("Unmap")>>)

\* a manager that moves a window without resizing it tells so in root coordinates
Moves == Report([server EXCEPT !.x = 1 - @], <<Configure(TRUE, server.width, 1 - server.x)>>)
Resizes == \E w \in {1, 2} : Report([server EXCEPT !.width = w], <<Configure(FALSE, w, 0)>>)
Decorates == Report([server EXCEPT !.frame = 1 - @], <<Property(Extents)>>)
SetsProperty == \E n \in Changing, v \in 0..2 :
                  v # server.prop[n] /\ Report([server EXCEPT !.prop[n] = v], <<Property(n)>>)

MovesFocus == \/ Report([server EXCEPT !.focus = ~@], <<Focus(~server.focus, TRUE)>>)
              \/ \E in \in BOOLEAN : Report(server, <<Focus(in, FALSE)>>)   \* NotifyInferior and the like

\* an input event, one the input method puts back later, or a manager's request
\* to close the window that names a time of its own
Input == \/ Report(server, <<Event("Input")>>)
         \/ Report(server, <<[type |-> "Key", at |-> 0]>>)
         \/ Report(server, <<[type |-> "Delete", at |-> 0]>>)

Vanishes == Report([server EXCEPT !.alive = FALSE], <<Event("Destroy")>>)

(* ---------------------------- process_event() ------------------------------- *)
InWire(events) == Cardinality({i \in DOMAIN events : events[i].type = "Configure"})

\* once the last count is used up, the sizes that arrived meanwhile are counted
Arrived(rest) == {InWire(SubSeq(rest, 1, n)) : n \in 0..Len(rest)}
StillPending(rest) == IF pending > 1 THEN {pending - 1} ELSE Arrived(rest)

ConfigureNotify(e, rest) ==
  /\ state' = IF e.sent THEN [state EXCEPT !.deco = @ - state.root + e.x, !.root = e.x]
              ELSE [state EXCEPT !.width = e.width]
  /\ published' = IF e.sent \/ e.width # state.width THEN state' ELSE published
  /\ pending' \in StillPending(rest)
  /\ told' = [told EXCEPT !.width = state'.width, !.more = pending' > 0]
  /\ IF pending' = 0 THEN queued' = queued \cup {Extents} /\ armed' = TRUE
                     ELSE UNCHANGED <<queued, armed>>
  /\ UNCHANGED <<window, time>>

\* the origin of a window that appears is read immediately
MapNotify ==
  /\ ForceUpdate([state EXCEPT !.visible = TRUE], queued \cup {Extents})
  /\ UNCHANGED <<window, armed, pending, time, told>>

UnmapNotify ==
  /\ state' = [state EXCEPT !.visible = FALSE] /\ published' = state'
  /\ UNCHANGED <<window, queued, armed, pending, time, told>>

PropertyNotify(e) ==
  /\ time' = e.at
  /\ queued' = queued \cup {e.name} /\ armed' = TRUE
  /\ UNCHANGED <<window, state, published, pending, told>>

FocusChange(e) ==
  /\ IF e.ours /\ e.in # state.active
     THEN /\ state' = [state EXCEPT !.active = e.in] /\ published' = state'
          /\ told' = [told EXCEPT !.active = e.in]
     ELSE UNCHANGED <<state, published, told>>
  /\ UNCHANGED <<window, queued, armed, pending, time>>

\* mutant: the time of a key put back is taken as well
InputTimeAny(e) == e.at

\* a key the input method put back, or a request to close, leaves the time alone
InputTime(e) == IF e.type = "Input" THEN e.at ELSE time

InputNotify(e) ==
  /\ time' = InputTime(e)
  /\ UNCHANGED <<window, state, published, queued, armed, pending, told>>

DestroyNotify ==
  /\ window' = FALSE
  /\ told' = [told EXCEPT !.gone = TRUE]
  /\ UNCHANGED <<state, published, queued, armed, pending, time>>

ProcessEvent(e, rest) ==
  CASE e.type = "Configure" -> ConfigureNotify(e, rest)
    [] e.type = "Map" -> MapNotify
    [] e.type = "Unmap" -> UnmapNotify
    [] e.type = "Property" -> PropertyNotify(e)
    [] e.type = "Focus" -> FocusChange(e)
    [] e.type = "Destroy" -> DestroyNotify
    [] OTHER -> InputNotify(e)

\* an event the input method consumes only leaves its time behind; an event of
\* a window that is no longer registered goes nowhere
ProcessX11 ==
  /\ wire # <<>> /\ wire' = Tail(wire)
  /\ \/ window /\ ProcessEvent(Head(wire), Tail(wire))
     \/ /\ window /\ Head(wire).type = "Input"
        /\ time' = Head(wire).at
        /\ UNCHANGED <<window, state, published, queued, armed, pending, told>>
     \/ ~window /\ UNCHANGED client
  /\ UNCHANGED <<server, now>>

\* the 50 ms timer
ProcessUpdates ==
  /\ armed /\ armed' = FALSE
  /\ IF window THEN ForceUpdate(state, queued) ELSE UNCHANGED <<state, queued, published>>
  /\ UNCHANGED <<server, now, wire, window, pending, time, told>>

Next == CreateWindow \/ ConfigureWindow \/ DestroyWindow \/ Shows \/ Moves \/ Resizes \/ Decorates
        \/ SetsProperty \/ MovesFocus \/ Input \/ Vanishes \/ ProcessX11 \/ ProcessUpdates
Spec == Init /\ [][Next]_vars

(* -------------------------------- properties -------------------------------- *)
\* Once all events are handled and no update is due, state_, its published copy
\* and what the UI thread was told agree with the X server, in whatever order
\* sizes, positions, properties and their late reads came.
StateConverges ==
  window /\ server.alive /\ wire = <<>> /\ ~armed =>
    /\ state.width = server.width /\ told.width = server.width /\ ~told.more
    /\ state.root = server.x /\ state.deco = server.x - server.frame
    /\ state.visible = server.mapped
    /\ state.active = server.focus /\ told.active = server.focus
    /\ \A n \in Known : server.prop[n] # 0 => state.prop[n] = server.prop[n]
    /\ published = state

\* The time a window stamps on its selection claims and activation requests never
\* goes back from one X event to the next: X servers and managers ignore requests
\* with older times than theirs.  (The motion history that a hint fetches is queued
\* with the times it has within the step, before that of the hint itself.)
TimeAdvances == [][time' >= time]_vars

(* --------------------- the invariant behind StateConverges ------------------ *)
(* Whatever the client does not know yet is under way to it: as an event that   *)
(* carries the new value, as an event that names what changed, or as a name in  *)
(* queued_updates_ that the timer is about to read back.                        *)
\* The last element of q in E says what t is; cur is t if there is none.
Leads(q, E, f, cur, t) ==
  /\ \A i \in DOMAIN q : q[i] \in E /\ (\A j \in DOMAIN q : j > i => q[j] \notin E) => f[q[i]] = t
  /\ (\A i \in DOMAIN q : q[i] \notin E) => cur = t

\* What X11 reports; the kinds that carry a new value, and the value they carry.
Events == [type : {"Map", "Unmap", "Destroy", "Input"}, at : Nat]
          \cup [type : {"Key", "Delete"}, at : Nat]
          \cup [type : {"Property"}, at : Nat, name : Known \cup {Extents, "WM_NAME"}]
          \cup [type : {"Configure"}, at : Nat, sent : BOOLEAN, width : Nat, x : Int]
          \cup [type : {"Focus"}, at : Nat, in : BOOLEAN, ours : BOOLEAN]

Sizes == {e \in Events : e.type = "Configure" /\ ~e.sent}
WidthOf == [e \in Sizes |-> e.width]
Places == {e \in Events : e.type = "Configure" /\ e.sent}
PlaceOf == [e \in Places |-> e.x]
Mappings == {e \in Events : e.type \in {"Map", "Unmap"}}
IsMap == [e \in Mappings |-> e.type = "Map"]
Focuses == {e \in Events : e.type = "Focus" /\ e.ours}
IsIn == [e \in Focuses |-> e.in]

\* A change of the property n is reported, but not noticed yet.
Comes(n) == \E i \in DOMAIN wire : wire[i].type = "Property" /\ wire[i].name = n

Servers == [alive : BOOLEAN, mapped : BOOLEAN, width : Nat, x : Int, frame : Int, focus : BOOLEAN,
            prop : [Known -> Int]]
States == [width : Nat, root : Int, deco : Int, visible : BOOLEAN, active : BOOLEAN, prop : [Known -> Int]]

DriverTypeOK ==
  /\ server \in Servers
  /\ now \in Nat /\ time \in Nat /\ pending \in Nat
  /\ wire \in Seq(Events)
  /\ window \in BOOLEAN /\ armed \in BOOLEAN
  /\ state \in States
  /\ queued \subseteq Known \cup {Extents, "WM_NAME"}
  /\ told \in [width : Nat, more : BOOLEAN, active : BOOLEAN, gone : BOOLEAN]

\* No older time is under way than the window has seen.
TimesInOrder ==
  /\ time <= now
  /\ \A i \in DOMAIN wire : wire[i].type \in {"Property", "Input"} =>
       /\ time <= wire[i].at /\ wire[i].at <= now
       /\ \A j \in DOMAIN wire : i <= j /\ wire[j].type \in {"Property", "Input"} => wire[i].at <= wire[j].at

\* Before the window is created nothing happens.
Untouched == now = 0 => Init

\* As long as there is a window, the events and names under way lead to what it is.
Follows ==
  /\ window /\ \A i \in DOMAIN wire : wire[i].type # "Destroy"
  /\ Leads(wire, Sizes, WidthOf, state.width, server.width)
  /\ Leads(wire, Places, PlaceOf, state.root, server.x)
  /\ Leads(wire, Mappings, IsMap, state.visible, server.mapped)
  /\ Leads(wire, Focuses, IsIn, state.active, server.focus)
  /\ Extents \in queued
  /\ Comes(Extents) \/ armed \/ state.root - state.deco = server.frame
  /\ \A n \in Known : server.prop[n] # 0 =>
       Comes(n) \/ (n \in queued /\ (armed \/ state.prop[n] = server.prop[n]))
  /\ armed \/ published = state
  /\ told.width = state.width /\ told.active = state.active
  /\ told.more => pending > 0
  /\ pending <= InWire(wire)

DriverInv == DriverTypeOK /\ TimesInOrder /\ Untouched /\ (server.alive => Follows)

\* The types of what the client changes.
ClientTypeOK == /\ time \in Nat /\ pending \in Nat /\ window \in BOOLEAN /\ armed \in BOOLEAN /\ state \in States
                /\ queued \subseteq Known \cup {Extents, "WM_NAME"}
                /\ told \in [width : Nat, more : BOOLEAN, active : BOOLEAN, gone : BOOLEAN]

-----------------------------------------------------------------------------
(* Sending a large selection to other X11 clients piece by piece: the INCR    *)
(* protocol of displaywindow-x11.cc.  The requestor deletes the property it   *)
(* has read, the X server reports that if the owner asked for such events,    *)
(* and the owner puts the next piece there; a piece of size 0 ends the        *)
(* transfer.  Event stakes count who needs the events of a window: its        *)
(* DisplayWindowX11, if it is one of ours, and each transfer to it.           *)

CONSTANTS Ours, Foreign,  \* windows: of this client, of others
          Properties,     \* where requestors want the contents
          Size, Most,     \* bytes to send, and max_property_bytes
          Width,          \* bytes of an element
          MaxTransfers    \* bound of the transfers started

IncrAssumption == {Size, Most} \subseteq Nat /\ Width \in Nat \ {0} /\ MaxTransfers \in Nat

Windows == Ours \cup Foreign
Slots == Windows \X Properties
None == [kind |-> "none", from |-> 0, size |-> 0]
Announced == [kind |-> "INCR", from |-> 0, size |-> 0]
Piece(from, size) == [kind |-> "data", from |-> from, size |-> size]

VARIABLES alive,     \* windows the X server has
          recycled,  \* windows that got the id of one that was destroyed
          selected,  \* windows whose property changes it reports to us
          slot,      \* the properties of the requestors
          got,       \* what each requestor has read of its transfer, -1: idle
          deletes,   \* PropertyDelete events under way to us
          stakes,    \* event_stakes_, ref_count 0: there is none
          transfers, \* incr_transfers_
          count      \* transfers started so far

incrVars == <<alive, recycled, selected, slot, got, deletes, stakes, transfers, count>>
requestor == <<slot, got>>

NoStake == [ref |-> 0, mask |-> FALSE, destroyed |-> FALSE]

\* our own windows are created with their events selected and keep a stake
InitIncr == /\ alive = Windows /\ recycled = {} /\ selected = Ours
        /\ slot = [s \in Slots |-> None] /\ got = [s \in Slots |-> -1]
        /\ deletes = <<>> /\ transfers = <<>> /\ count = 0
        /\ stakes = [w \in Windows |-> IF w \in Ours THEN [ref |-> 1, mask |-> TRUE, destroyed |-> FALSE] ELSE NoStake]

(* ------------------------------ event stakes -------------------------------- *)
\* events are selected when the mask grows, on a window not known to be gone
RefEvents(w) ==
  LET s == stakes[w]
      asks == ~s.mask /\ ~s.destroyed
  IN  /\ stakes' = [stakes EXCEPT ![w] = [ref |-> s.ref + 1, mask |-> TRUE,
                                          destroyed |-> s.destroyed \/ (asks /\ w \notin alive)]]
      /\ selected' = IF asks THEN selected \cup ({w} \cap alive) ELSE selected

\* mutant: the stake goes with the first transfer that ends
UnrefLast(w) == /\ stakes' = [stakes EXCEPT ![w] = NoStake]
                /\ selected' = selected \ {w}

\* the last user of a window gives its events up
UnrefEvents(w) ==
  IF stakes[w].ref > 1
  THEN stakes' = [stakes EXCEPT ![w].ref = @ - 1] /\ UNCHANGED selected
  ELSE /\ stakes' = [stakes EXCEPT ![w] = NoStake]
       /\ selected' = IF stakes[w].destroyed THEN selected ELSE selected \ {w}

(* ------------------------------- transfers ---------------------------------- *)
\* transfer_incr_property(): announcing fails if the requestor is gone; an
\* event mask asked for first would have been reported with the error trapped.
\* The requestor asked in an event, so its earlier deletes were handled before
TransferIncrProperty(s) ==
  /\ count < MaxTransfers /\ got[s] = -1 /\ slot[s] = None /\ ~Contains(deletes, s)
  /\ count' = count + 1
  /\ IF s[1] \in alive
     THEN /\ RefEvents(s[1])
          /\ slot' = [slot EXCEPT ![s] = Announced] /\ got' = [got EXCEPT ![s] = 0]
          /\ transfers' = Append(transfers, [to |-> s, offset |-> 0])
     ELSE UNCHANGED <<stakes, selected, slot, got, transfers>>
  /\ UNCHANGED <<alive, recycled, deletes>>

Lesser(a, b) == IF a < b THEN a ELSE b

\* mutant: a piece that is not a whole number of elements
PieceSizeBytes(t) == Lesser(Size - t.offset, Most)

\* whole elements only
PieceSize(t) == Width * (Lesser(Size - t.offset, Most) \div Width)

\* continue_incr(): the first transfer to that property goes on; it ends after
\* the piece of size 0, or if the requestor is gone
Continue(i) ==
  LET t == transfers[i]
      size == PieceSize(t)
      aborts == t.to[1] \notin alive
  IN  /\ slot' = IF aborts THEN slot ELSE [slot EXCEPT ![t.to] = Piece(t.offset, size)]
      /\ IF size = 0 \/ aborts
         THEN transfers' = RemoveAt(transfers, i) /\ UnrefEvents(t.to[1])
         ELSE /\ transfers' = [transfers EXCEPT ![i].offset = @ + size]
              /\ UNCHANGED <<stakes, selected>>

To(s) == {i \in DOMAIN transfers : transfers[i].to = s}

\* filter_event() looks at each PropertyDelete while there are transfers
PropertyDeleted ==
  /\ deletes # <<>> /\ deletes' = Tail(deletes)
  /\ IF To(Head(deletes)) = {} THEN UNCHANGED <<slot, transfers, stakes, selected>>
     ELSE Continue(CHOOSE i \in To(Head(deletes)) : \A j \in To(Head(deletes)) : i <= j)
  /\ UNCHANGED <<alive, recycled, got, count>>

\* x11_timer(): a transfer not continued for 25 seconds is ended with a piece of
\* size 0; its stake is left behind
Expire ==
  \E i \in DOMAIN transfers :
    /\ LET s == transfers[i].to
       IN  slot' = IF s[1] \in alive THEN [slot EXCEPT ![s] = Piece(0, 0)] ELSE slot
    /\ transfers' = RemoveAt(transfers, i)
    /\ UNCHANGED <<alive, recycled, selected, got, deletes, stakes, count>>

(* ------------------------ the requestors and the server --------------------- *)
\* a requestor reads a property, puts the piece to the others and deletes it
Read(s) ==
  /\ s[1] \in alive /\ slot[s] # None
  /\ slot' = [slot EXCEPT ![s] = None]
  /\ got' = [got EXCEPT ![s] = IF slot[s].kind = "data" /\ slot[s].size = 0 THEN -1 ELSE @ + slot[s].size]
  /\ deletes' = IF s[1] \in selected THEN Append(deletes, s) ELSE deletes
  /\ UNCHANGED <<alive, recycled, selected, stakes, transfers, count>>

Forgotten(f, w, value) == [s \in Slots |-> IF s[1] = w THEN value ELSE f[s]]

\* a client that ends takes its windows along
Vanish(w) ==
  /\ w \in alive \ Ours
  /\ alive' = alive \ {w} /\ selected' = selected \ {w}
  /\ slot' = Forgotten(slot, w, None) /\ got' = Forgotten(got, w, -1)
  /\ UNCHANGED <<recycled, deletes, stakes, transfers, count>>

\* a client that starts gets the ids of one that ended
Recycle(w) == w \in Foreign \ alive /\ alive' = alive \cup {w} /\ recycled' = recycled \cup {w}
              /\ UNCHANGED <<selected, requestor, deletes, stakes, transfers, count>>

NextIncr == \/ \E s \in Slots : TransferIncrProperty(s) \/ Read(s)
        \/ PropertyDeleted \/ Expire
        \/ \E w \in Foreign : Vanish(w) \/ Recycle(w)
SpecIncr == InitIncr /\ [][NextIncr]_incrVars

(* -------------------------------- properties --------------------------------- *)
Users(w) == Cardinality({i \in DOMAIN transfers : transfers[i].to[1] = w}) + (IF w \in Ours THEN 1 ELSE 0)

\* A requestor finds the pieces in order, without gap or overlap and in whole
\* elements, and a transfer that still runs keeps the events it lives on selected,
\* however many other transfers to the same window end meanwhile - unless the
\* window has the id of one that is gone (see MaskIsRequested).
TransfersGoOn ==
  /\ \A s \in Slots : slot[s].size > 0 /\ s[1] \notin recycled =>
       slot[s].from = got[s] /\ slot[s].size % Width = 0
  /\ \A w \in alive \ recycled : Users(w) > 0 => stakes[w].ref >= Users(w) /\ w \in selected

\* "avoid-race: request PropertyChangeMask before safe_set_property("INCR")"
\* (displaywindow-x11.cc:1733): where a transfer was announced, its events are selected.
MaskIsRequested == \A i \in DOMAIN transfers :
                     slot[transfers[i].to] = Announced => transfers[i].to[1] \in selected

(* --------------------- the invariant behind TransfersGoOn ------------------- *)
\* The transfer to s that sent the bytes before o, and lists with one, or no, transfer to s.
Goes(s, o) == [to |-> s, offset |-> o]
Sole(q, s, o) == \E k \in DOMAIN q : q[k] = Goes(s, o) /\ \A j \in DOMAIN q : q[j].to = s => j = k
NoneTo(q, s) == \A j \in DOMAIN q : q[j].to # s
Once(q, x) == \E k \in DOMAIN q : q[k] = x /\ \A j \in DOMAIN q : q[j] = x => j = k
Never(q, x) == \A j \in DOMAIN q : q[j] # x

\* The windows that were never destroyed.
Steady == alive \ recycled

\* How far a transfer to such a window can be: there is none; its requestor has not
\* read the end; it was announced; its requestor deleted a piece, which the owner
\* has yet to hear of; its requestor has a piece to read.
AtRest(s) == NoneTo(transfers, s) /\ slot[s] = None /\ got[s] = -1
Ended(s) == NoneTo(transfers, s) /\ slot[s].kind = "data" /\ slot[s].size = 0 /\ got[s] >= 0
Waits(s) == Sole(transfers, s, 0) /\ slot[s] = Announced /\ got[s] = 0 /\ Never(deletes, s)
Asks(s) == got[s] >= 0 /\ Sole(transfers, s, got[s]) /\ slot[s] = None /\ Once(deletes, s)
Unread(s) == /\ Sole(transfers, s, got[s] + slot[s].size) /\ Never(deletes, s)
             /\ slot[s].kind = "data" /\ slot[s].size > 0 /\ slot[s].from = got[s] /\ slot[s].size % Width = 0
Stage(s) == AtRest(s) \/ Ended(s) \/ Waits(s) \/ Asks(s) \/ Unread(s)

\* The transfers to a window, and the stake it then has.
ToWindow(q, w) == {i \in DOMAIN q : q[i].to[1] = w}

Staked(w) ==
  /\ stakes[w].ref >= Users(w) /\ ~stakes[w].destroyed
  /\ stakes[w].ref > 0 => stakes[w].mask /\ w \in selected
  /\ stakes[w].ref = 0 => ~stakes[w].mask

\* Types.
Transfers == [to : Slots, offset : 0 .. Size]
Slotted == [kind : {"none", "INCR", "data"}, from : Nat, size : Nat]
Stakes == [ref : Nat, mask : BOOLEAN, destroyed : BOOLEAN]

IncrTypeOK ==
  /\ alive \subseteq Windows /\ recycled \subseteq Windows
  /\ slot \in [Slots -> Slotted] /\ got \in [Slots -> Int]
  /\ deletes \in Seq(Slots) /\ transfers \in Seq(Transfers)
  /\ stakes \in [Windows -> Stakes]

IncrInv ==
  /\ IncrTypeOK
  /\ \A s \in Slots : s[1] \notin alive => slot[s] = None
  /\ \A s \in Slots : s[1] \in Steady => Stage(s)
  /\ \A w \in Steady : Staked(w)

\* What a step that does not concern s leaves as it was.
Kept(s) == /\ slot'[s] = slot[s] /\ got'[s] = got[s]
           /\ NoneTo(transfers, s) => NoneTo(transfers', s)
           /\ \A o : Sole(transfers, s, o) => Sole(transfers', s, o)
           /\ Once(deletes, s) => Once(deletes', s)
           /\ Never(deletes, s) => Never(deletes', s)
=============================================================================
