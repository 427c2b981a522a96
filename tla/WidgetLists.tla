----------------------------- MODULE WidgetLists -----------------------------
(***************************************************************************)
(* A WidgetListImpl (ui/listarea.cc) that shows a ListModelRelayImpl       *)
(* (ui/models.cc), whose rows a client provides from a ListStore of its    *)
(* own (tests/fileview.cc).  Rows and the texts in them are what matters;  *)
(* heights and positions only decide which rows are shown, any of them.    *)
(***************************************************************************)
EXTENDS Integers, Sequences, SequencesExt, FiniteSets, FiniteSetsExt

CONSTANTS
  Texts,                 \* of the rows
  InitialRows, OtherRows,  \* rows of the client at first, rows of another model
  Modes,                 \* selection modes in use
  View,                  \* rows that fit on the screen
  CacheLimit,            \* rows cached in any case; 20 in the code
  MaxRows, MaxEdits,     \* bounds
  SwitchesModel,         \* set_list_model() is called again
  Hurried,               \* the client edits its store while it is asked for rows
  EarlyFocus,            \* the list may get the focus before it has a model
  RowSelects             \* the client sets the "selected" property of rows

VARIABLES
  store,                 \* rows of the client
  rows,                  \* rows_ of the relay
  toServer, toClient,    \* update() and fill(); sig_refill()
  model,                 \* model_: "none", "relay" or "other"
  shown, cached,         \* row_map_ and off_map_: what the row widgets display
  span,                  \* <<first_row_, last_row_>>
  selection, mode,       \* selection_, selection_mode_
  rangeStart,            \* multi_sel_range_start_
  focus,                 \* row_index() of the focus child, or -1
  edits, crashed

clientVars == <<store, edits>>
listVars   == <<shown, cached, span, selection, rangeStart, focus>>
vars == <<clientVars, rows, toServer, toClient, model, listVars, mode, crashed>>

Nothing == [i \in {} |-> {}]
Blank   == "blank"         \* Any()

Init ==
  /\ store = InitialRows /\ rows = InitialRows /\ toServer = <<>> /\ toClient = <<>>
  /\ model = "none" /\ shown = Nothing /\ cached = Nothing /\ span = <<-1, -1>>
  /\ selection = <<>> /\ mode = "SINGLE" /\ rangeStart = -1 /\ focus = -1
  /\ edits = 0 /\ crashed = FALSE

-----------------------------------------------------------------------------
(* Rows of the list, as functions of its state s; rows count from 0.         *)

ListState == [shown |-> shown, cached |-> cached, span |-> span, selection |-> selection,
              rangeStart |-> rangeStart, focus |-> focus]

SetList(s) == /\ shown' = s.shown /\ cached' = s.cached /\ span' = s.span /\ focus' = s.focus
              /\ selection' = s.selection /\ rangeStart' = s.rangeStart

ModelRows(m) == IF m = "relay" THEN rows ELSE OtherRows
Count        == Len(ModelRows(model))
Selected(s, i) == i < Len(s.selection) /\ s.selection[i + 1]

\* lookup_row()
Known(s)   == DOMAIN s.shown \cup DOMAIN s.cached
Drop(f, S) == Restrict(f, DOMAIN f \ S)

Destroy(s, S) == [s EXCEPT !.shown = Drop(@, S), !.cached = Drop(@, S), !.focus = IF @ \in S THEN -1 ELSE @]

\* create_row(), fill_row()
Row(s, text, i) == [text |-> text[i + 1], selected |-> Selected(s, i)]

\* What fetch_row() returns.
Fetched(s, text, i) ==
  IF i \in DOMAIN s.shown THEN s.shown[i]
  ELSE IF i \in DOMAIN s.cached THEN s.cached[i] ELSE Row(s, text, i)

\* Mutant of UpdateRow: rows off screen are filled when they are fetched.
UpdateShownRow(s, text, i) == IF i \in DOMAIN s.shown THEN [s EXCEPT !.shown[i] = Row(s, text, i)] ELSE s

UpdateRow(s, text, i) ==
  IF i \in DOMAIN s.shown THEN [s EXCEPT !.shown[i] = Row(s, text, i)]
  ELSE IF i \in DOMAIN s.cached THEN [s EXCEPT !.cached[i] = Row(s, text, i)] ELSE s

\* The rows that cache_row() prunes when there are too many.
Pruned(s, count) ==
  LET threshold == IF count > CacheLimit THEN count ELSE CacheLimit
  IN IF Cardinality(DOMAIN s.cached) <= 2 * count \/ Cardinality(DOMAIN s.cached) <= CacheLimit THEN {}
     ELSE {i \in DOMAIN s.cached : /\ i < s.span[1] - threshold \div 2 \/ i > s.span[2] + threshold \div 2
                                   /\ i # s.focus}

\* cache_row() of row i, taken out of row_map_; "count" is the size of that
CacheRow(s, row, i, count, rowCount) ==
  LET t == IF i >= rowCount THEN Destroy(s, {i})
           ELSE [s EXCEPT !.cached = (i :> row) @@ @]
  IN Destroy(t, Pruned(t, count))

\* row_height() of rows that are neither on screen nor cached
Measure(s, text, S) ==
  FoldLeft(LAMBDA t, i : CacheRow(t, Row(t, text, i), i, Cardinality(DOMAIN t.shown), Len(text)),
           s, SetToSortSeq(S \ Known(s), <))

\* vscroll_layout(): rows first .. last get on screen, the others are cached.
Layout(s, text, first, last) ==
  LET kept == [i \in first .. last |-> Fetched(s, text, i)]
      old  == Drop(s.shown, first .. last)
      t    == [s EXCEPT !.cached = Drop(@, first .. last), !.span = <<first, last>>]
      done == FoldLeft(LAMBDA u, i : CacheRow(u, old[i], i, Cardinality(DOMAIN old), Len(text)),
                       t, SetToSortSeq(DOMAIN old, <))
  IN [done EXCEPT !.shown = kept]

\* visual_update() or size_allocate(), later
LayoutRows ==
  /\ model # "none" /\ ~crashed
  /\ IF Count = 0
       THEN SetList(Destroy(ListState, Known(ListState)))
       ELSE \E first \in 0 .. Count - 1, last \in 0 .. Count - 1 :
              /\ first <= last /\ (last - first + 1 = View \/ (last - first + 1 < View /\ first = 0 /\ last = Count - 1))
              /\ SetList(Layout(ListState, ModelRows(model), first, last))
  /\ UNCHANGED <<clientVars, rows, toServer, toClient, model, mode, crashed>>

-----------------------------------------------------------------------------
(* The selection.                                                            *)

\* selection_changed() for the rows in S
Recolour(s, S) ==
  LET Colour(f) == [i \in DOMAIN f |-> IF i \in S THEN [f[i] EXCEPT !.selected = Selected(s, i)] ELSE f[i]]
  IN [s EXCEPT !.shown = Colour(@), !.cached = Colour(@)]

ToggleSelected(s, i) ==
  LET bits == [k \in 1 .. (IF Len(s.selection) > i THEN Len(s.selection) ELSE i + 1) |->
                 IF k = i + 1 THEN ~Selected(s, i) ELSE Selected(s, k - 1)]
  IN Recolour([s EXCEPT !.selection = bits], {i})

DeselectAll(s) == Recolour([s EXCEPT !.selection = [k \in DOMAIN @ |-> FALSE]], Known(s))

Chosen(bits) == {k \in DOMAIN bits : bits[k]}

\* validate_selection()
ValidSelection(bits, m, fallback) ==
  LET chosen == Chosen(bits)
  IN CASE m = "NONE"     -> [k \in DOMAIN bits |-> FALSE]
       [] m = "MULTIPLE" -> bits
       [] chosen # {}    -> [k \in DOMAIN bits |-> k = Min(chosen)]
       [] OTHER -> [k \in DOMAIN bits |-> m = "BROWSE" /\ k = Max({1, Min({fallback + 1, Len(bits)})})]

\* set_selection(), select_range() and unselect_range() to these bits; when
\* validate_selection() changed anything, all rows are looked at.
SetSelection(s, bits, m) ==
  LET changed == {k - 1 : k \in {j \in DOMAIN bits : bits[j] # s.selection[j]}}
      valid   == ValidSelection(bits, m, IF changed = {} THEN -1 ELSE Min(changed))
  IN Recolour([s EXCEPT !.selection = valid], IF valid = bits THEN changed ELSE Known(s))

\* change_selection(); focus_row() is the current row by now.
ChangeSelection(s, current, previous, toggle, range, preserve) ==
  LET start == IF s.rangeStart >= 0 THEN s.rangeStart ELSE IF previous >= 0 THEN previous ELSE current
      clear == IF preserve THEN s ELSE DeselectAll(s)
      sel   == Max({0, IF current >= 0 THEN current ELSE previous})
      off   == IF s.focus >= 0 /\ Selected(s, s.focus) THEN ToggleSelected(s, s.focus) ELSE s
  IN CASE Count = 0 \/ previous >= Count \/ current >= Count \/ mode = "NONE" -> s
       [] mode = "BROWSE" /\ sel = s.focus -> s
       [] mode = "BROWSE" /\ sel # s.focus -> IF Selected(off, sel) THEN off ELSE ToggleSelected(off, sel)
       [] mode = "SINGLE" ->
            IF preserve /\ ~toggle THEN s
            ELSE IF current >= 0 /\ (~toggle \/ ~Selected(s, current)) THEN ToggleSelected(DeselectAll(s), current)
            ELSE DeselectAll(s)
       [] OTHER ->
            LET t == IF current < 0 THEN clear
                     ELSE IF toggle THEN ToggleSelected(clear, current)
                     ELSE IF range
                       THEN FoldLeft(LAMBDA u, i : IF Selected(u, i) THEN u ELSE ToggleSelected(u, i),
                                     [clear EXCEPT !.rangeStart = start],
                                     SetToSortSeq(Max({0, Min({start, current})}) .. Max({start, current}), <))
                     ELSE IF ~preserve THEN ToggleSelected(clear, current) ELSE clear
            IN IF range THEN t ELSE [t EXCEPT !.rangeStart = -1]

\* grab_row_focus() of a row of the model, or of none; rows are measured to
\* scroll there, unless the focus row was not found.
GrabRowFocus(s, text, i, measured) ==
  IF i < 0 THEN [s EXCEPT !.focus = -1]
  ELSE LET known == IF i \in Known(s) THEN s
                    ELSE CacheRow(s, Row(s, text, i), i, Cardinality(DOMAIN s.shown), Len(text))
       IN Measure([known EXCEPT !.focus = i], text, measured)

Near(i) == {S \in SUBSET (0 .. Count - 1) : i \in S /\ \A j \in S : j - i < View /\ i - j < View}

\* A row the focus goes to, by a key ("space" stays, the others move) or a click
Select(current, previous, toggle, range, preserve) ==
  \E measured \in Near(current) :
    LET s == GrabRowFocus(ListState, ModelRows(model), current, measured)
    IN SetList(ChangeSelection(s, current, previous, toggle, range, preserve))

InUse == model # "none" /\ ~crashed /\ UNCHANGED <<clientVars, rows, toServer, toClient, model, crashed>>

KeyPress(key, shift, ctrl) ==
  /\ InUse /\ focus >= 0 /\ Count > 0 /\ UNCHANGED mode
  /\ LET toggles == key = "space" \/ (key \in {"Down", "Up"} /\ ~ctrl /\ ~Selected(ListState, focus))
         targets == CASE toggles -> {focus}
                      [] key = "Down"      -> {IF focus + 1 < Count THEN focus + 1 ELSE focus}
                      [] key = "Up"        -> {IF focus > 0 THEN focus - 1 ELSE focus}
                      [] key = "Page_Up"   -> IF span[1] >= 0 /\ span[2] < Count THEN 0 .. Max({focus - 1, 0}) ELSE {focus}
                      [] key = "Page_Down" -> IF span[1] >= 0 /\ span[2] < Count
                                                THEN Min({focus + 1, Count - 1}) .. Count - 1 ELSE {focus}
     IN \E current \in targets : Select(current, focus, toggles, shift /\ key # "space", ctrl)

Click(i, shift, ctrl) ==
  /\ InUse /\ i \in DOMAIN shown /\ Count > 0 /\ UNCHANGED mode
  /\ Select(i, i, ctrl, shift, ctrl)

\* move_focus() into the list
MoveFocus ==
  /\ focus = -1 /\ ~crashed
  /\ \/ /\ model = "none" /\ EarlyFocus /\ crashed' = TRUE
        /\ UNCHANGED listVars
     \/ /\ model # "none" /\ Count > 0
        /\ \E measured \in Near(0) : SetList(GrabRowFocus(ListState, ModelRows(model), 0, measured))
        /\ UNCHANGED crashed
  /\ UNCHANGED <<clientVars, rows, toServer, toClient, model, mode>>

SetSelectionMode(m) ==
  /\ InUse /\ m # mode /\ mode' = m
  /\ LET s == [ListState EXCEPT !.selection = ValidSelection(@, m, 0)] IN SetList(Recolour(s, Known(s)))

SelectRows(S, on) ==
  /\ InUse /\ UNCHANGED mode
  /\ SetList(SetSelection(ListState, [k \in DOMAIN selection |-> IF k - 1 \in S THEN on ELSE selection[k]], mode))

\* WidgetListRowImpl::selected() of a row, called by the client
SelectRow(i) ==
  /\ RowSelects /\ InUse /\ UNCHANGED mode
  /\ i \in Known(ListState) /\ SetList(ToggleSelected(ListState, i))

-----------------------------------------------------------------------------
(* Models.                                                                   *)

\* set_list_model() keeps the rows there are.
SetListModel(m) ==
  /\ ~crashed /\ model # m /\ (model # "none" => SwitchesModel)
  /\ model' = m
  /\ UNCHANGED <<clientVars, rows, toServer, toClient, listVars, mode, crashed>>

Edit == /\ edits < MaxEdits /\ edits' = edits + 1 /\ ~crashed
        /\ Hurried \/ (toClient = <<>> /\ \A k \in DOMAIN toServer : toServer[k].kind \in {"DELETION", "fill"})
Span(kind, first, length) == [kind |-> kind, start |-> first, length |-> length]

\* A client's edit of its store, which tells the relay.
Insert(i, text) ==
  /\ Edit /\ Len(store) < MaxRows
  /\ store' = InsertAt(store, i + 1, text)
  /\ toServer' = Append(toServer, Span("INSERTION", i, 1))
  /\ UNCHANGED <<rows, toClient, model, listVars, mode, crashed>>

ChangeRow(i, text) ==
  /\ Edit
  /\ store' = [store EXCEPT ![i + 1] = text]
  /\ toServer' = Append(toServer, Span("CHANGE", i, 1))
  /\ UNCHANGED <<rows, toClient, model, listVars, mode, crashed>>

Delete(i) ==
  /\ Edit
  /\ store' = RemoveAt(store, i + 1)
  /\ toServer' = Append(toServer, Span("DELETION", i, 1))
  /\ UNCHANGED <<rows, toClient, model, listVars, mode, crashed>>

\* ListModelBinding::refill(); MemoryListStore::row() has no row beyond the end.
Refill ==
  /\ toClient # <<>> /\ ~crashed
  /\ toClient' = Tail(toClient)
  /\ LET r == Head(toClient)
         Text(i) == IF i < Len(store) THEN store[i + 1] ELSE Blank
     IN toServer' = Append(toServer, [kind |-> "fill", start |-> r.start,
                                      asq |-> [k \in 1 .. r.length |-> Text(r.start + k - 1)]])
  /\ UNCHANGED <<clientVars, rows, model, listVars, mode, crashed>>

\* model_updated()
ModelUpdated(u, text) ==
  IF model # "relay" THEN ListState
  ELSE IF u.kind = "CHANGE"
    THEN FoldLeft(LAMBDA s, i : UpdateRow(s, text, i), ListState,
                  SetToSortSeq(u.start .. u.start + u.length - 1, <))
    ELSE Destroy(ListState, {i \in Known(ListState) : i >= u.start})

\* update()
RelayUpdate ==
  /\ toServer # <<>> /\ Head(toServer).kind # "fill" /\ ~crashed
  /\ toServer' = Tail(toServer)
  /\ LET u == Head(toServer)
     IN /\ rows' = CASE u.kind = "INSERTION" -> InsertAt(rows, u.start + 1, Blank)
                     [] u.kind = "DELETION"  -> RemoveAt(rows, u.start + 1)
                     [] u.kind = "CHANGE"    -> rows
        /\ SetList(IF u.kind = "CHANGE" THEN ListState ELSE ModelUpdated(u, rows'))
        /\ toClient' = IF u.kind = "DELETION" THEN toClient ELSE Append(toClient, Span("READ", u.start, u.length))
  /\ UNCHANGED <<clientVars, model, mode, crashed>>

\* fill()
RelayFill ==
  /\ toServer # <<>> /\ Head(toServer).kind = "fill" /\ ~crashed
  /\ toServer' = Tail(toServer)
  /\ LET u == Head(toServer)
         n == Max({0, Min({Len(u.asq), Len(rows) - u.start})})
     IN /\ rows' = [k \in DOMAIN rows |-> IF k - u.start \in 1 .. n THEN u.asq[k - u.start] ELSE rows[k]]
        /\ SetList(IF n = 0 THEN ListState ELSE ModelUpdated(Span("CHANGE", u.start, n), rows'))
  /\ UNCHANGED <<clientVars, toClient, model, mode, crashed>>

Next ==
  \/ LayoutRows \/ MoveFocus \/ Refill \/ RelayUpdate \/ RelayFill
  \/ \E m \in {"relay", "other"} : SetListModel(m)
  \/ \E m \in Modes : SetSelectionMode(m)
  \/ \E key \in {"space", "Down", "Up", "Page_Up", "Page_Down"}, shift, ctrl \in BOOLEAN : KeyPress(key, shift, ctrl)
  \/ \E i \in 0 .. MaxRows - 1 :
       \/ SelectRow(i)
       \/ \E shift, ctrl \in BOOLEAN : Click(i, shift, ctrl)
       \/ \E j \in {i, i + 1}, on \in BOOLEAN : SelectRows(i .. j, on)
  \/ \E i \in 0 .. Len(store), text \in Texts : Insert(i, text)
  \/ \E i \in 0 .. Len(store) - 1 : Delete(i) \/ \E text \in Texts : ChangeRow(i, text)

Spec == Init /\ [][Next]_vars

-----------------------------------------------------------------------------
(* Every row widget, on screen or cached, stands for a row of the model, shows
   its text and whether it is selected, through all insertions, deletions,
   late answers to refill(), scrolling and pruning.                          *)
RowsAreCurrent ==
  model # "none" =>
    \A f \in {shown, cached} : \A i \in DOMAIN f :
      /\ i < Count /\ f[i].text = ModelRows(model)[i + 1]
      /\ f[i].selected = Selected(ListState, i)

NoRowTwice == DOMAIN shown \cap DOMAIN cached = {}

(* When no message is left, the relay has the rows of the client ("Provide row
   data as requested by refill()", interfaces.idl:276), though an answer may
   describe the store after updates that the relay had not seen when it asked. *)
RelayMirrors == toServer = <<>> /\ toClient = <<>> => rows = store

(* The selection keeps to its mode through clicks, keys, ranges and changes of
   the mode (validate_selection()): NONE has no bit set, SINGLE one at most.
   BROWSE has exactly one as soon as there are bits.                         *)
SelectionFitsMode ==
  /\ mode = "NONE" => Chosen(selection) = {}
  /\ mode = "SINGLE" => Cardinality(Chosen(selection)) <= 1
  /\ mode = "BROWSE" /\ selection # <<>> => Cardinality(Chosen(selection)) = 1

(* "Browse - always select a single row" (interfaces.idl:595), "always
   maintain a single selection" (listarea.cc:326): the code does not.  There
   are no bits until a row was toggled in another mode, since keys and clicks
   move the focus first and change_selection() then finds the row focused;
   and the bit of a row outlives the row.                                    *)
BrowseSelectsRow ==
  mode = "BROWSE" /\ focus >= 0 =>
    \E k \in Chosen(selection) : Chosen(selection) = {k} /\ k <= Count

(* The client has the rows it is asked for; MemoryListStore::row() asserts it. *)
RefillsExist == toClient # <<>> => Head(toClient).start + Head(toClient).length <= Len(store)

(* A list without a model has no rows to focus. *)
FocusIsSafe == ~crashed
=============================================================================
