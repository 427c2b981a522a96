---------------------------- MODULE TextEditing ----------------------------
\* A text editor (text-editor.cc) and its text block (text-pango.cc).  The
\* controller turns events into calls of the block, which keeps a mark, a
\* cursor and the other end of the selection as byte offsets into the text;
\* the block tells the controller of changed selections in the middle of these
\* calls, and the controller claims or gives up the primary selection.
\*
\* `model' is the editor as a user sees it: a text, a caret and an anchor, in
\* characters.  Every key has one effect on it, see Edited.
EXTENDS Integers, Sequences, FiniteSets, SequencesExt

CONSTANTS
  Chars,        \* what can be typed
  Wide,         \* the characters of two bytes; the others have one
  Texts,        \* texts set by the program
  Width,        \* width of the layout area, in character cells
  MaxEvents,    \* bound of the events of a behaviour
  Careful       \* TRUE leaves out texts, clicks and keys the code has trouble with

TextEditingAssumption ==
  /\ Wide \subseteq Chars /\ Texts \subseteq Seq(Chars) /\ Careful \in BOOLEAN
  /\ MaxEvents \in Nat /\ Width \in Nat /\ Width >= 2

VARIABLES
  ed,         \* the fields of TextControllerImpl and TextPangoImpl
  pending,    \* next_handler_ and next_markup_: a text set but not loaded yet
  edits,      \* allow_edits_
  model,      \* the editor as its user sees it
  answer,     \* what the last request for the selection got
  events      \* number of events so far

vars == <<ed, pending, edits, model, answer, events>>

NoText == <<>>
None == -1
Bytes(t) == FoldLeft(LAMBDA n, c : n + IF c \in Wide THEN 2 ELSE 1, 0, t)
Starts(t) == [i \in 0..Len(t) |-> Bytes(SubSeq(t, 1, i))]     \* byte of each character
Aligned(t) == {Starts(t)[i] : i \in 0..Len(t)}
\* utf8_align() and the position of a character in the text
CharAt(t, b) == CHOOSE i \in 0..Len(t) :
                  /\ Starts(t)[i] <= b
                  /\ i < Len(t) => Starts(t)[i + 1] > b
Cut(t, i, j) == SubSeq(t, 1, i) \o SubSeq(t, j + 1, Len(t))

Init ==
  /\ ed = [block |-> FALSE, text |-> NoText, mark |-> None, cursor |-> None,
           selector |-> None, attr |-> FALSE, scroll |-> 0, laid |-> TRUE,
           at |-> 0, nonce |-> 0, serial |-> 0]
  /\ pending = [set |-> FALSE, text |-> NoText] /\ edits = TRUE
  /\ model = [text |-> NoText, caret |-> None, anchor |-> None]
  /\ answer = NoText /\ events = 0

-----------------------------------------------------------------------------
\* TextPangoImpl

HasSelection(e) == e.cursor >= 0 /\ e.selector >= 0
From(e) == IF e.cursor < e.selector THEN e.cursor ELSE e.selector
To(e) == IF e.cursor < e.selector THEN e.selector ELSE e.cursor
\* get_selection() counts characters; it walks past the end of a shorter text.
SelectedChars(e) == Cardinality({b \in Aligned(e.text) : From(e) <= b /\ b < To(e)})

SetMark(e, b) ==
  [e EXCEPT !.mark = IF b < 0 \/ b >= Bytes(e.text) THEN Bytes(e.text)
                     ELSE Starts(e.text)[CharAt(e.text, b)]]

MarkAtEnd(e) == e.mark >= Bytes(e.text)

StepMark(e, d) ==
  LET i == CharAt(e.text, e.mark) + d IN
    [e EXCEPT !.mark = IF i > Len(e.text) THEN Bytes(e.text)
                       ELSE IF i < 0 THEN 0 ELSE Starts(e.text)[i]]

\* scroll_to_cursor(): a cursor takes a cell on either side.
ScrollToCursor(e) ==
  LET x == CharAt(e.text, e.cursor)
      right == IF x + 1 - e.scroll > Width THEN x + 1 - Width ELSE e.scroll
      left == IF x - 1 - right < 0 THEN x - 1 ELSE right
  IN IF e.cursor < 0 THEN e ELSE [e EXCEPT !.scroll = IF left < 0 THEN 0 ELSE left]

\* TextControllerImpl::selection_changed(): an empty selection is disowned, any
\* other is claimed anew.
ClaimSelection(e) ==
  IF HasSelection(e) /\ SelectedChars(e) > 0
    THEN [e EXCEPT !.nonce = e.serial + 1, !.serial = e.serial + 1]
    ELSE [e EXCEPT !.nonce = 0]

\* selection_changed(): replaces the background attribute, and emits
\* sig_selection_changed if there was one or is one.
SelectionChangedNew(e) ==
  IF HasSelection(e) THEN ClaimSelection([e EXCEPT !.attr = TRUE]) ELSE e
SelectionChanged(e) ==
  IF e.attr \/ HasSelection(e)
    THEN ClaimSelection([e EXCEPT !.attr = HasSelection(e)]) ELSE e

MarkToCursor(e) ==
  IF e.cursor = e.mark THEN e
  ELSE LET f == ScrollToCursor([e EXCEPT !.cursor = e.mark])
       IN IF f.selector >= 0 THEN SelectionChanged(f) ELSE f
MarkToSelector(e) ==
  IF e.selector = e.mark THEN e ELSE SelectionChanged([e EXCEPT !.selector = e.mark])
HideSelector(e) ==
  IF e.selector < 0 THEN e ELSE SelectionChanged([e EXCEPT !.selector = None])

MarkDelete(e, n) ==
  LET i == CharAt(e.text, e.mark)
      j == IF i + n > Len(e.text) THEN Len(e.text) ELSE i + n
  IN [e EXCEPT !.text = Cut(e.text, i, j), !.laid = FALSE]
MarkInsert(e, t) ==
  LET i == CharAt(e.text, e.mark)
  IN [e EXCEPT !.text = SubSeq(e.text, 1, i) \o t \o SubSeq(e.text, i + 1, Len(e.text)),
               !.mark = e.mark + Bytes(t), !.laid = FALSE]

-----------------------------------------------------------------------------
\* TextControllerImpl.  `at' is its own cursor_.

TakeMark(e) == [e EXCEPT !.at = e.mark]
ToCursor(e) == MarkToCursor(TakeMark(e))

Moved(e, m) == CASE m = "right" -> StepMark(e, 1)
                 [] m = "left"  -> StepMark(e, -1)
                 [] m = "home"  -> SetMark(e, 0)
                 [] m = "end"   -> SetMark(e, -1)

\* move_cursor(): left and right drop a selection and stay at its end.
MoveCursor(e, m, shift) ==
  LET had == HasSelection(e)
      drop == SetMark(e, IF m = "left" THEN From(e) ELSE To(e))
      a == SetMark(e, e.at)
      b == IF ~had /\ shift THEN MarkToSelector(a) ELSE a
      c == Moved(b, m)
  IN IF had /\ ~shift /\ m \in {"left", "right"}
       THEN TakeMark(MarkToCursor(HideSelector(drop)))
     ELSE IF c.mark = b.mark THEN c
     ELSE ToCursor(IF ~shift /\ had THEN HideSelector(c) ELSE c)

DeleteSelectionShown(e) ==
  ToCursor(MarkDelete(SetMark(e, From(e)), SelectedChars(e)))
DeleteSelection(e) ==
  ToCursor(HideSelector(MarkDelete(SetMark(e, From(e)), SelectedChars(e))))

InsertLiterally(e, t) ==
  LET a == IF HasSelection(e) THEN DeleteSelection(e) ELSE e
  IN IF t = <<>> THEN e ELSE ToCursor(MarkInsert(SetMark(a, a.at), t))

SelectAll(e) ==
  MarkToSelector(SetMark(ToCursor(SetMark(HideSelector(e), -1)), 0))

DeleteBackward(e) ==
  LET a == SetMark(e, e.at) b == StepMark(a, -1)
  IN IF HasSelection(e) THEN DeleteSelection(e)
     ELSE IF a.mark = b.mark THEN b ELSE MarkDelete(ToCursor(b), 1)

DeleteForward(e) ==
  LET a == SetMark(e, e.at)
  IN IF HasSelection(e) THEN DeleteSelection(e)
     ELSE IF MarkAtEnd(a) THEN a ELSE MarkDelete(a, 1)

\* handle_event(): a button press at a character moves the mark there, and the
\* cursor with the mark.
ClickMoves(e, i) == SetMark(e, Starts(e.text)[i])
Click(e, i) ==
  LET m == ClickMoves(e, i)
  IN IF e.text = NoText \/ m.mark = e.mark THEN e ELSE ToCursor(m)

-----------------------------------------------------------------------------
\* The editor as its user sees it

HasAnchor(m) == m.caret >= 0 /\ m.anchor >= 0
Lower(m) == IF m.caret < m.anchor THEN m.caret ELSE m.anchor
Upper(m) == IF m.caret < m.anchor THEN m.anchor ELSE m.caret
Caret(m) == IF m.caret < 0 THEN Len(m.text) ELSE m.caret
Without(m) == [text |-> Cut(m.text, Lower(m), Upper(m)), caret |-> Lower(m), anchor |-> None]
Target(m, k) == CASE k = "home" -> 0 [] k = "end" -> Len(m.text)
                  [] k = "left" -> Caret(m) - 1 [] k = "right" -> Caret(m) + 1
WithoutChar(m, i) == [m EXCEPT !.text = Cut(@, i, i + 1)]

Walked(m, k, shift) ==
  LET i == Target(m, k)
      n == IF shift /\ ~HasAnchor(m) THEN [m EXCEPT !.anchor = Caret(m)] ELSE m
  IN IF HasAnchor(m) /\ ~shift /\ k \in {"left", "right"}
       THEN [m EXCEPT !.caret = IF k = "left" THEN Lower(m) ELSE Upper(m), !.anchor = None]
     ELSE IF i \notin 0..Len(m.text) \/ i = Caret(m) THEN n
     ELSE [n EXCEPT !.caret = i, !.anchor = IF shift THEN @ ELSE None]

Edited(m, k, shift) ==
  CASE k \in {"home", "end", "left", "right"} -> Walked(m, k, shift)
    [] k = "all" -> [m EXCEPT !.caret = Len(m.text), !.anchor = 0]
    [] k = "backspace" -> IF HasAnchor(m) THEN Without(m)
                          ELSE IF Caret(m) = 0 THEN m
                          ELSE [WithoutChar(m, Caret(m) - 1) EXCEPT !.caret = Caret(m) - 1]
    [] k = "delete" -> IF HasAnchor(m) THEN Without(m)
                       ELSE IF Caret(m) = Len(m.text) THEN m
                       ELSE WithoutChar(m, Caret(m))

Typed(m, t) ==
  LET n == IF HasAnchor(m) THEN Without(m) ELSE m IN
    IF t = <<>> THEN m
    ELSE [n EXCEPT !.text = SubSeq(n.text, 1, Caret(n)) \o t \o
                            SubSeq(n.text, Caret(n) + 1, Len(n.text)),
                   !.caret = Caret(n) + Len(t)]

-----------------------------------------------------------------------------
Event == events < MaxEvents /\ events' = events + 1
Changes == edits /\ ed.block /\ Event

\* A key that selects before the cursor was ever placed leaves half a selection.
Key(k, shift) ==
  /\ Changes
  /\ Careful => ed.cursor >= 0 \/ ~shift
  /\ ed' = CASE k = "all" -> SelectAll(ed)
             [] k = "backspace" -> DeleteBackward(ed)
             [] k = "delete" -> DeleteForward(ed)
             [] OTHER -> MoveCursor(ed, k, shift)
  /\ model' = Edited(model, k, shift)
  /\ UNCHANGED <<pending, edits, answer>>

\* A key with text, or the content of a clipboard that was asked for
Insert(t) ==
  /\ Changes /\ ed' = InsertLiterally(ed, t) /\ model' = Typed(model, t)
  /\ UNCHANGED <<pending, edits, answer>>

Press(i) ==
  /\ Changes /\ i <= Len(ed.text)
  /\ Careful => ed.mark = ed.cursor \/ ed.mark # ClickMoves(ed, i).mark
  /\ ed' = Click(ed, i)
  /\ model' = IF ed.text = NoText \/ ed' = ed THEN model ELSE [model EXCEPT !.caret = i]
  /\ UNCHANGED <<pending, edits, answer>>

\* CONTENT_CLEAR and CONTENT_REQUEST, for the selection of some nonce
ContentClear(nonce) ==
  /\ Changes
  /\ ed' = IF nonce # 0 /\ nonce = ed.nonce
             THEN [(IF HasSelection(ed) THEN HideSelector(ed) ELSE ed) EXCEPT !.nonce = 0]
             ELSE ed
  /\ model' = IF nonce # 0 /\ nonce = ed.nonce THEN [model EXCEPT !.anchor = None] ELSE model
  /\ UNCHANGED <<pending, edits, answer>>

ContentRequest(nonce) ==
  /\ Changes /\ ed.nonce # 0 /\ nonce = ed.nonce
  /\ HasSelection(ed) /\ To(ed) > From(ed) /\ To(ed) <= Bytes(ed.text)
  /\ answer' = SubSeq(ed.text, CharAt(ed.text, From(ed)) + 1, CharAt(ed.text, To(ed)))
  /\ UNCHANGED <<ed, pending, edits, model>>

\* set_markup() and the callback it queues.  A new text leaves cursor_ and
\* selector_ where they are, also where there is no text any more.
SetMarkup(t) ==
  /\ Event /\ pending' = [set |-> TRUE, text |-> t]
  /\ UNCHANGED <<ed, edits, model, answer>>

InText(t, b) == b < 0 \/ b \in Aligned(t)
InChars(t, b) == IF b < 0 THEN None ELSE CharAt(t, b)

UpdateTextBlock(e) ==
  ClaimSelection(TakeMark([e EXCEPT !.mark = e.cursor]))
UpdateMarkup ==
  LET t == pending.text IN
    /\ pending.set
    /\ Careful => InText(t, ed.cursor) /\ InText(t, ed.selector) /\ ~HasSelection(ed)
    /\ ed' = [(IF ed.block THEN ed ELSE UpdateTextBlock([ed EXCEPT !.block = TRUE]))
              EXCEPT !.text = t, !.laid = FALSE]
    /\ pending' = [set |-> FALSE, text |-> NoText]
    /\ model' = [text |-> t, caret |-> InChars(t, ed.cursor), anchor |-> InChars(t, ed.selector)]
    /\ UNCHANGED <<edits, answer, events>>

\* size_allocate(), which every change of the text leads to
SizeAllocate == /\ ed.block /\ ~ed.laid
                /\ ed' = [ScrollToCursor(ed) EXCEPT !.laid = TRUE]
                /\ UNCHANGED <<pending, edits, model, answer, events>>

SetMode == /\ ed.block /\ Event /\ ed' = UpdateTextBlock(ed)
           /\ UNCHANGED <<pending, edits, model, answer>>

AllowEdits(on) == /\ Event /\ on # edits /\ edits' = on
                  /\ UNCHANGED <<ed, pending, model, answer>>

Keys == {"home", "end", "left", "right", "all", "backspace", "delete"}
Next ==
  \/ \E k \in Keys, shift \in BOOLEAN : Key(k, shift)
  \/ \E t \in {<<c>> : c \in Chars} \cup Texts : Insert(t)
  \/ \E i \in 0..Len(ed.text) : Press(i)
  \/ \E nonce \in 1..ed.serial : ContentClear(nonce) \/ ContentRequest(nonce)
  \/ \E t \in Texts : SetMarkup(t)
  \/ UpdateMarkup \/ SizeAllocate \/ SetMode
  \/ \E on \in BOOLEAN : AllowEdits(on)

Spec == Init /\ [][Next]_vars

-----------------------------------------------------------------------------
\* Whatever the keys, clicks and pastes, text, cursor and selection are what a
\* user expects who counts in characters: the two cursors, the mark and the
\* selection agree, and byte offsets never point into a character.
EditsAreSeen ==
  /\ model = [text |-> ed.text, caret |-> InChars(ed.text, ed.cursor),
              anchor |-> InChars(ed.text, ed.selector)]
  /\ ed.block => ed.at = ed.cursor /\ InText(ed.text, ed.cursor)
  /\ ed.block => InText(ed.text, ed.selector)

\* The editor owns the primary selection exactly while text is selected, the
\* selected text is marked as such exactly as long, and once a change is
\* laid out the cursor is in view.
SelectionIsOwned ==
  ed.block =>
    /\ (ed.nonce # 0) = (HasSelection(ed) /\ From(ed) < To(ed))
    /\ ed.attr = HasSelection(ed)
    /\ ed.laid /\ ed.cursor >= 0 =>
         /\ CharAt(ed.text, ed.cursor) + 1 - ed.scroll <= Width
         /\ CharAt(ed.text, ed.cursor) >= ed.scroll
=============================================================================
