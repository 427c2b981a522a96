---------------------------- MODULE WidgetTree ----------------------------
(* The tree of widgets below one window: adding and removing subtrees, the   *)
(* flags a widget caches about its ancestors (PARENT_INSENSITIVE,            *)
(* PARENT_UNVIEWABLE, ANCHORED, the anchor info), the chain of focus         *)
(* children, the focus indicators of buttons and the widgets of a widget     *)
(* group (ui/widget.cc, ui/container.cc, ui/window.cc and the focus frame of *)
(* ui/paintcontainers.cc).                                                   *)
(*                                                                           *)
(* The tree is one record; an operator takes the record before and gives the *)
(* record after the function of its name.                                    *)
EXTENDS Naturals, Sequences, FiniteSets, SequencesExt

CONSTANTS Widgets, Window, Box, Viewports, Buttons, Frames,
          Sprouts,       \* widgets that ask to be in the widget group
          Fixed,         \* widgets that are never removed
          Placed,        \* pairs of a container and what is first added to it
          Togglable,     \* widgets whose visible and sensitive are changed
          MovesSubtrees, \* a removed subtree may be added below another viewport
          MaxEdits,      \* adds, removes and toggles of a behaviour
          NULL

TreeAssumption ==
  /\ {Window, Box} \union Viewports \union Buttons \union Frames \subseteq Widgets
  /\ {Window, Box} \subseteq Fixed /\ Fixed \subseteq Widgets
  /\ Sprouts \union Togglable \subseteq Widgets
  /\ MovesSubtrees \in BOOLEAN /\ MaxEdits \in Nat /\ NULL \notin Widgets

VARIABLES tree, edits
vars == <<tree, edits>>

(* ResizeContainerImpl: only these carry an AnchorInfo.                      *)
Anchors == Viewports \union {Window}
(* Only the box takes several children; the others are SingleContainerImpl.  *)
Room(s, p) == p = Box \/ s.kids[p] = <<>>

Ancestry(s, w) ==                 \* w, its parent, ... up to the root
  LET up[x \in Widgets] ==
        IF s.parent[x] = NULL THEN <<x>> ELSE <<x>> \o up[s.parent[x]]
  IN up[w]
Below(s, w) == {x \in Widgets : w \in ToSet(Ancestry(s, x))}
Root(s, w) == Last(Ancestry(s, w))

(* The first of w and its ancestors in set, or NULL.                         *)
First(s, w, set) ==
  LET a == SelectSeq(Ancestry(s, w), LAMBDA x : x \in set)
  IN IF a = <<>> THEN NULL ELSE Head(a)

Insensitive(s, w) == ~s.sensitive[w] \/ s.parentInsensitive[w]
Viewable(s, w) == s.visible[w] /\ ~s.parentUnviewable[w]
AncestryVisible(s, w) == \A x \in ToSet(Ancestry(s, w)) : s.visible[x]

(* From w down, the widgets of sub take what their parent has by now.        *)
PropagateTo(s, w, sub) ==
  LET insens[x \in sub] ==
        IF s.parent[x] = NULL THEN FALSE
        ELSE IF x = w THEN Insensitive(s, s.parent[x])
        ELSE ~s.sensitive[s.parent[x]] \/ insens[s.parent[x]]
      unview[x \in sub] ==
        IF s.parent[x] = NULL THEN x # Window
        ELSE IF x = w THEN ~Viewable(s, s.parent[x])
        ELSE ~s.visible[s.parent[x]] \/ unview[s.parent[x]]
  IN [s EXCEPT !.parentInsensitive = [x \in Widgets |-> IF x \in sub THEN insens[x] ELSE @[x]],
               !.parentUnviewable = [x \in Widgets |-> IF x \in sub THEN unview[x] ELSE @[x]]]

PropagateIfChanged(s, w) ==       \* mutant: children are told if w took something else
  IF PropagateTo(s, w, {w}) = s THEN s ELSE PropagateTo(s, w, Below(s, w))

(* WidgetImpl::propagate_state()                                             *)
PropagateState(s, w) == PropagateTo(s, w, Below(s, w))

(* --- anchor information -------------------------------------------------- *)
(* force_anchor_info(): the cached one, or that of the next container that   *)
(* has one.  get_window() of a widget that is not anchored walks to the top. *)
AnchorInfo(s, w) == IF s.ainfo[w] # NULL THEN s.ainfo[w] ELSE First(s, w, Anchors)
GetWindow(s, w) ==
  IF s.anchored[w] THEN s.anchorWindow[AnchorInfo(s, w)]
  ELSE IF Root(s, w) = Window THEN Window ELSE NULL

(* --- focus --------------------------------------------------------------- *)
Focusable(s, w) == w \in Buttons /\ \E f \in Frames : s.indicates[f] = w
HasFocus(s, w) == s.focused[w] /\ GetWindow(s, w) = Window /\ s.focus = w

UncrossFocusOnly(s) ==            \* mutant: only the parent is told
  IF s.focus = NULL THEN s
  ELSE [s EXCEPT !.focus = NULL, !.focused[s.focus] = FALSE,
                 !.focusChild[s.parent[s.focus]] = NULL]

(* WindowImpl::uncross_focus(): the focus widget and its ancestors lose      *)
(* FOCUSED, and the ancestors forget their focus child.                      *)
UncrossFocus(s) ==
  IF s.focus = NULL THEN s
  ELSE LET chain == ToSet(Ancestry(s, s.focus))
       IN [s EXCEPT !.focus = NULL,
                    !.focused = [x \in Widgets |-> @[x] /\ x \notin chain],
                    !.focusChild = [x \in Widgets |->
                       IF x \in chain \ {s.focus} THEN NULL ELSE @[x]]]

(* WindowImpl::set_focus() of a widget below the window.                     *)
SetFocus(s, w) ==
  LET u == IF s.focus = w THEN s ELSE UncrossFocus(s)
      chain == ToSet(Ancestry(u, w))
  IN IF s.focus = w \/ Window \notin chain THEN u
     ELSE [u EXCEPT !.focus = w,
                    !.focused = [x \in Widgets |-> @[x] \/ x \in chain],
                    !.focusChild = [x \in Widgets |->
                       LET on == {c \in chain : u.parent[c] = x}
                       IN IF on = {} THEN @[x] ELSE CHOOSE c \in on : TRUE]]

(* WidgetImpl::grab_focus(): what it asks for.                               *)
MayGrab(s, w) ==
  /\ Focusable(s, w) /\ ~Insensitive(s, w) /\ AncestryVisible(s, w)
  /\ GetWindow(s, w) = Window /\ Window \in ToSet(Ancestry(s, w))

(* ContainerImpl::move_focus(): the widget that takes the focus, or NULL.    *)
MoveFocus(s, forward) ==
  LET pick[w \in Widgets] ==
        LET kids == IF forward THEN s.kids[w] ELSE Reverse(s.kids[w])
            last == s.focusChild[w]
            rest == IF last # NULL /\ Contains(kids, last)
                    THEN SubSeq(kids, CHOOSE i \in DOMAIN kids : kids[i] = last, Len(kids))
                    ELSE kids
        IN IF ~s.visible[w] \/ Insensitive(s, w) THEN NULL
           ELSE IF ~s.focused[w] /\ MayGrab(s, w) THEN w
           ELSE FoldLeft(LAMBDA found, k : IF found # NULL THEN found ELSE pick[k], NULL, rest)
  IN pick[Window]

(* WindowImpl::move_focus_dir() for Tab and Shift-Tab, wrapping around once. *)
MoveFocusDir(s, forward) ==
  LET to == MoveFocus(s, forward)
      left == UncrossFocus(s)
      again == MoveFocus(left, forward)
  IN IF to # NULL THEN SetFocus(s, to)
     ELSE IF s.focus = NULL \/ again = NULL THEN left ELSE SetFocus(left, again)

(* --- hierarchy ----------------------------------------------------------- *)
(* leave_anchored() and enter_anchored() of the widgets in sub.              *)
Groups(s, sub, leaving) ==
  LET kept == SelectSeq(s.group, LAMBDA x : ~(s.anchored[x] /\ x \in sub))
  IN IF leaving THEN kept ELSE kept \o SetToSeq(sub \intersect Sprouts)

(* register_focus_indicator() of the next button above, or none.             *)
Indicates(s, f, leaving) ==
  IF leaving \/ s.parent[f] = NULL THEN NULL ELSE First(s, s.parent[f], Buttons)

(* hierarchy_changed() of w and, top down, of its children: leave the widget *)
(* groups or enter them, renew the anchor info of resize containers, and     *)
(* register focus frames with the next button above.                         *)
HierarchyChanged(s, w, leaving) ==
  LET sub == Below(s, w)
      top == IF Root(s, w) = Window THEN Window ELSE NULL
  IN [s EXCEPT !.anchored = [x \in Widgets |-> IF x \in sub THEN ~leaving ELSE @[x]],
               !.anchorWindow = [x \in Anchors |-> IF x \in sub THEN top ELSE @[x]],
               !.indicates = [f \in Frames |-> IF f \in sub THEN Indicates(s, f, leaving) ELSE @[f]],
               !.group = Groups(s, sub, leaving)]

(* WidgetImpl::set_parent (NULL), with ContainerImpl::unparent_child().      *)
Unparent(s, w) ==
  LET toplevel == GetWindow(s, w)
      p == s.parent[w]
      u == IF s.focus # NULL /\ s.focus \in Below(s, w) THEN UncrossFocus(s) ELSE s
      v == PropagateState([u EXCEPT !.parent[w] = NULL, !.ainfo[w] = NULL,
                                    !.focusChild[p] = IF @ = w THEN NULL ELSE @], w)
  IN IF s.anchored[w] /\ toplevel # NULL THEN HierarchyChanged(v, w, TRUE) ELSE v

(* ContainerImpl::remove(): remove_child() and the above.                    *)
Take(s, w) ==
  Unparent([s EXCEPT !.kids[s.parent[w]] = SelectSeq(@, LAMBDA x : x # w)], w)

(* ContainerImpl::add() and set_parent() below a container.                  *)
Give(s, p, w) ==
  LET v == PropagateState([s EXCEPT !.kids[p] = Append(@, w), !.parent[w] = p,
                                    !.ainfo[w] = NULL], w)
  IN IF s.anchored[p] /\ ~s.anchored[w] THEN HierarchyChanged(v, w, FALSE) ELSE v

(* --- the program --------------------------------------------------------- *)
Empty(value) == [x \in Widgets |-> value]
Built == [parent |-> [Empty(NULL) EXCEPT ![Box] = Window],
          kids |-> [Empty(<<>>) EXCEPT ![Window] = <<Box>>],
          visible |-> Empty(TRUE), sensitive |-> Empty(TRUE),
          parentInsensitive |-> Empty(FALSE),
          parentUnviewable |-> [x \in Widgets |-> x \notin {Window, Box}],
          anchored |-> [x \in Widgets |-> x \in {Window, Box}],
          ainfo |-> Empty(NULL),
          anchorWindow |-> [x \in Anchors |-> IF x = Window THEN Window ELSE NULL],
          focused |-> Empty(FALSE), focusChild |-> Empty(NULL), focus |-> NULL,
          indicates |-> [f \in Frames |-> NULL],
          group |-> SetToSeq({Box} \intersect Sprouts)]

Init == tree = FoldLeft(LAMBDA s, put : Give(s, put[1], put[2]), Built, Placed) /\ edits = 0

(* Any code of the program looks for the window or the viewport of a widget: *)
(* the answer is cached.                                                     *)
AskAnchor(w) ==
  /\ tree.anchored[w] /\ tree.ainfo[w] = NULL
  /\ tree' = [tree EXCEPT !.ainfo[w] = AnchorInfo(tree, w)]
  /\ UNCHANGED edits

(* Without MovesSubtrees a subtree goes only where its widgets' anchor info  *)
(* still holds.  add() does not look for cycles, so the program must not     *)
(* make any.                                                                 *)
Add(p, w) ==
  /\ edits < MaxEdits /\ tree.parent[w] = NULL /\ w # Window
  /\ p \notin Below(tree, w) /\ Room(tree, p)
  /\ \/ MovesSubtrees
     \/ \A x \in Below(tree, w) \ {w} :
          tree.ainfo[x] \in {NULL, First(Give(tree, p, w), x, Anchors)}
  /\ tree' = Give(tree, p, w)
  /\ edits' = edits + 1

RemoveWidget(w) ==
  /\ edits < MaxEdits /\ tree.parent[w] # NULL /\ w \notin Fixed
  /\ tree' = Take(tree, w)
  /\ edits' = edits + 1

(* set_flag() for VISIBLE and INSENSITIVE.                                   *)
SetVisible(w) ==
  /\ edits < MaxEdits
  /\ tree' = PropagateState([tree EXCEPT !.visible[w] = ~@], w)
  /\ edits' = edits + 1
SetSensitive(w) ==
  /\ edits < MaxEdits
  /\ tree' = PropagateState([tree EXCEPT !.sensitive[w] = ~@], w)
  /\ edits' = edits + 1

(* grab_focus() of a click; the focus keys of dispatch_key_event().          *)
GrabFocus(w) ==
  /\ MayGrab(tree, w) /\ ~HasFocus(tree, w)
  /\ tree' = SetFocus(tree, w) /\ UNCHANGED edits
FocusKey(forward) ==
  /\ tree.visible[Window] /\ ~Insensitive(tree, Window)
  /\ tree' = MoveFocusDir(tree, forward) /\ UNCHANGED edits

Next == \/ \E w \in Widgets : AskAnchor(w) \/ RemoveWidget(w) \/ GrabFocus(w)
        \/ \E p \in {Window, Box} \union Viewports \union Buttons, w \in Widgets : Add(p, w)
        \/ \E w \in Togglable : SetVisible(w) \/ SetSensitive(w)
        \/ \E forward \in BOOLEAN : FocusKey(forward)

Spec == Init /\ [][Next]_vars

-----------------------------------------------------------------------------
(* What a widget caches is what its ancestors say: it is insensitive or not  *)
(* viewable exactly when it or an ancestor is, it is anchored exactly when a *)
(* window is its root, the window and the viewport it finds are those above  *)
(* it, a focus frame marks the next button above it, and the widget group    *)
(* holds every anchored widget that asked for it once (propagate_state(),    *)
(* set_parent(), hierarchy_changed(), enter_anchored(), leave_anchored()).   *)
CachesFollowTree ==
  \A w \in Widgets :
    LET in == Root(tree, w) = Window
    IN /\ Insensitive(tree, w) <=> \E x \in ToSet(Ancestry(tree, w)) : ~tree.sensitive[x]
       /\ Viewable(tree, w) <=> (AncestryVisible(tree, w) /\ in)
       /\ tree.anchored[w] <=> in
       /\ GetWindow(tree, w) = IF in THEN Window ELSE NULL
       /\ in => AnchorInfo(tree, w) = First(tree, w, Anchors)
       /\ w \in Frames => tree.indicates[w] = IF in THEN First(tree, w, Buttons) ELSE NULL
       /\ Len(SelectSeq(tree.group, LAMBDA x : x = w)) = IF in /\ w \in Sprouts THEN 1 ELSE 0

(* The focus is one chain: the focus widget is below the window, exactly it  *)
(* and its ancestors are FOCUSED, and the ancestors' focus children lead to  *)
(* it; no other container remembers a focus child (set_focus(),              *)
(* uncross_focus(), unparent_child()).                                       *)
FocusIsOneChain ==
  LET chain == IF tree.focus = NULL THEN {} ELSE ToSet(Ancestry(tree, tree.focus))
  IN /\ tree.focus # NULL => Root(tree, tree.focus) = Window
     /\ \A w \in Widgets :
          /\ tree.focused[w] <=> w \in chain
          /\ LET on == {c \in chain : tree.parent[c] = w}
             IN tree.focusChild[w] = IF on = {} THEN NULL ELSE CHOOSE c \in on : TRUE

(* Whatever the focus is now and whatever was removed, hidden or disabled    *)
(* before, Tab walks around exactly the widgets that can take the focus: as  *)
(* many presses as there are such widgets visit each of them once, and so do *)
(* as many presses of Shift-Tab (move_focus(), move_focus_dir()).            *)
KeysReachEverything ==
  LET takers == IF tree.visible[Window] /\ ~Insensitive(tree, Window)
                THEN {w \in Buttons : MayGrab(tree, w)} ELSE {}
  IN \A forward \in BOOLEAN :
       LET press[n \in 0..Cardinality(Buttons)] ==
             IF n = 0 THEN tree ELSE MoveFocusDir(press[n - 1], forward)
       IN {press[n].focus : n \in 1..Cardinality(takers)} = takers
=============================================================================
