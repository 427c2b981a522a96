----------------------------- MODULE MCInterface -----------------------------
(***************************************************************************)
(* What the UI thread does by itself, for TLC: specifications side by      *)
(* side, those of the selections and of the sources of its loop as they    *)
(* are.  They share no state: `part' says which of them a behaviour is     *)
(* about, the others stay in one state.                                    *)
(***************************************************************************)
EXTENDS Selections, LoopSources

VARIABLES
  part,
  s, attached, hidden, insensitive,
  store, rows, toServer, toClient, model, shown, cached, span, selection, mode, rangeStart,
  focusRow, rowEdits, listCrashed,
  topic, nodes, selector, start, result, typed,
  tree, edits,
  visible, invalidReq, invalidAll, want, req, cells, alloc, dirty, groupReq, resizer, pending,
  display, sizeEvents, changes,
  children, homogeneous, area, columns,
  a, b,
  document, piece, context,
  interface_file_list, built

windowVars    == <<s, attached, hidden, insensitive>>
listVars      == <<store, rows, toServer, toClient, model, shown, cached, span, selection, mode,
                   rangeStart, focusRow, rowEdits, listCrashed>>
selectorVars  == <<topic, nodes, selector, start, result, typed>>
treeVars      == <<tree, edits>>
sizeVars      == <<visible, invalidReq, invalidAll, want, req, cells, alloc, dirty, groupReq, resizer,
                   pending, display, sizeEvents, changes>>
tableVars     == <<children, homogeneous, area, columns>>
regionVars    == <<a, b>>
markupVars    == <<document, piece, context>>
factoryVars   == <<interface_file_list, built>>

-----------------------------------------------------------------------------
(* A slider in a button area. *)
Pointer == INSTANCE WindowEvents WITH
  Window <- "window", Child <- <<"area", "slider">>, Skids <- {"slider"}, Button <- {1},
  RemoveWhilePressed <- FALSE, NoButton <- 0, Outside <- "outside"

List == INSTANCE WidgetLists WITH
  Texts <- {"x"}, InitialRows <- <<"x">>, OtherRows <- <<"z">>,
  Modes <- {"NONE", "SINGLE", "BROWSE", "MULTIPLE"}, View <- 1, CacheLimit <- 1, MaxRows <- 2,
  MaxEdits <- 2, SwitchesModel <- FALSE, Hurried <- FALSE, EarlyFocus <- FALSE,
  RowSelects <- FALSE, focus <- focusRow, edits <- rowEdits, crashed <- listCrashed

Tree(parent, type) == [parent |-> parent, type |-> type]
Query == INSTANCE Selectors WITH
  Trees <- {Tree(<<0, 1, 2, 2, 1>>, <<"a", "b", "a", "b", "a">>),
            Tree(<<0, 1, 1, 1, 4>>, <<"a", "a", "b", "a", "b">>),
            Tree(<<0, 1, 2, 2, 2>>, <<"b", "a", "a", "b", "a">>)},
  Compounds <- {<<[kind |-> "TYPE", ident |-> "a"]>>, <<[kind |-> "UNIVERSAL"]>>,
                <<[kind |-> "not", ident |-> "a"], [kind |-> "last-child"]>>},
  MaxCompounds <- 3, tree <- nodes, text <- typed, Modulus <- 128,
  Texts <- [nth    |-> [begins |-> {<<>>, <<"odd">>, <<"1", "0">>, <<"-", "n", " ">>}, length |-> 4,
                        chars |-> {"n", "-", "+", " ", "1", "3"}],
            nested |-> [begins |-> {<<"(", "[">>, <<"(", "'">>, <<"'", "\\">>, <<"/", "*", "/">>}, length |-> 5,
                        chars |-> {"(", ")", "]", "'", "\\", "/", "*"}],
            match  |-> [begins |-> {<<>>}, length |-> 5, chars |-> {"x", "X", "-", " "}]]

(* The window holds a box with two buttons, one of them below a viewport.    *)
Hierarchy == INSTANCE WidgetTree WITH
  Widgets <- {"win", "box", "vp", "b1", "f1", "b2", "f2"}, Window <- "win", Box <- "box",
  Viewports <- {"vp"}, Buttons <- {"b1", "b2"}, Frames <- {"f1", "f2"}, Sprouts <- {"vp", "b1"},
  Fixed <- {"win", "box"}, Togglable <- {"box", "b1"}, MovesSubtrees <- FALSE, MaxEdits <- 2,
  Placed <- <<<<"b1", "f1">>, <<"vp", "b1">>, <<"box", "vp">>, <<"box", "b2">>, <<"b2", "f2">>>>

Layout == INSTANCE WidgetLayout WITH
  Window <- "win", Box <- "box", Viewport <- "vp", Inner <- "inner", Packed <- <<"a", "vp", "b">>,
  Group <- {"inner", "a"}, Hides <- {"vp", "box", "inner", "a", "b"}, Shows <- {"box", "b"},
  MaxSize <- 2, MaxChanges <- 3, Given <- {1, 4}, events <- sizeEvents,
  MaxColumns <- 3, MaxChildren <- 2, MaxWant <- 1, MaxArea <- 3, Spacing <- 1

Region == INSTANCE Regions WITH Width <- 3, Height <- 3, MaxBoxes <- 3

Begin(begins, characters, most) == [text |-> begins, characters |-> characters, most |-> most]
Parser == INSTANCE Markup WITH
  Beginnings <-
    {Begin(text, {"a", "-", "<", ">", "/", "=", "\"", " ", "!", "?", "&", "e1", "e2"}, 5) :
       text \in {<<>>, <<"<", "a">>, <<"<", "a", ">">>, <<"<", "!", "-">>,
              <<"<", "a", " ", "a", "=", "\"">>, <<"<", "a", ">", "<", "a", "-", "/">>,
              <<"<", "a", ">", "a">>, <<"<", "a", ">", "<", "/">>}}
    \cup {Begin(<<"<", "!", "[", "C", "D", "A", "T", "A", "[">>, {"]", ">", "a"}, 13),
          Begin(<<"<", "!", "D", "O", "C", "T", "Y", "P", "E">>, {"<", ">", "a"}, 13)},
  MaxPiece <- 2

(* Definitions as in foundation.xml, standard.xml and a theme that replaces  *)
(* one of them; one file has a definition that cannot be built and one with  *)
(* an inner node that is no container's; the last file is refused.           *)
Definition(id, base, type, arguments, attributes, inner) ==
  [id |-> id, base |-> base, type |-> type, arguments |-> arguments, attributes |-> attributes,
   children |-> inner]
Node(name, attributes, inner) ==
  [name |-> name, type |-> "", arguments |-> <<>>, attributes |-> attributes, children |-> inner]
Plain(text) == [eval |-> FALSE, text |-> text]
Eval(name)  == [eval |-> TRUE, text |-> name]
Class(id, type) == Definition(id, "Rapicorn_Factory", type, <<>>, <<>>, <<>>)

Foundation == <<Class("Window", "CxxWindow"), Class("Box", "CxxBox"), Class("Label", "CxxLabel")>>
Standard ==
  <<Definition("Button", "Box", "", <<<<"label", "none">>>>, <<<<"spacing", Plain("1")>>>>,
               <<Node("Label", <<<<"label", Eval("label")>>>>, <<>>)>>),
    Definition("Dialog", "Window", "", <<<<"text", "Hi">>>>, <<>>,
               <<Node("Box", <<>>, <<Node("Button", <<<<"label", Eval("text")>>>>, <<>>),
                                     Node("Button", <<>>, <<>>)>>)>>)>>
Theme ==
  <<Definition("Box", "Frame", "", <<<<"label", "box">>>>, <<<<"label", Eval("label")>>>>, <<>>),
    Class("Frame", "CxxFrame")>>
Broken ==
  <<Definition("Frame", "Rapicorn_Factory", "CxxFrame", <<<<"spacing", "0">>>>,
               <<<<"color", Eval("spacing")>>>>, <<>>),
    Definition("Sheet", "Label", "", <<>>, <<<<"label", Plain("s")>>>>, <<Node("Box", <<>>, <<>>)>>)>>
Again     == <<Definition("Label", "Label", "", <<>>, <<>>, <<>>)>>
Anonymous == <<Definition("Sheet", "Window", "", <<>>, <<>>, <<>>),
               Definition("", "Window", "", <<>>, <<>>, <<>>)>>
Values == {<<>>, <<<<"label", "a">>>>, <<<<"label", "a">>, <<"spacing", "2">>>>,
           <<<<"name", "n">>, <<"text", "t">>, <<"label", "b">>>>}

Factory == INSTANCE UiFactory WITH
  Library <- <<Standard, Foundation>>, Files <- {Theme, Broken, Again, Anonymous},
  Calls <- [id : {"Dialog", "Button", "Label", "Box", "Sheet"}, values : Values],
  PropertiesOf <- [CxxWindow |-> {"title"}, CxxBox |-> {"spacing"}, CxxLabel |-> {"label", "color"},
                   CxxFrame |-> {"spacing", "label"}],
  Containers <- {"CxxWindow", "CxxBox", "CxxFrame"}

-----------------------------------------------------------------------------
ASSUME /\ Pointer!WindowEventsAssumption /\ Hierarchy!TreeAssumption
       /\ Layout!SizeAssumption /\ Layout!TableAssumption
       /\ LoopSourcesAssumption

Part == {"window", "clipboard", "list", "query", "widgets", "sizes", "table", "region", "parser",
         "factory", "timers", "watches"}

InitParts ==
  /\ part \in Part
  /\ Pointer!Init /\ List!Init /\ Hierarchy!Init /\ Layout!InitTable /\ Region!Init /\ Factory!Init
  /\ Init /\ SourcesInit
  /\ Layout!Init /\ (part = "sizes" \/ visible = Layout!Widgets)
  /\ Parser!Init /\ (part = "parser" \/ document = <<>>)
  /\ IF part = "query" THEN Query!Init
     ELSE /\ topic = NULL /\ typed = <<>>
          /\ nodes = NULL /\ selector = NULL /\ start = NULL /\ result = NULL

-----------------------------------------------------------------------------
(* A step of the specification that the behaviour is about.                  *)
Only(p) ==
  /\ part = p /\ UNCHANGED part
  /\ IF p = "window" THEN TRUE ELSE UNCHANGED windowVars
  /\ IF p = "clipboard" THEN TRUE ELSE UNCHANGED vars
  /\ IF p = "list" THEN TRUE ELSE UNCHANGED listVars
  /\ IF p = "query" THEN TRUE ELSE UNCHANGED selectorVars
  /\ IF p = "widgets" THEN TRUE ELSE UNCHANGED treeVars
  /\ IF p = "sizes" THEN TRUE ELSE UNCHANGED sizeVars
  /\ IF p = "table" THEN TRUE ELSE UNCHANGED tableVars
  /\ IF p = "region" THEN TRUE ELSE UNCHANGED regionVars
  /\ IF p = "parser" THEN TRUE ELSE UNCHANGED markupVars
  /\ IF p = "factory" THEN TRUE ELSE UNCHANGED factoryVars
  /\ IF p \in {"timers", "watches"} THEN TRUE ELSE UNCHANGED servedVars

PointerMoves    == Only("window") /\ Pointer!Next
ClipboardMoves  == Only("clipboard") /\ Next
ListMoves      == Only("list") /\ List!Next
QueryMoves     == Only("query") /\ Query!Next
HierarchyMoves   == Only("widgets") /\ Hierarchy!Next
SizesMoves     == Only("sizes") /\ Layout!Next
TableMoves     == Only("table") /\ Layout!NextTable
RegionMoves    == Only("region") /\ Region!Next
ParserMoves    == Only("parser") /\ Parser!Next
FactoryMoves   == Only("factory") /\ Factory!Next

(* A timer and a watch of one mode while the clock goes, two watches of any  *)
(* while it stands.                                                          *)
TimersMove     == Only("timers") /\ SourcesNext /\ ToSet(inLoop') \subseteq {"t1", "w1"}
                  /\ added' <= 2 /\ watch'["w1"].mode = {}
WatchesMove    == Only("watches") /\ SourcesNext /\ UNCHANGED clock /\ ToSet(inLoop') \cap Timers = {}

NextParts ==
  \/ PointerMoves \/ ClipboardMoves \/ ListMoves \/ QueryMoves
  \/ HierarchyMoves \/ SizesMoves \/ TableMoves \/ RegionMoves
  \/ ParserMoves \/ FactoryMoves \/ TimersMove \/ WatchesMove
partVars == <<part, windowVars, vars, listVars, selectorVars, treeVars,
              sizeVars, tableVars, regionVars, markupVars, factoryVars, servedVars>>
SpecParts == InitParts /\ [][NextParts]_partVars

-----------------------------------------------------------------------------
(* The properties, which their modules explain.                              *)

(* The window knows which widgets believe that the pointer is inside them; a *)
(* widget that shows a button pressed has the grab and hears of the end.     *)
PointerIsTracked ==
  part = "window" => /\ Pointer!HoverIsTracked /\ Pointer!OutsideNothingHovers
                     /\ Pointer!PressesAreReleased /\ Pointer!GrabWhilePressed

(* What a list shows, caches and has selected are rows of its model.         *)
RowsAreCurrent ==
  part = "list" => /\ List!RowsAreCurrent /\ List!NoRowTwice
                   /\ List!RelayMirrors /\ List!SelectionFitsMode

(* A selector is read as what was written, and finds what it means: first,   *)
(* only, or all of it.                                                       *)
QueriesFindWhatIsMeant == part = "query" => Query!QueriesFindWhatIsMeant /\ Query!TextsAreRead

(* What widgets remember of their ancestors is true; there is one focus, and *)
(* Tab moves it around all that can have it.                                 *)
WidgetsAgree ==
  part = "widgets" => Hierarchy!CachesFollowTree /\ Hierarchy!FocusIsOneChain /\ Hierarchy!KeysReachEverything

(* Nothing is drawn that has no valid size, whatever was shown and hidden    *)
(* while sizes of the window were on their way; the columns of a table hold  *)
(* its children and fill its width.                                          *)
LayoutIsValid ==
  /\ part = "sizes" => Layout!DrawnIsLaidOut /\ Layout!GroupSharesSize
  /\ part = "table" => Layout!ColumnsFit

(* Operations on regions are those on sets of points.                        *)
RegionsAreSets == part = "region" => Region!SetOperations /\ Region!QueriesMatchPoints

(* A document may be cut anywhere, and its elements nest; a value given to a *)
(* definition takes effect once.                                             *)
DefinitionsAreRead ==
  /\ part = "parser" => Parser!PiecesMakeNoDifference /\ Parser!HandlersSeeNesting
  /\ part = "factory" => Factory!ValuesAreUsedOnce /\ Factory!AncestryAgrees

(* A document that ends within an element is an error (ui/markup.cc).        *)
EndIsReported == part = "parser" => Parser!EndIsReported
=============================================================================
