------------------------------- MODULE XmlNodes -------------------------------
(* XML trees (rcore/xmlnode.cc) and the visitors that save a record in one,  *)
(* or in an Any, and load it again (rcore/visitor.hh).  A tree is printed,   *)
(* somebody may put comments into the text, and the handlers of              *)
(* XmlNodeParser build a tree of what MarkupParser finds.  The factory reads *)
(* its own documents the same way, inside a root element if they have none.  *)
(* Nodes are numbered in the order they are made; a text node has no name.   *)
(* Positions in files, wrappers that print parts of a tree differently and   *)
(* the formats of numbers are left out.                                      *)
EXTENDS Integers, Sequences, SequencesExt

CONSTANTS Saved,        \* records: what they are saved and read as
          Documents,    \* of the factory: [text, names of definitions]
          Comments, MaxComments

M == INSTANCE Markup WITH Beginnings <- {}, MaxPiece <- 0,
                          document <- <<>>, piece <- <<>>, context <- <<>>

VARIABLES phase,        \* "save", "text", "parse", "done"
          source,       \* ghost: the member of Saved or Documents
          any,          \* the record as an Any
          nodes,        \* [name, attributes, text, children, parent]
          text, added,  \* the document, comments added to it
          calls,        \* of handlers, to come
          stack, first, \* of the XmlNodeParser: node_stack_ and first_
          error
vars == <<phase, source, any, nodes, text, added, calls, stack, first, error>>

-----------------------------------------------------------------------------
(* --- nodes --------------------------------------------------------------- *)
None == 0
NewNode(name, chars) == [name |-> name, attributes |-> <<>>, text |-> chars, children |-> <<>>, parent |-> None]
IsText(node) == node.name = <<>>
FindAttribute(node, name) == SelectInSeq(node.attributes, LAMBDA a : a[1] = name)
SetAttribute(node, name, value, replace) ==
  LET i == FindAttribute(node, name)
  IN CASE i = 0    -> [node EXCEPT !.attributes = Append(@, <<name, value>>)]
       [] replace  -> [node EXCEPT !.attributes[i][2] = value]
       [] OTHER    -> node
HasAttribute(node, name) == FindAttribute(node, name) # 0
GetAttribute(node, name) == IF HasAttribute(node, name) THEN node.attributes[FindAttribute(node, name)][2] ELSE <<>>
(* A child is only added while it has no parent.                             *)
AddChild(tree, p, c) ==
  IF tree[c].parent # None THEN tree ELSE [tree EXCEPT ![p].children = Append(@, c), ![c].parent = p]
CreateChild(tree, p, node) == AddChild(Append(tree, node), p, Len(tree) + 1)
FindChild(tree, p, name) ==
  LET found == SelectSeq(tree[p].children, LAMBDA c : tree[c].name = name) IN IF found = <<>> THEN None ELSE Head(found)
RECURSIVE TextOf(_, _)
TextFirst(tree, n) ==                   \* mutant: the text up to a comment
  IF IsText(tree[n]) THEN tree[n].text
  ELSE IF tree[n].children = <<>> THEN <<>> ELSE tree[Head(tree[n].children)].text
TextOf(tree, n) ==
  IF IsText(tree[n]) THEN tree[n].text
  ELSE FoldLeft(LAMBDA s, c : s \o TextOf(tree, c), <<>>, tree[n].children)

(* --- printing ------------------------------------------------------------ *)
EscapeXml(s, all) ==
  FoldLeft(LAMBDA d, ch : d \o (IF ch = "'" /\ ~all THEN <<ch>> ELSE M!EscapeText(<<ch>>)), <<>>, s)
Spaces(indent) == [i \in 1..indent |-> " "]
Attributes(node) ==
  FlattenSeq([i \in DOMAIN node.attributes |->
    <<" ">> \o EscapeXml(node.attributes[i][1], TRUE)
    \o <<"=", "\"">> \o EscapeXml(node.attributes[i][2], FALSE) \o <<"\"">>])
RECURSIVE XmlString(_, _, _)
XmlString(tree, n, indent) ==
  LET node == tree[n]
      Break(i) == ~IsText(tree[node.children[i]]) /\ (i = 1 \/ ~IsText(tree[node.children[i - 1]]))
      Child(i) == (IF Break(i) THEN <<"\n">> \o Spaces(indent + 2) ELSE <<>>) \o XmlString(tree, node.children[i], indent + 2)
      ended == node.children # <<>> /\ ~IsText(tree[Last(node.children)])
  IN IF IsText(node) THEN EscapeXml(node.text, TRUE)
     ELSE IF node.children = <<>> THEN <<"<">> \o node.name \o Attributes(node) \o <<"/", ">">>
     ELSE <<"<">> \o node.name \o Attributes(node) \o <<">">>
          \o FlattenSeq([i \in DOMAIN node.children |-> Child(i)])
          \o (IF ended THEN <<"\n">> \o Spaces(indent) ELSE <<>>) \o <<"<", "/">> \o node.name \o <<">">>

(* strip_xml_tags(): what is outside of angle brackets.                      *)
StripTags(s) ==
  FoldLeft(LAMBDA a, ch : CASE ~a.inside /\ ch = "<" -> [a EXCEPT !.inside = TRUE]
                            [] ~a.inside             -> [a EXCEPT !.out = Append(@, ch)]
                            [] ch = ">"              -> [a EXCEPT !.inside = FALSE]
                            [] OTHER                 -> a, [inside |-> FALSE, out |-> <<>>], s).out

(* --- the document of the factory ----------------------------------------- *)
(* How far the first tag is from the end of the comments before it, which    *)
(* the code takes for its position.                                          *)
RECURSIVE SeekFrom(_, _)
SeekFrom(s, p) ==
  LET c == M!SeekTo(s, p, {"<"})
      ends == {i \in c + 4..(Len(s) - 2) : SubSeq(s, i, i + 2) = <<"-", "-", ">">>}
  IN IF c > Len(s) THEN Len(s)
     ELSE IF c + 6 > Len(s) \/ SubSeq(s, c, c + 3) # <<"<", "!", "-", "-">> THEN c - p
     ELSE IF ends = {} THEN Len(s) ELSE SeekFrom(s, (CHOOSE i \in ends : \A j \in ends : i <= j) + 3)
SeekToElement(s) == SeekFrom(s, 1)
Root == <<"n", "t">>                    \* stands for interfaces
Wrapped(s) ==
  LET e == SeekToElement(s) + 1
      tag == <<"<">> \o Root
  IN IF e + Len(tag) <= Len(s) /\ SubSeq(s, e, e + Len(tag) - 1) # tag /\ s[e + 1] # "?"
     THEN <<tag \o <<">">>, s, <<"<", "/">> \o Root \o <<">">>>> ELSE <<s>>

-----------------------------------------------------------------------------
(* --- visitors ------------------------------------------------------------ *)
(* A type is Text, Bool, [of |-> type, new |-> value] or [fields |->         *)
(* <<name, type>>, ...]; values of the last are functions of names.          *)
Text == [is |-> "text"]
Bool == [is |-> "bool"]
Letters(b) == IF b THEN <<"t", "r", "u", "e">> ELSE <<"f", "a", "l", "s", "e">>
Nth(name, i) == <<Head(name), ToString(i - 1)>>

RECURSIVE ToXml(_, _, _, _, _)
ToXml(tree, n, name, type, value) ==
  LET made == CreateChild(tree, n, NewNode(name, <<>>))
      child == Len(tree) + 1
  IN CASE type = Bool -> [tree EXCEPT ![n] = SetAttribute(@, name, Letters(value), TRUE)]
       [] type = Text -> CreateChild(made, child, NewNode(<<>>, value))
       [] "of" \in DOMAIN type ->
            FoldLeft(LAMBDA t, i : ToXml(t, child, Nth(name, i), type.of, value[i]), made, [i \in DOMAIN value |-> i])
       [] OTHER -> FoldLeft(LAMBDA t, f : ToXml(t, child, f[1], f[2], value[f[1]]), made, type.fields)
RECURSIVE FromXml(_, _, _, _, _)
FromXml(tree, n, name, type, value) ==
  LET c == FindChild(tree, n, name)
      Has(i) == HasAttribute(tree[c], Nth(name, i)) \/ FindChild(tree, c, Nth(name, i)) # None
      size == CHOOSE k \in 0..Len(tree) : ~Has(k + 1) /\ \A i \in 1..k : Has(i)
      Field(f) == CHOOSE t \in ToSet(type.fields) : t[1] = f
  IN CASE type = Bool -> IF HasAttribute(tree[n], name) THEN GetAttribute(tree[n], name) = Letters(TRUE) ELSE value
       [] type = Text -> IF HasAttribute(tree[n], name) THEN GetAttribute(tree[n], name)
                         ELSE IF c # None THEN TextOf(tree, c) ELSE value
       [] c = None -> value
       [] "of" \in DOMAIN type -> [i \in 1..size |-> FromXml(tree, c, Nth(name, i), type.of, type.new)]
       [] OTHER -> [f \in DOMAIN value |-> FromXml(tree, c, f, Field(f)[2], value[f])]

(* An Any: a value, a vector of Anys, or a vector of named Anys.             *)
RECURSIVE ToAny(_, _)
ToAny(type, value) ==
  CASE type \in {Text, Bool} -> [value |-> value]
    [] "of" \in DOMAIN type -> [anys |-> [i \in DOMAIN value |-> ToAny(type.of, value[i])]]
    [] OTHER -> [fields |-> [i \in DOMAIN type.fields |-> [name |-> type.fields[i][1],
                                                           any |-> ToAny(type.fields[i][2], value[type.fields[i][1]])]]]
RECURSIVE FromAny(_, _, _)
FromAny(a, type, value) ==
  CASE type \in {Text, Bool} -> a.value
    [] "of" \in DOMAIN type -> [i \in DOMAIN a.anys |-> FromAny(a.anys[i], type.of, type.new)]
    [] OTHER -> [f \in DOMAIN value |->
                  LET i == SelectInSeq(a.fields, LAMBDA field : field.name = f)
                      t == CHOOSE d \in ToSet(type.fields) : d[1] = f
                  IN IF i = 0 THEN value[f] ELSE FromAny(a.fields[i].any, t[2], value[f])]

-----------------------------------------------------------------------------
Init ==
  /\ phase = "save" /\ source = <<>> /\ any = <<>> /\ nodes = <<>> /\ text = <<>> /\ added = 0
  /\ calls = <<>> /\ stack = <<>> /\ first = None /\ error = FALSE

Save ==
  /\ phase = "save" /\ phase' = "text"
  /\ \E r \in Saved :
       /\ source' = r
       /\ any' = ToAny(r.type, r.value)
       /\ \E tree \in {ToXml(<<NewNode(<<"a">>, <<>>)>>, 1, <<"s">>, r.type, r.value)} :
            nodes' = tree /\ text' = XmlString(tree, 1, 0)
  /\ UNCHANGED <<added, calls, stack, first, error>>
Write ==
  /\ phase = "save" /\ phase' = "text"
  /\ \E d \in Documents : source' = d /\ text' = d.text
  /\ UNCHANGED <<any, nodes, added, calls, stack, first, error>>
(* Comments go between tags, or between a tag and text.                      *)
Comment ==
  /\ phase = "text" /\ added < MaxComments /\ added' = added + 1
  /\ \E c \in Comments, i \in {k \in DOMAIN text : text[k] = ">" /\ ~IsSuffix(<<"?", ">">>, SubSeq(text, 1, k))} :
       text' = SubSeq(text, 1, i) \o <<"<", "!", "-", "-">> \o c \o <<"-", "-", ">">> \o SubSeq(text, i + 1, Len(text))
  /\ UNCHANGED <<phase, source, any, nodes, calls, stack, first, error>>
(* parse_xml(): the markup parser, whose calls the handlers answer.          *)
Parse ==
  /\ phase = "text" /\ phase' = "parse"
  /\ nodes' = <<>>
  /\ \E c \in {M!EndParse(FoldLeft(LAMBDA c, t : M!Parse(c, t), M!Fresh,
                                   IF "names" \in DOMAIN source THEN Wrapped(text) ELSE <<text>>))} :
       calls' = c.calls /\ error' = (c.state # "ENDED")
  /\ UNCHANGED <<source, any, text, added, stack, first>>

Current == IF stack = <<>> THEN None ELSE Last(stack)
Attached(node) == IF Current = None THEN Append(nodes, node) ELSE CreateChild(nodes, Current, node)
Told(what) == phase = "parse" /\ calls # <<>> /\ Head(calls)[1] = what /\ calls' = Tail(calls)
(* A second element beside the first is an error, and takes its place.       *)
StartElement ==
  /\ Told("start")
  /\ LET arg == Head(calls)[2]
         node == FoldLeft(LAMBDA n, a : SetAttribute(n, a[1], a[2], TRUE), NewNode(arg[1], <<>>), arg[2])
     IN nodes' = Attached(node)
  /\ stack' = Append(stack, Len(nodes) + 1)
  /\ first' = IF Current = None THEN Len(nodes) + 1 ELSE first
  /\ error' = (error \/ (Current = None /\ first # None))
  /\ UNCHANGED <<phase, source, any, text, added>>
EndElement ==
  /\ Told("end") /\ stack' = Front(stack)
  /\ UNCHANGED <<phase, source, any, nodes, text, added, first, error>>
TextFound ==
  /\ Told("text")
  /\ nodes' = Attached(NewNode(<<>>, Head(calls)[2]))
  /\ first' = IF Current = None THEN Len(nodes) + 1 ELSE first
  /\ UNCHANGED <<phase, source, any, text, added, stack, error>>
PassThrough == Told("pass") /\ UNCHANGED <<phase, source, any, nodes, text, added, stack, first, error>>
Done ==
  /\ phase = "parse" /\ calls = <<>> /\ phase' = "done"
  /\ UNCHANGED <<source, any, nodes, text, added, calls, stack, first, error>>
Next == Save \/ Write \/ Comment \/ Parse \/ StartElement \/ EndElement \/ TextFound \/ PassThrough \/ Done
Spec == Init /\ [][Next]_vars

-----------------------------------------------------------------------------
(* A record that is saved as XML, or as an Any, is loaded as it was, however *)
(* the XML is commented: fields the program does not know are skipped, and   *)
(* those that were not saved keep their values (ToXmlVisitor, FromXmlVisitor,*)
(* any_from_visitable(), any_to_visitable()).                                *)
RecordsReturn ==
  phase = "done" /\ "loaded" \in DOMAIN source =>
    /\ ~error /\ nodes[first].parent = None
    /\ FromXml(nodes, first, <<"s">>, source.reads, source.new) = source.loaded
    /\ FromAny(any, source.reads, source.new) = source.loaded
    /\ SelectSeq(StripTags(text), LAMBDA ch : ch \notin {" ", "\n"})
         = SelectSeq(EscapeXml(TextOf(nodes, first), TRUE), LAMBDA ch : ch \notin {" ", "\n"})

(* The definitions of a document of the factory are the elements below its   *)
(* root, whether it has one or not (parse_ui_data()).                        *)
DefinitionsAreFound ==
  phase = "done" /\ "names" \in DOMAIN source =>
    /\ ~error /\ nodes[first].name = Root
    /\ LET found == SelectSeq(nodes[first].children, LAMBDA c : ~IsText(nodes[c]))
       IN [i \in DOMAIN found |-> nodes[found[i]].name] = source.names
=============================================================================
