----------------------------- MODULE UiFactory -----------------------------
(* Building widgets from definitions (ui/factory.cc).  Files of definitions  *)
(* are registered, the newest is searched first.  A definition names the one *)
(* it is based on, down to a widget type of the library, has Arguments with  *)
(* defaults, attributes and inner nodes; attributes may refer to Arguments   *)
(* with @eval.  Every definition on the way opens a scope with the values    *)
(* given to it, and takes values of the scopes around it for its Arguments.  *)
(* Left out: property elements, namespaced attributes, child_container,      *)
(* inner nodes with an id, containers that refuse a child, and arithmetic in *)
(* @eval.                                                                    *)
EXTENDS Integers, Sequences, FiniteSets, SequencesExt, FiniteSetsExt

CONSTANTS Library,      \* the files initialize_factory_lazily() registers
          Files,        \* others; a file is a sequence of definitions
          Calls,        \* [id, values] create_ui_widget() is called with
          PropertiesOf, \* widget type |-> the names try_set_property() knows
          Containers    \* the widget types that take children

VARIABLES interface_file_list, built
vars == <<interface_file_list, built>>

NoDefinition == [id |-> ""]
Literal(v) == [eval |-> FALSE, text |-> v]

(* --- definitions --------------------------------------------------------- *)
Definitions == FlattenSeq(interface_file_list)
Lookup(id) == LET i == SelectInSeq(Definitions, LAMBDA d : d.id = id)
              IN IF i = 0 THEN NoDefinition ELSE Definitions[i]
Ids == {d.id : d \in ToSet(Definitions)}

(* From a definition to the widget type at its end: a definition that is     *)
(* found again on the way never ends (the program loops).                    *)
RECURSIVE Chain(_, _)
Chain(id, seen) ==
  IF id \in seen \/ Lookup(id) = NoDefinition THEN <<>>
  ELSE <<Lookup(id)>> \o Chain(Lookup(id).base, seen \union {id})
Ends(id) == LET c == Chain(id, {}) IN c # <<>> /\ Lookup(Last(c).base) = NoDefinition

(* factory_context_list_types(): what the widget is called.                  *)
Types(id) == LET c == Chain(id, {}) IN {d.id : d \in ToSet(c)} \union {Last(c).type}
HasAncestor(id, ancestor) ==
  \/ id = ancestor /\ (Lookup(id) # NoDefinition \/ id \in DOMAIN PropertiesOf)
  \/ LET c == Chain(id, {})
     IN IF Lookup(ancestor) # NoDefinition THEN Lookup(ancestor) \in ToSet(c)
        ELSE c # <<>> /\ Last(c).base = "Rapicorn_Factory" /\ Last(c).type = ancestor

(* --- scopes -------------------------------------------------------------- *)
(* A value of a scope counts how often it has been used (scope_consumed_).   *)
Given(values) == [i \in DOMAIN values |-> [name |-> values[i][1], text |-> values[i][2], used |-> 0]]
IsName(n) == n \in {"id", "name"}
NamesArgument(d, v) == v.used = 0 /\ ~IsName(v.name) /\ \E a \in ToSet(d.arguments) : a[1] = v.name
UseAnyhow(scope, d) ==                  \* mutant: used values stay available
  [i \in DOMAIN scope |-> IF \E a \in ToSet(d.arguments) : a[1] = scope[i].name
                          THEN [scope[i] EXCEPT !.used = @ + 1] ELSE scope[i]]
Use(scope, d) == [i \in DOMAIN scope |-> IF NamesArgument(d, scope[i])
                                         THEN [scope[i] EXCEPT !.used = @ + 1] ELSE scope[i]]

(* The values of the Arguments: the default, what the scope itself is given, *)
(* and then the scopes around it, the outermost last.                        *)
Locals(d, scopes) ==
  [n \in {a[1] : a \in ToSet(d.arguments)} |->
     LET from(scope) == SelectSeq(scope, LAMBDA v : v.name = n /\ NamesArgument(d, v))
         all == <<CHOOSE a \in ToSet(d.arguments) : a[1] = n>>
                  \o FlattenSeq([k \in DOMAIN scopes |-> [i \in DOMAIN from(scopes[k]) |->
                                  <<n, from(scopes[k])[i].text>>]])
     IN Last(all)[2]]
Evaluate(attributes, locals) ==
  [i \in DOMAIN attributes |->
     <<attributes[i][1], IF attributes[i][2].eval
                         THEN LET n == attributes[i][2].text
                              IN IF n \in DOMAIN locals THEN locals[n] ELSE ""
                         ELSE attributes[i][2].text>>]

(* --- building ------------------------------------------------------------ *)
(* Both return the widget or none, the scopes around as they are left, what  *)
(* became of the values of every scope that is complete, and the names of    *)
(* the Arguments of all definitions on the way.                              *)
NoWidget == [type |-> ""]

(* build_from_factory() takes nothing but a definition with an id and the    *)
(* type of a widget, without any other attribute, Argument or inner node.    *)
FromFactory(node) ==
  IF /\ node.name = "Rapicorn_Factory" /\ node.type \in DOMAIN PropertiesOf
     /\ Len(node.attributes) = 1 /\ node.attributes[1][1] = "id"
     /\ node.children = <<>> /\ node.arguments = <<>>
  THEN [type |-> node.type, name |-> node.attributes[1][2].text, properties |-> <<>>, children |-> <<>>]
  ELSE NoWidget

(* What a scope is left with is set, once the widget of its definition d is  *)
(* built: the last of the names it was given, and what properties there are. *)
Complete(r, d, names) ==
  LET takes == r.takes \union {a[1] : a \in ToSet(d.arguments)}
      left == Head(r.scopes)
      fits(v) == v.used = 0 /\ v.name \in PropertiesOf[r.widget.type]
      after(v) == [value |-> v.name, type |-> r.widget.type, takes |-> takes, set |-> fits(v),
                   used |-> IF fits(v) THEN 1 ELSE v.used]
  IN IF r.widget = NoWidget THEN [r EXCEPT !.scopes = Tail(@), !.takes = takes]
     ELSE [widget |-> [r.widget EXCEPT !.name = IF names = <<>> THEN @ ELSE Last(names).text,
                                       !.properties = @ \o SelectSeq(left, fits)],
           scopes |-> Tail(r.scopes), takes |-> takes,
           done |-> r.done \o [i \in DOMAIN left |-> after(left[i])]]

RECURSIVE BuildScope(_, _, _), BuildWidget(_, _, _)
BuildScope(id, values, outer) ==
  LET d == Lookup(id)
      mine == [i \in DOMAIN Given(values) |->
                 IF IsName(values[i][1]) THEN [Given(values)[i] EXCEPT !.used = 1] ELSE Given(values)[i]]
      scopes == <<mine>> \o outer
  IN Complete(BuildWidget([name |-> d.base, type |-> d.type, arguments |-> d.arguments, children |-> d.children,
                           attributes |-> <<<<"id", Literal(d.id)>>>> \o d.attributes],
                          Locals(d, scopes), [k \in DOMAIN scopes |-> Use(scopes[k], d)]),
              d, SelectSeq(mine, LAMBDA v : IsName(v.name)))

(* An inner node that cannot be built is left out, and so are all of those   *)
(* of a widget that is no container.                                         *)
BuildWidget(node, locals, scopes) ==
  LET add(r, child) ==
        LET joined(c) == [widget |-> IF c.widget = NoWidget THEN r.widget
                                     ELSE [r.widget EXCEPT !.children = Append(@, c.widget)],
                          scopes |-> c.scopes, done |-> r.done \o c.done, takes |-> r.takes \union c.takes]
        IN IF r.widget.type \in Containers THEN joined(BuildWidget(child, locals, r.scopes)) ELSE r
  IN FoldLeft(add, IF Lookup(node.name) # NoDefinition
                   THEN BuildScope(node.name, Evaluate(node.attributes, locals), scopes)
                   ELSE [widget |-> FromFactory(node), scopes |-> scopes, done |-> <<>>, takes |-> {}],
              node.children)

(* --- the program --------------------------------------------------------- *)
Nothing == [id |-> "", done |-> <<>>, widget |-> NoWidget]
Init == interface_file_list = Library /\ built = Nothing

(* A file with a definition without id is refused as a whole.                *)
Parse(file) ==
  /\ file \notin ToSet(interface_file_list)
  /\ interface_file_list' = IF \E d \in ToSet(file) : d.id = "" THEN interface_file_list
                            ELSE <<file>> \o interface_file_list
  /\ built' = Nothing
Create(call) ==
  /\ IF Lookup(call.id) = NoDefinition THEN built' = Nothing
     ELSE /\ \A id \in Ids : Ends(id)
          /\ LET r == BuildScope(call.id, call.values, <<>>)
             IN built' = IF r.widget = NoWidget THEN Nothing
                         ELSE [id |-> call.id, done |-> r.done, widget |-> r.widget]
  /\ UNCHANGED interface_file_list
Next == (\E f \in Files : Parse(f)) \/ (\E c \in Calls : Create(c))
Spec == Init /\ [][Next]_vars

-----------------------------------------------------------------------------
(* A value given to a scope takes effect once: for an Argument, if one of the *)
(* definitions that are built within the scope has one of its name, and      *)
(* otherwise as the name or as a property of the widget.  It is left over    *)
(* only if there is neither such an Argument nor such a property             *)
(* (build_scope()).                                                          *)
ValuesAreUsedOnce ==
  \A v \in ToSet(built.done) :
    /\ v.used <= 1
    /\ v.value \in v.takes => v.used = 1 /\ ~v.set
    /\ v.used = 0 => v.value \notin PropertiesOf[v.type]

(* Asking for ancestors before building (check_ui_window()), listing types   *)
(* and building agree, whichever files have replaced definitions.            *)
AncestryAgrees ==
  /\ \A id \in {i \in Ids : Ends(i)}, ancestor \in Ids \union DOMAIN PropertiesOf :
       HasAncestor(id, ancestor) <=> ancestor \in Types(id)
  /\ built # Nothing => HasAncestor(built.id, built.widget.type)
=============================================================================
