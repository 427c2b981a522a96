------------------------------ MODULE MCLibrary -------------------------------
(***************************************************************************)
(* What messages are made of, how connections are found, how an            *)
(* application ends, and what expressions, formats and files mean, for TLC: *)
(* specifications side by side, as in MCToolkit.                           *)
(***************************************************************************)
EXTENDS Integers, Sequences, TLC, Connections

CONSTANT NULL

VARIABLES
  part,
  any, heap, wild, want, steps,
  memory, toServer, toClient, events, frames, current, calls, pieces, fault, wrong,
  shown, uiSeen, uiNeed, uiIdle, toUi, toApp, locals, appSeen, appNeed, appIdle, client, hasQuit, shows, runs,
  words, operands,
  topic, letters,
  phase, writer, latest, added, ini, at, section, sections,
  reading, source, record, nodes, xml, comments, handlers, open, first, error,
  directive, format, count

valueVars   == <<any, heap, wild, want, steps>>
messageVars == <<memory, toServer, toClient, events, frames, current, calls, pieces, fault, wrong>>
appVars     == <<shown, uiSeen, uiNeed, uiIdle, toUi, toApp, locals, appSeen, appNeed, appIdle, client,
                 hasQuit, shows, runs>>
sinfexVars  == <<words, operands>>
stringVars  == <<topic, letters>>
iniVars     == <<phase, writer, latest, added, ini, at, section, sections>>
xmlVars     == <<reading, source, record, nodes, xml, comments, handlers, open, first, error>>
formatVars  == <<directive, format, count>>

-----------------------------------------------------------------------------
Anys == INSTANCE Values WITH
  Server <- {"s1", "s2"}, Client <- {"c1"}, Objects <- {1}, Names <- {"n"}, MaxDepth <- 2, MaxSteps <- 4,
  Careful <- TRUE

Calls == INSTANCE Messages WITH
  Methods <- {[name |-> "setter", args |-> <<"SEQUENCE">>, result |-> <<>>, emits |-> "oneway"],
              [name |-> "click", args |-> <<"RECORD">>, result |-> <<"STRING">>, emits |-> "twoway"]},
  Slots <- 1..5, MaxCalls <- 2, NONE <- NULL, heap <- memory

(* Connections, with its variables and constants: two modules with a method  *)
(* each.                                                                     *)
TwoModules == ("A" :> {"h1"}) @@ ("B" :> {"h2"})

App == INSTANCE AppRun WITH
  Windows <- {"w1", "w2"}, Locals <- {"l1"}, MaxCalls <- 4, Runs <- 1, toClient <- toApp, calls <- shows

-----------------------------------------------------------------------------
(* Operands: 0, 2, '', '1a', id and a._bcde, with _bcde as long as to need   *)
(* padding behind it.                                                        *)
Real(n) == [kind |-> "REAL", real |-> <<n, 1>>, entity |-> <<>>, text |-> <<>>]
Name(kind, entity, text) == [kind |-> kind, real |-> <<0, 1>>, entity |-> entity, text |-> text]
Expressions == INSTANCE Sinfex WITH
  Literals <- {Real(0), Real(2), Name("STRING", <<>>, <<"'", "'">>), Name("STRING", <<>>, <<"'", "1", "a", "'">>),
               Name("VARIABLE", <<>>, <<"i", "d">>), Name("VARIABLE", <<"a">>, <<"_", "b", "c", "d", "e">>)},
  Functions <- {<<"m", "a", "x">>, <<"c", "e", "i", "l">>, <<"a", "v", "g">>},
  Maps <- << << << <<"n">>, <<"'", "a", "'">> >> >>,
             << << <<"n">>, <<"1">> >>, << <<"a", "_", "_", "b", "c", "d", "e">>, <<"1">> >> >> >>,
  MaxNodes <- 4, stack <- operands

Texts == INSTANCE Strings WITH
  Alphabets <- [quotes |-> {"a", "7", "\"", "\\", "\n", "x01", "xff"}, pieces |-> {"a", ";", " "},
                numbers |-> {"1", "2"}, options |-> {"a", "=", ";", " ", "0", "+"},
                charsets |-> {"a", "e1", "e2"}, names |-> {"a", "B", "_", "1"}],
  MaxLength <- 5, BufferSize <- 3, text <- letters

Digits == {<<"0">>, <<"1">>, <<"2">>, <<"5">>, <<"9">>}
Formats == INSTANCE Directives WITH
  Tokens <- [format |-> {<<"%">>, <<"*">>, <<"1", "$">>, <<".">>, <<"-">>, <<"5">>, <<"d">>, <<"c">>, <<"b">>},
             number |-> Digits,
             call |-> {<<"a">>, <<"'">>, <<"\"">>, <<"\\">>, <<"(">>, <<")">>, <<",">>}],
  MaxTokens <- [format |-> 5, number |-> 5, call |-> 4], Modulus <- 256, Limit <- 15,
  Arguments <- <<[kind |-> "4", value |-> 3], [kind |-> "6", value |-> 7], [kind |-> "1", value |-> 4]>>,
  Listed <- <<{<<"b">>}, {<<"a">>}, {}>>, HasEmission <- FALSE,
  topic <- directive, text <- format

-----------------------------------------------------------------------------
Text == [is |-> "text"]
Bool == [is |-> "bool"]
Vector(type, new) == [of |-> type, new |-> new]

(* A record with a vector of records and a vector of texts.                  *)
IniPoint(a, b) == (<<"a">> :> a) @@ (<<"b">> :> b)
IniType == [fields |-> (<<"n">> :> Vector([fields |-> IniPoint(Text, Bool)], IniPoint(<<>>, FALSE)))
                       @@ (<<"v">> :> Vector(Text, <<>>))]
Settings == INSTANCE IniFiles WITH
  Saved <- {[type |-> IniType,
             value |-> (<<"n">> :> <<IniPoint(<<"a", " ">>, TRUE), IniPoint(<<>>, FALSE)>>)
                       @@ (<<"v">> :> <<<<"1">>, <<>>>>),
             new |-> (<<"n">> :> <<>>) @@ (<<"v">> :> <<>>)]},
  Sections <- {<<"a">>, <<"a", ".", "b", ".", "s">>}, Keys <- {<<"n">>, <<"v">>},
  Values <- {<<>>, <<"a", " ", "#", "=">>}, MaxSets <- 2,
  Lines <- {<<" ", ";">>, <<"x">>, <<"[", "v", "]", "x">>, <<"[", "v">>, <<"n", "[", "v", "]", "=", "1">>},
  text <- ini

(* A record that is read by a newer version of the program, and vectors of   *)
(* vectors; documents of the factory with and without a root.                *)
Point == [fields |-> << <<<<"a">>, Text>>, <<<<"b">>, Bool>> >>]
OldType == [fields |-> << <<<<"v">>, Vector(Point, IniPoint(<<>>, FALSE))>>, <<<<"n">>, Text>>,
                          <<<<"l">>, Vector(Bool, FALSE)>> >>]
NewType == [fields |-> << <<<<"o">>, Text>>, <<<<"n">>, Text>>,
                          <<<<"v">>, Vector(Point, IniPoint(<<>>, FALSE))>> >>]
Points == <<IniPoint(<<"a", "<", "&", "'">>, TRUE), IniPoint(<<>>, FALSE)>>
OldValue == (<<"v">> :> Points) @@ (<<"n">> :> <<" ", "\"", "\n">>) @@ (<<"l">> :> <<TRUE, FALSE>>)
NewValue(n, v) == (<<"o">> :> <<"b">>) @@ (<<"n">> :> n) @@ (<<"v">> :> v)
Lists == Vector(Vector(Text, <<>>), <<>>)
Records == {[type |-> OldType, value |-> OldValue, reads |-> NewType, new |-> NewValue(<<"b">>, <<>>),
             loaded |-> NewValue(<<" ", "\"", "\n">>, Points)],
            [type |-> Lists, value |-> << <<>>, <<<<"a">>, <<"b">>>> >>, reads |-> Lists, new |-> <<>>,
             loaded |-> << <<>>, <<<<"a">>, <<"b">>>> >>]}
A == <<"<", "a", "/", ">">>
Rooted(front) == [text |-> front \o <<"<", "n", "t", ">">> \o A \o <<"<", "/", "n", "t", ">", "\n">>,
                  names |-> <<<<"a">>>>]
Trees == INSTANCE XmlNodes WITH
  Saved <- Records,
  Documents <- {[text |-> A \o <<"\n">> \o A, names |-> <<<<"a">>, <<"a">>>>], Rooted(<<" ">>),
                Rooted(<<"<", "?", "a", "?", ">">>)},
  Comments <- {<<"<">>, <<>>}, MaxComments <- 1,
  phase <- reading, any <- record, text <- xml, added <- comments, calls <- handlers, stack <- open

-----------------------------------------------------------------------------
ASSUME Formats!DirectivesAssumption

Part == {"values", "messages", "connections", "app", "sinfex", "strings", "ini", "xml", "formats"}

(* Where a part that does not move could start in several states, one is     *)
(* taken.                                                                    *)
InitParts ==
  /\ part \in Part
  /\ Anys!Init /\ Calls!Init /\ Init /\ Expressions!Init /\ Settings!Init /\ Trees!Init
  /\ App!Init /\ (part = "app" \/ locals = {})
  /\ Texts!Init /\ (part = "strings" \/ topic = "quotes")
  /\ Formats!Init /\ (part = "formats" \/ directive = "call")

(* A step of the specification that the behaviour is about.                  *)
Only(p) ==
  /\ part = p /\ UNCHANGED part
  /\ IF p = "values" THEN TRUE ELSE UNCHANGED valueVars
  /\ IF p = "messages" THEN TRUE ELSE UNCHANGED messageVars
  /\ IF p = "connections" THEN TRUE ELSE UNCHANGED vars
  /\ IF p = "app" THEN TRUE ELSE UNCHANGED appVars
  /\ IF p = "sinfex" THEN TRUE ELSE UNCHANGED sinfexVars
  /\ IF p = "strings" THEN TRUE ELSE UNCHANGED stringVars
  /\ IF p = "ini" THEN TRUE ELSE UNCHANGED iniVars
  /\ IF p = "xml" THEN TRUE ELSE UNCHANGED xmlVars
  /\ IF p = "formats" THEN TRUE ELSE UNCHANGED formatVars

ValuesMove     == Only("values") /\ Anys!Next
MessagesMove   == Only("messages") /\ Calls!Next
RegistryMoves  == Only("connections") /\ Next
AppMoves       == Only("app") /\ App!Next
ExpressionGrows == Only("sinfex") /\ Expressions!Next
TextGrows      == Only("strings") /\ Texts!Type
SettingsMove   == Only("ini") /\ Settings!Next
TreesMove      == Only("xml") /\ Trees!Next
FormatGrows    == Only("formats") /\ Formats!Type

NextParts == ValuesMove \/ MessagesMove \/ RegistryMoves \/ AppMoves \/ ExpressionGrows \/ TextGrows \/ SettingsMove
             \/ TreesMove \/ FormatGrows
partVars == <<part, valueVars, messageVars, vars, appVars, sinfexVars, stringVars, iniVars, xmlVars, formatVars>>
SpecParts == InitParts /\ [][NextParts]_partVars

(* The scheduler runs both threads of an application.                        *)
FairParts ==
  SpecParts /\ WF_appVars(part = "app" /\ App!Ui) /\ WF_appVars(part = "app" /\ App!App)

-----------------------------------------------------------------------------
(* The properties, which their modules explain.                              *)

(* Anys are values on both sides of a connection, what crosses it refers to  *)
(* the right kind of object, and the messages it crosses in are owned.       *)
ValuesCross ==
  /\ part = "values" => Anys!AnysAreValues /\ Anys!ReferencesFitTheSide
  /\ part = "messages" => Calls!MessagesAreOwned

(* PairsMatch of Connections: clients and servers are paired, and all        *)
(* methods are found.                                                        *)

(* An application runs as long as anything primary exists on either side,    *)
(* and no longer.                                                            *)
RunEndsWhenDone == App!QuitsWhenDone /\ App!RunEnds

(* Compiled expressions mean what they say; formats and calls of commands    *)
(* are read as they are written.                                             *)
ProgramsMean ==
  /\ part = "sinfex" => Expressions!ProgramMeansExpression
  /\ part = "formats" => Formats!DirectivesRead /\ Formats!ArgumentsReturn

(* What is quoted, saved or joined is read back.                             *)
WrittenIsRead ==
  /\ part = "strings" => Texts!TextsReturn /\ Texts!NamesAreFound
  /\ part = "ini" => Settings!SettingsReturn
  /\ part = "xml" => Trees!RecordsReturn /\ Trees!DefinitionsAreFound

(* A format that ends within a directive is reported on stderr and returned  *)
(* unmodified, as rcore/formatter.hh says.                                   *)
EndIsReported == part = "formats" => Formats!IncompleteFormatsReturn
=============================================================================
