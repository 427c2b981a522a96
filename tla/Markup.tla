------------------------------- MODULE Markup -------------------------------
(* MarkupParser (rcore/markup.cc): a pushed parser.  The program hands it a  *)
(* document in pieces, the handlers are called as elements complete, and at  *)
(* the end it says so.  A document is a sequence of characters; "e1" "e2"    *)
(* are the two bytes of one letter, which pieces may split.  Documents are   *)
(* well-formed as UTF-8, so two of the errors for those that are not are left*)
(* out.  Positions in the text and wording of errors are left out, too;      *)
(* handlers accept what they are told.                                       *)
EXTENDS Integers, Sequences, SequencesExt

CONSTANTS Beginnings,   \* [text, characters, most]: what the parser has been fed in one
                        \* piece at first, what follows, and how long it gets
          MaxPiece

VARIABLES document,     \* everything handed over so far
          piece,        \* what the program collects for the next parse()
          context
vars == <<document, piece, context>>

NameStart == {"a", "b", "f", "g", "l", "m", "n", "o", "p", "q", "s", "t", "u", "v", "e1"}
Digits == {"0", "1", "2", "3", "4", "5", "6", "7", "8", "9"}
NameChar == NameStart \cup Digits \cup {"e2", "-"}
Spaces == {" ", "\t", "\n", "\r"}
Fresh == [state |-> "START", partial |-> <<>>, stack |-> <<>>, attributes |-> <<>>, leftover |-> <<>>,
          empty |-> TRUE, iter |-> 0, start |-> 0, calls |-> <<>>]

(* The first position from i on with a character not in skipped, or in stops.*)
Seek(t, i, skipped) ==
  LET n == SelectInSubSeq(t, i, Len(t), LAMBDA ch : ch \notin skipped) IN IF n = 0 THEN Len(t) + 1 ELSE n
SeekTo(t, i, stops) ==
  LET n == SelectInSubSeq(t, i, Len(t), LAMBDA ch : ch \in stops) IN IF n = 0 THEN Len(t) + 1 ELSE n

(* --- entities ------------------------------------------------------------ *)
Entities == << <<"<", <<"l", "t">>>>, <<">", <<"g", "t">>>>, <<"&", <<"a", "m", "p">>>>,
               <<"\"", <<"q", "u", "o", "t">>>>, <<"'", <<"a", "p", "o", "s">>>> >>
EscapeText(s) ==
  FoldLeft(LAMBDA d, ch : LET n == SelectInSeq(Entities, LAMBDA e : e[1] = ch)
                          IN d \o (IF n = 0 THEN <<ch>> ELSE <<"&">> \o Entities[n][2] \o <<";">>), <<>>, s)
Bad == [ok |-> FALSE, text |-> <<>>]
Chars(s) == [ok |-> TRUE, text |-> s]
(* The first entity that begins with the name, of which the code compares no *)
(* more than it has.                                                         *)
Entity(name) ==
  LET n == SelectInSeq(Entities, LAMBDA e : IsPrefix(name, e[2])) IN IF n = 0 THEN Bad ELSE Chars(<<Entities[n][1]>>)
Permitted(n) ==
  CASE n = 9 -> Chars(<<"\t">>) [] n = 10 -> Chars(<<"\n">>) [] n = 13 -> Chars(<<"\r">>)
    [] n = 60 -> Chars(<<"<">>) [] n >= 32 -> Chars(<<ToString(n)>>) [] OTHER -> Bad
(* A number after spaces, as strtoul() reads it; signs and base 16 left out. *)
CharRef(s) ==
  LET i == Seek(s, 1, Spaces)
      n == FoldLeft(LAMBDA v, ch : 10 * v + (CHOOSE d \in 0..9 : ToString(d) = ch), 0, SubSeq(s, i, Len(s)))
  IN IF i > Len(s) \/ Seek(s, i, Digits) <= Len(s) THEN Bad ELSE Permitted(n)
Reference(name) ==
  CASE name = <<>>                                                              -> Bad
    [] name[1] = "#"                                                            -> CharRef(Tail(name))
    [] name[1] \in NameStart /\ ToSet(name) \subseteq NameChar                  -> Entity(name)
    [] OTHER                                                                    -> Bad
(* In attribute values line ends and tabs are spaces.                        *)
Unescape(s, value) ==
  FoldLeft(LAMBDA u, p :
             LET e == SeekTo(s, p, {";"})
                 Add(d, n) == [ok |-> d.ok, text |-> u.text \o d.text, next |-> n]
             IN CASE ~u.ok \/ p < u.next        -> u
                  [] s[p] = "&" /\ e > Len(s)   -> Add(Bad, e)
                  [] s[p] = "&"                 -> Add(Reference(SubSeq(s, p + 1, e - 1)), e + 1)
                  [] s[p] = "\r"                -> Add(Chars(<<IF value THEN " " ELSE "\n">>),
                                                       IF p < Len(s) /\ s[p + 1] = "\n" THEN p + 2 ELSE p + 1)
                  [] OTHER                      -> Add(Chars(<<IF value /\ s[p] \in Spaces THEN " " ELSE s[p]>>), p + 1),
           [ok |-> TRUE, text |-> <<>>, next |-> 1], [i \in DOMAIN s |-> i])

Fail(c) == [c EXCEPT !.state = "ERROR"]
Move(c, i, state) == [c EXCEPT !.iter = i, !.state = state, !.start = i]
Call(c, what, arg) == [c EXCEPT !.calls = Append(@, <<what, arg>>)]
Take(c, t, i) == [c EXCEPT !.partial = @ \o SubSeq(t, c.start, i - 1), !.iter = i]
Drop(c) == [c EXCEPT !.partial = <<>>]
Pop(c) == [c EXCEPT !.stack = Front(@)]

(* --- the states ---------------------------------------------------------- *)
InName(c, t) ==
  LET i == Seek(t, c.iter, NameChar)
      d == Take(c, t, i)
  IN IF i > Len(t) THEN d
     ELSE CASE c.state = "OPEN_TAG_NAME" -> [Drop(d) EXCEPT !.stack = Append(@, d.partial), !.state = "BETWEEN"]
            [] c.state = "ATTRIBUTE_NAME" -> [d EXCEPT !.state = "AFTER_ATTRIBUTE_NAME"]
            [] c.state = "CLOSE_TAG_NAME" -> [d EXCEPT !.state = "AFTER_CLOSE_TAG_NAME"]

StartElement(c) == [Call(c, "start", <<Last(c.stack), c.attributes>>) EXCEPT !.attributes = <<>>]

(* The name of a closing tag must be that of the element it closes.          *)
EndElement(c, ch, i) ==
  IF ch # ">" \/ c.stack = <<>> \/ Last(c.stack) # c.partial THEN Fail(Drop(c))
  ELSE Pop(Call(Drop(Move(c, i + 1, "AFTER_CLOSE_ANGLE")), "end", c.partial))

Delim == [ch \in {"'", "\""} |-> IF ch = "'" THEN "VALUE_SQ" ELSE "VALUE_DQ"]

(* The states that skip spaces first, at the next character i.               *)
AfterSpaces(c, t, i) ==
  LET ch == t[i]
      name == c.partial
  IN CASE c.state = "START" ->
            IF ch = "<" THEN [Move(c, i + 1, "AFTER_OPEN_ANGLE") EXCEPT !.empty = FALSE] ELSE Fail(c)
       [] c.state = "BETWEEN" ->
            IF ch = "/" THEN StartElement(Move(c, i + 1, "AFTER_ELISION_SLASH"))
            ELSE IF ch = ">" THEN StartElement(Move(c, i + 1, "AFTER_CLOSE_ANGLE"))
            ELSE IF ch \in NameStart THEN Move(c, i, "ATTRIBUTE_NAME") ELSE Fail(c)
       [] c.state = "AFTER_ATTRIBUTE_NAME" ->
            LET d == [Drop(c) EXCEPT !.attributes = Append(@, <<name, <<>>>>)]
            IN IF ch = "=" THEN Move(d, i + 1, "AFTER_EQUALS") ELSE Fail(d)
       [] c.state = "AFTER_EQUALS" ->
            IF ch \in DOMAIN Delim THEN Move(c, i + 1, Delim[ch]) ELSE Fail(c)
       [] c.state = "AFTER_CLOSE_TAG_NAME" -> EndElement(c, ch, i)

(* Up to the closing quote, or to the next tag.                              *)
Stop(c) == CASE c.state = "VALUE_SQ" -> "'" [] c.state = "VALUE_DQ" -> "\"" [] OTHER -> "<"
EndRun(c, d, i) ==
  LET value == c.state # "TEXT"
      u == Unescape(d.partial, value)
  IN CASE ~u.ok -> Drop(Fail(d))
       [] value -> [Drop(Move(d, i + 1, "BETWEEN")) EXCEPT !.attributes[Len(c.attributes)][2] = u.text]
       [] OTHER -> Drop(Call(Move(d, i + 1, "AFTER_OPEN_ANGLE"), "text", u.text))
RunForgotten(c, t) ==                   \* mutant: what ends a piece is not kept
  LET i == SeekTo(t, c.iter, {Stop(c)})
  IN IF i > Len(t) THEN [c EXCEPT !.iter = i] ELSE EndRun(c, Take(c, t, i), i)
InRun(c, t) ==
  LET i == SeekTo(t, c.iter, {Stop(c)})
      d == Take(c, t, i)
  IN IF i > Len(t) THEN d ELSE EndRun(c, d, i)

(* Does a > after s end it, as its beginning calls for?                      *)
HowMany(ch, s) == Len(SelectSeq(s, LAMBDA x : x = ch))
PassesThrough(s) ==
  \/ IsPrefix(<<"<", "?">>, s) /\ IsSuffix(<<"?">>, s)
  \/ IsPrefix(<<"<", "!", "-", "-">>, s) /\ IsSuffix(<<"-", "-">>, s)
  \/ IsPrefix(<<"<", "!", "[", "C", "D", "A", "T", "A", "[">>, s) /\ IsSuffix(<<"]", "]">>, s)
  \/ IsPrefix(<<"<", "!", "D", "O", "C", "T", "Y", "P", "E">>, s) /\ HowMany("<", s) = HowMany(">", s) + 1
RECURSIVE InPassthrough(_, _)
InPassthrough(c, t) ==
  LET i == SeekTo(t, c.iter, {">"})
      d == [Take(c, t, i) EXCEPT !.start = i]
      all == d.partial \o <<">">>
  IN IF i > Len(t) THEN d
     ELSE IF PassesThrough(d.partial) THEN Drop(Call(Move(d, i + 1, "AFTER_CLOSE_ANGLE"), "pass", all))
     ELSE IF i = Len(t) THEN [d EXCEPT !.partial = all, !.iter = i + 1]
     ELSE InPassthrough([d EXCEPT !.iter = i + 1], t)

(* One round of the loop in parse().                                         *)
Step(c, t) ==
  LET ch == t[c.iter]
      i == Seek(t, c.iter, Spaces)
  IN CASE c.state \in {"OPEN_TAG_NAME", "ATTRIBUTE_NAME", "CLOSE_TAG_NAME"} -> InName(c, t)
       [] c.state \in {"VALUE_SQ", "VALUE_DQ", "TEXT"} -> InRun(c, t)
       [] c.state = "PASSTHROUGH" -> InPassthrough(c, t)
       [] c.state = "AFTER_OPEN_ANGLE" ->
            IF ch \in {"?", "!"} THEN [Move(c, c.iter, "PASSTHROUGH") EXCEPT !.partial = <<"<">>]
            ELSE IF ch = "/" THEN Move(c, c.iter + 1, "AFTER_CLOSE_TAG_SLASH")
            ELSE IF ch \in NameStart THEN Move(c, c.iter, "OPEN_TAG_NAME") ELSE Fail(c)
       [] c.state = "AFTER_CLOSE_TAG_SLASH" ->
            IF ch \in NameStart THEN Move(c, c.iter, "CLOSE_TAG_NAME") ELSE Fail(c)
       [] c.state = "AFTER_CLOSE_ANGLE" -> Move(c, c.iter, IF c.stack = <<>> THEN "START" ELSE "TEXT")
       [] c.state = "AFTER_ELISION_SLASH" ->
            LET d == Call(c, "end", Last(c.stack))
            IN Pop(IF ch = ">" THEN Move(d, c.iter + 1, "AFTER_CLOSE_ANGLE") ELSE Fail(d))
       [] OTHER -> IF i > Len(t) THEN [c EXCEPT !.iter = i] ELSE AfterSpaces(c, t, i)
RECURSIVE Loop(_, _)
Loop(c, t) == IF c.iter > Len(t) \/ c.state = "ERROR" THEN [c EXCEPT !.iter = 0, !.start = 0]
              ELSE Loop(Step(c, t), t)

(* --- parse() ------------------------------------------------------------- *)
(* A letter that the piece begins but does not finish is left over.          *)
ParseWhole(c, t) ==
  LET cut == t # <<>> /\ Last(t) = "e1"
  IN Loop([c EXCEPT !.iter = 1, !.start = 1, !.leftover = IF cut THEN <<"e1">> ELSE <<>>],
          IF cut THEN Front(t) ELSE t)
(* Leftover bytes are completed by the continuation bytes the piece starts   *)
(* with, once a character follows, and are parsed before the rest; no        *)
(* character has more than seven.                                            *)
Parse(c, t) ==
  LET n == IF t[1] # "e2" THEN 1 ELSE Seek(t, 2, {"e2"})
      d == [c EXCEPT !.leftover = @ \o t]
  IN IF c.leftover = <<>> THEN ParseWhole(c, t)
     ELSE IF n > Len(t) THEN (IF Len(d.leftover) > 7 THEN Fail(d) ELSE d)
     ELSE ParseWhole(ParseWhole(c, c.leftover \o SubSeq(t, 1, n - 1)), SubSeq(t, n, Len(t)))

(* --- end_parse() --------------------------------------------------------- *)
(* Two of the states a document can end in are not among the cases: there    *)
(* the program aborts.                                                       *)
Verdict(c, complete) ==
  IF c.empty THEN "ERROR"
  ELSE IF complete THEN "ENDED"
  ELSE IF c.state \in {"AFTER_ATTRIBUTE_NAME", "AFTER_CLOSE_TAG_NAME"} THEN "ABORTED" ELSE "ERROR"
EndAnywhere(c) ==                       \* mutant: elements may be open
  [Drop(c) EXCEPT !.state = Verdict(c, c.state \in {"START", "AFTER_CLOSE_ANGLE"})]
EndParse(c) ==
  [Drop(c) EXCEPT !.state = Verdict(c, c.state = "START" \/ (c.state = "AFTER_CLOSE_ANGLE" /\ c.stack = <<>>))]

(* --- the program --------------------------------------------------------- *)
Init == /\ document \in {b.text : b \in Beginnings} /\ piece = <<>>
        /\ context = IF document = <<>> THEN Fresh ELSE Parse(Fresh, document)
Valid(s) == \A i \in DOMAIN s : /\ s[i] = "e2" => i > 1 /\ s[i - 1] = "e1"
                                /\ s[i] = "e1" /\ i < Len(s) => s[i + 1] = "e2"
Reading == context.state \notin {"ERROR", "ENDED", "ABORTED"}
Follows(ch, b) == IsPrefix(b.text, document) /\ ch \in b.characters /\ Len(document) + Len(piece) < b.most
Type(ch) == /\ Reading /\ Len(piece) < MaxPiece /\ \E b \in Beginnings : Follows(ch, b)
            /\ Valid(document \o piece \o <<ch>>)
            /\ piece' = Append(piece, ch) /\ UNCHANGED <<document, context>>
Feed == /\ piece # <<>> /\ Reading
        /\ context' = Parse(context, piece)
        /\ document' = document \o piece /\ piece' = <<>>
End == /\ piece = <<>> /\ Reading
       /\ context' = EndParse(context)
       /\ UNCHANGED <<document, piece>>
Next == (\E ch \in UNION {b.characters : b \in Beginnings} : Type(ch)) \/ Feed \/ End
Spec == Init /\ [][Next]_vars

-----------------------------------------------------------------------------
(* Where the document is cut into pieces makes no difference: the parser is  *)
(* where one parse() of everything leaves it, and the handlers were told the *)
(* same (parse(); a last letter may still be waiting for its other byte).    *)
PiecesMakeNoDifference ==
  document # <<>> /\ context.leftover = <<>> =>
    \E whole \in {Parse(Fresh, document)} : context \in {whole, EndParse(whole)}

(* The handlers see elements nest: each end_element() names the last element *)
(* started and not yet ended, and what has not ended is what the parser      *)
(* holds open, but for a start tag that is still being read.  A document that *)
(* end_parse() accepts has ended all of them.                                *)
HandlersSeeNesting ==
  LET open == FoldLeft(LAMBDA s, e : CASE e[1] = "start" -> Append(s, e[2][1])
                                       [] e[1] = "end" -> IF s # <<>> /\ Last(s) = e[2] THEN Front(s) ELSE <<"wrong">>
                                       [] OTHER -> s, <<>>, context.calls)
      reading == {"BETWEEN", "ATTRIBUTE_NAME", "AFTER_ATTRIBUTE_NAME", "AFTER_EQUALS", "VALUE_SQ", "VALUE_DQ"}
  IN /\ context.state = "ENDED" => context.calls # <<>> /\ open = <<>>
     /\ Reading => open = IF context.state \in reading THEN Front(context.stack) ELSE context.stack

(* markup.cc:1559 asserts that no other state can be reached: wherever the   *)
(* document ends, end_parse() reports it.                                    *)
EndIsReported == context.state # "ABORTED"
=============================================================================
