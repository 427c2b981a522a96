------------------------------ MODULE Selectors ------------------------------
(***************************************************************************)
(* Selector matching: Matcher (ui/selector.cc) looks for widgets, through  *)
(* the SelobWidget objects (ui/selob.cc) of a widget tree, that match a    *)
(* chain of selector nodes like "a > b! * c".  A selector is compounds and *)
(* the combinators between them.  The second part reads formulas and       *)
(* nested texts; `topic' says what a behaviour is about.                   *)
(***************************************************************************)
EXTENDS Integers, Sequences, SequencesExt, FiniteSets, FiniteSetsExt

CONSTANTS
  Trees,       \* of widgets 1 .. n in preorder: the parent, 0 for the root, and the type of each
  Compounds,   \* sequences of selector nodes that test one widget
  MaxCompounds,
  Texts,       \* topic -> [begins, chars, length] of texts
  Modulus,     \* of the numbers in texts
  NULL

VARIABLES topic, tree, selector, start, result, text
vars == <<topic, tree, selector, start, result, text>>

Combinators == {"CHILD", "DESCENDANT", "ADJACENT", "NEIGHBORING"}
Selector == UNION {[compounds   : [1 .. n -> Compounds],
                    combinators : [1 .. n - 1 -> Combinators],
                    subject     : 0 .. n] : n \in 1 .. MaxCompounds}   \* 0: no "!"

Init ==
  \/ /\ topic = "query" /\ tree \in Trees /\ text = <<>>
     /\ selector \in Selector /\ start \in {1, 2} /\ result = NULL
  \/ /\ topic \in DOMAIN Texts /\ text \in Texts[topic].begins
     /\ tree = NULL /\ selector = NULL /\ start = NULL /\ result = NULL

-----------------------------------------------------------------------------
(* SelobWidget                                                               *)

Parent(e)   == tree.parent[e]
Children(e) == SelectSeq([k \in DOMAIN tree.parent |-> k], LAMBDA k : Parent(k) = e)
Siblings(e) == IF Parent(e) = 0 THEN <<e>> ELSE Children(Parent(e))

\* The siblings after e, or before it and nearest first
After(e)  == SelectSeq(Siblings(e), LAMBDA k : k > e)
Before(e) == Reverse(SelectSeq(Siblings(e), LAMBDA k : k < e))

RECURSIVE Ancestors(_), Descendants(_)
Ancestors(e)   == IF Parent(e) = 0 THEN <<>> ELSE <<Parent(e)>> \o Ancestors(Parent(e))
Descendants(e) == FoldLeft(LAMBDA found, c : found \o <<c>> \o Descendants(c), <<>>, Children(e))

Nearest(widgets) == IF widgets = <<>> THEN <<>> ELSE <<widgets[1]>>

-----------------------------------------------------------------------------
(* Matcher                                                                   *)

IsCombinator(node) == node.kind \in Combinators

\* The chain that SelectorChain::parse() makes
Chain(s) ==
  LET Then(k) == (IF s.subject = k THEN <<[kind |-> "SUBJECT"]>> ELSE <<>>)
                 \o <<[kind |-> s.combinators[k]]>> \o s.compounds[k + 1]
  IN FoldLeft(LAMBDA c, k : c \o Then(k), s.compounds[1], [k \in 1 .. Len(s.compounds) - 1 |-> k])

\* subject_index, as parse_selector() finds it
SubjectIndex(chain) ==
  LET subjects    == {k \in DOMAIN chain : chain[k].kind = "SUBJECT"}
      combinators == {k \in DOMAIN chain : IsCombinator(chain[k])}
  IN IF subjects # {} THEN Max(subjects) ELSE IF combinators # {} THEN Max(combinators) + 1 ELSE 1

\* match_element_selector() and match_pseudo_class()
Test(e, node) ==
  CASE node.kind = "UNIVERSAL"   -> TRUE
    [] node.kind = "TYPE"        -> tree.type[e] = node.ident
    [] node.kind = "not"         -> tree.type[e] # node.ident
    [] node.kind = "empty"       -> Children(e) = <<>>
    [] node.kind = "root"        -> Parent(e) = 0
    [] node.kind = "only-child"  -> Parent(e) # 0 /\ Len(Siblings(e)) = 1
    [] node.kind = "first-child" -> Parent(e) # 0 /\ Siblings(e)[1] = e
    [] node.kind = "last-child"  -> Parent(e) # 0 /\ Last(Siblings(e)) = e

\* Mutant of Candidates: siblings are nearest first in both directions, but one only.
NearestCandidates(kind, e, dir) ==
  LET all == CASE kind = "CHILD"       -> IF dir > 0 THEN Children(e) ELSE SelectSeq(<<Parent(e)>>, LAMBDA p : p # 0)
               [] kind = "DESCENDANT"  -> IF dir > 0 THEN Descendants(e) ELSE Ancestors(e)
               [] OTHER                -> IF dir > 0 THEN After(e) ELSE Before(e)
  IN IF kind \in {"ADJACENT", "NEIGHBORING"} THEN Nearest(all) ELSE all

\* Where a combinator leads, in the order of the tries
Candidates(kind, e, dir) ==
  CASE kind = "CHILD"       -> IF dir > 0 THEN Children(e) ELSE SelectSeq(<<Parent(e)>>, LAMBDA p : p # 0)
    [] kind = "DESCENDANT"  -> IF dir > 0 THEN Descendants(e) ELSE Ancestors(e)
    [] kind = "ADJACENT"    -> Nearest(IF dir > 0 THEN After(e) ELSE Before(e))
    [] kind = "NEIGHBORING" -> IF dir > 0 THEN After(e) ELSE Before(e)

\* match_selector_stepwise<dir>(): the widget found, or 0
RECURSIVE Stepwise(_, _, _, _)
Stepwise(chain, e, k, dir) ==
  LET node == chain[k]
      more == k + dir \in DOMAIN chain
      rest == IF more THEN Stepwise(chain, e, k + dir, dir) ELSE e
      Try(found, c) == IF found # 0 THEN found ELSE Stepwise(chain, c, k + dir, dir)
  IN IF IsCombinator(node) THEN (IF more THEN FoldLeft(Try, 0, Candidates(node.kind, e, dir)) ELSE 0)
     ELSE IF node.kind = "SUBJECT" THEN (IF rest = 0 THEN 0 ELSE e)
     ELSE IF Test(e, node) THEN rest ELSE 0

\* match_selector_chain()
Match(chain, e) ==
  LET k == SubjectIndex(chain)
  IN IF k > 1 /\ Stepwise(chain, e, k - 1, -1) = 0 THEN 0 ELSE Stepwise(chain, e, k, 1)

\* recurse_selector<count>(), 0 for all
RECURSIVE Recurse(_, _, _)
Recurse(chain, e, count) ==
  LET own == SelectSeq(<<Match(chain, e)>>, LAMBDA r : r # 0)
      Add(found, c) ==
        IF count > 0 /\ Len(found) >= count THEN found
        ELSE found \o Recurse(chain, c, IF count = 2 /\ Len(found) = 1 THEN 1 ELSE count)
  IN IF count = 1 /\ own # <<>> THEN own ELSE FoldLeft(Add, own, Children(e))

Query ==
  /\ topic = "query" /\ result = NULL
  /\ LET chain  == Chain(selector)
         first  == Recurse(chain, start, 1)
         unique == Recurse(chain, start, 2)
     IN result' = [all    |-> Recurse(chain, start, 0),
                   first  |-> IF first = <<>> THEN 0 ELSE first[1],
                   unique |-> IF Len(unique) # 1 THEN 0 ELSE unique[1]]
  /\ UNCHANGED <<topic, tree, selector, start, text>>

(* Texts grow by a character at a time.                                      *)
Type ==
  /\ topic \in DOMAIN Texts /\ Len(text) < Texts[topic].length
  /\ \E ch \in Texts[topic].chars : text' = Append(text, ch)
  /\ UNCHANGED <<topic, tree, selector, start, result>>

Next == Query \/ Type
Spec == Init /\ [][Next]_vars

-----------------------------------------------------------------------------
(* What a selector means: widgets for all its compounds that are related as
   the combinators say.                                                      *)
Related(kind, d, e) ==
  CASE kind = "CHILD"       -> Parent(e) = d
    [] kind = "DESCENDANT"  -> d \in Range(Ancestors(e))
    [] kind = "ADJACENT"    -> Parent(d) = Parent(e) /\ d < e /\ ~\E k \in d + 1 .. e - 1 : Parent(k) = Parent(e)
    [] kind = "NEIGHBORING" -> Parent(d) = Parent(e) /\ d < e

Means(e) ==
  LET n       == Len(selector.compounds)
      subject == IF selector.subject \in {0, n} THEN n ELSE selector.subject
  IN \E w \in [1 .. n -> DOMAIN tree.parent] :
       /\ w[subject] = e
       /\ \A k \in 1 .. n : \A j \in DOMAIN selector.compounds[k] : Test(w[k], selector.compounds[k][j])
       /\ \A k \in 1 .. n - 1 : Related(selector.combinators[k], w[k], w[k + 1])

(* query_selector_all() finds just the widgets below its start that are meant,
   in tree order, query_selector_first() the first of them, and
   query_selector_unique() the only one: the search in both directions from
   the subject, which turns back at dead ends and stops early, misses nothing. *)
QueriesFindWhatIsMeant ==
  result # NULL =>
    LET meant == SelectSeq(<<start>> \o Descendants(start), Means)
    IN /\ result.all = meant
       /\ result.first = IF meant = <<>> THEN 0 ELSE meant[1]
       /\ result.unique = IF Len(meant) # 1 THEN 0 ELSE meant[1]
-----------------------------------------------------------------------------
(* Reading parts of selectors.  A text is a sequence of characters, one for
   each class the code tells apart; "odd" and "even" are words.  A reader is
   given a position and says where it stopped.                               *)
Digits  == {"0", "1", "3"}
Blank   == {" ", "\n"}
Quotes  == {"'"}
Closing == [c \in {"(", "["} |-> IF c = "(" THEN ")" ELSE "]"]
Digit(c) == CASE c = "0" -> 0 [] c = "1" -> 1 [] c = "3" -> 3

At(s, p) == IF p <= Len(s) THEN s[p] ELSE "end"
No == [ok |-> FALSE]
RECURSIVE Skip(_, _, _), Digits10(_, _, _)
Skip(s, p, set) == IF At(s, p) \in set THEN Skip(s, p + 1, set) ELSE p
Spaces(s, p) == Skip(s, p, Blank)

\* parse_unsigned_integer(): numbers are taken modulo Modulus, 2^64 in the code.
Digits10(s, p, u) ==
  IF At(s, p) \notin Digits THEN [ok |-> TRUE, at |-> p, value |-> u]
  ELSE LET v == (10 * u + Digit(s[p])) % Modulus
       IN IF v < u THEN No ELSE Digits10(s, p + 1, v)
Unsigned(s, p) ==
  IF At(s, p) = "0" /\ At(s, p + 1) \notin Digits THEN [ok |-> TRUE, at |-> p + 1, value |-> 0]
  ELSE IF At(s, p) \in Digits \ {"0"} THEN Digits10(s, p + 1, Digit(s[p])) ELSE No

Largest == Modulus \div 2 - 1
Sign(s, p) == IF At(s, p) = "-" THEN -1 ELSE 1
AfterSign(s, p) == IF At(s, p) \in {"+", "-"} THEN p + 1 ELSE p
Signed(s, p) ==
  LET u == Unsigned(s, AfterSign(s, p))
  IN IF u.ok /\ (u.value <= Largest \/ (Sign(s, p) = -1 /\ u.value = Largest + 1))
       THEN [ok |-> TRUE, at |-> u.at, value |-> Sign(s, p) * u.value] ELSE No

\* parse_plus_b(), parse_a_n_plus_b() and parse_css_nth()
PlusB(s, p) ==
  LET q == Spaces(s, p)
      u == Unsigned(s, Spaces(s, AfterSign(s, q)))
  IN IF u.ok /\ (u.value <= Largest \/ (Sign(s, q) = -1 /\ u.value = Largest + 1))
       THEN [at |-> u.at, value |-> Sign(s, q) * u.value] ELSE [at |-> p, value |-> 0]
AnPlusB(s, p) ==
  LET i == Signed(s, p)
      a == IF i.ok THEN i ELSE [at |-> AfterSign(s, p), value |-> Sign(s, p)]
      b == PlusB(s, a.at + 1)
  IN IF At(s, a.at) = "n" THEN [ok |-> TRUE, at |-> Spaces(s, b.at), a |-> a.value, b |-> b.value] ELSE No
Nth(s) ==
  LET p == Spaces(s, 1)
      i == Signed(s, p)
  IN IF AnPlusB(s, p).ok THEN AnPlusB(s, p)
     ELSE IF At(s, p) \in {"odd", "even"}
       THEN [ok |-> TRUE, at |-> Spaces(s, p + 1), a |-> 2, b |-> IF s[p] = "odd" THEN 1 ELSE 0]
     ELSE IF i.ok THEN [ok |-> TRUE, at |-> Spaces(s, i.at), a |-> 0, b |-> i.value] ELSE No

\* match_css_nth(); C divides towards 0
MatchNth(pos, a, b) ==
  LET Abs(k) == IF k < 0 THEN -k ELSE k
      n == (IF (pos - b < 0) = (a < 0) THEN 1 ELSE -1) * (Abs(pos - b) \div Abs(a))
  IN pos > 0 /\ IF a = 0 THEN pos = b ELSE n >= 0 /\ n * a = pos - b

\* scan_escaped(): the position behind term, 0 for none
RECURSIVE ScanEscaped(_, _, _), ScanNested(_, _, _)
ScanEscaped(s, p, term) ==
  CASE At(s, p) = "end" -> 0
    [] At(s, p) = term  -> p + 1
    [] At(s, p) = "\\" /\ At(s, p + 1) # "end" -> ScanEscaped(s, p + 2, term)
    [] OTHER -> ScanEscaped(s, p + 1, term)

\* scan_nested() with comments: the position of term, 0 for none
ScanNested(s, p, term) ==
  LET ch == At(s, p)
      ends == {q \in p + 2 .. Len(s) - 1 : s[q] = "*" /\ s[q + 1] = "/"}
      From(q) == IF q = 0 THEN 0 ELSE ScanNested(s, q, term)
      Pair(q) == IF q = 0 THEN 0 ELSE From(q + 1)
  IN CASE ch = "end" -> 0
       [] ch \in Quotes -> From(ScanEscaped(s, p + 1, ch))
       [] ch \in DOMAIN Closing -> Pair(ScanNested(s, p + 1, Closing[ch]))
       [] ch = term -> p
       [] ch \in Range(Closing) -> 0                         \* unpaired
       [] ch = "/" /\ At(s, p + 1) = "*" -> IF ends = {} THEN 0 ELSE From(Min(ends) + 2)
       [] OTHER -> From(p + 1)

(* match_attribute_selector(), the answers it may give: of a value shorter    *)
(* than the argument, ATTRIBUTE_DASHSTART_I reads beyond the end.             *)
Lower(w) == [k \in DOMAIN w |-> IF w[k] = "X" THEN "x" ELSE w[k]]
Occurs(w, v, k) == k + Len(w) - 1 <= Len(v) /\ SubSeq(v, k, k + Len(w) - 1) = w
AttributeKinds == {"EQUALS", "UNEQUALS", "PREFIX", "SUFFIX", "DASHSTART", "SUBSTRING", "INCLUDES"}
MatchAttribute(kind, folded, value, arg) ==
  LET v == IF folded THEN Lower(value) ELSE value
      a == IF folded THEN Lower(arg) ELSE arg
      common == Min({Len(v), Len(a)})
      starts == IF folded THEN SubSeq(v, 1, common) = SubSeq(a, 1, common) ELSE IsPrefix(a, v)
      all == {k \in DOMAIN v : Occurs(a, v, k)}
      first == Min(all)
      behind == Len(a) + 1
  IN CASE kind = "EQUALS"    -> {v = a}
       [] kind = "UNEQUALS"  -> {v # a}
       [] kind = "PREFIX"    -> {starts}
       [] kind = "SUFFIX"    -> {IsSuffix(a, v)}
       [] kind = "DASHSTART" -> IF starts /\ Len(v) < Len(a) THEN BOOLEAN
                                ELSE {starts /\ At(v, behind) \in {"-", "end"}}
       [] kind = "SUBSTRING" -> {all # {}}
       [] kind = "INCLUDES"  -> {all # {} /\ (first = 1 \/ v[first - 1] = " ")
                                 /\ At(v, first + Len(a)) \in {" ", "end"}}
-----------------------------------------------------------------------------
(* What is read.                                                             *)

IsInteger(w) == /\ w # <<>> /\ ToSet(w) \subseteq Digits /\ (w[1] = "0" => Len(w) = 1)
ValueOf(w) == FoldLeft(LAMBDA v, c : 10 * v + Digit(c), 0, w)
HasSign(w) == w # <<>> /\ w[1] \in {"+", "-"}
Amount(w) == IF HasSign(w) THEN Sign(w, 1) * ValueOf(Tail(w)) ELSE ValueOf(w)
Trim(w) ==
  LET used == {k \in DOMAIN w : w[k] \notin Blank}
  IN IF used = {} THEN <<>> ELSE SubSeq(w, Min(used), Max(used))

\* "nth : S* [ ['-'|'+']? INTEGER? {N} [ S* ['-'|'+'] S* INTEGER ]? | ['-'|'+']? INTEGER | ... ] S*"
Formula(s) ==
  LET core   == Trim(s)
      ns     == {k \in DOMAIN core : core[k] = "n"}
      left   == SubSeq(core, 1, Max(ns) - 1)
      right  == Trim(SubSeq(core, Max(ns) + 1, Len(core)))
      number == IF HasSign(right) THEN Trim(Tail(right)) ELSE <<>>
      Says(a, b) == [ok |-> TRUE, at |-> Len(s) + 1, a |-> a, b |-> b]
      Fits(w) == IsInteger(w) /\ ValueOf(w) <= Largest
      Bare(w) == IF HasSign(w) THEN Tail(w) ELSE w
  IN IF core = <<"odd">> THEN Says(2, 1)
     ELSE IF core = <<"even">> THEN Says(2, 0)
     ELSE IF ns = {} /\ Fits(Bare(core)) THEN Says(0, Amount(core))
     ELSE IF /\ Cardinality(ns) = 1 /\ (Bare(left) = <<>> \/ Fits(Bare(left)))
             /\ right = <<>> \/ Fits(number)
       THEN Says(IF Bare(left) = <<>> THEN Sign(left, 1) ELSE Amount(left),
                  IF right = <<>> THEN 0 ELSE Sign(right, 1) * ValueOf(number))
     ELSE No

(* parse_css_nth() reads a formula of the grammar in front of it to its end   *)
(* and as what it says, and match_css_nth() finds the numbers it stands for.  *)
FormulasAreRead ==
  topic = "nth" =>
    \A read \in {Nth(text)}, says \in {Formula(text)} :
      /\ says.ok => read = says
      /\ read.ok => \A pos \in -1 .. 5 :
           MatchNth(pos, read.a, read.b)
             <=> pos > 0 /\ pos \in {read.a * n + read.b : n \in 0 .. 2 * Modulus}

\* Texts whose brackets, quotes and comments are paired
RECURSIVE Balanced(_)
Balanced(w) ==
  \/ w = <<>>
  \/ /\ w[1] \notin Quotes \union DOMAIN Closing \union Range(Closing)
     /\ ~(w[1] = "/" /\ At(w, 2) = "*")
     /\ Balanced(Tail(w))
  \/ \E k \in 2 .. Len(w) :
       /\ LET inner == SubSeq(w, 2, k - 1)
          IN \/ w[1] \in DOMAIN Closing /\ w[k] = Closing[w[1]] /\ Balanced(inner)
             \/ w[1] \in Quotes /\ ScanEscaped(SubSeq(w, 1, k), 2, w[1]) = k + 1
             \/ /\ w[1] = "/" /\ At(w, 2) = "*" /\ k >= 4 /\ w[k - 1] = "*" /\ w[k] = "/"
                /\ \A j \in 4 .. k - 1 : ~(w[j - 1] = "*" /\ w[j] = "/")
       /\ Balanced(SubSeq(w, k + 1, Len(w)))

(* scan_nested() finds the first closing bracket that is not inside of other  *)
(* brackets, quotes or comments, and no other one.                            *)
ScansFindTheEnd ==
  topic = "nested" =>
    LET ends == {k \in DOMAIN text : text[k] = ")" /\ Balanced(SubSeq(text, 1, k - 1))}
    IN ScanNested(text, 1, ")") = IF ends = {} THEN 0 ELSE Min(ends)

(* Attributes are matched as their operators say: the value begins or ends    *)
(* with the argument, contains it, has it as a word, and so on, with or       *)
(* without regard to case.                                                    *)
Meant(kind, v, a) ==
  CASE kind = "EQUALS"    -> v = a
    [] kind = "UNEQUALS"  -> v # a
    [] kind = "PREFIX"    -> \E w \in {SubSeq(v, k, Len(v)) : k \in 1 .. Len(v) + 1} : a \o w = v
    [] kind = "SUFFIX"    -> \E w \in {SubSeq(v, 1, k) : k \in 0 .. Len(v)} : w \o a = v
    [] kind = "DASHSTART" -> v = a \/ IsPrefix(a \o <<"-">>, v)
    [] kind = "SUBSTRING" -> \E k \in DOMAIN v : Occurs(a, v, k)
    [] kind = "INCLUDES"  -> \E k \in DOMAIN v : Occurs(<<" ">> \o a \o <<" ">>, <<" ">> \o v \o <<" ">>, k)
Agrees(kind, folded, value, arg) ==
  MatchAttribute(kind, folded, value, arg)
    = {Meant(kind, IF folded THEN Lower(value) ELSE value, IF folded THEN Lower(arg) ELSE arg)}
Values == {<<SubSeq(text, 1, k), SubSeq(text, k + 1, Len(text))>> : k \in 0 .. Len(text) - 1}

\* Not so for a value shorter than the argument, and for an argument that occurs
\* twice, of which strstr() finds the first.
Simple(kind, folded, value, arg) ==
  /\ kind \in {"PREFIX", "DASHSTART"} /\ folded => Len(value) >= Len(arg)
  /\ kind = "INCLUDES" => Cardinality({k \in DOMAIN value : Occurs(Lower(arg), Lower(value), k)}) < 2
AttributesAreMatched ==
  topic = "match" =>
    \A kind \in AttributeKinds, folded \in BOOLEAN, w \in Values :
      Simple(kind, folded, w[1], w[2]) => Agrees(kind, folded, w[1], w[2])

TextsAreRead == FormulasAreRead /\ ScansFindTheEnd /\ AttributesAreMatched

=============================================================================
