----------------------------- MODULE Directives -----------------------------
(* The two little languages that are interpreted at run time: the formats of *)
(* string_format() (rcore/formatter.cc) and the command calls of widgets     *)
(* (ui/cmdlib.cc, WidgetImpl::exec_command).  Neither keeps state: `text' is *)
(* an input that grows by one of the Tokens of its topic.  What printf does  *)
(* with a directive it can read is left to it: a directive is rendered as    *)
(* the format and the values it is called with.  A C string ends in "NUL":   *)
(* a scan that runs over it reads what happens to be behind the string.      *)
EXTENDS Integers, Sequences, SequencesExt

CONSTANTS Tokens,       \* topic ("format", "number", "call") -> set of sequences of characters
          MaxTokens,    \* topic -> how many
          Modulus,      \* of uint64_t; real: 2^64
          Limit,        \* the largest number of a directive; real: 2^31 - 1
          Arguments,    \* the arguments a format is given, a sequence of [kind, value]
          Listed,       \* the identifiers of the commands of a widget, its parent, ..., its window
          HasEmission   \* the window has not handled the previous command yet

DirectivesAssumption == Modulus \in Nat /\ Limit \in Nat /\ 10 * Limit < Modulus

VARIABLES topic, text, count
vars == <<topic, text, count>>

Upto(n) == [i \in 1..n |-> i]
Ch(s, i) == IF i <= Len(s) THEN s[i] ELSE "NUL"
Spaces == {" ", "\t", "\n"}
Seek(s, i, skipped) ==
  LET n == SelectInSubSeq(s, i, Len(s), LAMBDA ch : ch \notin skipped) IN IF n = 0 THEN Len(s) + 1 ELSE n
(* while (strchr (set, *p)) p++: the NUL is in every set.                    *)
SkipChars(s, i, set) == LET n == Seek(s, i, set) IN IF n > Len(s) THEN Len(s) + 2 ELSE n

(* --- numbers ------------------------------------------------------------- *)
DigitOf == "0" :> 0 @@ "1" :> 1 @@ "2" :> 2 @@ "5" :> 5 @@ "7" :> 7 @@ "9" :> 9
ReadDigits(run) ==
  FoldLeft(LAMBDA a, ch : LET u == (10 * a.u + DigitOf[ch]) % Modulus
                          IN [u |-> u, ok |-> a.ok /\ u >= a.u],
           [u |-> 0, ok |-> TRUE], run)
NumberWraps(s, i) ==                     \* mutant: overflow is not noticed
  LET end == Seek(s, i, DOMAIN DigitOf)
      run == SubSeq(s, i, end - 1)
      a == ReadDigits(run)
  IN IF run = <<>> \/ (run[1] = "0" /\ run # <<"0">>) THEN [ok |-> FALSE, u |-> 0, i |-> i]
     ELSE [ok |-> TRUE, u |-> a.u, i |-> end]
Number(s, i) ==
  LET end == Seek(s, i, DOMAIN DigitOf)
      run == SubSeq(s, i, end - 1)
      a == ReadDigits(run)
  IN IF run = <<>> \/ (run[1] = "0" /\ run # <<"0">>) \/ ~a.ok THEN [ok |-> FALSE, u |-> 0, i |-> i]
     ELSE [ok |-> TRUE, u |-> a.u, i |-> end]
Positional(s, i) ==
  LET n == Number(s, i)
  IN IF n.ok /\ Ch(s, n.i) = "$" THEN [n EXCEPT !.i = @ + 1] ELSE [ok |-> FALSE, u |-> 0, i |-> i]

(* --- one directive ------------------------------------------------------- *)
Flags == {"-", "+", "#", "0", " ", "'"}
Modifiers == {"h", "l", "L", "j", "z", "t", "q", "Z"}
Integral == {"d", "i", "o", "u", "X", "x"}
Floats == {"F", "f", "G", "g", "E", "e", "A", "a"}
Conversions == Integral \cup Floats \cup {"c", "C", "s", "p", "m", "%"}

Directive(start, index) ==
  [i |-> start + 1, index |-> index, err |-> "", flags |-> {}, use_width |-> FALSE, use_precision |-> FALSE,
   field_width |-> 0, precision |-> 0, value_index |-> 0, width_index |-> 0, precision_index |-> 0,
   conversion |-> "NUL", start |-> start]
Error(d, err) == [d EXCEPT !.err = err]
(* The argument a number before a "$" names, or else the next one.           *)
Indexed(d, n, index) ==
  IF 0 < n.u /\ n.u <= Limit THEN [d EXCEPT ![index] = n.u, !.i = n.i]
  ELSE Error(d, "invalid positional specification")
ValueIndex(s, d) == LET n == Positional(s, d.i) IN IF n.ok THEN Indexed(d, n, "value_index") ELSE d
Starred(s, d, index) ==
  LET n == Positional(s, d.i + 1)
  IN IF n.ok THEN Indexed(d, n, index) ELSE [d EXCEPT ![index] = d.index, !.index = @ + 1, !.i = @ + 1]
Numbered(s, d, field) ==
  LET n == Number(s, d.i)
  IN CASE ~n.ok         -> d
       [] n.u <= Limit  -> [d EXCEPT ![field] = n.u, !.i = n.i]
       [] OTHER         -> Error(d, "invalid specification")
ParseFlags(s, d) ==
  LET i == SkipChars(s, d.i, Flags)
  IN [d EXCEPT !.i = i, !.flags = {s[k] : k \in d.i..(IF i > Len(s) THEN Len(s) ELSE i - 1)}]
ParseWidth(s, d) ==
  IF Ch(s, d.i) = "*" THEN [Starred(s, d, "width_index") EXCEPT !.use_width = TRUE]
  ELSE [Numbered(s, d, "field_width") EXCEPT !.use_width = Number(s, d.i).ok]
PrecisionValue(s, d) ==
  IF Ch(s, d.i) = "*" THEN Starred(s, d, "precision_index") ELSE Numbered(s, d, "precision")
PrecisionUncounted(s, d) ==              \* mutant: the argument of the precision is taken twice
  [PrecisionValue(s, IF Ch(s, d.i) = "." THEN [d EXCEPT !.use_precision = TRUE, !.i = @ + 1] ELSE d)
     EXCEPT !.index = d.index]
ParsePrecision(s, d) ==
  PrecisionValue(s, IF Ch(s, d.i) = "." THEN [d EXCEPT !.use_precision = TRUE, !.i = @ + 1] ELSE d)
ParseConversion(s, d) ==
  LET i == SkipChars(s, d.i, Modifiers)
      next == d.value_index = 0 /\ s[i] \notin {"m", "%"}
  IN CASE i > Len(s)              -> Error(d, "undefined")       \* ran over the NUL
       [] s[i] \notin Conversions -> Error(d, "missing conversion specifier")
       [] OTHER -> [d EXCEPT !.i = i + 1, !.conversion = IF s[i] = "C" THEN "c" ELSE s[i],
                             !.value_index = IF next THEN d.index ELSE @, !.index = IF next THEN @ + 1 ELSE @]
ParseStep(s, d, step) ==
  CASE d.err # ""            -> d
    [] step = "value"        -> ValueIndex(s, d)
    [] step = "flags"        -> ParseFlags(s, d)
    [] step = "width"        -> ParseWidth(s, d)
    [] step = "precision"    -> ParsePrecision(s, d)
    [] step = "conversion"   -> ParseConversion(s, d)
ParseDirective(s, start, index) ==
  FoldLeft(LAMBDA d, step : ParseStep(s, d, step), Directive(start, index),
           <<"value", "flags", "width", "precision", "conversion">>)

(* --- a format ------------------------------------------------------------ *)
UpperDirectiveCount(s) ==
  FoldLeft(LAMBDA a, i : IF i < a.i \/ s[i] # "%" THEN a
                         ELSE [n |-> a.n + 1, i |-> IF Ch(s, i + 1) = "%" THEN i + 2 ELSE i + 1],
           [n |-> 0, i |-> 1], Upto(Len(s))).n
(* Directives are read where a "%" is found behind the previous one.         *)
Parse(s) ==
  FoldLeft(LAMBDA ds, k :
             IF s[k] # "%" \/ (ds # <<>> /\ (Last(ds).err # "" \/ k < Last(ds).i)) THEN ds
             ELSE Append(ds, ParseDirective(s, k, IF ds = <<>> THEN 1 ELSE Last(ds).index)),
           <<>>, Upto(Len(s)))
IndicesOf(d) == <<d.width_index, d.precision_index, d.value_index>>
MaxReference(ds) == FoldLeft(LAMBDA m, d : FoldLeft(LAMBDA a, n : IF n > a THEN n ELSE a, m, IndicesOf(d)), 0, ds)

FormatArg(args, n) == IF n \in DOMAIN args THEN args[n] ELSE [kind |-> "", value |-> 0]
AsLong(args, n) == FormatArg(args, n).value
AsWidth(args, n) == LET w == AsLong(args, n) IN IF w < 0 THEN -w ELSE w
AsPrecision(args, n) == LET w == AsLong(args, n) IN IF w < 0 THEN 0 ELSE w
AsChars(args, n) ==
  LET a == FormatArg(args, n)
  IN CASE n \notin DOMAIN args                    -> ""
       [] a.kind \in {"s", "p"} /\ a.value = 0    -> "(null)"
       [] a.kind = "s"                            -> a.value
       [] OTHER                                   -> ""
(* The call of printf: the flags it knows for this conversion, a "*" for     *)
(* width and precision, which are passed as numbers.                         *)
RenderArg(d, args, modifier, value) ==
  LET Flag(f, conversions) == IF f \in d.flags /\ d.conversion \in conversions THEN <<f>> ELSE <<>>
      zeroes == IF "-" \in d.flags THEN {} ELSE Integral \cup Floats
      width == IF d.width_index = 0 THEN d.field_width ELSE AsWidth(args, d.width_index)
      precision == IF d.precision_index = 0 THEN d.precision ELSE AsPrecision(args, d.precision_index)
  IN [format |-> <<"%">> \o Flag("-", Conversions) \o Flag("+", Conversions) \o Flag(" ", Conversions)
                 \o Flag("0", zeroes) \o Flag("#", Floats \cup {"o", "X", "x"}) \o Flag("'", {"i", "d", "u", "F", "f", "G", "g"})
                 \o (IF d.use_width THEN <<"*">> ELSE <<>>)
                 \o (IF d.use_precision /\ d.conversion \in Integral \cup Floats \cup {"s", "m"} THEN <<".", "*">> ELSE <<>>)
                 \o modifier \o <<d.conversion>>,
      ints |-> (IF d.use_width THEN <<width>> ELSE <<>>) \o (IF d.use_precision THEN <<precision>> ELSE <<>>),
      value |-> value]
ModifierOf == "1" :> <<"hh">> @@ "2" :> <<"h">> @@ "4" :> <<>> @@ "6" :> <<"l">>
ModifierFor(conversion, kind) ==
  CASE conversion \in Floats                                                -> IF kind = "f" THEN <<>> ELSE <<"L">>
    [] conversion \in {"m", "p", "s"}                                        -> <<>>
    [] conversion \notin {"m", "p", "s"} \cup Floats /\ kind \in DOMAIN ModifierOf -> ModifierOf[kind]
    [] OTHER                                                                 -> <<"ll">>
ValueFor(conversion, args, n) ==
  CASE conversion = "m" -> 0
    [] conversion = "s" -> AsChars(args, n)
    [] OTHER            -> AsLong(args, n)
RenderDirective(d, args) ==
  IF d.conversion = "%" THEN [format |-> <<"%", "%">>, ints |-> <<>>, value |-> 0]
  ELSE RenderArg(d, args, ModifierFor(d.conversion, FormatArg(args, d.value_index).kind),
                 ValueFor(d.conversion, args, d.value_index))
FormatPieces(s, ds, args) ==
  LET End(k) == IF k = 0 THEN 1 ELSE ds[k].i
      Start(k) == IF k > Len(ds) THEN Len(s) + 1 ELSE ds[k].start
      Literal(k) == [format |-> SubSeq(s, End(k - 1), Start(k) - 1), ints |-> <<>>, value |-> 0]
  IN FlattenSeq([k \in 1..Len(ds) + 1 |->
                   <<Literal(k)>> \o (IF k > Len(ds) THEN <<>> ELSE <<RenderDirective(ds[k], args)>>)])
(* The pieces of the result; the format itself in case of an error.          *)
Undefined(ds) == ds # <<>> /\ Last(ds).err = "undefined"
Fits(ds, args) == (ds # <<>> => Last(ds).err = "") /\ MaxReference(ds) = Len(args)
RenderFormat(s, ds, args) ==
  IF Fits(ds, args) THEN FormatPieces(s, ds, args) ELSE <<[format |-> s, ints |-> <<>>, value |-> 0]>>

(* --- command calls ------------------------------------------------------- *)
NameChars == {"a", "b", ":", "_", "0", "-"}
Quoting(a) == a.sq \/ a.dq
Moved(a) == [a EXCEPT !.i = @ + 1, !.be = FALSE]
ScanForgets(a, ch) ==                    \* mutant: an escaped quote ends the quotes
  CASE a.done                                            -> a
    [] ch = "'" /\ ~a.dq                                 -> Moved([a EXCEPT !.sq = ~@])
    [] ch = "\"" /\ ~a.sq                                -> Moved([a EXCEPT !.dq = ~@])
    [] ch \in {",", ")"} /\ ~Quoting(a) /\ a.level = 0   -> [a EXCEPT !.done = TRUE]
    [] OTHER                                             -> Moved(a)
ScanChar(a, ch) ==
  CASE a.done                                            -> a
    [] ch = "\\" /\ ~a.be /\ Quoting(a)                  -> [a EXCEPT !.i = @ + 1, !.be = TRUE]
    [] ch = "'" /\ ~a.dq /\ ~(a.sq /\ a.be)              -> Moved([a EXCEPT !.sq = ~@])
    [] ch = "\"" /\ ~a.sq /\ ~(a.dq /\ a.be)             -> Moved([a EXCEPT !.dq = ~@])
    [] ch = "(" /\ ~Quoting(a)                           -> Moved([a EXCEPT !.level = @ + 1])
    [] ch = ")" /\ ~Quoting(a) /\ a.level > 0            -> Moved([a EXCEPT !.level = @ - 1])
    [] ch \in {",", ")"} /\ ~Quoting(a) /\ a.level = 0   -> [a EXCEPT !.done = TRUE]
    [] OTHER                                             -> Moved(a)
ParseArg(s, i) ==
  FoldLeft(ScanChar, [i |-> i, level |-> 0, sq |-> FALSE, dq |-> FALSE, be |-> FALSE, done |-> FALSE],
           SubSeq(s, i, Len(s)))
NoCall == [ok |-> FALSE, name |-> <<>>, args |-> <<>>]
(* The arguments from i on, each up to a "," or the closing parenthesis.     *)
RECURSIVE ArgsFrom(_, _, _)
ArgsFrom(s, i, call) ==
  LET a == ParseArg(s, i)
      grown == [call EXCEPT !.args = Append(@, SubSeq(s, i, a.i - 1))]
  IN CASE ~a.done          -> NoCall
       [] s[a.i] = ","     -> ArgsFrom(s, a.i + 1, grown)
       [] OTHER            -> IF Seek(s, a.i + 1, Spaces) > Len(s) THEN grown ELSE NoCall
(* command_scan(): a name, and optionally arguments in parentheses.          *)
CommandScan(s) ==
  LET start == Seek(s, 1, Spaces)
      end == Seek(s, start, NameChars)
      i == Seek(s, end, Spaces)
      call == [ok |-> TRUE, name |-> SubSeq(s, start, end - 1), args |-> <<>>]
  IN CASE end = start      -> NoCall
       [] Ch(s, i) = "("   -> ArgsFrom(s, i + 1, call)
       [] OTHER            -> IF i > Len(s) THEN call ELSE NoCall
UnquoteChar(a, ch, quote) ==
  CASE a.end                       -> [a EXCEPT !.ok = @ /\ ch \in Spaces]
    [] ch = quote /\ ~a.be         -> [a EXCEPT !.end = TRUE]
    [] ch = "\\" /\ ~a.be          -> [a EXCEPT !.be = TRUE]
    [] OTHER                       -> [a EXCEPT !.out = Append(@, ch), !.be = FALSE]
Unquote(s) ==
  LET i == Seek(s, 1, Spaces)
      a == FoldLeft(LAMBDA b, ch : UnquoteChar(b, ch, s[i]), [out |-> <<>>, be |-> FALSE, end |-> FALSE, ok |-> TRUE],
                    SubSeq(s, i + 1, Len(s)))
  IN IF Ch(s, i) \in {"\"", "'"} /\ a.end /\ a.ok THEN a.out ELSE <<>>

(* Who runs a command: the nearest widget that lists it under the canonified *)
(* identifier, the library, or else the handlers of the window.              *)
Canonify(ident) == [i \in DOMAIN ident |-> IF ident[i] \in {"a", "b", "0", "-"} THEN ident[i] ELSE "-"]
Library == {<<"a", ":", ":", "b">>}
ExecCommand(s) ==
  LET call == CommandScan(s)
      owner == SelectInSeq(Listed, LAMBDA idents : call.name \in {Canonify(ident) : ident \in idents})
  IN CASE ~call.ok                -> [by |-> "none", at |-> 0, args |-> <<>>]
       [] owner # 0               -> [by |-> "widget", at |-> owner, args |-> call.args]
       [] call.name \in Library   -> [by |-> "library", at |-> 1, args |-> call.args]
       [] OTHER -> [by |-> IF HasEmission THEN "none" ELSE "window", at |-> Len(Listed), args |-> call.args]

(* --- all inputs ---------------------------------------------------------- *)
Init == topic \in DOMAIN Tokens /\ text = <<>> /\ count = 0
Type ==
  /\ count < MaxTokens[topic]
  /\ \E token \in Tokens[topic] : text' = text \o token
  /\ count' = count + 1 /\ UNCHANGED topic
Spec == Init /\ [][Type]_vars

-----------------------------------------------------------------------------
(* Arguments without a position are taken in the order of the format, width  *)
(* before precision before value, each once; a directive that is read is     *)
(* within the array sized by upper_directive_count() (formatter.cc:342, 365).*)
ArgumentsInOrder ==
  topic = "format" =>
    \A ds \in {Parse(text)} :
      /\ Len(ds) <= UpperDirectiveCount(text)
      /\ "$" \notin ToSet(text) =>
           \A used \in {SelectSeq(FlattenSeq([k \in DOMAIN ds |-> IF ds[k].err = "" THEN IndicesOf(ds[k]) ELSE <<>>]),
                                  LAMBDA n : n # 0)} : used = Upto(Len(used))

(* printf is passed the arguments as they were given: a number for each of   *)
(* the stars of its format, and then the value (formatter.cc:249).           *)
Plain(s) == \A k \in DOMAIN s : s[k] \notin {"5", "$", "c"} /\ (s[k] = "*") = (k > 1 /\ s[k - 1] = ".")
Passed(result) == FlattenSeq([k \in DOMAIN result |-> IF k % 2 = 0 THEN Append(result[k].ints, result[k].value) ELSE <<>>])
ArgumentsPassed ==
  topic = "format" /\ Plain(text) =>
    \A n \in 0..Len(Arguments), ds \in {Parse(text)} :
      \A result \in {RenderFormat(text, ds, SubSeq(Arguments, 1, n))} :
        Len(result) > 1 /\ (\A k \in DOMAIN ds : ds[k].conversion # "%") =>
          Passed(result) = [k \in 1..n |-> Arguments[k].value]

(* A number of a directive is the one that is written, however long it is:   *)
(* the test for overflow may miss some, but none that wraps to a small one.  *)
NumbersAreExact ==
  topic = "number" =>
    LET n == Number(text, 1)
        exact == FoldLeft(LAMBDA u, ch : 10 * u + DigitOf[ch], 0, text)
    IN n.ok /\ n.u <= Limit => n.u = exact

(* The argument list of a call is cut at its own commas only: what is quoted *)
(* comes back as it was, and lists joined by a comma give the joined lists.  *)
Escaped(s, quote) ==
  <<quote>> \o FlattenSeq([i \in DOMAIN s |-> IF s[i] \in {quote, "\\"} THEN <<"\\", s[i]>> ELSE <<s[i]>>]) \o <<quote>>
CallOf(list) == <<" ", "a", "(">> \o list \o <<")", " ">>
ArgumentsReturn ==
  topic = "call" =>
    /\ \A quote \in {"\"", "'"} :
         LET arg == <<" ">> \o Escaped(text, quote) \o <<" ">>
         IN /\ Unquote(arg) = text
            /\ ExecCommand(CallOf(arg \o <<",", "b">>)) = [by |-> "widget", at |-> 2, args |-> <<arg, <<"b">>>>]
    /\ LET call == CommandScan(CallOf(text))
       IN call.ok => CommandScan(CallOf(text \o <<",">> \o text)).args = call.args \o call.args

DirectivesRead == ArgumentsInOrder /\ ArgumentsPassed /\ NumbersAreExact
-----------------------------------------------------------------------------
(* formatter.hh: "Format errors, e.g. missing arguments will produce a       *)
(* warning on stderr and return the @a format string unmodified": a format   *)
(* that ends within a directive is returned.                                 *)
IncompleteFormatsReturn == topic = "format" => ~Undefined(Parse(text))
(* printf is called with as many numbers as the format has stars.            *)
ArgumentsFit ==
  topic = "format" =>
    \A n \in 0..Len(Arguments), ds \in {Parse(text)} :
      Fits(ds, SubSeq(Arguments, 1, n)) =>
        \A call \in {RenderDirective(ds[k], Arguments) : k \in DOMAIN ds} :
          Len(call.ints) = Len(SelectSeq(call.format, LAMBDA ch : ch = "*"))
=============================================================================
