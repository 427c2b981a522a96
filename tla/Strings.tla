------------------------------- MODULE Strings -------------------------------
(* The string functions that the other parts build on (rcore/strings.cc).    *)
(* They keep no state: `text' is an input that grows by a character at a     *)
(* time, from the alphabet of the functions that `topic' is about.  A string *)
(* is a sequence of characters; "x01" and "xff" are bytes that C writes as   *)
(* octal escapes, "e1" "e2" the two bytes of a letter in UTF-8.  Formatting  *)
(* of numbers, locales and case of letters beyond ASCII are left out.        *)
EXTENDS Integers, Sequences, SequencesExt

CONSTANTS Alphabets,    \* topic -> characters
          MaxLength, BufferSize

VARIABLES topic, text
vars == <<topic, text>>

Upto(n) == [i \in 1..n |-> i]
Spaces == {" ", "\t", "\n"}
Digits == {"0", "1", "2", "3", "4", "5", "6", "7", "8", "9"}
Lower == "a" :> "a" @@ "A" :> "a" @@ "b" :> "b" @@ "B" :> "b"
Alnum(ch) == ch \in Digits \cup DOMAIN Lower
Join(junctor, sv) ==
  IF sv = <<>> THEN <<>> ELSE FoldLeft(LAMBDA s, part : s \o junctor \o part, Head(sv), Tail(sv))
StartsWith(s, t) == IsPrefix(t, s)
EndsWith(s, t) == IsSuffix(t, s)
(* The position of the first character not in skipped, from i on.            *)
Seek(s, i, skipped) ==
  LET n == SelectInSubSeq(s, i, Len(s), LAMBDA ch : ch \notin skipped) IN IF n = 0 THEN Len(s) + 1 ELSE n
From(s, i) == SubSeq(s, i, Len(s))

(* --- cutting and joining ------------------------------------------------- *)
RECURSIVE Multiply(_, _)
Multiply(s, n) ==
  CASE n = 0     -> <<>>
    [] n = 1     -> s
    [] n % 2 = 1 -> Multiply(s, n - 1) \o s
    [] OTHER     -> LET half == Multiply(s, n \div 2) IN half \o half

Canonify(s, valid, substitute) ==
  FoldLeft(LAMBDA d, ch : IF ch \in valid THEN Append(d, ch) ELSE d \o substitute, <<>>, s)
IsCanonified(s, valid) == ToSet(s) \subseteq valid

(* The loop of all splits: `from' is where the piece begins that a match of  *)
(* k characters at i ends; empty pieces are kept if asked for.               *)
SplitAt(s, Matches(_), k, keep, maxn) ==
  LET Piece(l, i) == IF i > l \/ (keep /\ i = l) THEN <<SubSeq(s, l, i - 1)>> ELSE <<>>
      end == FoldLeft(LAMBDA a, i : IF Len(a.pieces) < maxn /\ Matches(i)
                                    THEN [pieces |-> a.pieces \o Piece(a.from, i), from |-> i + k] ELSE a,
                      [pieces |-> <<>>, from |-> 1], Upto(Len(s)))
  IN end.pieces \o Piece(end.from, Len(s) + 1)
WhiteSplit(s, maxn) == SplitAt(s, LAMBDA i : s[i] \in Spaces, 1, FALSE, maxn)
Split(s, splitter, maxn) ==
  IF splitter = <<>> THEN WhiteSplit(s, maxn)
  ELSE LET k == Len(splitter)
       IN SplitAt(s, LAMBDA i : SubSeq(s, i, IF i + k > Len(s) + 1 THEN Len(s) ELSE i + k - 1) = splitter, k, TRUE, maxn)
SplitAny(s, chars, maxn) ==
  IF chars # {} THEN SplitAt(s, LAMBDA i : s[i] \in chars, 1, TRUE, maxn)
  ELSE LET n == IF Len(s) < maxn THEN Len(s) ELSE maxn
       IN [i \in 1..n |-> <<s[i]>>] \o (IF n < Len(s) THEN <<From(s, n + 1)>> ELSE <<>>)
EraseEmpty(sv) == SelectSeq(sv, LAMBDA s : s # <<>>)

LStrip(s) == From(s, Seek(s, 1, Spaces))
RStrip(s) == LET n == SelectLastInSeq(s, LAMBDA ch : ch \notin Spaces) IN SubSeq(s, 1, n)
Strip(s) ==
  LET a == Seek(s, 1, Spaces)
      b == SelectLastInSeq(s, LAMBDA ch : ch \notin Spaces)
  IN IF b = 0 THEN <<>> ELSE SubSeq(s, a, b)

Find(s, marker, i) ==
  LET found == {j \in i..(Len(s) - Len(marker) + 1) : SubSeq(s, j, j + Len(marker) - 1) = marker}
  IN IF found = {} THEN 0 ELSE CHOOSE j \in found : \A m \in found : j <= m
(* What was put in is not searched again.                                    *)
Replace(s, marker, replacement, maxn) ==
  FoldLeft(LAMBDA a, round : IF a.at = 0 THEN a
             ELSE LET d == SubSeq(a.s, 1, a.at - 1) \o replacement \o From(a.s, a.at + Len(marker))
                  IN [s |-> d, at |-> Find(d, marker, a.at + Len(replacement))],
           [s |-> s, at |-> Find(s, marker, 1)], Upto(maxn)).s
SubstituteChar(s, match, subst) == [i \in DOMAIN s |-> IF s[i] = match THEN subst ELSE s[i]]

VectorFind(sv, prefix, fallback) ==
  LET n == SelectLastInSeq(sv, LAMBDA s : StartsWith(s, prefix)) IN IF n = 0 THEN fallback ELSE sv[n]
VectorFindValue(sv, prefix, fallback) ==
  LET n == SelectLastInSeq(sv, LAMBDA s : StartsWith(s, prefix))
  IN IF n = 0 THEN fallback ELSE From(sv[n], Len(prefix) + 1)

(* --- C quotes ------------------------------------------------------------ *)
Special == {"\"", "\\"}
Code == "x01" :> 1 @@ "xff" :> 255
OctalDigits(n) == <<ToString((n \div 64) % 8), ToString((n \div 8) % 8), ToString(n % 8)>>
OctalShort(n) ==                        \* mutant: no leading zeros
  LET o == OctalDigits(n) IN From(o, IF n < 8 THEN 3 ELSE IF n < 64 THEN 2 ELSE 1)
Octal(n) == OctalDigits(n)
CEscape(s) ==
  FoldLeft(LAMBDA b, ch : b \o (CASE ch = "\n" -> <<"\\", "n">>
                                  [] ch \in Special -> <<"\\", ch>>
                                  [] ch \in DOMAIN Code -> <<"\\">> \o Octal(Code[ch])
                                  [] OTHER -> <<ch>>), <<>>, s)
ToCQuote(s) == <<"\"">> \o CEscape(s) \o <<"\"">>

Value(ch) == CHOOSE v \in 0..9 : ToString(v) = ch
OctalDigit(ch) == ch \in {"0", "1", "2", "3", "4", "5", "6", "7"}
Byte(n) ==                              \* char (oc), for the bytes the alphabets have
  LET b == n % 256 IN IF b = 1 THEN "x01" ELSE IF b = 255 THEN "xff" ELSE "x" \o ToString(b)
Letters == "n" :> "\n" @@ "t" :> "\t"
(* One character of what is between the quotes; be: behind a backslash.      *)
Scan(a, s, i, qchar) ==
  CASE a.skip > 0                    -> [a EXCEPT !.skip = @ - 1]
    [] a.end > 0                     -> a
    [] ~a.be /\ s[i] = qchar         -> [a EXCEPT !.end = i]
    [] ~a.be /\ s[i] = "\\"          -> [a EXCEPT !.be = TRUE]
    [] ~a.be                         -> [a EXCEPT !.out = Append(@, s[i])]
    [] a.be /\ OctalDigit(s[i])      ->
         LET last == IF i + 2 > Len(s) THEN Len(s) ELSE i + 2
             j == Seek(SubSeq(s, 1, last), i, {"0", "1", "2", "3", "4", "5", "6", "7"})
             oc == FoldLeft(LAMBDA v, ch : v * 8 + Value(ch), 0, SubSeq(s, i, j - 1))
         IN [a EXCEPT !.out = Append(@, Byte(oc)), !.be = FALSE, !.skip = j - 1 - i]
    [] a.be /\ s[i] \in DOMAIN Letters -> [a EXCEPT !.out = Append(@, Letters[s[i]]), !.be = FALSE]
    [] OTHER                         -> [a EXCEPT !.out = Append(@, s[i]), !.be = FALSE]
FromCQuote(s) ==
  IF s = <<>> \/ s[1] \notin {"\"", "'"} THEN s
  ELSE LET a == FoldLeft(LAMBDA b, i : Scan(b, s, i, s[1]), [out |-> <<>>, be |-> FALSE, skip |-> 0, end |-> 0],
                         [i \in 1..(Len(s) - 1) |-> i + 1])
       IN IF a.end = Len(s) THEN a.out ELSE s

(* --- numbers, truth, names ----------------------------------------------- *)
ToUint(s) ==
  LET i == Seek(s, 1, Spaces)
  IN FoldLeft(LAMBDA v, ch : 10 * v + Value(ch), 0, SubSeq(s, i, Seek(s, i, Digits) - 1))
HasInt(s) == LET i == Seek(s, 1, Spaces) IN i <= Len(s) /\ s[i] \in Digits
StartsWithWord(s, word) == Len(s) >= Len(word) /\ \A i \in DOMAIN word : s[i] \in word[i]
ToBool(string, fallback) ==
  LET unsigned == LStrip(string)
      s == IF unsigned # <<>> /\ Head(unsigned) \in {"+", "-"} THEN LStrip(Tail(unsigned)) ELSE unsigned
  IN CASE s = <<>>                                           -> fallback
       [] HasInt(s)                                          -> ToUint(s) # 0
       [] StartsWithWord(s, <<{"o", "O"}, {"n", "N"}>>)      -> TRUE
       [] OTHER                                              -> Head(s) \in {"y", "Y", "t", "T"}

(* Numbers in braces, separated by semicolons or spaces; one is a digit.     *)
NumberChars == Digits \cup {"+", "-", "e", "E", ".", ","}
Number(s) == IF s = <<>> THEN 0 ELSE FoldLeft(LAMBDA v, ch : 10 * v + Value(ch), 0, s)
DoublesFrom(s) ==
  LET Numbers[d \in 1..(Len(s) + 1)] ==
        LET n == Seek(s, d, Spaces)
            e == Seek(s, n, NumberChars)
            next == Seek(s, e, Spaces)
            rest == IF next <= Len(s) /\ s[next] = ";" THEN next + 1 ELSE next
        IN IF d > Len(s) \/ s[d] = "}" \/ n > Len(s) \/ s[n] \notin NumberChars \cup {";"} THEN <<>>
           ELSE <<Number(SubSeq(s, n, e - 1))>> \o Numbers[rest]
  IN Numbers[1]
ToDoubleVector(string) ==
  LET s == LStrip(string) IN DoublesFrom(IF s # <<>> /\ Head(s) = "{" THEN Tail(s) ELSE s)
FromDoubleVector(dvec, delim) == Join(delim, [i \in DOMAIN dvec |-> <<ToString(dvec[i])>>])

IdentifierChar(ch) == IF ch \in DOMAIN Lower THEN Lower[ch] ELSE IF ch \in Digits THEN ch ELSE "-"
IdentifierMatch(s, t) == Len(s) = Len(t) /\ \A i \in DOMAIN s : IdentifierChar(s[i]) = IdentifierChar(t[i])
(* At the end of ident, unless that would begin within a word.               *)
MatchIdentifierTail(ident, tail) ==
  LET i == Len(ident) - Len(tail) + 1
  IN /\ i >= 1
     /\ ~(i > 1 /\ i <= Len(ident) /\ Alnum(ident[i - 1]) /\ Alnum(ident[i]))
     /\ IdentifierMatch(From(ident, i), tail)
MatchIdentifier(ident1, ident2) == Len(ident1) = Len(ident2) /\ MatchIdentifierTail(ident1, ident2)

(* --- options: name=value;name ... ---------------------------------------- *)
NameChars == DOMAIN Lower \cup Digits \cup {"-", "_"}
OptionAdd(assignment, empty) ==
  LET n == Seek(assignment, 1, Spaces)
      e == Seek(assignment, n, NameChars)
      p == Seek(assignment, e, Spaces)
      value == IF p <= Len(assignment) THEN From(assignment, p + 1) ELSE empty
  IN IF e > n /\ (p > Len(assignment) \/ assignment[p] = "=")
     THEN <<[name |-> SubSeq(assignment, n, e - 1), value |-> value]>> ELSE <<>>
OptionsSplit(s, empty) ==
  FlattenSeq([i \in DOMAIN SplitAny(s, {";", ":"}, Len(s) + 1) |-> OptionAdd(SplitAny(s, {";", ":"}, Len(s) + 1)[i], empty)])
OptionFirst(s, name) ==                 \* mutant: the first assignment counts
  LET found == SelectSeq(OptionsSplit(s, <<"1">>), LAMBDA o : o.name = name)
  IN IF found = <<>> THEN <<"0">> ELSE Head(found).value
OptionGet(s, name) ==
  LET found == SelectSeq(OptionsSplit(s, <<"1">>), LAMBDA o : o.name = name)
  IN IF found = <<>> THEN <<"0">> ELSE Last(found).value
OptionCheck(s, name) == ToBool(OptionGet(s, name), TRUE)

(* --- text_convert() ------------------------------------------------------ *)
(* iconv(): letters up to an invalid or incomplete one, or a full buffer.    *)
Letter(s, utf8) ==
  CASE s = <<>>                                                -> [size |-> 0, out |-> <<>>]
    [] utf8 /\ Head(s) = "e1" /\ Len(s) > 1 /\ s[2] = "e2"     -> [size |-> 2, out |-> <<"e">>]
    [] utf8 /\ Head(s) \in {"e1", "e2"}                        -> [size |-> 0, out |-> <<>>]
    [] OTHER                                                   -> [size |-> 1, out |-> <<Head(s)>>]
Iconv(input, utf8) ==
  FoldLeft(LAMBDA a, round : LET l == Letter(a.input, utf8)
                             IN IF l.size = 0 \/ Len(a.out) = BufferSize THEN a
                                ELSE [input |-> From(a.input, l.size + 1), out |-> a.out \o l.out],
           [input |-> input, out |-> <<>>], Upto(Len(input)))
(* From UTF-8; where that fails, the rest of the input is tried in the       *)
(* fallback charset, if there is one, or a byte is marked.                   *)
RECURSIVE ConvertFrom(_, _, _)
ConvertFrom(input, output, fallback) ==
  LET a == Iconv(input, TRUE)
      full == a.input # <<>> /\ Letter(a.input, TRUE).size # 0          \* E2BIG
      b == IF fallback THEN Iconv(a.input, FALSE) ELSE [input |-> a.input, out |-> <<>>]
  IN CASE a.input = <<>> -> [ok |-> TRUE, output |-> output \o a.out]
       [] full -> [ok |-> FALSE, output |-> output \o a.out]
       [] b.input # a.input -> ConvertFrom(b.input, output \o a.out \o b.out, fallback)
       [] OTHER -> ConvertFrom(Tail(a.input), output \o a.out \o <<"?">>, fallback)
Convert(input, fallback) == ConvertFrom(input, <<>>, fallback)

(* --- all inputs ---------------------------------------------------------- *)
Init == topic \in DOMAIN Alphabets /\ text = <<>>
Type ==
  /\ Len(text) < MaxLength
  /\ \E ch \in Alphabets[topic] : text' = Append(text, ch)
  /\ UNCHANGED topic
Spec == Init /\ [][Type]_vars

-----------------------------------------------------------------------------
(* What is quoted is read back, whatever digits follow an octal escape; an   *)
(* unquoted text stands for itself (string_to_cquote, string_from_cquote).   *)
QuotesReturn == topic = "quotes" => FromCQuote(ToCQuote(text)) = text

(* Pieces joined with the splitter are the text, and with a limit only the   *)
(* last piece holds one; stripping is the same from either side.             *)
PiecesReturn ==
  topic = "pieces" =>
    /\ \A d \in {<<";">>, <<";", "a">>}, n \in 1..MaxLength + 1 :
         LET sv == Split(text, d, n)
         IN /\ Join(d, sv) = text /\ Len(sv) <= n + 1
            /\ \A i \in 1..(Len(sv) - 1) : Find(sv[i], d, 1) = 0
            /\ Len(sv) <= n /\ sv # <<>> => Find(Last(sv), d, 1) = 0
            /\ d = <<";">> => SplitAny(text, {";"}, n) = sv
            /\ Replace(text, d, <<"b">>, n) = Join(<<"b">>, sv)
            /\ StartsWith(text, Head(sv)) /\ EndsWith(text, Last(sv))
            /\ LET a == VectorFind(EraseEmpty(sv), <<"a">>, <<>>)
               IN IF a = <<>> THEN \A i \in DOMAIN sv : ~StartsWith(sv[i], <<"a">>)
                  ELSE a = <<"a">> \o VectorFindValue(sv, <<"a">>, <<>>)
    /\ Join(<<>>, WhiteSplit(text, MaxLength)) = SelectSeq(text, LAMBDA ch : ch \notin Spaces)
    /\ Strip(text) = LStrip(RStrip(text))
    /\ Multiply(text, Len(text)) = FlattenSeq([i \in DOMAIN text |-> text])
    /\ IsCanonified(text, {"a", ";"}) = (Canonify(text, {"a", ";"}, <<"_">>) = text)

(* A list of numbers is read back, with or without braces.                   *)
NumbersReturn ==
  topic = "numbers" /\ ToSet(text) \subseteq Digits =>
    LET dvec == [i \in DOMAIN text |-> Value(text[i])]
        s == FromDoubleVector(dvec, <<";">>)
    IN ToDoubleVector(s) = dvec /\ ToDoubleVector(<<" ", "{">> \o s \o <<"}", "1">>) = dvec

(* The last assignment of an option counts, whatever malformed assignments   *)
(* are around it: appending one decides, appending another does not matter.  *)
LastOptionCounts ==
  topic = "options" =>
    /\ OptionGet(text \o <<";", "a">>, <<"a">>) = <<"1">>
    /\ OptionGet(text \o <<":", " ", "a", " ", "=", "0">>, <<"a">>) = <<"0">>
    /\ OptionGet(text \o <<";", "b", "=", "a">>, <<"a">>) = OptionGet(text, <<"a">>)
    /\ OptionCheck(text \o <<";", "a", "=">>, <<"a">>)

(* Names match regardless of case and separators; the tail of a name matches *)
(* where a word begins.                                                      *)
TailsBeginWords ==
  topic = "names" =>
    \A i \in 0..Len(text) :
      LET front == SubSeq(text, 1, i)
          tail == From(text, i + 1)
          within == front # <<>> /\ tail # <<>> /\ Alnum(Last(front)) /\ Alnum(Head(tail))
      IN /\ MatchIdentifierTail(text, tail) = ~within
         /\ MatchIdentifier(front \o tail, SubstituteChar(text, "_", "-"))
         /\ MatchIdentifierTail(text, SubstituteChar(tail, "a", "A")) = ~within

(* Without a fallback every letter is kept and every stray byte marked, if   *)
(* the output fits into the buffer.                                          *)
Stray(s, i) == \/ s[i] = "e1" /\ ~(i < Len(s) /\ s[i + 1] = "e2")
               \/ s[i] = "e2" /\ ~(i > 1 /\ s[i - 1] = "e1")
StrayBytesAreMarked ==
  topic = "charsets" /\ Len(text) <= BufferSize =>
    LET Converted(i) == IF Stray(text, i) THEN "?" ELSE IF text[i] = "e1" THEN "e" ELSE text[i]
        kept == SelectSeq(Upto(Len(text)), LAMBDA i : text[i] # "e2" \/ Stray(text, i))
    IN Convert(text, FALSE) = [ok |-> TRUE, output |-> [i \in DOMAIN kept |-> Converted(kept[i])]]

TextsReturn == StrayBytesAreMarked /\ QuotesReturn /\ PiecesReturn /\ NumbersReturn
NamesAreFound == LastOptionCounts /\ TailsBeginWords

(* strings.cc:1219 "Convert @a input_string from encoding @a from_charset    *)
(* ..., returning @a output_string": valid input is converted, however long. *)
ValidTextConverts ==
  topic = "charsets" /\ (\A i \in DOMAIN text : ~Stray(text, i)) => Convert(text, FALSE).ok
=============================================================================
