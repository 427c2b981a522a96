------------------------------- MODULE IniFiles -------------------------------
(* Settings written to and read from INI files (rcore/inifile.cc), and the   *)
(* visitors that write and read a record with them (rcore/visitor.hh).  A    *)
(* writer collects `section.key = value' lines, output() makes a text of     *)
(* them, somebody may put a line of his own between them, and load_ini()     *)
(* goes through the text line by line.  Texts are sequences of characters;   *)
(* line numbers, which only messages use, and the formats of numbers are     *)
(* left out.                                                                 *)
EXTENDS Integers, Sequences, SequencesExt

CONSTANTS Saved,        \* the record: field -> [type, value]
          Sections,     \* names of sections in front of it
          Keys, Values, \* what the program sets one by one
          MaxSets,
          Lines         \* what somebody adds

S == INSTANCE Strings WITH Alphabets <- <<>>, MaxLength <- 0, BufferSize <- 1, topic <- "", text <- <<>>

VARIABLES phase,        \* "write", "read", "done"
          writer,       \* <<[name, entries]>>: sections_ of the IniWriter
          latest,       \* ghost: key -> the value set last
          added,        \* lines are added
          text, at,     \* what is read, and how far
          section, sections     \* of the IniFile
vars == <<phase, writer, latest, added, text, at, section, sections>>

NUL == "NUL"
Ch(s, i) == IF i <= Len(s) THEN s[i] ELSE NUL
White == {" ", "\t"}
Quotes == {"\"", "'"}
From(s, i) == SubSeq(s, i, Len(s))
SkipWhitespaces(s, i) ==
  LET n == SelectInSubSeq(s, i, Len(s), LAMBDA ch : ch \notin White) IN IF n = 0 THEN Len(s) + 1 ELSE n
RTrim(s) == SubSeq(s, 1, SelectLastInSeq(s, LAMBDA ch : ch \notin White \cup {"\n", "\r"}))
RFind(s, ch) == SelectLastInSeq(s, LAMBDA c : c = ch)
FindChar(s, ch) == SelectInSeq(s, LAMBDA c : c = ch)

-----------------------------------------------------------------------------
(* --- IniWriter ----------------------------------------------------------- *)
HasKey(entry, key) == Len(entry) > Len(key) /\ IsPrefix(Append(key, "="), entry)
FindSection(sv, name) == SelectInSeq(sv, LAMBDA sec : sec.name = name)
FindEntry(entries, name) == SelectInSeq(entries, LAMBDA e : HasKey(e, name))
Put(sv, key, value) ==
  LET p == RFind(key, ".")
      name == SubSeq(key, 1, p - 1)
      entry == From(key, p + 1) \o <<"=">> \o value
      s == FindSection(sv, name)
      e == FindEntry(sv[s].entries, From(key, p + 1))
  IN CASE p <= 1 \/ p = Len(key) -> sv
       [] s = 0 -> Append(sv, [name |-> name, entries |-> <<entry>>])
       [] e = 0 -> [sv EXCEPT ![s].entries = Append(@, entry)]
       [] OTHER -> [sv EXCEPT ![s].entries[e] = entry]

Bare == {"a", "b", "n", "v", "0", "1", "2", "T", "r", "u", "e", "F", "l", "s",
         "<", ">", ",", ";", ".", ":", "-", "_", "~", "*", "/", "+", "^", "!", "$", "=", "?"}
Written(value) == IF S!IsCanonified(value, Bare) THEN value ELSE S!ToCQuote(value)
Heading(name) ==
  LET d == FindChar(name, ".")
  IN IF d = 0 THEN name ELSE SubSeq(name, 1, d - 1) \o <<" ">> \o S!ToCQuote(From(name, d + 1))
EntryLine(raw) ==
  LET p == FindChar(raw, "=")
  IN <<"\t">> \o SubSeq(raw, 1, p - 1) \o <<" ", "=", " ">> \o Written(From(raw, p + 1)) \o <<"\n">>
Output(sv) ==
  FlattenSeq([i \in DOMAIN sv |-> <<"[">> \o Heading(sv[i].name) \o <<"]", "\n">>
                                  \o FlattenSeq([j \in DOMAIN sv[i].entries |-> EntryLine(sv[i].entries[j])])])

-----------------------------------------------------------------------------
(* --- scanning ------------------------------------------------------------ *)
Failed == [ok |-> FALSE, at |-> 0, value |-> <<>>]
(* Behind the next term that has no backslash before it, or 0.               *)
ScanEscaped(s, i, term) ==
  LET E[p \in 1..(Len(s) + 2)] ==
        CASE p > Len(s)                     -> 0
          [] s[p] = term                    -> p + 1
          [] s[p] = "\\" /\ p < Len(s)      -> E[p + 2]
          [] OTHER                          -> E[p + 1]
  IN E[i]
(* Up to the end of the line, a comment or one of termchars; lines continue  *)
(* behind a backslash and within quotes, which are kept.  For any other      *)
(* character behind a backslash the code appends bytes from beyond a string  *)
(* literal ("\\" + p[0] adds to a pointer): whatever they are, "undefined".  *)
ScanValue(s, i, termchars) ==
  LET V[p \in 1..(Len(s) + 2)] ==
        LET Then(d, n) == [V[n] EXCEPT !.value = d \o @]
            e == ScanEscaped(s, p + 1, s[p])
        IN CASE Ch(s, p) \in {NUL, "\n", ";", "#"} \cup termchars -> [ok |-> TRUE, at |-> p, value |-> <<>>]
             [] s[p] = "\\" /\ Ch(s, p + 1) = "\n"  -> V[p + 2]
             [] s[p] = "\\" /\ Ch(s, p + 1) = "\r" /\ Ch(s, p + 2) = "\n" -> V[p + 3]
             [] s[p] = "\\" /\ p = Len(s)           -> V[p + 1]
             [] s[p] = "\\"                         -> Then(<<"undefined">>, p + 2)
             [] s[p] \in Quotes                     -> IF e = 0 THEN Failed ELSE Then(SubSeq(s, p, e - 1), e)
             [] s[p] = "\r"                         -> Then(IF Ch(s, p + 1) \in {NUL, "\n"} THEN <<>> ELSE <<" ">>, p + 1)
             [] OTHER                               -> Then(<<s[p]>>, p + 1)
      v == V[i]
  IN [v EXCEPT !.value = RTrim(@)]

SkipLine(s, i) ==
  LET n == SelectInSubSeq(s, i, Len(s), LAMBDA ch : ch = "\n") IN IF n = 0 THEN Len(s) + 1 ELSE n + 1
SkipCommentline(s, i) ==
  LET p == SkipWhitespaces(s, i) IN IF Ch(s, p) \in {"#", ";"} THEN SkipLine(s, p + 1) ELSE 0
(* The beginning of the next line, or 0 if there is more on this one.        *)
SkipToEol(s, i) ==
  LET p == IF Ch(s, i) = "\r" THEN i + 1 ELSE i
  IN CASE Ch(s, i) \in {"#", ";"} -> SkipCommentline(s, i)
       [] Ch(s, p) = "\n" -> p + 1
       [] Ch(s, p) = NUL -> p
       [] OTHER -> 0

EndOfAssignment(s, key, locale, value) ==
  IF ~value.ok \/ SkipToEol(s, value.at) = 0 THEN Failed
  ELSE [ok |-> TRUE, at |-> SkipToEol(s, value.at), key |-> key, locale |-> locale, value |-> value.value]
BehindName(s, key, locale, p) ==
  IF Ch(s, p) \notin {"=", ":"} THEN Failed
  ELSE EndOfAssignment(s, key, locale, ScanValue(s, SkipWhitespaces(s, p + 1), {}))
BehindLocale(s, key, locale) ==
  LET p == SkipWhitespaces(s, locale.at)
  IN IF ~locale.ok \/ Ch(s, p) # "]" THEN Failed ELSE BehindName(s, key, locale.value, SkipWhitespaces(s, p + 1))
BehindKey(s, key) ==
  LET p == SkipWhitespaces(s, key.at)
  IN IF ~key.ok THEN Failed
     ELSE IF Ch(s, p) = "[" THEN BehindLocale(s, key.value, ScanValue(s, SkipWhitespaces(s, p + 1), {"[", "]"}))
     ELSE BehindName(s, key.value, <<>>, p)
ParseAssignment(s, i) == BehindKey(s, ScanValue(s, SkipWhitespaces(s, i), {"[", "]", "=", ":"}))

BehindSection(s, name, AtEnd(_)) ==
  LET p == SkipWhitespaces(s, name.at)
      next == AtEnd(SkipWhitespaces(s, p + 1))
  IN IF name.ok /\ Ch(s, p) = "]" /\ next # 0 THEN [ok |-> TRUE, at |-> next, value |-> name.value] ELSE Failed
SectionName(s, i) ==
  LET p == SkipWhitespaces(s, i)
  IN IF Ch(s, p) # "[" THEN Failed ELSE ScanValue(s, SkipWhitespaces(s, p + 1), {"[", "]"})
ParseSectionAnyEnd(s, i) ==             \* mutant: the rest of the line is not looked at
  BehindSection(s, SectionName(s, i), LAMBDA p : SkipLine(s, p))
ParseSection(s, i) == BehindSection(s, SectionName(s, i), LAMBDA p : SkipToEol(s, p))

(* [branch "devel.wip"] is the section branch.devel.wip.                     *)
SectionPath(name) ==
  IF FindChar(name, "\"") = 0 THEN name
  ELSE LET sv == S!Split(name, <<>>, Len(name))
       IN S!Join(<<".">>, [i \in DOMAIN sv |-> IF Ch(sv[i], 1) = "\"" THEN S!FromCQuote(sv[i]) ELSE sv[i]])

-----------------------------------------------------------------------------
(* --- looking up ---------------------------------------------------------- *)
EntriesOf(ini, name) == IF name \in DOMAIN ini THEN ini[name] ELSE <<>>
HasSection(ini, name) == name \in DOMAIN ini
Attributes(ini, name) ==
  LET entries == EntriesOf(ini, name) IN [i \in DOMAIN entries |-> SubSeq(entries[i], 1, FindChar(entries[i], "=") - 1)]
HasAttribute(ini, name, key) == FindEntry(EntriesOf(ini, name), key) # 0
HasRawValue(ini, dotpath) ==
  LET d == RFind(dotpath, ".") IN d > 0 /\ FindEntry(EntriesOf(ini, SubSeq(dotpath, 1, d - 1)), From(dotpath, d + 1)) > 0
RawValue(ini, dotpath) ==
  IF ~HasRawValue(ini, dotpath) THEN <<>>
  ELSE LET d == RFind(dotpath, ".")
           entries == EntriesOf(ini, SubSeq(dotpath, 1, d - 1))
       IN From(entries[FindEntry(entries, From(dotpath, d + 1))], Len(dotpath) - d + 2)
(* Escapes are resolved outside of quotes; what is between quotes loses them *)
(* and is given to string_from_cquote(), which wants to see them.            *)
CookString(input) ==
  LET C[p \in 1..(Len(input) + 2)] ==
        LET e == ScanEscaped(input, p + 1, input[p])
        IN CASE p > Len(input)                          -> <<>>
             [] input[p] = "\\" /\ p = Len(input)       -> <<>>
             [] input[p] = "\\" /\ input[p + 1] \in DOMAIN S!Letters -> <<S!Letters[input[p + 1]]>> \o C[p + 2]
             [] input[p] = "\\"                         -> <<input[p + 1]>> \o C[p + 2]
             [] input[p] \in Quotes /\ e # 0            -> S!FromCQuote(SubSeq(input, p + 1, e - 2)) \o C[e]
             [] input[p] \in Quotes                     -> <<"undefined">>    \* no raw value has a single quote
             [] OTHER                                   -> <<input[p]>> \o C[p + 1]
  IN C[1]
ValueAsString(ini, dotpath) == CookString(RawValue(ini, dotpath))

-----------------------------------------------------------------------------
(* --- visitors ------------------------------------------------------------ *)
(* A value is a text, a truth, a vector of values of a type or a record: a   *)
(* type is Text, Bool, [of |-> type, new |-> value] or [fields |-> name ->   *)
(* type].                                                                    *)
Text == [is |-> "text"]
Bool == [is |-> "bool"]
Nth(name, i) == <<Head(name), ToString(i - 1)>>
RECURSIVE ToIni(_, _, _, _)
ToIni(sv, key, type, value) ==
  CASE type = Text -> Put(sv, key, value)
    [] type = Bool -> Put(sv, key, IF value THEN <<"T", "r", "u", "e">> ELSE <<"F", "a", "l", "s", "e">>)
    [] "of" \in DOMAIN type ->
         FoldLeft(LAMBDA b, i : ToIni(b, key \o <<".">> \o Nth(From(key, RFind(key, ".") + 1), i), type.of, value[i]),
                  sv, S!Upto(Len(value)))
    [] OTHER -> FoldLeft(LAMBDA b, name : ToIni(b, key \o <<".">> \o name, type.fields[name], value[name]),
                         sv, SetToSeq(DOMAIN type.fields))
RECURSIVE FromIni(_, _, _, _)
FromIni(ini, key, type, value) ==
  CASE type = Text -> IF HasRawValue(ini, key) THEN ValueAsString(ini, key) ELSE value
    [] type = Bool -> IF HasRawValue(ini, key) THEN S!ToBool(ValueAsString(ini, key), FALSE) ELSE value
    [] "of" \in DOMAIN type ->
         LET Element(i) == key \o <<".">> \o Nth(From(key, RFind(key, ".") + 1), i)
             Elements[i \in 1..10] ==
               IF ~HasSection(ini, Element(i)) /\ ~HasRawValue(ini, Element(i)) THEN <<>>
               ELSE <<FromIni(ini, Element(i), type.of, type.new)>> \o Elements[i + 1]
         IN Elements[1]
    [] OTHER -> [name \in DOMAIN type.fields |-> FromIni(ini, key \o <<".">> \o name, type.fields[name], value[name])]

-----------------------------------------------------------------------------
Init ==
  /\ phase = "write" /\ writer = <<>> /\ latest = <<>> /\ added = FALSE
  /\ text = <<>> /\ at = 1 /\ section = <<>> /\ sections = <<>>

(* IniWriter::set()                                                          *)
Set ==
  /\ phase = "write" /\ Cardinality(DOMAIN latest) < MaxSets
  /\ \E name \in Sections, k \in Keys, value \in Values :
       LET key == name \o <<".">> \o k
       IN /\ writer' = Put(writer, key, value)
          /\ latest' = (key :> value) @@ latest
  /\ UNCHANGED <<phase, added, text, at, section, sections>>
(* A ToIniVisitor visits a record.                                           *)
Save ==
  /\ phase = "write" /\ <<"s">> \notin DOMAIN latest
  /\ \E r \in Saved :
       /\ writer' = ToIni(writer, <<"s">>, r.type, r.value)
       /\ latest' = (<<"s">> :> r) @@ latest
  /\ UNCHANGED <<phase, added, text, at, section, sections>>
Write ==
  /\ phase = "write" /\ phase' = "read"
  /\ text' = Output(writer)
  /\ UNCHANGED <<writer, latest, added, at, section, sections>>
AddLine ==
  /\ phase = "read" /\ at = 1 /\ ~added /\ added' = TRUE
  /\ \E line \in Lines, i \in {0} \cup {n \in DOMAIN text : text[n] = "\n"} :
       text' = SubSeq(text, 1, i) \o line \o <<"\n">> \o From(text, i + 1)
  /\ UNCHANGED <<phase, writer, latest, at, section, sections>>

(* --- load_ini(): one line ------------------------------------------------ *)
CommentLine(line) ==
  /\ line.comment # 0
  /\ at' = line.comment
  /\ UNCHANGED <<section, sections>>
SectionLine(line) ==
  /\ line.comment = 0 /\ line.section.ok
  /\ at' = line.section.at /\ section' = SectionPath(line.section.value)
  /\ UNCHANGED sections
AssignmentLine(line) ==
  LET found == line.assignment
      k == IF found.locale = <<>> THEN found.key ELSE found.key \o <<"[">> \o found.locale \o <<"]">>
  IN /\ line.comment = 0 /\ ~line.section.ok /\ found.ok
     /\ at' = found.at
     /\ sections' = IF FindChar(section, "=") # 0 \/ FindChar(found.key, ".") # 0 THEN sections
                    ELSE (section :> Append(EntriesOf(sections, section), k \o <<"=">> \o found.value)) @@ sections
     /\ UNCHANGED section
OtherLine(line) ==
  /\ line.comment = 0 /\ ~line.section.ok /\ ~line.assignment.ok
  /\ at' = SkipLine(text, at)
  /\ UNCHANGED <<section, sections>>
ReadLine ==
  /\ phase = "read" /\ at <= Len(text)
  /\ \E line \in {[comment |-> SkipCommentline(text, at), section |-> ParseSection(text, at),
                   assignment |-> ParseAssignment(text, at)]} :
       CommentLine(line) \/ SectionLine(line) \/ AssignmentLine(line) \/ OtherLine(line)
  /\ UNCHANGED <<phase, writer, latest, added, text>>
Loaded ==
  /\ phase = "read" /\ at > Len(text) /\ phase' = "done"
  /\ UNCHANGED <<writer, latest, added, text, at, section, sections>>

Next == Set \/ Save \/ Write \/ AddLine \/ ReadLine \/ Loaded
Spec == Init /\ [][Next]_vars

-----------------------------------------------------------------------------
(* What was set last is read back, a record included, whatever comments,     *)
(* lines of nonsense or settings of other keys somebody put between.         *)
SettingsReturn ==
  phase = "done" =>
    \A key \in DOMAIN latest :
      IF key = <<"s">> THEN FromIni(sections, key, latest[key].type, latest[key].new) = latest[key].value
      ELSE /\ HasRawValue(sections, key) /\ ValueAsString(sections, key) = latest[key]
           /\ LET d == RFind(key, ".")
                  name == SubSeq(key, 1, d - 1)
              IN HasAttribute(sections, name, From(key, d + 1)) /\ From(key, d + 1) \in ToSet(Attributes(sections, name))

(* inifile.cc:25 says a key with a `quoted string with \n newlines and       *)
(* spaces' can be written: between quotes a backslash and n are a newline.   *)
QuotedNewlinesCount ==
  phase = "done" => \A key \in DOMAIN latest :
                      (key # <<"s">> /\ ToSet(latest[key]) \cap {"\"", "'", "\\", ";"} = {}) => ValueAsString(sections, key) = latest[key]
=============================================================================
