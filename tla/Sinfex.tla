------------------------------- MODULE Sinfex -------------------------------
(* Expressions of interface files (ui/sinfex.cc, sinfeximpl.hh): the parser  *)
(* reduces an expression from the operands up, and every reduction appends a *)
(* node to a block of words in which nodes refer to each other by offset.    *)
(* The block is copied as it is and evaluated from the node at its start.    *)
(* Strings are sequences of characters.  A real is a pair of a numerator and *)
(* a denominator that is 0 for infinities and NaN; there is no negative 0 or *)
(* NaN, and pow() and the functions of libm but ceil and floor are left out. *)
EXTENDS Integers, Sequences, SequencesExt

CONSTANTS Literals,     \* operands that an expression may name
          Functions,    \* names of functions that it may call
          Maps,         \* the maps of an Evaluator, as <<variable, value>> pairs
          MaxNodes      \* operators and operands of an expression

VARIABLES words,        \* of the SinfexExpressionStack: words[i + 1] is start[i]
          stack         \* what the parser has reduced: nodes and what they mean
vars == <<words, stack>>

(* --- values: Sinfex::Value ----------------------------------------------- *)
Quote == "'"
Quoted(s) == Len(s) > 1 /\ s[1] = Quote /\ SelectInSubSeq(s, 2, Len(s), LAMBDA ch : ch = Quote) = Len(s)
Unquote(s) == IF Quoted(s) THEN SubSeq(s, 2, Len(s) - 1) ELSE s
Str(s) == [isstring |-> TRUE, string |-> Unquote(s)]

RECURSIVE Gcd(_, _)
Gcd(m, n) == IF n = 0 THEN m ELSE Gcd(n, m % n)
Abs(n) == IF n < 0 THEN -n ELSE n
Sign(n) == IF n < 0 THEN -1 ELSE IF n > 0 THEN 1 ELSE 0
Frac(n, d) == IF d = 0 THEN <<Sign(n), 0>>
              ELSE LET g == Gcd(Abs(n), Abs(d)) IN <<(Sign(d) * n) \div g, Abs(d) \div g>>
Real(r) == [isstring |-> FALSE, real |-> r]
Num(n) == Real(<<n, 1>>)
Bool(b) == Num(IF b THEN 1 ELSE 0)

Plus(p, q)   == IF p[2] = 0 /\ p = q THEN p ELSE Frac(p[1] * q[2] + q[1] * p[2], p[2] * q[2])
Minus(p)     == <<-p[1], p[2]>>
Times(p, q)  == Frac(p[1] * q[1], p[2] * q[2])
Divide(p, q) ==
  CASE q = <<0, 1>> -> IF p = <<0, 0>> THEN <<1, 0>> ELSE <<Sign(p[1]), 0>>
    [] q[2] = 0     -> Times(p, <<0, Abs(q[1])>>)
    [] OTHER        -> Times(p, <<Sign(q[1]) * q[2], Abs(q[1])>>)

(* The text of a real is one character, which is a digit for small ones.     *)
Digits == {"0", "1", "2", "3", "4", "5", "6", "7", "8", "9"}
Text(r) == <<IF r[2] = 1 THEN ToString(r[1]) ELSE ToString(r)>>
Readable == {<<n, d>> : n \in -9..9, d \in 0..2}
Leading(s) == IF s = <<>> THEN {} ELSE {r \in Readable : Frac(r[1], r[2]) = r /\ Text(r)[1] = s[1]}
ToReal(s) ==
  LET n == SelectInSeq(s, LAMBDA ch : ch \notin Digits)
      digits == SubSeq(s, 1, IF n = 0 THEN Len(s) ELSE n - 1)
      Digit(ch) == CHOOSE i \in 0..9 : ToString(i) = ch
  IN IF digits # <<>> THEN <<FoldLeft(LAMBDA v, ch : 10 * v + Digit(ch), 0, digits), 1>>
     ELSE IF Leading(s) # {} THEN CHOOSE r \in Leading(s) : TRUE ELSE <<0, 1>>

AsReal(v)   == IF v.isstring THEN ToReal(v.string) ELSE v.real
AsString(v) == IF v.isstring THEN v.string ELSE Text(v.real)
AsBool(v)   == IF v.isstring THEN v.string # <<>> ELSE v.real # <<0, 1>>

(* Of strings by their bytes, where "'" < "1" < "a"; otherwise numerical.    *)
Byte(ch) == IF ch = Quote THEN 0 ELSE IF ch = "a" THEN 2 ELSE 1
Before(s, t) ==
  \E n \in 0..Len(s) : /\ n < Len(t) /\ SubSeq(s, 1, n) = SubSeq(t, 1, n)
                       /\ n = Len(s) \/ Byte(s[n + 1]) < Byte(t[n + 1])
Compare(v, w) ==
  IF v.isstring /\ w.isstring
  THEN IF Before(v.string, w.string) THEN -1 ELSE IF Before(w.string, v.string) THEN 1 ELSE 0
  ELSE Sign(Plus(AsReal(v), Minus(AsReal(w)))[1])

Binary == {"OR", "AND", "ADD", "SUB", "MUL", "DIV", "EQ", "NE", "LT", "GT", "LE", "GE"}
Unary  == {"NOT", "NEG", "POS"}
Operate(op, v, w) ==
  CASE op = "OR"  -> IF AsBool(v) THEN v ELSE w
    [] op = "AND" -> IF AsBool(v) THEN w ELSE v
    [] op = "ADD" -> IF v.isstring \/ w.isstring THEN Str(AsString(v) \o AsString(w))
                     ELSE Real(Plus(v.real, w.real))
    [] op = "SUB" -> Real(Plus(AsReal(v), Minus(AsReal(w))))
    [] op = "MUL" -> Real(Times(AsReal(v), AsReal(w)))
    [] op = "DIV" -> Real(Divide(AsReal(v), AsReal(w)))
    [] op = "EQ"  -> Bool(Compare(v, w) = 0)
    [] op = "NE"  -> Bool(Compare(v, w) # 0)
    [] op = "LT"  -> Bool(Compare(v, w) < 0)
    [] op = "GT"  -> Bool(Compare(v, w) > 0)
    [] op = "LE"  -> Bool(Compare(v, w) <= 0)
    [] op = "GE"  -> Bool(Compare(v, w) >= 0)
    [] op = "NOT" -> Bool(~AsBool(v))
    [] op = "NEG" -> Real(Minus(AsReal(v)))
    [] op = "POS" -> Real(AsReal(v))

(* --- scopes: StandardScope over VariableMapListScope --------------------- *)
(* Aliases are resolved before the first map that knows the name is found.   *)
CanonifyKey(name) == LET s == IF name[1] = "_" THEN Tail(name) ELSE name
                     IN IF s = <<"i", "d">> THEN <<"n">>
                        ELSE [i \in DOMAIN s |-> IF s[i] \in {".", "-"} THEN "_" ELSE s[i]]
Has(map, key) == \E i \in DOMAIN map : map[i][1] = key
ResolveVariable(entity, name) ==
  LET key == CanonifyKey(IF entity = <<>> THEN name ELSE entity \o <<".">> \o name)
      n == SelectInSeq(Maps, LAMBDA map : Has(map, key))
  IN IF n = 0 THEN Str(<<>>)
     ELSE Str(Maps[n][SelectInSeq(Maps[n], LAMBDA entry : entry[1] = key)][2])

LessReal(p, q) == Sign(Plus(p, Minus(q))[1]) < 0
Floor(r) == IF r[2] = 0 THEN r ELSE <<r[1] \div r[2], 1>>
SeqFunc(name, reals) ==
  LET Accu(F(_, _)) == IF reals = <<>> THEN <<0, 1>> ELSE FoldLeft(F, Head(reals), Tail(reals))
      Sum == Accu(LAMBDA p, q : Plus(p, q))
  IN CASE name = "count" -> <<Len(reals), 1>>
       [] name = "min"   -> Accu(LAMBDA p, q : IF LessReal(p, q) THEN p ELSE q)
       [] name = "max"   -> Accu(LAMBDA p, q : IF LessReal(q, p) THEN p ELSE q)
       [] name = "sum"   -> Sum
       [] name = "avg"   -> IF reals = <<>> THEN Sum ELSE Divide(Sum, <<Len(reals), 1>>)
CallFunction(name, args) ==
  CASE name = "bool"  /\ Len(args) = 1 -> Bool(AsBool(args[1]))
    [] name = "real"  /\ Len(args) = 1 -> Real(AsReal(args[1]))
    [] name = "ceil"  /\ Len(args) = 1 -> Real(Minus(Floor(Minus(AsReal(args[1])))))
    [] name = "floor" /\ Len(args) = 1 -> Real(Floor(AsReal(args[1])))
    [] name \in {"count", "min", "max", "sum", "avg"} ->
         Real(SeqFunc(name, [i \in DOMAIN args |-> AsReal(args[i])]))
    [] name \in {"printout", "printerr"} -> Str(<<>>)
    [] OTHER -> Num(-1)

(* --- the block of words: SinfexExpressionStack --------------------------- *)
Index(w) == Len(w)
Op(op) == <<"op", op>>
Ref(i) == <<"ref", i>>
(* The length and the characters, in as many words as they fill.             *)
PutString(s) ==
  LET Chunk(i) == <<"chars", SubSeq(s, 4 * i - 3, IF 4 * i > Len(s) THEN Len(s) ELSE 4 * i)>>
  IN <<<<"ref", Len(s)>>>> \o [i \in 1..((Len(s) + 3) \div 4) |-> Chunk(i)]
PutReal(r) == <<<<"real", r>>, <<"real", r>>>>          \* a double is two words
PutLiteral(lit) ==
  CASE lit.kind = "REAL"     -> <<Op("REAL")>> \o PutReal(lit.real)
    [] lit.kind = "STRING"   -> <<Op("STRING")>> \o PutString(lit.text)
    [] lit.kind = "VARIABLE" ->
         IF lit.entity = <<>> THEN <<Op("VARIABLE")>> \o PutString(lit.text)
         ELSE <<Op("ENTITY_VARIABLE")>> \o PutString(lit.entity) \o PutString(lit.text)

(* args: expr ',' args, so the last argument is pushed first.                *)
RECURSIVE PushArgs(_, _)
PushArgs(w, refs) ==
  IF refs = <<>> THEN [words |-> w, at |-> 0]
  ELSE LET rest == PushArgs(w, Tail(refs))
       IN [words |-> rest.words \o <<Op("ARG"), Ref(Head(refs)), Ref(rest.at)>>, at |-> Index(rest.words)]
PushFunc(w, name, refs) ==
  LET args == PushArgs(w, refs)
  IN [words |-> args.words \o <<Op("FUNCTION"), Ref(args.at)>> \o PutString(name), at |-> Index(args.words)]

(* --- evaluation: SinfexExpression::eval_op ------------------------------- *)
Fatal == [isstring |-> TRUE, string |-> <<"fatal">>]
At(w, i) == IF i \in 0..(Len(w) - 1) THEN w[i + 1] ELSE <<"end", 0>>
RefAt(w, i) == IF At(w, i)[1] = "ref" THEN At(w, i)[2] ELSE 0
Chars(w, i) == IF At(w, i)[1] = "chars" THEN At(w, i)[2] ELSE <<>>
SkipDown(n) == n \div 4                 \* mutant: the padding of an entity's name is not skipped
Skip(n) == (n + 3) \div 4
StringAt(w, i) ==
  FoldLeft(LAMBDA s, k : s \o Chars(w, i + k), <<>>, [k \in 1..((RefAt(w, i) + 3) \div 4) |-> k])

RECURSIVE EvalOp(_, _), Arguments(_, _)
EvalOp(w, i) ==
  LET tag == At(w, i)
      op == tag[2]
      v == EvalOp(w, RefAt(w, i + 1))
      second == i + 2 + Skip(RefAt(w, i + 1))
  IN IF tag[1] # "op" THEN Fatal
     ELSE CASE op = "REAL" -> IF At(w, i + 1)[1] = "real" THEN Real(At(w, i + 1)[2]) ELSE Fatal
            [] op = "STRING" -> Str(StringAt(w, i + 1))
            [] op = "VARIABLE" -> ResolveVariable(<<>>, StringAt(w, i + 1))
            [] op = "ENTITY_VARIABLE" -> ResolveVariable(StringAt(w, i + 1), StringAt(w, second))
            [] op \in Unary -> Operate(op, v, v)
            [] op \in Binary -> Operate(op, v, EvalOp(w, RefAt(w, i + 2)))
            [] op = "FUNCTION" -> CallFunction(FoldLeft(LAMBDA s, ch : s \o ch, "", StringAt(w, i + 2)),
                                               Arguments(w, RefAt(w, i + 1)))
            [] OTHER -> Fatal
Arguments(w, i) ==
  IF i > 0 /\ At(w, i) = Op("ARG")
  THEN <<EvalOp(w, RefAt(w, i + 1))>> \o Arguments(w, RefAt(w, i + 2)) ELSE <<>>
Eval(w, i) == IF i = 0 THEN Num(0) ELSE EvalOp(w, i)

(* --- the reductions of the parser ---------------------------------------- *)
Node(at, means) == [at |-> at, means |-> means]
Init == words = <<Ref(0), Ref(0)>> /\ stack = <<>>
Parsing == words[2] = Ref(0)
Room == Parsing /\ Cardinality({i \in DOMAIN words : words[i][1] = "op"}) < MaxNodes

(* What a literal means: the text between the quotes, the value in scope.    *)
Means(lit) ==
  CASE lit.kind = "REAL"     -> Real(lit.real)
    [] lit.kind = "STRING"   -> [isstring |-> TRUE, string |-> SubSeq(lit.text, 2, Len(lit.text) - 1)]
    [] lit.kind = "VARIABLE" -> ResolveVariable(lit.entity, lit.text)

Single ==
  /\ Room
  /\ \E lit \in Literals :
       /\ words' = words \o PutLiteral(lit)
       /\ stack' = Append(stack, Node(Index(words), Means(lit)))

Top(k) == stack[Len(stack) + 1 - k]
Below(k) == SubSeq(stack, 1, Len(stack) - k)
ReduceUnary ==
  /\ Room /\ stack # <<>>
  /\ \E op \in Unary :
       /\ words' = words \o <<Op(op), Ref(Top(1).at)>>
       /\ stack' = Append(Below(1), Node(Index(words), Operate(op, Top(1).means, Top(1).means)))
ReduceBinary ==
  /\ Room /\ Len(stack) > 1
  /\ \E op \in Binary :
       /\ words' = words \o <<Op(op), Ref(Top(2).at), Ref(Top(1).at)>>
       /\ stack' = Append(Below(2), Node(Index(words), Operate(op, Top(2).means, Top(1).means)))
ReduceCall ==
  /\ Room
  /\ \E name \in Functions, n \in 0..Len(stack) :
       LET args == SubSeq(stack, Len(stack) + 1 - n, Len(stack))
           func == PushFunc(words, name, [i \in 1..n |-> args[i].at])
           means == CallFunction(FoldLeft(LAMBDA s, ch : s \o ch, "", name), [i \in 1..n |-> args[i].means])
       IN words' = func.words /\ stack' = Append(Below(n), Node(func.at, means))

(* set_start(); then the memory is copied, and evaluated from there.         *)
SetStart ==
  /\ Parsing /\ Len(stack) = 1
  /\ words' = [words EXCEPT ![2] = Ref(stack[1].at)] /\ UNCHANGED stack
Next == Single \/ ReduceUnary \/ ReduceBinary \/ ReduceCall \/ SetStart
Spec == Init /\ [][Next]_vars

-----------------------------------------------------------------------------
(* A program evaluates to what its expression means: every reduction so far  *)
(* can be found and read at its offset, whatever was appended behind it, and *)
(* arguments come in order (what the offsets, word counts and padding of     *)
(* sinfeximpl.hh are for).                                                   *)
ProgramMeansExpression ==
  /\ \A i \in DOMAIN stack : Eval(words, stack[i].at) = stack[i].means
  /\ words[2] # Ref(0) => Eval(words, words[2][2]) = stack[1].means

(* sinfex.cc:264: "like ECMAScript, perform string concatenation if either   *)
(* type is string": the text of a sum is the two texts.                      *)
SumsJoinTexts ==
  \A v, w \in {stack[i].means : i \in DOMAIN stack} :
    v.isstring /\ w.isstring => Operate("ADD", v, w).string = v.string \o w.string
=============================================================================
