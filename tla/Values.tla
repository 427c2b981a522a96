------------------------------- MODULE Values -------------------------------
(* Aida::Any (rcore/aida.cc, rcore/aida.hh): a tagged union that constructs, *)
(* moves and destroys its contents by hand, and that changes the references  *)
(* it holds into ids when it travels in a message and back on arrival.       *)
(*                                                                           *)
(* A value remembers by which kind its contents were constructed (`as'), so  *)
(* that contents used or destroyed as something else are noticed.  INT64     *)
(* stands for all plain kinds and for STRING.                                *)
EXTENDS Naturals, Sequences, FiniteSets, FiniteSetsExt, SequencesExt, Functions

CONSTANTS Server, Client, \* variables of type Any on both sides
          Objects,        \* instances; the id of an object is its number
          Names,          \* of the fields of records
          MaxDepth,       \* bound of the nesting of values
          MaxSteps,
          Careful,        \* no set function that changes the kind of a variable is given a
                          \* part of it, no variable with a local object is given another
          NULL

VARIABLES any,     \* the variables
          heap,    \* what was allocated and not freed; shared_ptrs of each object
          wild,    \* contents were used as another kind, or after they were freed
          want,    \* history: what each variable should mean
          steps
vars == <<any, heap, wild, want, steps>>

Slots == Server \union Client
Memory == 0                 \* the key of heap for all that is no object
Value(kind, data) == [name |-> "", kind |-> kind, as |-> kind, data |-> data]
Untyped == Value("UNTYPED", 0)
Named(v, name) == [v EXCEPT !.name = name]
Composite == {"SEQUENCE", "RECORD"}

(* What constructing a value allocates; destroying it gives the same back.   *)
RECURSIVE Holds(_)
Holds(v) ==
  LET none == [x \in Objects \union {Memory} |-> 0]
      plus(f, g) == [x \in DOMAIN f |-> f[x] + g[x]]
      block == [none EXCEPT ![Memory] = 1]
  IN CASE v.kind = "ANY" /\ v.data # NULL -> plus(block, Holds(v.data))
       [] v.kind \in Composite ->
            FoldLeft(LAMBDA sum, e : plus(sum, plus(block, Holds(e))), none, v.data)
       [] v.kind = "INSTANCE" /\ v.data # NULL -> [none EXCEPT ![v.data] = 1]
       [] v.kind = "LOCAL" /\ v.data # NULL -> block
       [] OTHER -> none

RECURSIVE Depth(_)
Depth(v) == CASE v.kind = "ANY" /\ v.data # NULL -> 1 + Depth(v.data)
              [] v.kind \in Composite -> 1 + Max({0} \union {Depth(e) : e \in ToSet(v.data)})
              [] OTHER -> 0

(* What a value means: an ANY around nothing is one around UNTYPED, a null   *)
(* handle and a null instance are the same reference to nothing.             *)
RECURSIVE Meaning(_)
Meaning(v) ==
  CASE v.kind = "ANY" -> [kind |-> "ANY", data |-> IF v.data = NULL THEN [kind |-> "UNTYPED", data |-> 0]
                                                   ELSE Meaning(v.data)]
    [] v.kind = "RECORD" -> [kind |-> v.kind, data |-> [i \in DOMAIN v.data |-> <<v.data[i].name, Meaning(v.data[i])>>]]
    [] v.kind = "SEQUENCE" -> [kind |-> v.kind, data |-> [i \in DOMAIN v.data |-> Meaning(v.data[i])]]
    [] v.kind \in {"INSTANCE", "REMOTE", "TRANSITION"} ->
         [kind |-> "REFERENCE", data |-> IF v.data = NULL THEN 0 ELSE v.data]
    [] OTHER -> [kind |-> v.kind, data |-> v.data]

-----------------------------------------------------------------------------
(* Operations on a state s = [any, heap, wild].                              *)
Account(s, take, give) ==
  [s EXCEPT !.heap = [x \in DOMAIN @ |-> IF @[x] + take[x] >= give[x] THEN @[x] + take[x] - give[x] ELSE 0],
            !.wild = @ \/ \E x \in DOMAIN s.heap : s.heap[x] + take[x] < give[x]]

(* Any::clear(): destroys what the kind says.                                *)
ClearKeepsAny(s, x) ==                    \* mutant: `delete u_.vany' forgotten
  IF s.any[x].kind = "ANY" THEN [s EXCEPT !.any[x] = Untyped]
  ELSE LET v == s.any[x] IN
       [Account(s, [h \in DOMAIN s.heap |-> 0], Holds(v)) EXCEPT !.any[x] = Untyped]
Clear(s, x) ==
  LET v == s.any[x]
      nothing == [h \in DOMAIN s.heap |-> 0]
  IN IF v.kind # v.as THEN [s EXCEPT !.wild = TRUE]
     ELSE [Account(s, nothing, Holds(v)) EXCEPT !.any[x] = Named(Untyped, v.name)]

(* Any::rekind() constructs empty contents.                                  *)
Initial(kind) ==
  CASE kind \in Composite -> <<>> [] kind \in {"ANY", "INSTANCE", "LOCAL"} -> NULL [] OTHER -> 0
Rekind(s, x, kind) ==
  LET c == Clear(s, x) IN [c EXCEPT !.any[x] = Named(Value(kind, Initial(kind)), @.name)]
Ensure(s, x, kind) == IF s.any[x].kind = kind THEN s ELSE Rekind(s, x, kind)

(* The contents of a variable are replaced by a copy of others.              *)
Fill(s, x, data) ==
  LET old == s.any[x]
      new == [old EXCEPT !.data = data]
  IN [Account(s, Holds(new), Holds(old)) EXCEPT !.any[x] = new]

(* swap_any_unions() exchanges contents as if both were of one kind.         *)
SwapUnions(s, kind, x, y) ==
  [s EXCEPT !.any[x] = [@ EXCEPT !.as = s.any[y].as, !.data = s.any[y].data],
            !.any[y] = [@ EXCEPT !.as = s.any[x].as, !.data = s.any[x].data],
            !.wild = @ \/ s.any[x].as # kind \/ s.any[y].as # kind]

(* Any::swap(), by way of a temporary that is destroyed at the end.          *)
Swap(s, x, y) ==
  IF s.any[x].kind = s.any[y].kind
  THEN IF x = y THEN s ELSE SwapUnions(s, s.any[x].kind, x, y)
  ELSE LET t0 == Rekind(s, "tmp", s.any[x].kind)
           t1 == SwapUnions(t0, t0.any["tmp"].kind, "tmp", x)
           t2 == Rekind(t1, x, t1.any[y].kind)
           t3 == SwapUnions(t2, t2.any[x].kind, x, y)
           t4 == Rekind(t3, y, t3.any["tmp"].kind)
           t5 == SwapUnions(t4, t4.any[y].kind, y, "tmp")
       IN Clear(t5, "tmp")

(* operator= for a copy and for a move.                                      *)
Copy(s, x, v) ==
  LET c == Clear(s, x)
      nothing == [h \in DOMAIN s.heap |-> 0]
  IN [Account(c, Holds(v), nothing) EXCEPT !.any[x] = Named(v, s.any[x].name)]
Move(s, x, y) == IF x = y THEN s ELSE Swap(Clear(s, x), x, y)

(* set_seq(), set_rec(), set_any(), set_ibase(): first the kind is made      *)
(* right, then the argument is copied.  freed: the argument was part of what *)
(* the first step destroyed.                                                 *)
Set(s, x, kind, data, freed) ==
  LET e == Ensure(s, x, kind)
      argument == IF kind = "ANY" /\ data.kind = "UNTYPED" THEN NULL ELSE data
  IN [Fill(e, x, argument) EXCEPT !.wild = @ \/ (freed /\ s.any[x].kind # kind)]

(* hold() overwrites the pointer.                                            *)
Hold(s, x, object) ==
  LET e == Ensure(s, x, "LOCAL")
  IN [e EXCEPT !.heap[Memory] = @ + 1, !.any[x].data = object]

(* Any::operator==; that of a vector of fields compares the fields as Anys.  *)
RECURSIVE Equal(_, _)
Equal(v, w) ==
  /\ v.kind = w.kind
  /\ CASE v.kind \in Composite -> /\ Len(v.data) = Len(w.data)
                                  /\ \A i \in DOMAIN v.data : Equal(v.data[i], w.data[i])
       [] v.kind = "ANY" -> IF v.data = NULL \/ w.data = NULL THEN v.data = w.data
                            ELSE Equal(v.data, w.data)
       [] OTHER -> v.data = w.data

-----------------------------------------------------------------------------
(* Any::to_transition(): references become ids.  The server's object map     *)
(* keeps an exported object, and the client's handles keep ids.              *)
RECURSIVE ToTransition(_)
ToTransition(v) ==
  CASE v.kind \in Composite -> [v EXCEPT !.data = [i \in DOMAIN v.data |-> ToTransition(v.data[i])]]
    [] v.kind = "ANY" /\ v.data # NULL -> [v EXCEPT !.data = ToTransition(v.data)]
    [] v.kind \in {"INSTANCE", "REMOTE"} ->
         Named(Value("TRANSITION", IF v.data = NULL THEN 0 ELSE v.data), v.name)
    [] OTHER -> v

RECURSIVE FromTransition(_, _)
FromTransition(v, side) ==
  CASE v.kind \in Composite -> [v EXCEPT !.data = [i \in DOMAIN v.data |-> FromTransition(v.data[i], side)]]
    [] v.kind = "ANY" /\ v.data # NULL -> [v EXCEPT !.data = FromTransition(v.data, side)]
    [] v.kind = "TRANSITION" /\ side = "server" ->
         Named(Value("INSTANCE", IF v.data = 0 THEN NULL ELSE v.data), v.name)
    [] v.kind = "TRANSITION" /\ side = "client" -> Named(Value("REMOTE", v.data), v.name)
    [] OTHER -> v

(* ProtoMsg::add_any() and ProtoReader::pop_any(): one any of the message is *)
(* a copy that changes in place, the receiver's is a copy of that.           *)
Transfer(s, from, to) ==
  Copy(s, to, FromTransition(ToTransition(s.any[from]), IF to \in Server THEN "server" ELSE "client"))

-----------------------------------------------------------------------------
Init == /\ any = [x \in Slots \union {"tmp"} |-> Untyped]
        /\ heap = [x \in Objects \union {Memory} |-> 0]
        /\ wild = FALSE /\ steps = 0
        /\ want = [x \in Slots |-> Meaning(Untyped)]

State == [any |-> any, heap |-> heap, wild |-> wild]
Becomes(s, meaning) ==
  /\ steps < MaxSteps /\ steps' = steps + 1
  /\ any' = s.any /\ heap' = s.heap /\ wild' = s.wild
  /\ want' = meaning
Small(v) == Depth(v) < MaxDepth

SetPlain(x) == Becomes(Set(State, x, "INT64", 1, FALSE), [want EXCEPT ![x] = [kind |-> "INT64", data |-> 1]])
SetReference(x) ==
  IF x \in Server
  THEN \E o \in Objects : Becomes(Set(State, x, "INSTANCE", o, FALSE),
                                  [want EXCEPT ![x] = [kind |-> "REFERENCE", data |-> o]])
  ELSE Becomes(Set(State, x, "REMOTE", 0, FALSE), [want EXCEPT ![x] = [kind |-> "REFERENCE", data |-> 0]])
SetLocal(x) == /\ Careful => any[x].kind # "LOCAL"
               /\ Becomes(Hold(State, x, 7), [want EXCEPT ![x] = [kind |-> "LOCAL", data |-> 7]])

(* The argument is or contains another variable, or it is what an element of *)
(* x itself contains (of the kind that x has already, if Careful).           *)
SetAny(x, y) == /\ Small(any[y]) /\ x # y
                /\ Becomes(Set(State, x, "ANY", Named(any[y], ""), FALSE),
                           [want EXCEPT ![x] = [kind |-> "ANY", data |-> want[y]]])
SetSequence(x, y) == /\ Small(any[y]) /\ x # y
                     /\ Becomes(Set(State, x, "SEQUENCE", <<Named(any[y], "")>>, FALSE),
                                [want EXCEPT ![x] = [kind |-> "SEQUENCE", data |-> <<want[y]>>]])
SetRecord(x, y, n) == /\ Small(any[y]) /\ x # y
                      /\ Becomes(Set(State, x, "RECORD", <<Named(any[y], n)>>, FALSE),
                                 [want EXCEPT ![x] = [kind |-> "RECORD", data |-> <<<<n, want[y]>>>>]])
SetFromInside(x) ==
  /\ any[x].kind \in Composite /\ any[x].data # <<>>
  /\ \E kind \in Composite :
       /\ any[x].data[1].kind = kind /\ (Careful => kind = any[x].kind)
       /\ Becomes(Set(State, x, kind, any[x].data[1].data, TRUE),
                  [want EXCEPT ![x] = Meaning(any[x].data[1])])

Assign(x, y)   == x # y /\ Becomes(Copy(State, x, any[y]), [want EXCEPT ![x] = want[y]])
MoveFrom(x, y) == Becomes(Move(State, x, y),
                          IF x = y THEN want ELSE [want EXCEPT ![x] = want[y], ![y] = Meaning(Untyped)])
SwapWith(x, y) == Becomes(Swap(State, x, y), [want EXCEPT ![x] = want[y], ![y] = want[x]])
ClearIt(x)     == Becomes(Clear(State, x), [want EXCEPT ![x] = Meaning(Untyped)])
Send(x, y)     == Becomes(Transfer(State, x, y), [want EXCEPT ![y] = want[x]])

Next ==
  \/ \E x \in Slots : SetPlain(x) \/ SetReference(x) \/ SetLocal(x) \/ SetFromInside(x) \/ ClearIt(x)
  \/ \E side \in {Server, Client}, x, y \in Slots :
       /\ {x, y} \subseteq side
       /\ \/ SetAny(x, y) \/ SetSequence(x, y) \/ \E n \in Names : SetRecord(x, y, n)
          \/ Assign(x, y) \/ MoveFrom(x, y) \/ SwapWith(x, y)
  \/ \E x \in Server, y \in Client : Send(x, y) \/ Send(y, x)
Spec == Init /\ [][Next]_vars

-----------------------------------------------------------------------------
Total(f) == [x \in DOMAIN heap |-> FoldSet(LAMBDA s, n : Holds(f[s])[x] + n, 0, DOMAIN f)]

(* Whatever was copied, moved, swapped, nested and sent: a variable means    *)
(* what was last put into it, its contents are destroyed as what they were   *)
(* constructed as, and nothing is leaked or freed twice.                     *)
AnysAreValues ==
  /\ ~wild
  /\ \A x \in Slots : any[x].as = any[x].kind /\ Meaning(any[x]) = want[x]
  /\ heap = Total(any)
(* What arrived holds no reference in transit, and none of the other side.   *)
ReferencesFitTheSide ==
  \A x \in Slots : any[x].kind # "TRANSITION" /\ any[x].kind # (IF x \in Server THEN "REMOTE" ELSE "INSTANCE")

(* "Check if Any is exactly equal to clone" (rcore/aida.hh).                 *)
EqualIsExact == \A x, y \in Slots : any[x].kind = any[y].kind /\ Equal(any[x], any[y]) => want[x] = want[y]
=============================================================================
