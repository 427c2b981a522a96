------------------------------ MODULE Messages ------------------------------
(* The messages of Aida (rcore/aida.cc, rcore/aida.hh): buffers of typed     *)
(* fields that a stub fills, the peer reads and answers in the same memory,  *)
(* and the ProtoScope that tells the marshalling code of a thread which      *)
(* connection it serves.  Stubs (aidacc/CxxStub.py) of both sides run side   *)
(* by side: a call in a signal handler, a signal emitted during a call.      *)
(*                                                                           *)
(* A field has a type and stands for call number `val'.                      *)
EXTENDS Naturals, Sequences, FiniteSets, SequencesExt

CONSTANTS Methods,   \* a set of Method(...), next to those that every object has
          Slots,     \* places for messages in memory
          MaxCalls,
          NONE

VARIABLES heap,      \* of each slot: capacity, fields, "free" or who may touch it
          toServer, toClient, events, \* transport channels, event_queue_
          frames,    \* of each thread: what it is in the middle of
          current,   \* current_thread_proto_connections
          calls, pieces, \* calls so far, strings, values and records allocated for fields
          fault,     \* an assertion failed, or memory was used by someone who lost it
          wrong      \* history: someone read other fields than were sent
vars == <<heap, toServer, toClient, events, frames, current, calls, pieces, fault, wrong>>

\* The types of a method's fields, and the signal that its implementation emits:
\* "none", "oneway" or "twoway".
Method(name, args, result, emits) == [name |-> name, args |-> args, result |-> result, emits |-> emits]
(* The methods that every object has; __aida_typelist__() is a list of pairs *)
(* of numbers and its length, here with one pair.                            *)
Typelist == Method("typelist", <<>>, <<"INT64", "INT64", "INT64">>, "none")
AuxData == Method("aux_data", <<>>, <<"ANY">>, "none")
Dir == Method("dir", <<>>, <<"ANY">>, "none")
Get == Method("get", <<"STRING">>, <<"ANY">>, "none")
SetProperty == Method("set", <<"STRING", "ANY">>, <<"BOOL">>, "none")

Sides == {"client", "server"}
Owning == {"STRING", "ANY", "SEQUENCE", "RECORD"}
Field(type, val) == [type |-> type, val |-> val]
Fields(types, val) == [i \in DOMAIN types |-> Field(types[i], val)]
Header(id, method) == <<Field("INT64", id), Field("INT64", method), Field("INT64", method)>>
Self(id) == <<Field("TRANSITION", id)>>
FirstId(m) == heap[m].fields[1].val
MethodOf(m) == heap[m].fields[2].val
Pieces(fields) == Len(SelectSeq(fields, LAMBDA f : f.type \in Owning))
Free == {m \in Slots : heap[m].of = "free"}
Blank == [cap |-> 0, fields |-> <<>>, of |-> "free"]
IsResult(id) == id \in {"CALL_RESULT", "EMIT_RESULT"}

(* Operations on s = [heap, pieces, fault, wrong].                           *)
State == [heap |-> heap, pieces |-> pieces, fault |-> fault, wrong |-> wrong]
Put(s) == /\ heap' = s.heap
          /\ pieces' = s.pieces
          /\ fault' = s.fault
          /\ wrong' = s.wrong
Check(s, ok) == [s EXCEPT !.fault = @ \/ ~ok]

\* ProtoMsg::_new()
New(s, m, cap, t) == [s EXCEPT !.heap[m] = [cap |-> cap, fields |-> <<>>, of |-> t]]
\* addu() for each field; check() aborts when the message is full.
Add(s, m, fields, t) ==
  LET all == s.heap[m].fields \o fields
  IN Check([s EXCEPT !.heap[m].fields = all, !.pieces = @ + Pieces(fields)],
           s.heap[m].of = t /\ Len(all) <= s.heap[m].cap)
\* ProtoMsg::reset()
Reset(s, m, t) ==
  Check([s EXCEPT !.heap[m].fields = <<>>, !.pieces = @ - Pieces(s.heap[m].fields)], s.heap[m].of = t)
Delete(s, m, t) == [Reset(s, m, t) EXCEPT !.heap[m] = Blank]
\* Reading fields i.. as those types; the reader gives the values back.
Reads(s, m, i, types, t) ==
  LET fields == s.heap[m].fields
  IN Check(s, s.heap[m].of = t /\ i + Len(types) - 1 <= Len(fields)
              /\ \A k \in DOMAIN types : i + k - 1 \in DOMAIN fields => fields[i + k - 1].type = types[k])
Remains(s, m, n) == Check(s, Len(s.heap[m].fields) = n)
Give(s, m, t) == [s EXCEPT !.heap[m].of = t]
ValsOf(m, i) == [k \in 1..(Len(heap[m].fields) - i + 1) |-> heap[m].fields[i + k - 1].val]
Compare(s, got, val) == [s EXCEPT !.wrong = @ \/ \E i \in DOMAIN got : got[i] # val]

(* renew_into_result(): the request becomes the answer if it has the room.   *)
Reused(m, n) == heap[m].cap >= 3 + n
RenewReused(s, m, id, n, t) ==
  [msg |-> m, s |-> Add(Reset(s, m, t), m, Header(id, MethodOf(m)), t)]
Renew(s, m, id, n, t) ==
  IF Reused(m, n) THEN [msg |-> m, s |-> Add(Reset(s, m, t), m, Header(id, MethodOf(m)), t)]
  ELSE LET r == CHOOSE x \in Free : TRUE
       IN [msg |-> r, s |-> Add(New(s, r, 3 + n, t), r, Header(id, MethodOf(m)), t)]
\* The dispatcher deletes the request unless it has become the answer.
DoneAlways(s, m, r, t) == Delete(s, m, t)
Done(s, m, r, t) == IF r = m THEN s ELSE Delete(s, m, t)

(* ProtoScope: a scope inside of another one for the same connection is      *)
(* nested and leaves the connection in place.                                *)
Nested(t) == current[t] = t
Enters(s, t) == Check(s, current[t] \in {NONE, t})
EnterScope(t) == current' = [current EXCEPT ![t] = t]
LeaveScopeAlways(t, nested) == current' = [current EXCEPT ![t] = NONE]
LeaveScope(t, nested) == current' = [current EXCEPT ![t] = IF nested THEN @ ELSE NONE]
InScope(t) == Check(State, current[t] = t)

Top(t) == IF frames[t] = <<>> THEN [at |-> "app", msg |-> NONE, nested |-> FALSE, val |-> 0] ELSE Last(frames[t])
Push(t, at, m, val) ==
  frames' = [frames EXCEPT ![t] = Append(@, [at |-> at, msg |-> m, nested |-> Nested(t), val |-> val])]
Pop(t) == frames' = [frames EXCEPT ![t] = Front(@)]

Init ==
  /\ heap = [m \in Slots |-> Blank]
  /\ toServer = <<>> /\ toClient = <<>> /\ events = <<>>
  /\ frames = [t \in Sides |-> <<>>]
  /\ current = [t \in Sides |-> NONE]
  /\ calls = 0 /\ pieces = 0
  /\ fault = FALSE /\ wrong = FALSE
-----------------------------------------------------------------------------
(* A method stub of the client: header, self and arguments into a new        *)
(* message; a two-way call stays in its scope until the answer is there.     *)
Call(method) ==
  LET m == CHOOSE x \in Free : TRUE
      twoway == method.result # <<>>
      id == IF twoway THEN "CALL_TWOWAY" ELSE "CALL_ONEWAY"
      s == Add(New(Enters(State, "client"), m, 3 + 1 + Len(method.args), "client"), m,
               Header(id, method) \o Self(calls + 1) \o Fields(method.args, calls + 1), "client")
  IN /\ calls < MaxCalls /\ Cardinality(Free) > 1
     /\ Top("client").at \in {"app", "handler"}
     /\ calls' = calls + 1
     /\ Put(Give(s, m, "server"))
     /\ toServer' = Append(toServer, m)
     /\ IF twoway THEN EnterScope("client") /\ Push("client", "call", m, calls + 1)
        ELSE LeaveScope("client", Nested("client")) /\ UNCHANGED frames
     /\ UNCHANGED <<toClient, events>>

(* call_remote(): events that arrive before the answer are kept for later.   *)
KeepEvent ==
  /\ Top("client").at = "call"
  /\ toClient # <<>> /\ ~IsResult(FirstId(Head(toClient)))
  /\ events' = Append(events, Head(toClient))
  /\ toClient' = Tail(toClient)
  /\ UNCHANGED <<heap, toServer, frames, current, calls, pieces, fault, wrong>>

TakeResult ==
  LET m == Head(toClient)
      types == MethodOf(m).result
      s == Compare(Reads(InScope("client"), m, 4, types, "client"), ValsOf(m, 4), Top("client").val)
  IN /\ Top("client").at = "call"
     /\ toClient # <<>> /\ IsResult(FirstId(m))
     /\ toClient' = Tail(toClient)
     /\ LeaveScope("client", Top("client").nested)
     /\ Pop("client")
     /\ Put(Delete(s, m, "client"))
     /\ UNCHANGED <<toServer, events, calls>>

(* ClientConnectionImpl::dispatch(): the handler id, for a signal that wants *)
(* an answer the id of the emission, then the arguments.                     *)
Dispatch ==
  LET m == Head(events \o toClient)
      ids == IF FirstId(m) = "EMIT_TWOWAY" THEN <<"INT64", "INT64">> ELSE <<"INT64">>
  IN /\ Top("client").at = "app"
     /\ events \o toClient # <<>>
     /\ IF events # <<>> THEN events' = Tail(events) /\ UNCHANGED toClient
        ELSE toClient' = Tail(toClient) /\ UNCHANGED events
     /\ EnterScope("client")
     /\ Push("client", "handler", m, 0)
     /\ Put(Check(Reads(Enters(State, "client"), m, 4, ids \o <<"STRING">>, "client"), ~IsResult(FirstId(m))))
     /\ UNCHANGED <<toServer, calls>>

HandlerReturns ==
  LET m == Top("client").msg
      twoway == FirstId(m) = "EMIT_TWOWAY"
      emission == heap[m].fields[5].val
      r == Renew(InScope("client"), m, "EMIT_RESULT", 2, "client")
      s == Add(r.s, r.msg, <<Field("INT64", emission), Field("STRING", emission)>>, "client")
  IN /\ Top("client").at = "handler"
     /\ Free # {}
     /\ IF twoway THEN /\ Put(Give(Done(s, m, r.msg, "client"), r.msg, "server"))
                       /\ toServer' = Append(toServer, r.msg)
        ELSE Put(Delete(InScope("client"), m, "client")) /\ UNCHANGED toServer
     /\ LeaveScope("client", Top("client").nested)
     /\ Pop("client")
     /\ UNCHANGED <<toClient, events, calls>>
-----------------------------------------------------------------------------
(* ServerConnectionImpl::dispatch() of a call: the stub checks the number of *)
(* fields, copies self and the arguments, and runs the implementation.       *)
ServeCall ==
  LET m == Head(toServer)
      args == MethodOf(m).args
      s == Reads(Remains(Enters(State, "server"), m, 3 + 1 + Len(args)), m, 4, <<"TRANSITION">> \o args, "server")
      val == heap[m].fields[4].val
  IN /\ Top("server").at = "app"
     /\ toServer # <<>> /\ ~IsResult(FirstId(m))
     /\ toServer' = Tail(toServer)
     /\ EnterScope("server")
     /\ Push("server", IF MethodOf(m).emits = "none" THEN "return" ELSE "implementation", m, val)
     /\ Put(Compare(s, ValsOf(m, 5), val))
     /\ UNCHANGED <<toClient, events, calls>>

(* A closure posts an emission: in the scope of the call that runs, or, for  *)
(* a signal that the UI thread emits, in one of its own.                     *)
Emit(kind) ==
  LET m == CHOOSE x \in Free : TRUE
      two == IF kind = "twoway" THEN <<Field("INT64", "emission")>> ELSE <<>>
      id == IF kind = "twoway" THEN "EMIT_TWOWAY" ELSE "EMIT_ONEWAY"
  IN /\ \/ Top("server").at = "implementation" /\ MethodOf(Top("server").msg).emits = kind
        \/ Top("server").at = "app"
     /\ Cardinality(Free) > 2
     /\ Put(Give(Add(New(Enters(State, "server"), m, 3 + 1 + 1 + Len(two), "server"), m,
                     Header(id, "signal") \o <<Field("INT64", "handler")>> \o two \o Fields(<<"STRING">>, "arg"),
                     "server"), m, "client"))
     /\ toClient' = Append(toClient, m)
     /\ LeaveScope("server", Nested("server"))
     /\ frames' = IF frames["server"] = <<>> THEN frames
                  ELSE [frames EXCEPT !["server"] = Front(@) \o <<[Last(@) EXCEPT !.at = "return"]>>]
     /\ UNCHANGED <<toServer, events, calls>>

(* The stub stores the result, in the memory of the request if that is big   *)
(* enough; the result of a one-way call is NULL.                             *)
Return ==
  LET f == Top("server")
      m == f.msg
      result == MethodOf(m).result
      r == Renew(InScope("server"), m, "CALL_RESULT", Len(result), "server")
      s == Add(r.s, r.msg, Fields(result, f.val), "server")
  IN /\ f.at = "return"
     /\ Free # {}
     /\ IF result = <<>> THEN Put(Delete(InScope("server"), m, "server")) /\ UNCHANGED toClient
        ELSE /\ Put(Give(Done(s, m, r.msg, "server"), r.msg, "client"))
             /\ toClient' = Append(toClient, r.msg)
     /\ LeaveScope("server", f.nested)
     /\ Pop("server")
     /\ UNCHANGED <<toServer, events, calls>>

(* The answer of a handler; its reader goes to the EmitResultHandler.        *)
ServeEmitResult ==
  LET m == Head(toServer)
  IN /\ Top("server").at = "app"
     /\ toServer # <<>> /\ IsResult(FirstId(m))
     /\ toServer' = Tail(toServer)
     /\ Put(Delete(Compare(Reads(Enters(State, "server"), m, 4, <<"INT64", "STRING">>, "server"),
                           ValsOf(m, 4), "emission"), m, "server"))
     /\ UNCHANGED <<toClient, events, frames, current, calls>>

Next ==
  \/ \E method \in Methods \union {Typelist, AuxData, Dir, Get, SetProperty} : Call(method)
  \/ KeepEvent \/ TakeResult \/ Dispatch \/ HandlerReturns
  \/ ServeCall \/ Return \/ ServeEmitResult
  \/ \E kind \in {"oneway", "twoway"} : Emit(kind)

Spec == Init /\ [][Next]_vars

-----------------------------------------------------------------------------
(* A message is read, refilled and deleted by the thread that has it, once,  *)
(* within its capacity and as the types that were stored; whoever marshals   *)
(* does so in a scope of its connection, however calls, handlers and         *)
(* emissions nest; what stubs read are the arguments and the result of their *)
(* own call; and all that was allocated for fields is freed with them.       *)
MessagesAreOwned ==
  /\ ~fault
  /\ ~wrong
  /\ pieces = FoldSeq(LAMBDA m, n : n + Pieces(heap[m].fields), 0, SetToSeq(Slots))
  /\ \A t \in Sides : (current[t] = t) = (frames[t] # <<>>)
=============================================================================
