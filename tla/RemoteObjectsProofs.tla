------------------------ MODULE RemoteObjectsProofs ------------------------
(***************************************************************************)
(* Proofs about RemoteObjects, for any set of objects, handlers and        *)
(* emissions and for queues of any length: the object map stays            *)
(* consistent, handles resolve to what was received, and requests find     *)
(* what they refer to.                                                     *)
(***************************************************************************)
EXTENDS RemoteObjects, SequenceLemmas, FiniteSetTheorems, FunctionTheorems

-----------------------------------------------------------------------------
(* What the invariant says of a queue of messages.                           *)

Has(q, K) == \E k \in DOMAIN q : q[k].kind \in K
One(q, K) == \A j, k \in DOMAIN q : q[j].kind \in K /\ q[k].kind \in K => j = k
All(q, M) == \A k \in DOMAIN q : q[k] \in M

\* A report is ahead of the request for the next collection.
ReportFirst(q) ==
  \A j, k \in DOMAIN q : q[j].kind = "REPORT" /\ q[k].kind = "SEEN_GARBAGE" => j < k

\* The two-way emissions it carries, each in one message.
Emissions(q) == {q[k].emission : k \in DOMAIN q} \ {NoEmission}
Distinct(q) ==
  \A j, k \in DOMAIN q : q[j].emission = q[k].emission /\ q[j].emission # NoEmission => j = k

\* Requests to connect, or disconnect, a handler.
Names(q, kind, h) == \E k \in DOMAIN q : q[k].kind = kind /\ q[k].handler = h

Uses(q, i)     == \E k \in DOMAIN q : q[k].id = i
Reported(q, i) == \E k \in DOMAIN q : i \in q[k].ids

\* No report behind the request to connect h gives i away.
Spares(q, h, i) ==
  \A j, k \in DOMAIN q : j < k /\ q[j].kind = "CONNECT" /\ q[j].handler = h => i \notin q[k].ids

\* No message behind a report that gives i away uses it.
Spent(q, i) == \A j, k \in DOMAIN q : j < k /\ i \in q[j].ids => q[k].id # i

\* What is sent behind a sweep has an id of L.
SentSince(q, L) ==
  \A j, k \in DOMAIN q : j < k /\ q[j].kind = "SWEEP" /\ q[k].id # 0 => q[k].id \in L

-----------------------------------------------------------------------------
(* The inductive invariant.                                                  *)

\* What carries an id carries the object that it stands for, and what is said
\* about a handler is about its emitter.
Sent == {m \in Messages :
  /\ m.id # 0 => m.obj \in Object
  /\ m.ids # {} => m.kind = "REPORT"
  /\ m.kind = "EMIT_RESULT" => m.emission # NoEmission
  /\ m.kind = "CONNECT" => m.handler \in Handler /\ slot[m.handler] = "set" /\ m.id = remote[m.handler]
  /\ m.kind = "DISCONNECT" => /\ m.handler \in Handler /\ calling = m.handler
                              /\ remote[m.handler] # 0 /\ m.id = remote[m.handler]}
Received == {m \in Messages : (m.id # 0 => m.obj \in Object) /\ m.ids = {} /\ m.ok}

MessagesTyped ==
  /\ All(toServer, Sent) /\ All(toClient, Received) /\ All(eventQueue, Received)
  /\ \A h \in Handler : /\ slot[h] = "set" => remote[h] # 0
                        /\ slot[h] = "unused" => remote[h] = 0
  /\ calling # NoHandler => slot[calling] = "null"

\* The entries in use are those the server still refers to, each instance has
\* one, and the free list names the others.
MapExact ==
  /\ \A i \in Ids : entries[i] # NoObject <=> i \in live \cup sweep
  /\ \A i, j \in Ids : entries[i] = entries[j] /\ entries[i] # NoObject => i = j
  /\ IsInjective(freeList)
  /\ ToSet(freeList) = IdOf(NoObject)

\* A collection is requested, swept and reported by one message at a time.
OneCollection ==
  /\ One(toServer, {"SEEN_GARBAGE"}) /\ One(toServer, {"REPORT"}) /\ One(toClient, {"SWEEP"})
  /\ ReportFirst(toServer)
  /\ Has(toClient, {"SWEEP"}) =>
       seenGarbage /\ sweeping /\ ~Has(toServer, {"SEEN_GARBAGE"}) /\ ~Has(toServer, {"REPORT"})
  /\ Has(toServer, {"SEEN_GARBAGE"}) => seenGarbage
  /\ sweeping <=> Has(toServer, {"REPORT"}) \/ Has(toClient, {"SWEEP"})
  /\ ~sweeping => sweep = {}

\* The client waits for one answer at a time.
Requests == {"HELLO", "CALL_TWOWAY", "CONNECT", "DISCONNECT"}
Answers  == {"WELCOME", "CALL_RESULT", "CONNECT_RESULT"}
OneRequest ==
  /\ One(toServer, Requests) /\ One(toClient, Answers)
  /\ ~(Has(toServer, Requests) /\ Has(toClient, Answers))
  /\ phase \in {"app", "start"} => ~Has(toServer, Requests) /\ ~Has(toClient, Answers)

\* A two-way emission is one message at a time, and awaited.
OneEmission ==
  /\ Emissions(toServer) \cup Emissions(toClient) \cup Emissions(eventQueue) \subseteq answering
  /\ Distinct(toServer) /\ Distinct(toClient) /\ Distinct(eventQueue)
  /\ Emissions(toServer) \cap Emissions(toClient) = {}
  /\ Emissions(toServer) \cap Emissions(eventQueue) = {}
  /\ Emissions(toClient) \cap Emissions(eventQueue) = {}

\* A handler that is connected, or about to be, has a handle of its emitter,
\* so that no report gives away the emitter's id.
Connected(h) == \/ slot[h] = "set" /\ ~Names(toServer, "CONNECT", h)
                \/ Names(toServer, "DISCONNECT", h)
EmittersStay ==
  failed = "no" => \A h \in Handler :
    /\ Connected(h) => /\ entries[remote[h]] = signalOf[h] /\ signalOf[h] # NoObject
                       /\ ~Reported(toServer, remote[h])
    /\ Spares(toServer, h, remote[h])

\* In order, what the client has or will have resolves; an id that a report
\* gives away is not used any more, or was sent since the sweep began.
Resolved == {m \in Messages : m.id # 0 => m.id \in Ids /\ entries[m.id] = m.obj}
GivenAway(i) == i \in sweep \ live /\ Reported(toServer, i)
UnderWay ==
  /\ All(toServer, Resolved) /\ All(toClient, Resolved) /\ All(eventQueue, Resolved)
  /\ \A i \in Alive(handles, remote) : entries[i] = denotes[i]
  /\ \A i \in Ids : GivenAway(i) =>
       /\ i \notin Alive(handles, remote)
       /\ Spent(toServer, i) /\ ~Uses(toClient, i) /\ ~Uses(eventQueue, i)
  /\ SentSince(toClient, live)
InOrder == ~overtaken => UnderWay

IInv == /\ TypeOK /\ MessagesTyped /\ MapExact /\ OneCollection /\ OneRequest /\ OneEmission
        /\ EmittersStay /\ InOrder /\ failed # "emission"

-----------------------------------------------------------------------------
(* What a message added at the end, or taken off the front, changes of these. *)

\* p is q with m at its end.
AddedKinds(p, q, m) ==
  /\ \A K : Has(p, K) <=> Has(q, K) \/ m.kind \in K
  /\ \A K : One(q, K) /\ ~(Has(q, K) /\ m.kind \in K) => One(p, K)
  /\ ReportFirst(q) /\ ~(m.kind = "REPORT" /\ Has(q, {"SEEN_GARBAGE"})) => ReportFirst(p)
AddedEmission(p, q, m) ==
  /\ Emissions(p) = Emissions(q) \cup ({m.emission} \ {NoEmission})
  /\ Distinct(q) /\ m.emission \notin Emissions(q) => Distinct(p)
AddedIds(p, q, m) ==
  /\ \A M : All(q, M) /\ m \in M => All(p, M)
  /\ \A kind, h : Names(p, kind, h) <=> Names(q, kind, h) \/ (m.kind = kind /\ m.handler = h)
  /\ \A i : Uses(p, i) <=> Uses(q, i) \/ m.id = i
  /\ \A i : Reported(p, i) <=> Reported(q, i) \/ i \in m.ids
  /\ \A h, i : Spares(q, h, i) /\ ~(i \in m.ids /\ Names(q, "CONNECT", h)) => Spares(p, h, i)
  /\ \A i : Spent(q, i) /\ ~(Reported(q, i) /\ m.id = i) => Spent(p, i)
  /\ \A L : SentSince(q, L) /\ (Has(q, {"SWEEP"}) /\ m.id # 0 => m.id \in L) => SentSince(p, L)
Added(p, q, m) == AddedKinds(p, q, m) /\ AddedEmission(p, q, m) /\ AddedIds(p, q, m)

LEMMA AppendFacts ==
  ASSUME NEW S, NEW q \in Seq(S), NEW m \in S
  PROVE  Append(q, m) \in Seq(S) /\ Added(Append(q, m), q, m)
<1> DEFINE p == Append(q, m)
           n == Len(q) + 1
<1>1. /\ p \in Seq(S) /\ DOMAIN q \subseteq Nat /\ n \in Nat
      /\ DOMAIN p = DOMAIN q \cup {n}
      /\ \A k \in DOMAIN q : k < n /\ p[k] = q[k]
      /\ p[n] = m
  BY AppendAt
<1> HIDE DEF p, n
<1>2. \A K : /\ Has(p, K) <=> Has(q, K) \/ m.kind \in K
             /\ One(q, K) /\ ~(Has(q, K) /\ m.kind \in K) => One(p, K)
  BY <1>1 DEF Has, One
<1>3. \A M : All(q, M) /\ m \in M => All(p, M)
  BY <1>1 DEF All
<1>4. ReportFirst(q) /\ ~(m.kind = "REPORT" /\ Has(q, {"SEEN_GARBAGE"})) => ReportFirst(p)
  BY <1>1 DEF ReportFirst, Has
<1>5. /\ Emissions(p) = Emissions(q) \cup ({m.emission} \ {NoEmission})
      /\ Distinct(q) /\ m.emission \notin Emissions(q) => Distinct(p)
  BY <1>1 DEF Emissions, Distinct
<1>6. /\ \A kind, h : Names(p, kind, h) <=> Names(q, kind, h) \/ (m.kind = kind /\ m.handler = h)
      /\ \A i : Uses(p, i) <=> Uses(q, i) \/ m.id = i
      /\ \A i : Reported(p, i) <=> Reported(q, i) \/ i \in m.ids
  BY <1>1 DEF Names, Uses, Reported
<1>7. \A h, i : Spares(q, h, i) /\ ~(i \in m.ids /\ Names(q, "CONNECT", h)) => Spares(p, h, i)
  BY <1>1 DEF Spares, Names
<1>8. \A i : Spent(q, i) /\ ~(Reported(q, i) /\ m.id = i) => Spent(p, i)
  BY <1>1 DEF Spent, Reported
<1>9. \A L : SentSince(q, L) /\ (Has(q, {"SWEEP"}) /\ m.id # 0 => m.id \in L) => SentSince(p, L)
  BY <1>1 DEF SentSince, Has
<1> QED
  BY <1>1, <1>2, <1>3, <1>4, <1>5, <1>6, <1>7, <1>8, <1>9
     DEF p, Added, AddedKinds, AddedEmission, AddedIds

\* p is what is left of q when m is taken off its front.
TakenKinds(p, q, m) ==
  /\ \A K : Has(q, K) <=> Has(p, K) \/ m.kind \in K
  /\ \A K : One(q, K) => One(p, K) /\ ~(m.kind \in K /\ Has(p, K))
  /\ ReportFirst(q) => ReportFirst(p) /\ ~(m.kind = "SEEN_GARBAGE" /\ Has(p, {"REPORT"}))
TakenEmission(p, q, m) ==
  /\ Emissions(q) = Emissions(p) \cup ({m.emission} \ {NoEmission})
  /\ Distinct(q) => Distinct(p) /\ m.emission \notin Emissions(p)
TakenIds(p, q, m) ==
  /\ \A M : All(q, M) => All(p, M) /\ m \in M
  /\ \A kind, h : Names(q, kind, h) <=> Names(p, kind, h) \/ (m.kind = kind /\ m.handler = h)
  /\ \A i : Uses(q, i) <=> Uses(p, i) \/ m.id = i
  /\ \A i : Reported(q, i) <=> Reported(p, i) \/ i \in m.ids
  /\ \A h, i : Spares(q, h, i) =>
       Spares(p, h, i) /\ ~(m.kind = "CONNECT" /\ m.handler = h /\ Reported(p, i))
  /\ \A i : Spent(q, i) => Spent(p, i) /\ ~(i \in m.ids /\ Uses(p, i))
  /\ \A L : SentSince(q, L) => SentSince(p, L)
  /\ \A L, i : SentSince(q, L) /\ m.kind = "SWEEP" /\ i # 0 /\ Uses(p, i) => i \in L
Taken(p, q, m) == TakenKinds(p, q, m) /\ TakenEmission(p, q, m) /\ TakenIds(p, q, m)

LEMMA TailFacts ==
  ASSUME NEW S, NEW q \in Seq(S), q # <<>>
  PROVE  Tail(q) \in Seq(S) /\ Head(q) \in S /\ Taken(Tail(q), q, Head(q))
<1> DEFINE p == Tail(q)
           m == Head(q)
<1>1. /\ p \in Seq(S) /\ m \in S
      /\ DOMAIN q \subseteq Nat /\ DOMAIN p \subseteq Nat
      /\ 1 \in DOMAIN q /\ q[1] = m
      /\ \A k \in DOMAIN p : k + 1 \in DOMAIN q /\ k + 1 > 1 /\ p[k] = q[k + 1]
      /\ \A k \in DOMAIN q : k = 1 \/ (k - 1 \in DOMAIN p /\ k > 1 /\ q[k] = p[k - 1])
  BY TailAt
<1> HIDE DEF p, m
<1>2. ASSUME NEW K
      PROVE  /\ Has(q, K) <=> Has(p, K) \/ m.kind \in K
             /\ One(q, K) => One(p, K) /\ ~(m.kind \in K /\ Has(p, K))
  <2>1. Has(q, K) => Has(p, K) \/ m.kind \in K
    BY <1>1 DEF Has
  <2>2. Has(p, K) \/ m.kind \in K => Has(q, K)
    BY <1>1 DEF Has
  <2>3. ASSUME One(q, K) PROVE One(p, K)
    <3> SUFFICES ASSUME NEW j \in DOMAIN p, NEW k \in DOMAIN p, p[j].kind \in K, p[k].kind \in K
                 PROVE  j = k
      BY DEF One
    <3>1. j + 1 = k + 1
      BY <1>1, <2>3 DEF One
    <3> QED
      BY <1>1, <3>1
  <2>4. One(q, K) => ~(m.kind \in K /\ Has(p, K))
    BY <1>1 DEF One, Has
  <2> QED
    BY <2>1, <2>2, <2>3, <2>4
<1>3. \A M : All(q, M) => All(p, M) /\ m \in M
  BY <1>1 DEF All
<1>4. ReportFirst(q) => ReportFirst(p) /\ ~(m.kind = "SEEN_GARBAGE" /\ Has(p, {"REPORT"}))
  BY <1>1 DEF ReportFirst, Has
<1>5. /\ Emissions(q) = Emissions(p) \cup ({m.emission} \ {NoEmission})
      /\ Distinct(q) => Distinct(p) /\ m.emission \notin Emissions(p)
  <2>1. Emissions(q) \subseteq Emissions(p) \cup ({m.emission} \ {NoEmission})
    BY <1>1 DEF Emissions
  <2>2. Emissions(p) \cup ({m.emission} \ {NoEmission}) \subseteq Emissions(q)
    BY <1>1 DEF Emissions
  <2>3. ASSUME Distinct(q) PROVE Distinct(p)
    <3> SUFFICES ASSUME NEW j \in DOMAIN p, NEW k \in DOMAIN p,
                        p[j].emission = p[k].emission, p[j].emission # NoEmission
                 PROVE  j = k
      BY DEF Distinct
    <3>1. j + 1 = k + 1
      BY <1>1, <2>3 DEF Distinct
    <3> QED
      BY <1>1, <3>1
  <2>4. Distinct(q) => m.emission \notin Emissions(p)
    BY <1>1 DEF Distinct, Emissions
  <2> QED
    BY <2>1, <2>2, <2>3, <2>4
<1>6. /\ \A kind, h : Names(q, kind, h) <=> Names(p, kind, h) \/ (m.kind = kind /\ m.handler = h)
      /\ \A i : Uses(q, i) <=> Uses(p, i) \/ m.id = i
      /\ \A i : Reported(q, i) <=> Reported(p, i) \/ i \in m.ids
  BY <1>1 DEF Names, Uses, Reported
<1>7. \A h, i : Spares(q, h, i) =>
        Spares(p, h, i) /\ ~(m.kind = "CONNECT" /\ m.handler = h /\ Reported(p, i))
  BY <1>1 DEF Spares, Reported
<1>8. \A i : Spent(q, i) => Spent(p, i) /\ ~(i \in m.ids /\ Uses(p, i))
  BY <1>1 DEF Spent, Uses
<1>9. \A L : SentSince(q, L) => SentSince(p, L)
  BY <1>1 DEF SentSince
<1>10. \A L, i : SentSince(q, L) /\ m.kind = "SWEEP" /\ i # 0 /\ Uses(p, i) => i \in L
  BY <1>1 DEF SentSince, Uses
<1> QED
  BY <1>1, <1>2, <1>3, <1>4, <1>5, <1>6, <1>7, <1>8, <1>9, <1>10
     DEF p, m, Taken, TakenKinds, TakenEmission, TakenIds

\* Nothing is said of an empty queue.
LEMMA EmptyFacts ==
  /\ \A K : ~Has(<<>>, K) /\ One(<<>>, K)
  /\ \A M : All(<<>>, M)
  /\ ReportFirst(<<>>) /\ Emissions(<<>>) = {} /\ Distinct(<<>>)
  /\ \A kind, h : ~Names(<<>>, kind, h)
  /\ \A h, i : Spares(<<>>, h, i)
  /\ \A i : ~Reported(<<>>, i)
  /\ \A L : SentSince(<<>>, L)
<1>1. DOMAIN <<>> = {}
  OBVIOUS
<1> QED
  BY <1>1 DEF Has, One, All, ReportFirst, Emissions, Distinct, Names, Spares, Reported, SentSince

\* The fields of the messages that are sent.
MessagesOver(I) ==
  [kind : MessageKinds, id : I \cup {0}, obj : Object \cup {NoObject},
   handler : Handler \cup {NoHandler}, emission : Emission \cup {NoEmission},
   ids : SUBSET I, ok : BOOLEAN]

HasFields(m, I, kind, i, o, h, e, ids, ok) ==
  /\ m \in MessagesOver(I)
  /\ m.kind = kind /\ m.id = i /\ m.obj = o /\ m.handler = h
  /\ m.emission = e /\ m.ids = ids /\ m.ok = ok

LEMMA AboutFields ==
  ASSUME NEW I, NEW kind \in MessageKinds, NEW i \in I \cup {0}, NEW o \in Object \cup {NoObject},
         NEW h \in Handler \cup {NoHandler}, NEW e \in Emission \cup {NoEmission},
         NEW ids \in SUBSET I, NEW ok \in BOOLEAN
  PROVE  LET m == About(kind, i, o)
         IN /\ HasFields(m, I, kind, i, o, NoHandler, NoEmission, {}, TRUE)
            /\ HasFields([m EXCEPT !.handler = h], I, kind, i, o, h, NoEmission, {}, TRUE)
            /\ HasFields([m EXCEPT !.emission = e], I, kind, i, o, NoHandler, e, {}, TRUE)
            /\ HasFields([m EXCEPT !.handler = h, !.emission = e], I, kind, i, o, h, e, {}, TRUE)
            /\ HasFields([m EXCEPT !.ids = ids], I, kind, i, o, NoHandler, NoEmission, ids, TRUE)
            /\ HasFields([m EXCEPT !.ok = ok], I, kind, i, o, NoHandler, NoEmission, {}, ok)
BY DEF About, NoMessage, MessagesOver, HasFields

LEMMA MessagesAre == Messages = MessagesOver(Ids)
BY DEF Messages, MessagesOver

LEMMA Larger == \A q, K, L : SentSince(q, K) /\ K \subseteq L => SentSince(q, L)
BY DEF SentSince

\* What holds because no such message is in a queue.
LEMMA Vacuous ==
  /\ \A q, h, i : ~Names(q, "CONNECT", h) => Spares(q, h, i)
  /\ \A q, i : ~Reported(q, i) => Spent(q, i)
  /\ \A q, L : ~Has(q, {"SWEEP"}) => SentSince(q, L)
  /\ \A q, h : ~Has(q, Requests) => ~Names(q, "CONNECT", h) /\ ~Names(q, "DISCONNECT", h)
  /\ \A q, i : All(q, Sent) /\ Reported(q, i) => Has(q, {"REPORT"})
<1>1. \A q, i : All(q, Sent) /\ Reported(q, i) => Has(q, {"REPORT"})
  BY DEF All, Sent, Reported, Has
<1>2. \A q, h : ~Has(q, Requests) => ~Names(q, "CONNECT", h) /\ ~Names(q, "DISCONNECT", h)
  BY DEF Names, Has, Requests
<1> QED
  BY <1>1, <1>2 DEF Names, Spares, Reported, Spent, Has, SentSince

-----------------------------------------------------------------------------
(* The free list of the object map.                                          *)

\* next_index() takes one of its elements out.
LEMMA TakenOut ==
  ASSUME NEW S, NEW f \in Seq(S), IsInjective(f), NEW j \in 1 .. Len(f) - 1
  PROVE  LET g == Front([f EXCEPT ![j] = Last(f)])
         IN g \in Seq(S) /\ IsInjective(g) /\ ToSet(g) = ToSet(f) \ {f[j]}
<1> DEFINE n == Len(f)
           e == [f EXCEPT ![j] = Last(f)]
           g == Front(e)
<1>1. /\ n \in Nat /\ n >= 1 /\ DOMAIN f = 1 .. n /\ j \in 1 .. n /\ j # n /\ n \in 1 .. n
      /\ \A k \in 1 .. n : f[k] \in S
      /\ \A a, b \in 1 .. n : f[a] = f[b] => a = b
  BY LenProperties, ElementOfSeq DEF IsInjective
<1>2. Last(f) = f[n] /\ f[n] \in S
  BY <1>1 DEF Last
<1>3. /\ e \in Seq(S) /\ Len(e) = n
      /\ \A k \in 1 .. n : e[k] = IF k = j THEN f[n] ELSE f[k]
  BY <1>1, <1>2, ExceptSeq
<1>4. e # <<>>
  BY <1>1, <1>3, EmptySeq
<1> HIDE DEF e
<1>5. /\ g \in Seq(S) /\ DOMAIN g = 1 .. n - 1
      /\ \A k \in 1 .. n - 1 : g[k] = e[k]
  BY <1>3, <1>4, FrontProperties
<1> HIDE DEF g, n
<1>6. \A k \in 1 .. n - 1 : k \in 1 .. n /\ k # n /\ g[k] = IF k = j THEN f[n] ELSE f[k]
  BY <1>1, <1>3, <1>5
<1>7. IsInjective(g)
  <2> SUFFICES ASSUME NEW a \in 1 .. n - 1, NEW b \in 1 .. n - 1, g[a] = g[b]
               PROVE  a = b
    BY <1>5 DEF IsInjective
  <2>1. CASE a = j \/ b = j
    BY <2>1, <1>1, <1>6
  <2>2. CASE a # j /\ b # j
    BY <2>2, <1>1, <1>6
  <2> QED
    BY <2>1, <2>2
<1>8. ToSet(g) \subseteq ToSet(f) \ {f[j]}
  BY <1>1, <1>5, <1>6 DEF ToSet
<1>9. ASSUME NEW x \in ToSet(f) \ {f[j]}
      PROVE  x \in ToSet(g)
  <2>1. PICK k \in 1 .. n : x = f[k] /\ k # j
    BY <1>1 DEF ToSet
  <2>2. CASE k = n
    <3>1. j \in 1 .. n - 1 /\ g[j] = x
      BY <2>1, <2>2, <1>6 DEF n
    <3> QED
      BY <3>1, <1>5 DEF ToSet
  <2>3. CASE k # n
    <3>1. k \in 1 .. n - 1 /\ g[k] = x
      BY <2>1, <2>3, <1>1, <1>6
    <3> QED
      BY <3>1, <1>5 DEF ToSet
  <2> QED
    BY <2>2, <2>3
<1> QED
  BY <1>5, <1>7, <1>8, <1>9 DEF g, e, n

\* delete_orbid() adds others at its end.
LEMMA AddedToList ==
  ASSUME NEW S, NEW f \in Seq(S), NEW g \in Seq(S),
         IsInjective(f), IsInjective(g), ToSet(f) \cap ToSet(g) = {}
  PROVE  /\ f \o g \in Seq(S) /\ IsInjective(f \o g)
         /\ ToSet(f \o g) = ToSet(f) \cup ToSet(g)
<1> DEFINE m == Len(f)
           n == Len(g)
           p == f \o g
<1>1. /\ m \in Nat /\ n \in Nat /\ DOMAIN f = 1 .. m /\ DOMAIN g = 1 .. n
      /\ \A a, b \in 1 .. m : f[a] = f[b] => a = b
      /\ \A a, b \in 1 .. n : g[a] = g[b] => a = b
      /\ \A a \in 1 .. m, b \in 1 .. n : f[a] # g[b]
  BY LenProperties DEF IsInjective, ToSet
<1>2. /\ p \in Seq(S) /\ Len(p) = m + n
      /\ \A k \in 1 .. m + n : p[k] = IF k <= m THEN f[k] ELSE g[k - m]
  BY ConcatProperties
<1>3. DOMAIN p = 1 .. m + n
  BY <1>2, LenProperties
<1> HIDE DEF m, n, p
<1>4. IsInjective(p)
  <2> SUFFICES ASSUME NEW a \in 1 .. m + n, NEW b \in 1 .. m + n, p[a] = p[b]
               PROVE  a = b
    BY <1>3 DEF IsInjective
  <2>1. /\ a <= m => a \in 1 .. m /\ p[a] = f[a]
        /\ a > m => a - m \in 1 .. n /\ p[a] = g[a - m]
        /\ b <= m => b \in 1 .. m /\ p[b] = f[b]
        /\ b > m => b - m \in 1 .. n /\ p[b] = g[b - m]
    BY <1>1, <1>2
  <2> QED
    BY <2>1, <1>1
<1>5. ToSet(p) \subseteq ToSet(f) \cup ToSet(g)
  <2> SUFFICES ASSUME NEW k \in 1 .. m + n PROVE p[k] \in ToSet(f) \cup ToSet(g)
    BY <1>3 DEF ToSet
  <2>1. /\ k <= m => k \in 1 .. m /\ p[k] = f[k]
        /\ k > m => k - m \in 1 .. n /\ p[k] = g[k - m]
    BY <1>1, <1>2
  <2> QED
    BY <2>1, <1>1 DEF ToSet
<1>6. \A k \in 1 .. m : k \in 1 .. m + n /\ p[k] = f[k]
  BY <1>1, <1>2
<1>7. \A k \in 1 .. n : k + m \in 1 .. m + n /\ p[k + m] = g[k]
  BY <1>1, <1>2
<1>8. ToSet(f) \subseteq ToSet(p)
  BY <1>1, <1>3, <1>6 DEF ToSet
<1>9. ToSet(g) \subseteq ToSet(p)
  BY <1>1, <1>3, <1>7 DEF ToSet
<1> QED
  BY <1>2, <1>4, <1>5, <1>8, <1>9 DEF p

\* The order in which the last references of some ids go away names each once.
LEMMA OrderFacts ==
  ASSUME NEW S, NEW ids \in SUBSET S, IsFiniteSet(ids), NEW order \in SetToSeqs(ids)
  PROVE  order \in Seq(S) /\ IsInjective(order) /\ ToSet(order) = ids
<1> DEFINE n == Cardinality(ids)
<1>1. n \in Nat
  BY FS_CardinalityType
<1>2. /\ order \in [1 .. n -> ids]
      /\ \A i, j \in 1 .. n : i # j => order[i] # order[j]
  BY DEF SetToSeqs
<1> HIDE DEF n
<1>3. order \in Seq(S)
  <2>1. order \in [1 .. n -> S]
    BY <1>2
  <2> QED
    BY <2>1, <1>1, SeqDef
<1>4. IsInjective(order)
  BY <1>2 DEF IsInjective
<1>5. order \in Surjection(1 .. n, ids)
  <2>1. order \in Injection(1 .. n, ids)
    BY <1>2, Fun_IsInj
  <2>2. Cardinality(1 .. n) = n
    BY <1>1, FS_Interval
  <2> QED
    BY <2>1, <2>2, FS_Injection DEF n
<1>6. ToSet(order) = ids
  <2>1. \A x \in ids : \E k \in 1 .. n : order[k] = x
    BY <1>5 DEF Surjection
  <2>2. DOMAIN order = 1 .. n /\ \A k \in 1 .. n : order[k] \in ids
    BY <1>2
  <2> QED
    BY <2>1, <2>2 DEF ToSet
<1> QED
  BY <1>3, <1>4, <1>6

-----------------------------------------------------------------------------
(* The object map.                                                           *)

\* An instance that is sent has an entry, a new one where none was in use.
LEMMA AddInterfaceFacts ==
  ASSUME TypeOK, MapExact, NEW o \in Object, NEW i \in 1 .. Len(entries) + 1,
         AddInterface(o, i), sweep' = sweep
  PROVE  /\ entries' \in Seq(Object \cup {NoObject})
         /\ freeList' \in Seq(Ids')
         /\ Ids \subseteq Ids' /\ i \in Ids' /\ i # 0 /\ live' = live \cup {i}
         /\ entries'[i] = o
         /\ \A k \in Ids : entries[k] # NoObject => entries'[k] = entries[k]
         /\ \A k \in Ids' : k # i => k \in Ids /\ entries'[k] = entries[k]
         /\ MapExact'
<1>1. /\ entries \in Seq(Object \cup {NoObject}) /\ freeList \in Seq(Ids)
      /\ live \subseteq Ids /\ sweep \subseteq Ids
      /\ Ids = 1 .. Len(entries) /\ Len(entries) \in Nat
      /\ \A k \in Ids : entries[k] \in Object \cup {NoObject}
      /\ NoObject \notin Object
  BY RemoteAssumption, LenProperties, ElementOfSeq DEF TypeOK, Ids
<1>2. live' = live \cup {i} /\ Export(o, i)
  BY DEF AddInterface
<1>3. CASE IdOf(o) # {}
  <2>1. i \in Ids /\ entries[i] = o /\ entries' = entries /\ freeList' = freeList
    BY <1>2, <1>3 DEF Export, IdOf, mapVars, Ids
  <2>2. Ids' = Ids
    BY <2>1 DEF Ids
  <2>3. i \in live \cup sweep
    BY <2>1, <1>1 DEF MapExact
  <2>4. MapExact'
    BY <2>1, <2>2, <2>3, <1>2 DEF MapExact, IdOf, Ids
  <2> QED
    BY <2>1, <2>2, <2>4, <1>1, <1>2
<1>4. CASE IdOf(o) = {}
  <2>1. /\ NextIndex(i)
        /\ entries' = [k \in Ids \cup {i} |-> IF k = i THEN o ELSE entries[k]]
    BY <1>2, <1>4 DEF Export, Ids
  <2>2. /\ freeList' \in Seq(Ids) /\ IsInjective(freeList')
        /\ ToSet(freeList') = ToSet(freeList) \ {i}
        /\ (i = Len(entries) + 1 \/ (i \in Ids /\ entries[i] = NoObject))
    <3>1. CASE Len(freeList) > FreeLength
      <4>1. PICK j \in 1 .. Len(freeList) - 1 :
              i = freeList[j] /\ freeList' = Front([freeList EXCEPT ![j] = Last(freeList)])
        BY <2>1, <3>1 DEF NextIndex
      <4>2. /\ freeList' \in Seq(Ids) /\ IsInjective(freeList')
            /\ ToSet(freeList') = ToSet(freeList) \ {i}
        BY <4>1, <1>1, TakenOut DEF MapExact
      <4>3. Len(freeList) \in Nat /\ DOMAIN freeList = 1 .. Len(freeList)
        BY <1>1, LenProperties
      <4>4. j \in DOMAIN freeList
        BY <4>3
      <4>5. i \in ToSet(freeList)
        BY <4>1, <4>4 DEF ToSet
      <4>6. i \in Ids /\ entries[i] = NoObject
        BY <4>5 DEF MapExact, IdOf, Ids
      <4> QED
        BY <4>2, <4>6
    <3>2. CASE ~(Len(freeList) > FreeLength)
      <4>1. i = Len(entries) + 1 /\ freeList' = freeList
        BY <2>1, <3>2 DEF NextIndex
      <4>2. ToSet(freeList) \subseteq Ids
        BY DEF MapExact, IdOf, Ids
      <4>3. i \notin Ids
        BY <4>1, <1>1
      <4> QED
        BY <4>1, <4>2, <4>3, <1>1 DEF MapExact
    <3> QED
      BY <3>1, <3>2
  <2>3. Ids \cup {i} = 1 .. Len(entries) \/ Ids \cup {i} = 1 .. Len(entries) + 1
    BY <2>2, <1>1
  <2>4. /\ Ids' = Ids \cup {i} /\ entries'[i] = o
        /\ \A k \in Ids' : k # i => entries'[k] = entries[k]
    BY <2>1 DEF Ids
  <2>5. entries' \in Seq(Object \cup {NoObject})
    <3>1. entries' \in [Ids \cup {i} -> Object \cup {NoObject}]
      BY <2>1, <1>1
    <3>2. /\ Len(entries) \in Nat /\ Len(entries) + 1 \in Nat
          /\ \A n \in Nat : [1 .. n -> Object \cup {NoObject}] \subseteq Seq(Object \cup {NoObject})
      BY <1>1, SeqDef
    <3> QED
      BY <3>1, <3>2, <2>3
  <2>6. freeList' \in Seq(Ids')
    BY <2>2, <2>4, SeqMonotonic
  <2>7. \A k \in Ids : entries[k] # NoObject => k # i
    BY <2>2, <1>1
  <2>8. MapExact'
    <3>1. \A k \in Ids' : (entries[k] # NoObject <=> k \in live \cup sweep) \/ k = i
      BY <2>4 DEF MapExact
    <3>2. \A k \in Ids' : entries'[k] # NoObject <=> k \in (live \cup {i}) \cup sweep
      BY <3>1, <2>4, <2>7, <1>1
    <3>3. \A j, k \in Ids' : entries'[j] = entries'[k] /\ entries'[j] # NoObject => j = k
      BY <2>4, <1>4 DEF MapExact, IdOf, Ids
    <3>4. ToSet(freeList') = IdOf(NoObject)'
      <4>1. IdOf(NoObject)' = {k \in Ids' : entries'[k] = NoObject}
        BY DEF IdOf, Ids
      <4>2. ToSet(freeList) = {k \in Ids : entries[k] = NoObject}
        BY DEF MapExact, IdOf, Ids
      <4>3. \A k : k \in ToSet(freeList) \ {i} <=> k \in Ids' /\ entries'[k] = NoObject
        BY <4>2, <2>4, <1>1
      <4> QED
        BY <4>1, <4>3, <2>2
    <3> QED
      BY <3>2, <3>3, <3>4, <2>2, <1>2 DEF MapExact
  <2>9. i # 0
    BY <1>1
  <2> QED
    BY <2>4, <2>5, <2>6, <2>7, <2>8, <2>9, <1>2
<1> QED
  BY <1>3, <1>4

\* A report purges what it names and what was not sent since the sweep began.
LEMMA PurgeFacts ==
  ASSUME TypeOK, MapExact, NEW trash,
         live' = Retained(trash), DeleteOrbids((live \cup sweep) \ live'), sweep' = {}
  PROVE  /\ entries' \in Seq(Object \cup {NoObject}) /\ freeList' \in Seq(Ids')
         /\ Ids' = Ids /\ live' \subseteq Ids
         /\ \A k \in Ids : entries'[k] = IF k \in (sweep \ live) /\ k \in trash THEN NoObject ELSE entries[k]
         /\ MapExact'
<1> DEFINE ids == (live \cup sweep) \ live'
<1>1. /\ entries \in Seq(Object \cup {NoObject}) /\ freeList \in Seq(Ids)
      /\ live \subseteq Ids /\ sweep \subseteq Ids
      /\ Ids = 1 .. Len(entries) /\ Len(entries) \in Nat
      /\ \A k \in Ids : entries[k] \in Object \cup {NoObject}
      /\ NoObject \notin Object
  BY RemoteAssumption, LenProperties, ElementOfSeq DEF TypeOK, Ids
<1>2. /\ live' = live \cup (sweep \ trash)
      /\ \A k : k \in ids <=> k \in (sweep \ live) /\ k \in trash
      /\ ids \in SUBSET Ids
  BY <1>1 DEF Retained
<1>3. IsFiniteSet(ids)
  <2>1. IsFiniteSet(Ids)
    <3>1. 1 \in Int /\ Len(entries) \in Int
      BY <1>1
    <3>2. IsFiniteSet(1 .. Len(entries))
      BY <3>1, FS_Interval, Zenon
    <3> QED
      BY <1>1, <3>2, Zenon
  <2> QED
    BY <2>1, <1>2, FS_Subset
<1>4. PICK order \in SetToSeqs(ids) : freeList' = freeList \o order
  BY DEF DeleteOrbids
<1>5. entries' = [k \in Ids |-> IF k \in ids THEN NoObject ELSE entries[k]]
  BY DEF DeleteOrbids, Ids
<1> HIDE DEF ids
<1>6. order \in Seq(Ids) /\ IsInjective(order) /\ ToSet(order) = ids
  BY <1>2, <1>3, <1>4, OrderFacts
<1>7. ToSet(freeList) = {k \in Ids : entries[k] = NoObject} /\ IsInjective(freeList)
  BY DEF MapExact, IdOf, Ids
<1>8. \A k \in ids : entries[k] # NoObject
  BY <1>1, <1>2 DEF MapExact
<1>9. ToSet(freeList) \cap ToSet(order) = {}
  BY <1>6, <1>7, <1>8
<1>10. /\ freeList' \in Seq(Ids) /\ IsInjective(freeList')
       /\ ToSet(freeList') = {k \in Ids : entries[k] = NoObject} \cup ids
  BY <1>1, <1>4, <1>6, <1>7, <1>9, AddedToList
<1>11. /\ Ids' = Ids
       /\ \A k \in Ids : entries'[k] = IF k \in ids THEN NoObject ELSE entries[k]
  BY <1>5 DEF Ids
<1>12. entries' \in Seq(Object \cup {NoObject})
  <2>1. entries' \in [1 .. Len(entries) -> Object \cup {NoObject}]
    BY <1>1, <1>5
  <2> QED
    BY <2>1, <1>1, SeqDef
<1>13. MapExact'
  <2>1. \A k \in Ids : entries'[k] # NoObject <=> k \in live'
    BY <1>1, <1>2, <1>11 DEF MapExact
  <2>2. \A j, k \in Ids : entries'[j] = entries'[k] /\ entries'[j] # NoObject => j = k
    BY <1>11 DEF MapExact
  <2>3. IdOf(NoObject)' = {k \in Ids : entries'[k] = NoObject}
    BY <1>11 DEF IdOf, Ids
  <2>4. {k \in Ids : entries[k] = NoObject} \cup ids = {k \in Ids : entries'[k] = NoObject}
    BY <1>2, <1>11
  <2> QED
    BY <2>1, <2>2, <2>3, <2>4, <1>10, <1>11 DEF MapExact
<1> QED
  BY <1>1, <1>2, <1>10, <1>11, <1>12, <1>13

-----------------------------------------------------------------------------
(* The steps.                                                                *)

LEMMA Typing ==
  ASSUME TypeOK
  PROVE  /\ toServer \in Seq(Messages) /\ toClient \in Seq(Messages) /\ eventQueue \in Seq(Messages)
         /\ Ids = 1 .. Len(entries) /\ Len(entries) \in Nat /\ 0 \notin Ids
         /\ \A i \in Ids : entries[i] \in Object \cup {NoObject}
         /\ NoObject \notin Object /\ NoHandler \notin Handler /\ NoEmission \notin Emission
<1>1. Ids = 1 .. Len(entries) /\ Len(entries) \in Nat
  BY LenProperties DEF TypeOK, Ids
<1>2. \A i \in Ids : entries[i] \in Object \cup {NoObject}
  BY <1>1, ElementOfSeq DEF TypeOK
<1>3. 0 \notin Ids
  BY <1>1
<1> QED
  BY <1>1, <1>2, <1>3, RemoteAssumption DEF TypeOK

LEMMA InitInv == Init => IInv
<1> SUFFICES ASSUME Init PROVE IInv
  OBVIOUS
<1>1. /\ DOMAIN entries = {} /\ DOMAIN denotes = {} /\ DOMAIN freeList = {}
      /\ \A S : <<>> \in Seq(S)
  BY EmptySeq DEF Init
<1>2. TypeOK
  BY <1>1 DEF Init, TypeOK, Ids
<1>3. MessagesTyped /\ OneCollection /\ OneRequest /\ OneEmission
  BY EmptyFacts DEF Init, MessagesTyped, OneCollection, OneRequest, OneEmission
<1>4. MapExact
  BY <1>1 DEF Init, MapExact, Ids, IsInjective, ToSet, IdOf
<1>5. EmittersStay
  BY EmptyFacts DEF Init, EmittersStay, Connected
<1>6. InOrder
  BY <1>1, EmptyFacts DEF Init, InOrder, UnderWay, Alive, GivenAway, Ids
<1> QED
  BY <1>2, <1>3, <1>4, <1>5, <1>6 DEF Init, IInv

\* A step that lets the object map be, or adds to it.
Grown ==
  /\ entries' \in Seq(Object \cup {NoObject}) /\ freeList' \in Seq(Ids')
  /\ Ids \subseteq Ids' /\ live \subseteq live' /\ live' \subseteq Ids'
  /\ sweep' = sweep /\ sweeping' = sweeping
  /\ \A k \in Ids : entries[k] # NoObject => entries'[k] = entries[k]
  /\ MapExact'

LEMMA UnchangedIsGrown ==
  ASSUME TypeOK, MapExact, UNCHANGED <<entries, freeList, live, sweep, sweeping>>
  PROVE  Grown /\ Ids' = Ids /\ Messages' = Messages
<1>1. Ids' = Ids
  BY DEF Ids
<1> QED
  BY <1>1 DEF Grown, TypeOK, MapExact, IdOf, Ids, Messages

LEMMA AddedIsGrown ==
  ASSUME TypeOK, MapExact, NEW o \in Object, NEW i \in 1 .. Len(entries) + 1,
         AddInterface(o, i), sweep' = sweep, sweeping' = sweeping
  PROVE  Grown /\ i \in Ids' /\ i \in live' /\ i # 0 /\ entries'[i] = o /\ live' = live \cup {i}
<1>1. live \subseteq Ids
  BY DEF TypeOK
<1> QED
  BY <1>1, AddInterfaceFacts DEF Grown

\* Messages under way remain what they were.
LEMMA GrownFacts ==
  ASSUME TypeOK, Grown
  PROVE  /\ Messages \subseteq Messages'
         /\ \A q \in Seq(Messages) : q \in Seq(Messages')
         /\ \A q : All(q, Received) => All(q, Received')
         /\ UNCHANGED <<slot, remote, calling>> => \A q : All(q, Sent) => All(q, Sent')
         /\ \A q : All(q, Received) /\ All(q, Resolved) => All(q, Resolved')
         /\ \A q : All(q, Sent) /\ All(q, Resolved) => All(q, Resolved')
<1>1. Messages \subseteq Messages'
  <2>1. Ids \subseteq Ids'
    BY DEF Grown
  <2> QED
    BY <2>1 DEF Messages
<1>2. \A q \in Seq(Messages) : q \in Seq(Messages')
  BY <1>1, SeqMonotonic
<1>3. Received \subseteq Received'
  BY <1>1 DEF Received
<1>4. UNCHANGED <<slot, remote, calling>> => Sent \subseteq Sent'
  BY <1>1 DEF Sent
<1>5. Received \cap Resolved \subseteq Resolved'
  <2> SUFFICES ASSUME NEW m \in Received, m \in Resolved PROVE m \in Resolved'
    OBVIOUS
  <2>1. m \in Messages'
    BY <1>1 DEF Resolved
  <2>2. ASSUME m.id # 0 PROVE m.id \in Ids' /\ entries'[m.id] = m.obj
    <3>1. m.obj \in Object /\ m.id \in Ids /\ entries[m.id] = m.obj
      BY <2>2 DEF Received, Resolved
    <3> QED
      BY <3>1, RemoteAssumption DEF Grown
  <2> QED
    BY <2>1, <2>2 DEF Resolved
<1>6. Sent \cap Resolved \subseteq Resolved'
  <2> SUFFICES ASSUME NEW m \in Sent, m \in Resolved PROVE m \in Resolved'
    OBVIOUS
  <2>1. m \in Messages'
    BY <1>1 DEF Resolved
  <2>2. ASSUME m.id # 0 PROVE m.id \in Ids' /\ entries'[m.id] = m.obj
    <3>1. m.obj \in Object /\ m.id \in Ids /\ entries[m.id] = m.obj
      BY <2>2 DEF Sent, Resolved
    <3> QED
      BY <3>1, RemoteAssumption DEF Grown
  <2> QED
    BY <2>1, <2>2 DEF Resolved
<1> QED
  BY <1>1, <1>2, <1>3, <1>4, <1>5, <1>6 DEF All

\* What the client has handles for remains exported.
LEMMA HeldFacts ==
  ASSUME TypeOK, Grown
  PROVE  /\ Alive(handles, remote) \subseteq DOMAIN denotes
         /\ DOMAIN denotes \subseteq Ids
         /\ \A i \in DOMAIN denotes : entries[i] = denotes[i] => entries'[i] = denotes[i]
<1>1. Alive(handles, remote) \subseteq DOMAIN denotes
  BY DEF Alive, TypeOK
<1>2. /\ DOMAIN denotes \subseteq Ids
      /\ \A i \in DOMAIN denotes : denotes[i] \in Object
  BY DEF TypeOK
<1>3. \A i \in DOMAIN denotes : entries[i] = denotes[i] => entries'[i] = denotes[i]
  BY <1>2, RemoteAssumption DEF Grown
<1> QED
  BY <1>1, <1>2, <1>3

\* A handler that is connected has the id of its emitter.
LEMMA EmitterFacts ==
  ASSUME TypeOK, MessagesTyped, NEW h \in Handler, Connected(h)
  PROVE  remote[h] \in Alive(handles, remote) /\ remote[h] \in Ids /\ remote[h] # 0
<1>1. remote[h] # 0
  <2>1. CASE slot[h] = "set"
    BY <2>1 DEF MessagesTyped
  <2>2. CASE Names(toServer, "DISCONNECT", h)
    <3>1. PICK k \in DOMAIN toServer : toServer[k].kind = "DISCONNECT" /\ toServer[k].handler = h
      BY <2>2 DEF Names
    <3>2. toServer[k] \in Sent
      BY DEF MessagesTyped, All
    <3> QED
      BY <3>1, <3>2 DEF Sent
  <2> QED
    BY <2>1, <2>2 DEF Connected
<1> QED
  BY <1>1 DEF TypeOK, Alive

LEMMA EmittersKept ==
  ASSUME TypeOK, MessagesTyped, EmittersStay, Grown, UNCHANGED <<signalOf, remote>>,
         failed' = "no" => failed = "no",
         \A h \in Handler : Connected(h)' => Connected(h),
         \A i : Reported(toServer', i) => Reported(toServer, i),
         \A h, i : Spares(toServer, h, i) => Spares(toServer', h, i)
  PROVE  EmittersStay'
<1> SUFFICES ASSUME failed' = "no", NEW h \in Handler
             PROVE  /\ Connected(h)' => /\ entries'[remote[h]] = signalOf[h] /\ signalOf[h] # NoObject
                                        /\ ~Reported(toServer', remote[h])
                    /\ Spares(toServer', h, remote[h])
  BY DEF EmittersStay
<1>1. ASSUME Connected(h)'
      PROVE  /\ entries'[remote[h]] = signalOf[h] /\ signalOf[h] # NoObject
             /\ ~Reported(toServer', remote[h])
  <2>1. /\ entries[remote[h]] = signalOf[h] /\ signalOf[h] # NoObject
        /\ ~Reported(toServer, remote[h])
    BY <1>1 DEF EmittersStay
  <2>2. remote[h] \in Ids
    BY <1>1, EmitterFacts
  <2> QED
    BY <2>1, <2>2 DEF Grown
<1>2. Spares(toServer', h, remote[h])
  BY DEF EmittersStay
<1> QED
  BY <1>1, <1>2

\* The client sends a message that is no report, request for a collection or
\* result of an emission, about something it has a handle for.
LEMMA ClientSends ==
  ASSUME IInv, NEW m \in Messages, toServer' = Append(toServer, m),
         UNCHANGED <<entries, freeList, live, sweep, sweeping, answering, denotes, seenGarbage,
                     eventQueue, toClient, overtaken>>,
         Alive(handles, remote)' = Alive(handles, remote),
         m.kind \notin {"REPORT", "SEEN_GARBAGE"}, m.emission = NoEmission, m.ids = {},
         m.id # 0 => m.id \in Alive(handles, remote) /\ m.obj = denotes[m.id]
  PROVE  /\ toServer' \in Seq(Messages) /\ Added(toServer', toServer, m)
         /\ Grown /\ MapExact' /\ OneCollection' /\ OneEmission' /\ InOrder'
<1>1. /\ TypeOK /\ MapExact /\ MessagesTyped /\ OneCollection /\ OneEmission /\ InOrder
      /\ toServer \in Seq(Messages)
  BY Typing DEF IInv
<1>2. toServer' \in Seq(Messages) /\ Added(toServer', toServer, m)
  BY <1>1, AppendFacts
<1>3. Grown /\ MapExact' /\ Ids' = Ids /\ Messages' = Messages
  BY <1>1, UnchangedIsGrown DEF Grown
<1>4. OneCollection'
  BY <1>1, <1>2 DEF OneCollection, Added, AddedKinds
<1>5. OneEmission'
  <2>1. NoEmission \notin Emissions(toServer)
    BY DEF Emissions
  <2> QED
    BY <1>1, <1>2, <2>1 DEF OneEmission, Added, AddedEmission
<1>6. InOrder'
  <2> SUFFICES ASSUME ~overtaken PROVE UnderWay'
    BY DEF InOrder
  <2>1. UnderWay
    BY <1>1 DEF InOrder
  <2>2. m \in Resolved
    <3>1. m.id # 0 => m.id \in Ids /\ entries[m.id] = m.obj
      BY <1>1, <1>3, <2>1, HeldFacts DEF UnderWay
    <3> QED
      BY <3>1 DEF Resolved
  <2>3. Resolved' = Resolved
    BY <1>3 DEF Resolved
  <2>4. All(toServer', Resolved)
    BY <1>2, <2>1, <2>2 DEF UnderWay, Added, AddedIds
  <2>5. ASSUME NEW i \in Ids, GivenAway(i)'
        PROVE  GivenAway(i) /\ Spent(toServer', i)
    <3>1. GivenAway(i)
      BY <1>2, <2>5 DEF GivenAway, Added, AddedIds
    <3>2. m.id # i
      BY <1>1, <2>1, <2>5, <3>1, Typing DEF UnderWay
    <3> QED
      BY <1>2, <2>1, <3>1, <3>2 DEF UnderWay, Added, AddedIds
  <2> QED
    BY <1>3, <2>1, <2>3, <2>4, <2>5 DEF UnderWay
<1> QED
  BY <1>2, <1>3, <1>4, <1>5, <1>6

LEMMA HelloInv == IInv /\ Hello => IInv'
<1> SUFFICES ASSUME IInv, Hello PROVE IInv'
  OBVIOUS
<1> DEFINE m == About("HELLO", 0, NoObject)
<1>1. /\ failed = "no" /\ phase = "start" /\ phase' = "WELCOME" /\ toServer' = Append(toServer, m)
      /\ UNCHANGED <<entries, freeList, live, sweep, sweeping, signalOf, answering, denotes,
                     handles, remote, seenGarbage, slot, eventQueue, calling, toClient,
                     failed, overtaken>>
  BY DEF Hello, Post, serverVars, mapVars, sweepVars, handleVars, ghostVars
<1>2. TypeOK /\ MessagesTyped /\ OneRequest /\ EmittersStay /\ failed # "emission"
  BY DEF IInv
<1>3. HasFields(m, Ids, "HELLO", 0, NoObject, NoHandler, NoEmission, {}, TRUE)
  BY AboutFields DEF MessageKinds
<1> HIDE DEF m
<1>4. m \in Messages
  BY <1>3, MessagesAre DEF HasFields
<1>5. Alive(handles, remote)' = Alive(handles, remote)
  BY <1>1 DEF Alive
<1>6. /\ toServer' \in Seq(Messages) /\ Added(toServer', toServer, m)
      /\ Grown /\ MapExact' /\ OneCollection' /\ OneEmission' /\ InOrder'
  BY <1>1, <1>3, <1>4, <1>5, ClientSends DEF HasFields
<1>7. Ids' = Ids /\ Messages' = Messages /\ Sent' = Sent /\ Received' = Received
  BY <1>1 DEF Ids, Messages, Sent, Received
<1>8. TypeOK'
  BY <1>1, <1>2, <1>6, <1>7 DEF TypeOK
<1>9. MessagesTyped'
  <2>1. m \in Sent
    BY <1>3, <1>4 DEF HasFields, Sent
  <2> QED
    BY <1>1, <1>2, <1>6, <1>7, <2>1 DEF MessagesTyped, Added, AddedIds
<1>10. OneRequest'
  BY <1>1, <1>2, <1>3, <1>6 DEF OneRequest, Added, AddedKinds, HasFields
<1>11. EmittersStay'
  BY <1>1, <1>2, <1>3, <1>6, EmittersKept DEF HasFields, Added, AddedIds, Connected
<1> QED
  BY <1>1, <1>2, <1>6, <1>8, <1>9, <1>10, <1>11 DEF IInv

LEMMA CallInv == ASSUME IInv, NEW i \in handles, Call(i) PROVE IInv'
<1>1. PICK kind \in {"CALL_TWOWAY", "CALL_ONEWAY"} :
        /\ toServer' = Append(toServer, About(kind, i, denotes[i]))
        /\ kind = "CALL_TWOWAY" => phase' = "CALL_RESULT"
        /\ kind = "CALL_ONEWAY" => phase' = phase
  <2>1. CASE phase' = "CALL_RESULT" /\ toServer' = Append(toServer, About("CALL_TWOWAY", i, denotes[i]))
    BY <2>1
  <2>2. CASE phase' = phase /\ toServer' = Append(toServer, About("CALL_ONEWAY", i, denotes[i]))
    BY <2>2
  <2> QED
    BY <2>1, <2>2 DEF Call, Post
<1> DEFINE m == About(kind, i, denotes[i])
<1>2. /\ failed = "no" /\ phase = "app" /\ toServer' = Append(toServer, m)
      /\ UNCHANGED <<entries, freeList, live, sweep, sweeping, signalOf, answering, denotes,
                     handles, remote, seenGarbage, slot, eventQueue, calling, toClient,
                     failed, overtaken>>
  BY <1>1 DEF Call, InApp, serverVars, mapVars, sweepVars, handleVars, ghostVars
<1>3. TypeOK /\ MessagesTyped /\ OneRequest /\ EmittersStay
  BY DEF IInv
<1>4. i \in Ids /\ i # 0 /\ denotes[i] \in Object /\ i \in Alive(handles, remote)
  BY <1>3, Typing DEF TypeOK, Alive
<1>5. HasFields(m, Ids, kind, i, denotes[i], NoHandler, NoEmission, {}, TRUE)
  <2>1. kind \in MessageKinds /\ i \in Ids \cup {0} /\ denotes[i] \in Object \cup {NoObject}
    BY <1>4 DEF MessageKinds
  <2> QED
    BY <2>1, AboutFields
<1> HIDE DEF m
<1>6. m \in Messages
  BY <1>5, MessagesAre DEF HasFields
<1>7. Alive(handles, remote)' = Alive(handles, remote)
  BY <1>2 DEF Alive
<1>8. /\ toServer' \in Seq(Messages) /\ Added(toServer', toServer, m)
      /\ Grown /\ MapExact' /\ OneCollection' /\ OneEmission' /\ InOrder'
  BY <1>2, <1>4, <1>5, <1>6, <1>7, ClientSends DEF HasFields
<1>9. Ids' = Ids /\ Messages' = Messages /\ Sent' = Sent /\ Received' = Received
  BY <1>2 DEF Ids, Messages, Sent, Received
<1>10. TypeOK'
  BY <1>1, <1>2, <1>3, <1>8, <1>9 DEF TypeOK
<1>11. MessagesTyped'
  <2>1. m \in Sent
    BY <1>4, <1>5, <1>6 DEF HasFields, Sent
  <2> QED
    BY <1>2, <1>3, <1>8, <1>9, <2>1 DEF MessagesTyped, Added, AddedIds
<1>12. OneRequest'
  BY <1>1, <1>2, <1>3, <1>5, <1>8 DEF OneRequest, Requests, Added, AddedKinds, HasFields
<1>13. EmittersStay'
  BY <1>2, <1>3, <1>5, <1>8, EmittersKept DEF HasFields, Added, AddedIds, Connected
<1> QED
  BY <1>2, <1>8, <1>10, <1>11, <1>12, <1>13 DEF IInv

\* While no request is under way, what is said about handlers may change.
LEMMA QuietHandlers ==
  ASSUME MessagesTyped, ~Has(toServer, Requests), Messages' = Messages
  PROVE  All(toServer, Sent')
<1> SUFFICES ASSUME NEW k \in DOMAIN toServer PROVE toServer[k] \in Sent'
  BY DEF All
<1>1. toServer[k] \in Sent /\ toServer[k].kind \notin Requests
  BY DEF MessagesTyped, All, Has
<1> QED
  BY <1>1 DEF Sent, Requests

LEMMA SignalConnectInv ==
  ASSUME IInv, NEW h \in Handler, NEW i \in handles, SignalConnect(h, i)
  PROVE  IInv'
<1> DEFINE m == [About("CONNECT", i, denotes[i]) EXCEPT !.handler = h]
<1>1. /\ failed = "no" /\ phase = "app" /\ phase' = "CONNECT_RESULT" /\ slot[h] = "unused"
      /\ slot' = [slot EXCEPT ![h] = "set"] /\ remote' = [remote EXCEPT ![h] = i]
      /\ toServer' = Append(toServer, m)
      /\ UNCHANGED <<entries, freeList, live, sweep, sweeping, signalOf, answering, denotes,
                     handles, seenGarbage, eventQueue, calling, toClient, failed, overtaken>>
  BY DEF SignalConnect, InApp, Post, serverVars, mapVars, sweepVars, ghostVars
<1>2. TypeOK /\ MessagesTyped /\ OneRequest /\ EmittersStay
  BY DEF IInv
<1>3. i \in Ids /\ i # 0 /\ i \in DOMAIN denotes /\ denotes[i] \in Object
  BY <1>2, Typing DEF TypeOK
<1>4. HasFields(m, Ids, "CONNECT", i, denotes[i], h, NoEmission, {}, TRUE)
  <2>1. "CONNECT" \in MessageKinds /\ i \in Ids \cup {0} /\ denotes[i] \in Object \cup {NoObject}
    BY <1>3 DEF MessageKinds
  <2> QED
    BY <2>1, AboutFields
<1> HIDE DEF m
<1>5. m \in Messages
  BY <1>4, MessagesAre DEF HasFields
<1>6. /\ slot'[h] = "set" /\ remote'[h] = i /\ remote[h] = 0
      /\ \A g \in Handler : g # h => slot'[g] = slot[g] /\ remote'[g] = remote[g]
  BY <1>1, <1>2 DEF TypeOK, MessagesTyped
<1>7. Alive(handles, remote)' = Alive(handles, remote) /\ i \in Alive(handles, remote)
  BY <1>1, <1>3, <1>6 DEF Alive
<1>8. /\ toServer' \in Seq(Messages) /\ Added(toServer', toServer, m)
      /\ Grown /\ MapExact' /\ OneCollection' /\ OneEmission' /\ InOrder'
  BY <1>1, <1>4, <1>5, <1>7, ClientSends DEF HasFields
<1>9. Ids' = Ids /\ Messages' = Messages /\ Received' = Received
  BY <1>1 DEF Ids, Messages, Received
<1>10. TypeOK'
  BY <1>1, <1>2, <1>3, <1>8, <1>9 DEF TypeOK
<1>11. /\ ~Has(toServer, Requests)
       /\ \A g : ~Names(toServer, "CONNECT", g) /\ ~Names(toServer, "DISCONNECT", g)
  BY <1>1, <1>2, Vacuous DEF OneRequest
<1>12. MessagesTyped'
  <2>1. m \in Sent'
    BY <1>3, <1>4, <1>5, <1>6, <1>9 DEF HasFields, Sent
  <2>2. All(toServer, Sent')
    BY <1>2, <1>9, <1>11, QuietHandlers
  <2>3. All(toServer', Sent')
    BY <1>8, <2>1, <2>2 DEF Added, AddedIds
  <2>4. calling' # NoHandler => slot'[calling'] = "null"
    BY <1>1, <1>2 DEF MessagesTyped, TypeOK
  <2>5. \A g \in Handler : /\ slot'[g] = "set" => remote'[g] # 0
                           /\ slot'[g] = "unused" => remote'[g] = 0
    BY <1>2, <1>3, <1>6 DEF MessagesTyped
  <2> QED
    BY <1>1, <1>2, <1>9, <2>3, <2>4, <2>5 DEF MessagesTyped
<1>13. OneRequest'
  BY <1>1, <1>2, <1>4, <1>8 DEF OneRequest, Added, AddedKinds, HasFields
<1>14. EmittersStay'
  <2> SUFFICES ASSUME NEW g \in Handler
               PROVE  /\ Connected(g)' => /\ entries'[remote'[g]] = signalOf'[g] /\ signalOf'[g] # NoObject
                                          /\ ~Reported(toServer', remote'[g])
                      /\ Spares(toServer', g, remote'[g])
    BY DEF EmittersStay
  <2>1. Spares(toServer', g, remote'[g])
    BY <1>4, <1>8, <1>11, Vacuous DEF Added, AddedIds, HasFields
  <2>2. ASSUME Connected(g)' PROVE g # h /\ Connected(g)
    BY <2>2, <1>4, <1>6, <1>8, <1>11 DEF Connected, Added, AddedIds, HasFields
  <2>3. ASSUME Connected(g)' PROVE ~Reported(toServer', remote[g])
    BY <2>2, <2>3, <1>1, <1>2, <1>4, <1>8 DEF EmittersStay, Added, AddedIds, HasFields
  <2> QED
    BY <1>1, <1>2, <1>6, <2>1, <2>2, <2>3 DEF EmittersStay
<1> QED
  BY <1>1, <1>8, <1>10, <1>12, <1>13, <1>14 DEF IInv

LEMMA SignalDisconnectInv ==
  ASSUME IInv, NEW h \in Handler, SignalDisconnect(h)
  PROVE  IInv'
<1> DEFINE m == [About("DISCONNECT", remote[h], denotes[remote[h]]) EXCEPT !.handler = h]
<1>1. /\ failed = "no" /\ phase = "app" /\ phase' = "CONNECT_RESULT" /\ slot[h] = "set"
      /\ slot' = [slot EXCEPT ![h] = "null"] /\ calling' = h
      /\ toServer' = Append(toServer, m)
      /\ UNCHANGED <<entries, freeList, live, sweep, sweeping, signalOf, answering, denotes,
                     handles, remote, seenGarbage, eventQueue, toClient, failed, overtaken>>
  BY DEF SignalDisconnect, InApp, Post, serverVars, mapVars, sweepVars, handleVars, ghostVars
<1>2. TypeOK /\ MessagesTyped /\ OneRequest /\ EmittersStay
  BY DEF IInv
<1>3. /\ remote[h] \in Ids /\ remote[h] # 0 /\ denotes[remote[h]] \in Object
      /\ remote[h] \in Alive(handles, remote)
  BY <1>1, <1>2, Typing DEF TypeOK, MessagesTyped, Alive
<1>4. HasFields(m, Ids, "DISCONNECT", remote[h], denotes[remote[h]], h, NoEmission, {}, TRUE)
  <2>1. /\ "DISCONNECT" \in MessageKinds /\ remote[h] \in Ids \cup {0}
        /\ denotes[remote[h]] \in Object \cup {NoObject}
    BY <1>3 DEF MessageKinds
  <2> QED
    BY <2>1, AboutFields
<1> HIDE DEF m
<1>5. m \in Messages
  BY <1>4, MessagesAre DEF HasFields
<1>6. slot'[h] = "null" /\ \A g \in Handler : g # h => slot'[g] = slot[g]
  BY <1>1, <1>2 DEF TypeOK
<1>7. Alive(handles, remote)' = Alive(handles, remote)
  BY <1>1 DEF Alive
<1>8. /\ toServer' \in Seq(Messages) /\ Added(toServer', toServer, m)
      /\ Grown /\ MapExact' /\ OneCollection' /\ OneEmission' /\ InOrder'
  BY <1>1, <1>3, <1>4, <1>5, <1>7, ClientSends DEF HasFields
<1>9. Ids' = Ids /\ Messages' = Messages /\ Received' = Received
  BY <1>1 DEF Ids, Messages, Received
<1>10. TypeOK'
  BY <1>1, <1>2, <1>8, <1>9 DEF TypeOK
<1>11. /\ ~Has(toServer, Requests)
       /\ \A g : ~Names(toServer, "CONNECT", g) /\ ~Names(toServer, "DISCONNECT", g)
  BY <1>1, <1>2, Vacuous DEF OneRequest
<1>12. MessagesTyped'
  <2>1. m \in Sent'
    BY <1>1, <1>3, <1>4, <1>5, <1>9 DEF HasFields, Sent
  <2>2. All(toServer, Sent')
    BY <1>2, <1>9, <1>11, QuietHandlers
  <2>3. All(toServer', Sent')
    BY <1>8, <2>1, <2>2 DEF Added, AddedIds
  <2> QED
    BY <1>1, <1>2, <1>6, <1>9, <2>3 DEF MessagesTyped
<1>13. OneRequest'
  BY <1>1, <1>2, <1>4, <1>8 DEF OneRequest, Added, AddedKinds, HasFields
<1>14. \A g \in Handler : Connected(g)' => Connected(g)
  BY <1>1, <1>4, <1>6, <1>8, <1>11 DEF Connected, Added, AddedIds, HasFields
<1>15. EmittersStay'
  BY <1>1, <1>2, <1>4, <1>8, <1>14, EmittersKept DEF HasFields, Added, AddedIds
<1> QED
  BY <1>1, <1>8, <1>10, <1>12, <1>13, <1>15 DEF IInv

\* What the client takes out of its queue, if it does, is no sweep.
Takes == \/ toClient' = toClient
         \/ toClient # <<>> /\ toClient' = Tail(toClient) /\ Head(toClient).kind # "SWEEP"

LEMMA TakesFacts ==
  ASSUME toClient \in Seq(Messages), Takes
  PROVE  /\ toClient' \in Seq(Messages)
         /\ \A K : Has(toClient', K) => Has(toClient, K)
         /\ Has(toClient', {"SWEEP"}) <=> Has(toClient, {"SWEEP"})
         /\ \A K : One(toClient, K) => One(toClient', K)
         /\ \A M : All(toClient, M) => All(toClient', M)
         /\ Emissions(toClient') \subseteq Emissions(toClient)
         /\ Distinct(toClient) => Distinct(toClient')
         /\ \A i : Uses(toClient', i) => Uses(toClient, i)
         /\ \A L : SentSince(toClient, L) => SentSince(toClient', L)
<1>1. CASE toClient' = toClient
  BY <1>1
<1>2. CASE toClient # <<>> /\ toClient' = Tail(toClient) /\ Head(toClient).kind # "SWEEP"
  <2>1. toClient' \in Seq(Messages) /\ Taken(toClient', toClient, Head(toClient))
    BY <1>2, TailFacts
  <2>2. /\ \A K : Has(toClient', K) => Has(toClient, K)
        /\ Has(toClient', {"SWEEP"}) <=> Has(toClient, {"SWEEP"})
        /\ \A K : One(toClient, K) => One(toClient', K)
    BY <1>2, <2>1 DEF Taken, TakenKinds
  <2>3. /\ Emissions(toClient') \subseteq Emissions(toClient)
        /\ Distinct(toClient) => Distinct(toClient')
    BY <2>1 DEF Taken, TakenEmission
  <2>4. /\ \A M : All(toClient, M) => All(toClient', M)
        /\ \A i : Uses(toClient', i) => Uses(toClient, i)
        /\ \A L : SentSince(toClient, L) => SentSince(toClient', L)
    BY <2>1 DEF Taken, TakenIds
  <2> QED
    BY <2>1, <2>2, <2>3, <2>4
<1> QED
  BY <1>1, <1>2 DEF Takes

\* The client lets go of handles.
LEMMA LetsGo ==
  ASSUME IInv, Deleting(handles', remote', toServer), Takes,
         Alive(handles', remote') \subseteq Alive(handles, remote),
         UNCHANGED <<entries, freeList, live, sweep, sweeping, answering, denotes, eventQueue, overtaken>>
  PROVE  /\ toServer' \in Seq(Messages) /\ seenGarbage' \in BOOLEAN
         /\ Grown /\ MapExact' /\ OneCollection' /\ OneEmission' /\ InOrder'
         /\ Has(toServer', Requests) <=> Has(toServer, Requests)
         /\ One(toServer, Requests) => One(toServer', Requests)
         /\ \A h : /\ Names(toServer', "CONNECT", h) <=> Names(toServer, "CONNECT", h)
                   /\ Names(toServer', "DISCONNECT", h) <=> Names(toServer, "DISCONNECT", h)
         /\ \A i : Reported(toServer', i) <=> Reported(toServer, i)
         /\ \A h, i : Spares(toServer, h, i) => Spares(toServer', h, i)
         /\ All(toServer, Sent') => All(toServer', Sent')
<1> DEFINE m == About("SEEN_GARBAGE", 0, NoObject)
<1>1. /\ TypeOK /\ MapExact /\ MessagesTyped /\ OneCollection /\ OneEmission /\ InOrder
      /\ toServer \in Seq(Messages) /\ toClient \in Seq(Messages)
  BY Typing DEF IInv
<1>2. Grown /\ MapExact' /\ Ids' = Ids /\ Messages' = Messages /\ Resolved' = Resolved
  BY <1>1, UnchangedIsGrown DEF Grown, Resolved
<1>3. HasFields(m, Ids, "SEEN_GARBAGE", 0, NoObject, NoHandler, NoEmission, {}, TRUE)
  BY AboutFields DEF MessageKinds
<1>4. \/ toServer' = toServer /\ seenGarbage' = seenGarbage
      \/ ~seenGarbage /\ seenGarbage' = TRUE /\ toServer' = Append(toServer, m)
  BY DEF Deleting, Post
<1> HIDE DEF m
<1>5. m \in Messages /\ m \in Resolved /\ m \in Sent'
  BY <1>2, <1>3, MessagesAre DEF HasFields, Resolved, Sent
<1>6. CASE toServer' = toServer /\ seenGarbage' = seenGarbage
  <2>1. seenGarbage' \in BOOLEAN
    BY <1>1, <1>6 DEF TypeOK
  <2>2. OneCollection'
    BY <1>1, <1>6, TakesFacts DEF OneCollection
  <2>3. OneEmission'
    BY <1>1, <1>6, TakesFacts DEF OneEmission
  <2>4. InOrder'
    BY <1>1, <1>2, <1>6, TakesFacts DEF InOrder, UnderWay, GivenAway
  <2> QED
    BY <1>1, <1>2, <1>6, <2>1, <2>2, <2>3, <2>4
<1>7. CASE ~seenGarbage /\ seenGarbage' = TRUE /\ toServer' = Append(toServer, m)
  <2>1. toServer' \in Seq(Messages) /\ Added(toServer', toServer, m)
    BY <1>1, <1>5, <1>7, AppendFacts
  <2>2. OneCollection'
    BY <1>1, <1>3, <1>7, <2>1, TakesFacts DEF OneCollection, HasFields, Added, AddedKinds
  <2>3. OneEmission'
    <3>1. NoEmission \notin Emissions(toServer)
      BY DEF Emissions
    <3> QED
      BY <1>1, <1>3, <2>1, <3>1, TakesFacts DEF OneEmission, HasFields, Added, AddedEmission
  <2>4. InOrder'
    <3> SUFFICES ASSUME ~overtaken PROVE UnderWay'
      BY DEF InOrder
    <3>1. UnderWay
      BY <1>1 DEF InOrder
    <3>2. All(toServer', Resolved)
      BY <1>5, <2>1, <3>1 DEF UnderWay, Added, AddedIds
    <3>3. ASSUME NEW i \in Ids, GivenAway(i)'
          PROVE  GivenAway(i) /\ Spent(toServer', i)
      <4>1. GivenAway(i) /\ i # 0
        BY <1>1, <1>3, <2>1, <3>3, Typing DEF GivenAway, HasFields, Added, AddedIds
      <4> QED
        BY <1>3, <2>1, <3>1, <4>1 DEF UnderWay, HasFields, Added, AddedIds
    <3> QED
      BY <1>1, <1>2, <3>1, <3>2, <3>3, TakesFacts DEF UnderWay
  <2>5. /\ Has(toServer', Requests) <=> Has(toServer, Requests)
        /\ One(toServer, Requests) => One(toServer', Requests)
    BY <1>3, <2>1 DEF Requests, HasFields, Added, AddedKinds
  <2>6. /\ \A h : /\ Names(toServer', "CONNECT", h) <=> Names(toServer, "CONNECT", h)
                  /\ Names(toServer', "DISCONNECT", h) <=> Names(toServer, "DISCONNECT", h)
        /\ \A i : Reported(toServer', i) <=> Reported(toServer, i)
        /\ \A h, i : Spares(toServer, h, i) => Spares(toServer', h, i)
        /\ All(toServer, Sent') => All(toServer', Sent')
    BY <1>3, <1>5, <2>1 DEF HasFields, Added, AddedIds
  <2> QED
    BY <1>2, <1>7, <2>1, <2>2, <2>3, <2>4, <2>5, <2>6
<1> QED
  BY <1>4, <1>6, <1>7

LEMMA DropHandleInv ==
  ASSUME IInv, NEW i \in handles, DropHandle(i)
  PROVE  IInv'
<1>1. /\ failed = "no" /\ phase = "app" /\ handles' = handles \ {i}
      /\ Deleting(handles', remote', toServer)
      /\ UNCHANGED <<entries, freeList, live, sweep, sweeping, signalOf, answering, denotes,
                     remote, slot, eventQueue, phase, calling, toClient, failed, overtaken>>
  BY DEF DropHandle, InApp, serverVars, mapVars, sweepVars, ghostVars
<1>2. TypeOK /\ MessagesTyped /\ OneRequest /\ EmittersStay
  BY DEF IInv
<1>3. Takes /\ Alive(handles', remote') \subseteq Alive(handles, remote)
  BY <1>1 DEF Takes, Alive
<1>4. /\ toServer' \in Seq(Messages) /\ seenGarbage' \in BOOLEAN
      /\ Grown /\ MapExact' /\ OneCollection' /\ OneEmission' /\ InOrder'
      /\ Has(toServer', Requests) <=> Has(toServer, Requests)
      /\ One(toServer, Requests) => One(toServer', Requests)
      /\ \A h : /\ Names(toServer', "CONNECT", h) <=> Names(toServer, "CONNECT", h)
                /\ Names(toServer', "DISCONNECT", h) <=> Names(toServer, "DISCONNECT", h)
      /\ \A j : Reported(toServer', j) <=> Reported(toServer, j)
      /\ \A h, j : Spares(toServer, h, j) => Spares(toServer', h, j)
      /\ All(toServer, Sent') => All(toServer', Sent')
  BY <1>1, <1>3, LetsGo
<1>5. Ids' = Ids /\ Messages' = Messages /\ Sent' = Sent /\ Received' = Received
  BY <1>1 DEF Ids, Messages, Sent, Received
<1>6. TypeOK'
  BY <1>1, <1>2, <1>4, <1>5 DEF TypeOK
<1>7. MessagesTyped'
  BY <1>1, <1>2, <1>4, <1>5 DEF MessagesTyped
<1>8. OneRequest'
  BY <1>1, <1>2, <1>4 DEF OneRequest
<1>9. EmittersStay'
  BY <1>1, <1>2, <1>4, EmittersKept DEF Connected
<1> QED
  BY <1>1, <1>4, <1>6, <1>7, <1>8, <1>9 DEF IInv

\* The client gets a handle for what a message carries.
LEMMA PopFacts ==
  ASSUME TypeOK, NEW m \in Received, m.id # 0, PopHandle(m), Ids' = Ids, remote' = remote
  PROVE  /\ DOMAIN denotes' \subseteq Ids' /\ DOMAIN denotes \subseteq DOMAIN denotes'
         /\ \A i \in DOMAIN denotes' : denotes'[i] \in Object
         /\ handles' \subseteq DOMAIN denotes'
         /\ Alive(handles, remote)' = Alive(handles, remote) \cup {m.id}
         /\ entries[m.id] = m.obj /\ (\A i \in Alive(handles, remote) : entries[i] = denotes[i])
              => \A i \in Alive(handles, remote)' : entries[i] = denotes'[i]
<1>1. m.id \in Ids /\ m.obj \in Object /\ handles' = handles \cup {m.id}
  BY DEF Received, Messages, PopHandle
<1>2. Alive(handles, remote)' = Alive(handles, remote) \cup {m.id}
  BY <1>1 DEF Alive
<1>3. /\ Alive(handles, remote) \subseteq DOMAIN denotes /\ DOMAIN denotes \subseteq Ids
      /\ handles \subseteq DOMAIN denotes
      /\ \A i \in DOMAIN denotes : denotes[i] \in Object
  BY DEF Alive, TypeOK
<1>4. CASE m.id \in Alive(handles, remote)
  <2>1. denotes' = denotes
    BY <1>4 DEF PopHandle
  <2> QED
    BY <1>1, <1>2, <1>3, <1>4, <2>1
<1>5. CASE m.id \notin Alive(handles, remote)
  <2>1. denotes' = [i \in DOMAIN denotes \cup {m.id} |-> IF i = m.id THEN m.obj ELSE denotes[i]]
    BY <1>5 DEF PopHandle
  <2> QED
    BY <1>1, <1>2, <1>3, <1>5, <2>1
<1> QED
  BY <1>4, <1>5

\* The answer of a request arrives, and nothing else.
LEMMA TakeResultInv ==
  ASSUME IInv, TakeResult
  PROVE  IInv'
<1> DEFINE m == Head(toClient)
<1>1. /\ failed = "no" /\ toClient # <<>> /\ phase = m.kind /\ toClient' = Tail(toClient)
      /\ phase' = "app" /\ calling' = NoHandler
      /\ UNCHANGED <<entries, freeList, live, sweep, sweeping, signalOf, answering, slot,
                     eventQueue, failed, overtaken>>
  BY DEF TakeResult, serverVars, mapVars, sweepVars, ghostVars
<1>2. /\ TypeOK /\ MessagesTyped /\ MapExact /\ OneRequest /\ OneCollection /\ OneEmission
      /\ EmittersStay /\ InOrder /\ toClient \in Seq(Messages)
  BY Typing DEF IInv
<1>3. m \in Messages /\ toClient' \in Seq(Messages) /\ Taken(toClient', toClient, m)
  BY <1>1, <1>2, TailFacts
<1>4. \/ /\ calling # NoHandler /\ remote' = [remote EXCEPT ![calling] = 0]
         /\ Deleting(handles, remote', toServer)
         /\ UNCHANGED <<denotes, handles>>
      \/ /\ calling = NoHandler
         /\ IF m.id # 0 THEN PopHandle(m) ELSE UNCHANGED <<denotes, handles>>
         /\ UNCHANGED <<remote, seenGarbage, toServer>>
  BY DEF TakeResult
<1>5. m \in Received
  BY <1>2, <1>3 DEF MessagesTyped, Taken, TakenIds
<1> HIDE DEF m
<1>6. m.kind \in Answers
  BY <1>1, <1>2, <1>3 DEF TypeOK, Messages, MessageKinds, Answers
<1>7. /\ ~Has(toServer, Requests) /\ ~Has(toClient', Answers) /\ Takes
      /\ \A g : ~Names(toServer, "CONNECT", g) /\ ~Names(toServer, "DISCONNECT", g)
  BY <1>1, <1>2, <1>3, <1>6, Vacuous DEF OneRequest, Taken, TakenKinds, Takes, m, Answers
<1>8. Ids' = Ids /\ Messages' = Messages /\ Received' = Received /\ Resolved' = Resolved
  BY <1>1 DEF Ids, Messages, Received, Resolved
<1>9. All(toServer, Sent')
  BY <1>2, <1>7, <1>8, QuietHandlers
<1>10. All(toClient', Received)
  BY <1>2, <1>3 DEF MessagesTyped, Taken, TakenIds
<1>11. CASE /\ calling # NoHandler /\ remote' = [remote EXCEPT ![calling] = 0]
            /\ Deleting(handles, remote', toServer)
            /\ UNCHANGED <<denotes, handles>>
  <2>1. /\ calling \in Handler /\ slot[calling] = "null" /\ remote'[calling] = 0
        /\ \A h \in Handler : h # calling => remote'[h] = remote[h]
    BY <1>2, <1>11 DEF TypeOK, MessagesTyped
  <2>2. Alive(handles', remote') \subseteq Alive(handles, remote)
    BY <1>11, <2>1 DEF Alive
  <2>3. /\ toServer' \in Seq(Messages) /\ seenGarbage' \in BOOLEAN
        /\ Grown /\ MapExact' /\ OneCollection' /\ OneEmission' /\ InOrder'
        /\ Has(toServer', Requests) <=> Has(toServer, Requests)
        /\ One(toServer, Requests) => One(toServer', Requests)
        /\ \A h : /\ Names(toServer', "CONNECT", h) <=> Names(toServer, "CONNECT", h)
                  /\ Names(toServer', "DISCONNECT", h) <=> Names(toServer, "DISCONNECT", h)
        /\ \A j : Reported(toServer', j) <=> Reported(toServer, j)
        /\ All(toServer, Sent') => All(toServer', Sent')
    BY <1>1, <1>7, <1>11, <2>2, LetsGo
  <2>4. TypeOK'
    BY <1>1, <1>2, <1>3, <1>8, <1>11, <2>3 DEF TypeOK
  <2>5. MessagesTyped'
    BY <1>1, <1>2, <1>8, <1>9, <1>10, <2>1, <2>3 DEF MessagesTyped
  <2>6. OneRequest'
    <3>1. One(toClient', Answers)
      BY <1>2, <1>3 DEF OneRequest, Taken, TakenKinds
    <3> QED
      BY <1>2, <1>7, <2>3, <3>1 DEF OneRequest
  <2>7. EmittersStay'
    <3> SUFFICES ASSUME NEW h \in Handler
                 PROVE  /\ Connected(h)' => /\ entries'[remote'[h]] = signalOf'[h] /\ signalOf'[h] # NoObject
                                            /\ ~Reported(toServer', remote'[h])
                        /\ Spares(toServer', h, remote'[h])
      BY DEF EmittersStay
    <3>1. Spares(toServer', h, remote'[h])
      BY <1>7, <2>3, Vacuous
    <3>2. ASSUME Connected(h)' PROVE h # calling /\ Connected(h)
      BY <3>2, <1>1, <1>7, <2>1, <2>3 DEF Connected
    <3> QED
      BY <1>1, <1>2, <2>1, <2>3, <3>1, <3>2 DEF EmittersStay
  <2> QED
    BY <1>1, <2>3, <2>4, <2>5, <2>6, <2>7 DEF IInv
<1>12. CASE /\ calling = NoHandler
            /\ IF m.id # 0 THEN PopHandle(m) ELSE UNCHANGED <<denotes, handles>>
            /\ UNCHANGED <<remote, seenGarbage, toServer>>
  <2>1. Sent' = Sent
    BY <1>1, <1>8, <1>12 DEF Sent
  <2>2. Grown /\ MapExact'
    BY <1>1, <1>2, UnchangedIsGrown DEF Grown
  <2>3. TypeOK'
    <3>1. CASE m.id # 0
      BY <1>1, <1>2, <1>3, <1>5, <1>8, <1>12, <3>1, PopFacts DEF TypeOK
    <3>2. CASE m.id = 0
      BY <1>1, <1>2, <1>3, <1>8, <1>12, <3>2 DEF TypeOK
    <3> QED
      BY <3>1, <3>2
  <2>4. MessagesTyped'
    BY <1>1, <1>2, <1>8, <1>10, <1>12, <2>1 DEF MessagesTyped
  <2>5. OneCollection'
    BY <1>1, <1>2, <1>7, <1>12, TakesFacts DEF OneCollection
  <2>6. OneRequest'
    <3>1. One(toClient', Answers)
      BY <1>2, <1>3 DEF OneRequest, Taken, TakenKinds
    <3> QED
      BY <1>2, <1>7, <1>12, <3>1 DEF OneRequest
  <2>7. OneEmission'
    BY <1>1, <1>2, <1>7, <1>12, TakesFacts DEF OneEmission
  <2>8. EmittersStay'
    BY <1>1, <1>2, <1>12, <2>2, EmittersKept DEF Connected
  <2>9. InOrder'
    <3> SUFFICES ASSUME ~overtaken PROVE UnderWay'
      BY <1>1 DEF InOrder
    <3>1. UnderWay
      BY <1>2 DEF InOrder
    <3>2. m \in Resolved /\ (m.id # 0 => Uses(toClient, m.id))
      BY <1>3, <3>1 DEF UnderWay, Taken, TakenIds
    <3>3. /\ \A i \in Alive(handles, remote)' : entries[i] = denotes'[i]
          /\ \A i : i \in Alive(handles, remote)' => i \in Alive(handles, remote) \/ (i = m.id /\ m.id # 0)
      <4>1. CASE m.id # 0
        BY <1>2, <1>5, <1>8, <1>12, <3>1, <3>2, <4>1, PopFacts DEF UnderWay, Resolved
      <4>2. CASE m.id = 0
        <5>1. denotes' = denotes /\ Alive(handles, remote)' = Alive(handles, remote)
          BY <1>12, <4>2 DEF Alive
        <5>2. \A i \in Alive(handles, remote) : entries[i] = denotes[i]
          BY <3>1 DEF UnderWay
        <5> QED
          BY <5>1, <5>2
      <4> QED
        BY <4>1, <4>2
    <3>4. \A i : GivenAway(i)' <=> GivenAway(i)
      BY <1>1, <1>12 DEF GivenAway
    <3>5. /\ All(toClient', Resolved) /\ SentSince(toClient', live)
          /\ \A i : Uses(toClient', i) => Uses(toClient, i)
      BY <1>2, <1>7, <3>1, TakesFacts DEF UnderWay
    <3> QED
      BY <1>1, <1>8, <1>12, <3>1, <3>2, <3>3, <3>4, <3>5 DEF UnderWay
  <2> QED
    BY <1>1, <2>2, <2>3, <2>4, <2>5, <2>6, <2>7, <2>8, <2>9 DEF IInv
<1> QED
  BY <1>4, <1>11, <1>12

\* A sweep is served: in call_remote(), or by dispatch().
LEMMA GcSweepInv ==
  ASSUME IInv, toClient # <<>>, Head(toClient).kind = "SWEEP", toClient' = Tail(toClient), GcSweep,
         UNCHANGED <<serverVars, handles, remote, slot, eventQueue, phase, calling, failed>>
  PROVE  IInv'
<1> DEFINE trash == DOMAIN denotes \ Alive(handles, remote)
           m == [About("REPORT", 0, NoObject) EXCEPT !.ids = trash]
<1>1. /\ denotes' = [i \in DOMAIN denotes \ trash |-> denotes[i]]
      /\ toServer' = Append(toServer, m) /\ seenGarbage' = FALSE
      /\ overtaken' = (overtaken \/ \E k \in DOMAIN eventQueue : eventQueue[k].id \in trash)
      /\ UNCHANGED <<entries, freeList, live, sweep, sweeping, signalOf, answering, handles,
                     remote, slot, eventQueue, phase, calling, failed>>
  BY DEF GcSweep, Post, serverVars, mapVars, sweepVars
<1>2. /\ TypeOK /\ MessagesTyped /\ MapExact /\ OneRequest /\ OneCollection /\ OneEmission
      /\ EmittersStay /\ InOrder /\ toClient \in Seq(Messages) /\ toServer \in Seq(Messages)
  BY Typing DEF IInv
<1>3. toClient' \in Seq(Messages) /\ Taken(toClient', toClient, Head(toClient))
  BY <1>2, TailFacts
<1>4. /\ DOMAIN denotes \subseteq Ids /\ 0 \notin Ids /\ Alive(handles, remote) \subseteq DOMAIN denotes
      /\ handles \subseteq Alive(handles, remote)
      /\ \A h \in Handler : remote[h] \in Alive(handles, remote) \cup {0}
  BY <1>2, Typing DEF TypeOK, Alive
<1>5. HasFields(m, Ids, "REPORT", 0, NoObject, NoHandler, NoEmission, trash, TRUE)
  <2>1. "REPORT" \in MessageKinds /\ trash \in SUBSET Ids
    BY <1>4 DEF MessageKinds
  <2> QED
    BY <2>1, AboutFields
<1>6. \A i : i \in trash => i \in Ids /\ i # 0 /\ i \notin Alive(handles, remote)
  BY <1>4
<1>7. /\ DOMAIN denotes' = Alive(handles, remote)
      /\ \A i \in DOMAIN denotes' : denotes'[i] = denotes[i]
  BY <1>1, <1>4
<1> HIDE DEF m, trash
<1>8. m \in Messages
  BY <1>5, MessagesAre DEF HasFields
<1>9. toServer' \in Seq(Messages) /\ Added(toServer', toServer, m)
  BY <1>1, <1>2, <1>8, AppendFacts
<1>10. /\ Ids' = Ids /\ Messages' = Messages /\ Received' = Received /\ Resolved' = Resolved
       /\ Sent' = Sent /\ Alive(handles, remote)' = Alive(handles, remote)
  BY <1>1 DEF Ids, Messages, Received, Resolved, Sent, Alive
<1>11. Grown /\ MapExact'
  BY <1>1, <1>2, UnchangedIsGrown DEF Grown
<1>12. TypeOK'
  <2>1. /\ DOMAIN denotes' \subseteq Ids' /\ handles' \subseteq DOMAIN denotes'
        /\ \A i \in DOMAIN denotes' : denotes'[i] \in Object
    BY <1>1, <1>2, <1>4, <1>7, <1>10 DEF TypeOK
  <2>2. remote' \in [Handler -> DOMAIN denotes' \cup {0}]
    BY <1>1, <1>2, <1>4, <1>7 DEF TypeOK
  <2>3. overtaken' \in BOOLEAN
    BY <1>1
  <2> QED
    BY <1>1, <1>2, <1>3, <1>9, <1>10, <2>1, <2>2, <2>3 DEF TypeOK
<1>13. MessagesTyped'
  <2>1. m \in Sent
    BY <1>5, <1>8 DEF HasFields, Sent
  <2>2. All(toServer', Sent) /\ All(toClient', Received)
    BY <1>2, <1>3, <1>9, <2>1 DEF MessagesTyped, Added, AddedIds, Taken, TakenIds
  <2> QED
    BY <1>1, <1>2, <1>10, <2>2 DEF MessagesTyped
<1>14. OneCollection'
  <2>1. /\ Has(toClient, {"SWEEP"}) /\ ~Has(toClient', {"SWEEP"}) /\ One(toClient', {"SWEEP"})
    BY <1>2, <1>3 DEF OneCollection, Taken, TakenKinds
  <2>2. /\ sweeping /\ ~Has(toServer, {"SEEN_GARBAGE"}) /\ ~Has(toServer, {"REPORT"})
    BY <1>2, <2>1 DEF OneCollection
  <2>3. /\ Has(toServer', {"REPORT"}) /\ ~Has(toServer', {"SEEN_GARBAGE"})
        /\ One(toServer', {"REPORT"}) /\ One(toServer', {"SEEN_GARBAGE"}) /\ ReportFirst(toServer')
    BY <1>2, <1>5, <1>9, <2>2 DEF OneCollection, HasFields, Added, AddedKinds
  <2> QED
    BY <1>1, <2>1, <2>2, <2>3 DEF OneCollection
<1>15. OneRequest'
  <2>1. One(toClient', Answers) /\ (Has(toClient', Answers) => Has(toClient, Answers))
    BY <1>2, <1>3 DEF OneRequest, Taken, TakenKinds
  <2>2. One(toServer', Requests) /\ (Has(toServer', Requests) <=> Has(toServer, Requests))
    BY <1>2, <1>5, <1>9 DEF OneRequest, Requests, HasFields, Added, AddedKinds
  <2> QED
    BY <1>1, <1>2, <2>1, <2>2 DEF OneRequest
<1>16. OneEmission'
  <2>1. Emissions(toClient') \subseteq Emissions(toClient) /\ Distinct(toClient')
    BY <1>2, <1>3 DEF OneEmission, Taken, TakenEmission
  <2>2. NoEmission \notin Emissions(toServer)
    BY DEF Emissions
  <2>3. Emissions(toServer') = Emissions(toServer) /\ Distinct(toServer')
    BY <1>2, <1>5, <1>9, <2>2 DEF OneEmission, HasFields, Added, AddedEmission
  <2> QED
    BY <1>1, <1>2, <2>1, <2>3 DEF OneEmission
<1>17. EmittersStay'
  <2> SUFFICES ASSUME failed = "no", NEW h \in Handler
               PROVE  /\ Connected(h)' => /\ entries[remote[h]] = signalOf[h] /\ signalOf[h] # NoObject
                                          /\ ~Reported(toServer', remote[h])
                      /\ Spares(toServer', h, remote[h])
    BY <1>1 DEF EmittersStay
  <2>1. remote[h] \notin trash
    BY <1>4, <1>6
  <2>2. Connected(h)' => Connected(h)
    BY <1>1, <1>5, <1>9 DEF Connected, HasFields, Added, AddedIds
  <2>3. Spares(toServer', h, remote[h])
    BY <1>2, <1>5, <1>9, <2>1 DEF EmittersStay, HasFields, Added, AddedIds
  <2>4. Reported(toServer', remote[h]) => Reported(toServer, remote[h])
    BY <1>5, <1>9, <2>1 DEF HasFields, Added, AddedIds
  <2> QED
    BY <1>2, <2>2, <2>3, <2>4 DEF EmittersStay
<1>18. InOrder'
  <2> SUFFICES ASSUME ~overtaken' PROVE UnderWay'
    BY DEF InOrder
  <2>1. UnderWay /\ \A k \in DOMAIN eventQueue : eventQueue[k].id \notin trash
    BY <1>1, <1>2 DEF InOrder
  <2>2. m \in Resolved
    BY <1>5, <1>8 DEF HasFields, Resolved
  <2>3. /\ All(toServer', Resolved) /\ All(toClient', Resolved) /\ SentSince(toClient', live)
        /\ \A i : Uses(toClient', i) => Uses(toClient, i)
    BY <1>3, <1>9, <2>1, <2>2 DEF UnderWay, Added, AddedIds, Taken, TakenIds
  <2>4. ASSUME NEW i \in Ids, GivenAway(i)'
        PROVE  /\ i \notin Alive(handles, remote)
               /\ Spent(toServer', i) /\ ~Uses(toClient', i) /\ ~Uses(eventQueue, i)
    <3>1. i \in sweep /\ i \notin live /\ i # 0 /\ (Reported(toServer, i) \/ i \in trash)
      BY <1>1, <1>4, <1>5, <1>9, <2>4 DEF GivenAway, HasFields, Added, AddedIds
    <3>2. Spent(toServer', i)
      BY <1>5, <1>9, <2>1, <3>1, Vacuous DEF UnderWay, GivenAway, HasFields, Added, AddedIds
    <3>3. CASE Reported(toServer, i)
      BY <2>1, <2>3, <3>1, <3>2, <3>3 DEF UnderWay, GivenAway
    <3>4. CASE i \in trash
      <4>1. ~Uses(toClient', i)
        BY <1>3, <2>1, <3>1 DEF UnderWay, Taken, TakenIds
      <4>2. ~Uses(eventQueue, i)
        BY <2>1, <3>4 DEF Uses
      <4> QED
        BY <1>6, <3>2, <3>4, <4>1, <4>2
    <3> QED
      BY <3>1, <3>3, <3>4
  <2>5. \A i \in Alive(handles, remote) : entries[i] = denotes'[i]
    BY <1>7, <2>1 DEF UnderWay
  <2> QED
    BY <1>1, <1>10, <2>1, <2>3, <2>4, <2>5 DEF UnderWay
<1> QED
  BY <1>1, <1>11, <1>12, <1>13, <1>14, <1>15, <1>16, <1>17, <1>18 DEF IInv

LEMMA DispatchSweepInv == IInv /\ DispatchSweep => IInv'
BY GcSweepInv DEF DispatchSweep

\* An emission is queued while the client waits for an answer.
LEMMA QueueEventInv ==
  ASSUME IInv, toClient # <<>>, Head(toClient).kind = "EMIT", toClient' = Tail(toClient),
         eventQueue' = Append(eventQueue, Head(toClient)),
         UNCHANGED <<serverVars, denotes, handles, remote, seenGarbage, slot, phase, calling,
                     toServer, ghostVars>>
  PROVE  IInv'
<1> DEFINE m == Head(toClient)
<1>1. UNCHANGED <<entries, freeList, live, sweep, sweeping, signalOf, answering, denotes, handles,
                  remote, seenGarbage, slot, phase, calling, toServer, failed, overtaken>>
  BY DEF serverVars, mapVars, sweepVars, ghostVars
<1>2. /\ TypeOK /\ MessagesTyped /\ MapExact /\ OneRequest /\ OneCollection /\ OneEmission
      /\ EmittersStay /\ InOrder /\ toClient \in Seq(Messages) /\ eventQueue \in Seq(Messages)
  BY Typing DEF IInv
<1>3. m \in Messages /\ toClient' \in Seq(Messages) /\ Taken(toClient', toClient, m)
  BY <1>2, TailFacts
<1>4. eventQueue' \in Seq(Messages) /\ Added(eventQueue', eventQueue, m)
  BY <1>2, <1>3, AppendFacts
<1>5. Takes /\ m.kind = "EMIT"
  BY DEF Takes
<1> HIDE DEF m
<1>6. /\ Ids' = Ids /\ Messages' = Messages /\ Received' = Received /\ Resolved' = Resolved
      /\ Sent' = Sent /\ Alive(handles, remote)' = Alive(handles, remote)
  BY <1>1 DEF Ids, Messages, Received, Resolved, Sent, Alive
<1>7. Grown /\ MapExact'
  BY <1>1, <1>2, UnchangedIsGrown DEF Grown
<1>8. TypeOK'
  BY <1>1, <1>2, <1>3, <1>4, <1>6 DEF TypeOK
<1>9. MessagesTyped'
  <2>1. All(toClient', Received) /\ All(eventQueue', Received)
    BY <1>2, <1>3, <1>4 DEF MessagesTyped, Added, AddedIds, Taken, TakenIds
  <2> QED
    BY <1>1, <1>2, <1>6, <2>1 DEF MessagesTyped
<1>10. OneCollection'
  BY <1>1, <1>2, <1>5, TakesFacts DEF OneCollection
<1>11. OneRequest'
  BY <1>1, <1>2, <1>5, TakesFacts DEF OneRequest
<1>12. OneEmission'
  <2>1. /\ Emissions(eventQueue') \subseteq Emissions(eventQueue) \cup Emissions(toClient)
        /\ Distinct(eventQueue')
    BY <1>2, <1>3, <1>4 DEF OneEmission, Added, AddedEmission, Taken, TakenEmission, Emissions
  <2>2. /\ Emissions(toClient') \subseteq Emissions(toClient) /\ Distinct(toClient')
        /\ m.emission \notin Emissions(toClient')
        /\ Emissions(eventQueue') \subseteq Emissions(eventQueue) \cup {m.emission}
    BY <1>2, <1>3, <1>4 DEF OneEmission, Added, AddedEmission, Taken, TakenEmission
  <2> QED
    BY <1>1, <1>2, <2>1, <2>2 DEF OneEmission
<1>13. EmittersStay'
  BY <1>1, <1>2, <1>7, EmittersKept DEF Connected
<1>14. InOrder'
  <2> SUFFICES ASSUME ~overtaken PROVE UnderWay'
    BY <1>1 DEF InOrder
  <2>1. UnderWay
    BY <1>2 DEF InOrder
  <2>2. /\ All(toClient', Resolved) /\ All(eventQueue', Resolved) /\ SentSince(toClient', live)
        /\ \A i : Uses(toClient', i) \/ Uses(eventQueue', i) => Uses(toClient, i) \/ Uses(eventQueue, i)
    BY <1>3, <1>4, <2>1 DEF UnderWay, Added, AddedIds, Taken, TakenIds
  <2>3. \A i : GivenAway(i)' <=> GivenAway(i)
    BY <1>1 DEF GivenAway
  <2> QED
    BY <1>1, <1>6, <2>1, <2>2, <2>3 DEF UnderWay
<1> QED
  BY <1>1, <1>2, <1>7, <1>8, <1>9, <1>10, <1>11, <1>12, <1>13, <1>14 DEF IInv

LEMMA TakeOtherInv == IInv /\ TakeOther => IInv'
<1> SUFFICES ASSUME IInv, TakeOther PROVE IInv'
  OBVIOUS
<1>1. CASE /\ Head(toClient).kind = "EMIT"
           /\ eventQueue' = Append(eventQueue, Head(toClient))
           /\ UNCHANGED <<denotes, seenGarbage, toServer, overtaken>>
  BY <1>1, QueueEventInv DEF TakeOther, ghostVars
<1>2. CASE Head(toClient).kind = "SWEEP" /\ GcSweep /\ UNCHANGED eventQueue
  BY <1>2, GcSweepInv DEF TakeOther
<1> QED
  BY <1>1, <1>2 DEF TakeOther

\* An event is taken off the queue of events or off the channel.
EventTaken(m) ==
  \/ /\ eventQueue # <<>> /\ m = Head(eventQueue) /\ eventQueue' = Tail(eventQueue)
     /\ toClient' = toClient
  \/ /\ toClient # <<>> /\ m = Head(toClient) /\ m.kind = "EMIT" /\ toClient' = Tail(toClient)
     /\ eventQueue' = eventQueue

LEMMA EventFacts ==
  ASSUME TypeOK, MessagesTyped, OneEmission, NEW m, EventTaken(m)
  PROVE  /\ m \in Messages /\ m \in Received /\ Takes
         /\ toClient' \in Seq(Messages) /\ eventQueue' \in Seq(Messages)
         /\ \A M : All(eventQueue, M) => All(eventQueue', M)
         /\ \A M : All(toClient, M) /\ All(eventQueue, M) => m \in M
         /\ \A i : Uses(eventQueue', i) => Uses(eventQueue, i)
         /\ m.id # 0 => Uses(toClient, m.id) \/ Uses(eventQueue, m.id)
         /\ Distinct(eventQueue') /\ Emissions(eventQueue') \subseteq Emissions(eventQueue)
         /\ m.emission # NoEmission => /\ m.emission \in Emissions(toClient) \cup Emissions(eventQueue)
                                       /\ m.emission \notin Emissions(toClient') \cup Emissions(eventQueue')
<1>1. toClient \in Seq(Messages) /\ eventQueue \in Seq(Messages)
  BY Typing
<1>2. CASE /\ eventQueue # <<>> /\ m = Head(eventQueue) /\ eventQueue' = Tail(eventQueue)
           /\ toClient' = toClient
  <2>1. m \in Messages /\ eventQueue' \in Seq(Messages) /\ Taken(eventQueue', eventQueue, m)
    BY <1>1, <1>2, TailFacts
  <2>2. m \in Received
    BY <2>1 DEF MessagesTyped, Taken, TakenIds
  <2>3. /\ \A M : All(eventQueue, M) => All(eventQueue', M) /\ m \in M
        /\ \A i : Uses(eventQueue', i) => Uses(eventQueue, i)
        /\ Uses(eventQueue, m.id)
    BY <2>1 DEF Taken, TakenIds
  <2>4. /\ Distinct(eventQueue') /\ Emissions(eventQueue') \subseteq Emissions(eventQueue)
        /\ m.emission # NoEmission => /\ m.emission \in Emissions(toClient) \cup Emissions(eventQueue)
                                      /\ m.emission \notin Emissions(toClient') \cup Emissions(eventQueue')
    BY <1>2, <2>1 DEF OneEmission, Taken, TakenEmission
  <2>5. Takes
    BY <1>2 DEF Takes
  <2> QED
    BY <1>1, <1>2, <2>1, <2>2, <2>3, <2>4, <2>5
<1>3. CASE /\ toClient # <<>> /\ m = Head(toClient) /\ m.kind = "EMIT" /\ toClient' = Tail(toClient)
           /\ eventQueue' = eventQueue
  <2>1. m \in Messages /\ toClient' \in Seq(Messages) /\ Taken(toClient', toClient, m)
    BY <1>1, <1>3, TailFacts
  <2>2. m \in Received
    BY <2>1 DEF MessagesTyped, Taken, TakenIds
  <2>3. /\ \A M : All(toClient, M) => m \in M
        /\ Uses(toClient, m.id)
    BY <2>1 DEF Taken, TakenIds
  <2>4. /\ Distinct(eventQueue)
        /\ m.emission # NoEmission => /\ m.emission \in Emissions(toClient) \cup Emissions(eventQueue)
                                      /\ m.emission \notin Emissions(toClient') \cup Emissions(eventQueue')
    BY <1>3, <2>1 DEF OneEmission, Taken, TakenEmission
  <2>5. Takes
    BY <1>3 DEF Takes
  <2> QED
    BY <1>1, <1>3, <2>1, <2>2, <2>3, <2>4, <2>5
<1> QED
  BY <1>2, <1>3 DEF EventTaken

LEMMA RunHandlerInv ==
  ASSUME IInv, failed = "no", phase = "app", NEW m, EventTaken(m), RunHandler(m),
         UNCHANGED <<serverVars, remote, seenGarbage, slot, phase, calling, overtaken>>
  PROVE  IInv'
<1> DEFINE r == [About("EMIT_RESULT", 0, NoObject) EXCEPT !.emission = m.emission]
<1>1. UNCHANGED <<entries, freeList, live, sweep, sweeping, signalOf, answering, remote,
                  seenGarbage, slot, phase, calling, overtaken>>
  BY DEF serverVars, mapVars, sweepVars
<1>2. /\ TypeOK /\ MessagesTyped /\ MapExact /\ OneRequest /\ OneCollection /\ OneEmission
      /\ EmittersStay /\ InOrder /\ toClient \in Seq(Messages) /\ toServer \in Seq(Messages)
  BY Typing DEF IInv
<1>3. /\ m \in Messages /\ m \in Received /\ Takes
      /\ toClient' \in Seq(Messages) /\ eventQueue' \in Seq(Messages)
      /\ \A M : All(eventQueue, M) => All(eventQueue', M)
      /\ \A M : All(toClient, M) /\ All(eventQueue, M) => m \in M
      /\ \A i : Uses(eventQueue', i) => Uses(eventQueue, i)
      /\ m.id # 0 => Uses(toClient, m.id) \/ Uses(eventQueue, m.id)
      /\ Distinct(eventQueue') /\ Emissions(eventQueue') \subseteq Emissions(eventQueue)
      /\ m.emission # NoEmission => /\ m.emission \in Emissions(toClient) \cup Emissions(eventQueue)
                                    /\ m.emission \notin Emissions(toClient') \cup Emissions(eventQueue')
  BY <1>2, EventFacts
<1>4. Ids' = Ids /\ Messages' = Messages /\ Received' = Received /\ Resolved' = Resolved /\ Sent' = Sent
  BY <1>1 DEF Ids, Messages, Received, Resolved, Sent
<1>5. Grown /\ MapExact'
  BY <1>1, <1>2, UnchangedIsGrown DEF Grown
<1>6. /\ failed' \in {"no", "handler"}
      /\ \/ UNCHANGED <<denotes, handles>>
         \/ m.id # 0 /\ PopHandle(m)
      /\ \/ toServer' = toServer
         \/ m.emission # NoEmission /\ toServer' = Append(toServer, r)
  <2>1. CASE slot[m.handler] # "set"
    BY <2>1 DEF RunHandler
  <2>2. CASE slot[m.handler] = "set"
    BY <2>2 DEF RunHandler, Post
  <2> QED
    BY <2>1, <2>2
<1>7. HasFields(r, Ids, "EMIT_RESULT", 0, NoObject, NoHandler, m.emission, {}, TRUE)
  <2>1. "EMIT_RESULT" \in MessageKinds /\ m.emission \in Emission \cup {NoEmission}
    BY <1>3 DEF MessageKinds, Messages
  <2> QED
    BY <2>1, AboutFields
<1> HIDE DEF r
<1>8. r \in Messages /\ r \in Resolved /\ (m.emission # NoEmission => r \in Sent)
  BY <1>7, MessagesAre DEF HasFields, Resolved, Sent
<1>9. /\ DOMAIN denotes' \subseteq Ids /\ DOMAIN denotes \subseteq DOMAIN denotes'
      /\ \A i \in DOMAIN denotes' : denotes'[i] \in Object
      /\ handles' \subseteq DOMAIN denotes'
  <2>1. CASE UNCHANGED <<denotes, handles>>
    BY <1>2, <2>1 DEF TypeOK
  <2>2. CASE m.id # 0 /\ PopHandle(m)
    BY <1>1, <1>2, <1>3, <1>4, <2>2, PopFacts
  <2> QED
    BY <1>6, <2>1, <2>2
\* What is posted.
<1>10. /\ toServer' \in Seq(Messages) /\ All(toServer', Sent)
       /\ \A K : "EMIT_RESULT" \notin K => /\ Has(toServer', K) <=> Has(toServer, K)
                                           /\ One(toServer, K) => One(toServer', K)
       /\ ReportFirst(toServer')
       /\ Emissions(toServer') \subseteq Emissions(toServer) \cup ({m.emission} \ {NoEmission})
       /\ \A kind \in {"CONNECT", "DISCONNECT"} : \A h : Names(toServer', kind, h) <=> Names(toServer, kind, h)
       /\ \A i : Reported(toServer', i) <=> Reported(toServer, i)
       /\ \A h, i : Spares(toServer, h, i) => Spares(toServer', h, i)
       /\ \A i : Spent(toServer, i) /\ i # 0 => Spent(toServer', i)
       /\ All(toServer, Resolved) => All(toServer', Resolved)
  <2>1. CASE toServer' = toServer
    BY <1>2, <2>1 DEF MessagesTyped, OneCollection
  <2>2. CASE m.emission # NoEmission /\ toServer' = Append(toServer, r)
    <3>1. toServer' \in Seq(Messages) /\ Added(toServer', toServer, r)
      BY <1>2, <1>8, <2>2, AppendFacts
    <3>2. /\ \A K : "EMIT_RESULT" \notin K => /\ Has(toServer', K) <=> Has(toServer, K)
                                              /\ One(toServer, K) => One(toServer', K)
          /\ ReportFirst(toServer')
      BY <1>2, <1>7, <3>1 DEF OneCollection, HasFields, Added, AddedKinds
    <3>3. Emissions(toServer') \subseteq Emissions(toServer) \cup ({m.emission} \ {NoEmission})
      BY <1>7, <3>1 DEF HasFields, Added, AddedEmission
    <3>4. All(toServer', Sent) /\ (All(toServer, Resolved) => All(toServer', Resolved))
      BY <1>2, <1>8, <2>2, <3>1 DEF MessagesTyped, Added, AddedIds
    <3>5. /\ \A kind \in {"CONNECT", "DISCONNECT"} : \A h : Names(toServer', kind, h) <=> Names(toServer, kind, h)
          /\ \A i : Reported(toServer', i) <=> Reported(toServer, i)
          /\ \A h, i : Spares(toServer, h, i) => Spares(toServer', h, i)
          /\ \A i : Spent(toServer, i) /\ i # 0 => Spent(toServer', i)
      BY <1>7, <3>1 DEF HasFields, Added, AddedIds
    <3> QED
      BY <3>1, <3>2, <3>3, <3>4, <3>5
  <2> QED
    BY <1>6, <2>1, <2>2
<1>11. Distinct(toServer')
  <2>1. CASE toServer' = toServer
    BY <1>2, <2>1 DEF OneEmission
  <2>2. CASE m.emission # NoEmission /\ toServer' = Append(toServer, r)
    <3>1. Added(toServer', toServer, r)
      BY <1>2, <1>8, <2>2, AppendFacts
    <3> QED
      BY <1>2, <1>3, <1>7, <2>2, <3>1 DEF OneEmission, HasFields, Added, AddedEmission
  <2> QED
    BY <1>6, <2>1, <2>2
<1>12. TypeOK'
  <2>1. remote' \in [Handler -> DOMAIN denotes' \cup {0}]
    BY <1>1, <1>2, <1>9 DEF TypeOK
  <2> QED
    BY <1>1, <1>2, <1>3, <1>4, <1>6, <1>9, <1>10, <2>1 DEF TypeOK
<1>13. MessagesTyped'
  BY <1>1, <1>2, <1>3, <1>4, <1>10, TakesFacts DEF MessagesTyped
<1>14. OneCollection'
  BY <1>1, <1>2, <1>3, <1>10, TakesFacts DEF OneCollection
<1>15. OneRequest'
  <2>1. Has(toServer', Requests) <=> Has(toServer, Requests)
    BY <1>10 DEF Requests
  <2>2. One(toServer', Requests)
    BY <1>2, <1>10 DEF OneRequest, Requests
  <2> QED
    BY <1>1, <1>2, <1>3, <2>1, <2>2, TakesFacts DEF OneRequest
<1>16. OneEmission'
  <2>1. Emissions(toClient') \subseteq Emissions(toClient) /\ Distinct(toClient')
    BY <1>2, <1>3, TakesFacts DEF OneEmission
  <2> QED
    BY <1>1, <1>2, <1>3, <1>10, <1>11, <2>1 DEF OneEmission
<1>17. EmittersStay'
  <2>1. \A h \in Handler : Connected(h)' => Connected(h)
    BY <1>1, <1>10 DEF Connected
  <2> QED
    BY <1>1, <1>2, <1>5, <1>10, <2>1, EmittersKept
<1>18. InOrder'
  <2> SUFFICES ASSUME ~overtaken PROVE UnderWay'
    BY <1>1 DEF InOrder
  <2>1. UnderWay
    BY <1>2 DEF InOrder
  <2>2. m \in Resolved
    BY <1>3, <2>1 DEF UnderWay
  <2>3. /\ \A i \in Alive(handles', remote') : entries[i] = denotes'[i]
        /\ \A i \in Alive(handles', remote') : i \in Alive(handles, remote) \/ (i = m.id /\ m.id # 0)
    <3>1. CASE m.id # 0 /\ PopHandle(m)
      BY <1>1, <1>2, <1>3, <1>4, <2>1, <2>2, <3>1, PopFacts DEF UnderWay, Resolved
    <3>2. CASE UNCHANGED <<denotes, handles>>
      <4>1. denotes' = denotes /\ Alive(handles', remote') = Alive(handles, remote)
        BY <1>1, <3>2 DEF Alive
      <4>2. \A i \in Alive(handles, remote) : entries[i] = denotes[i]
        BY <2>1 DEF UnderWay
      <4> QED
        BY <4>1, <4>2
    <3> QED
      BY <1>6, <3>1, <3>2
  <2>4. \A i : GivenAway(i)' <=> GivenAway(i)
    BY <1>1, <1>10 DEF GivenAway
  <2>5. /\ All(toClient', Resolved) /\ SentSince(toClient', live)
        /\ \A i : Uses(toClient', i) => Uses(toClient, i)
        /\ All(toServer', Resolved) /\ All(eventQueue', Resolved)
    BY <1>2, <1>3, <1>10, <2>1, TakesFacts DEF UnderWay
  <2>6. ASSUME NEW i \in Ids, GivenAway(i)'
        PROVE  /\ i \notin Alive(handles', remote')
               /\ Spent(toServer', i) /\ ~Uses(toClient', i) /\ ~Uses(eventQueue', i)
    <3>1. /\ i \notin Alive(handles, remote) /\ i # 0
          /\ Spent(toServer, i) /\ ~Uses(toClient, i) /\ ~Uses(eventQueue, i)
      BY <1>2, <2>1, <2>4, <2>6, Typing DEF UnderWay
    <3> QED
      BY <1>3, <1>10, <2>3, <2>5, <3>1
  <2> QED
    BY <1>1, <1>4, <2>3, <2>5, <2>6 DEF UnderWay
<1>19. failed' # "emission"
  BY <1>6
<1> QED
  BY <1>5, <1>12, <1>13, <1>14, <1>15, <1>16, <1>17, <1>18, <1>19 DEF IInv

LEMMA DispatchEventInv == IInv /\ DispatchEvent => IInv'
<1> SUFFICES ASSUME IInv, DispatchEvent PROVE IInv'
  OBVIOUS
<1>1. PICK m : EventTaken(m) /\ RunHandler(m)
  BY DEF DispatchEvent, EventTaken
<1>2. /\ failed = "no" /\ phase = "app"
      /\ UNCHANGED <<serverVars, remote, seenGarbage, slot, phase, calling, overtaken>>
  BY DEF DispatchEvent, InApp
<1> QED
  BY <1>1, <1>2, RunHandlerInv

\* The server takes a message that is neither a report nor a request for a
\* collection.
LEMMA ServerTakes ==
  ASSUME IInv, Grown, toServer # <<>>, toServer' = Tail(toServer),
         Head(toServer).kind \notin {"SEEN_GARBAGE", "REPORT"},
         UNCHANGED <<clientVars, overtaken>>
  PROVE  /\ toServer' \in Seq(Messages) /\ Taken(toServer', toServer, Head(toServer))
         /\ All(toServer', Sent') /\ All(toClient, Received') /\ All(eventQueue', Received')
         /\ \A K : One(toServer, K) => One(toServer', K)
         /\ \A K : Has(toServer', K) => Has(toServer, K)
         /\ Has(toServer', {"SEEN_GARBAGE"}) <=> Has(toServer, {"SEEN_GARBAGE"})
         /\ Has(toServer', {"REPORT"}) <=> Has(toServer, {"REPORT"})
         /\ ReportFirst(toServer')
         /\ Distinct(toServer') /\ Emissions(toServer') \subseteq Emissions(toServer)
         /\ ~overtaken =>
              /\ All(toServer', Resolved') /\ All(toClient, Resolved') /\ All(eventQueue', Resolved')
              /\ \A i \in Alive(handles, remote)' : entries'[i] = denotes'[i]
              /\ \A i \in Ids' : GivenAway(i)' =>
                   /\ i \in Ids /\ i \notin live'
                   /\ i \notin Alive(handles, remote)'
                   /\ Spent(toServer', i) /\ ~Uses(toClient, i) /\ ~Uses(eventQueue', i)
              /\ SentSince(toClient, live')
<1>1. /\ TypeOK /\ MessagesTyped /\ MapExact /\ OneRequest /\ OneCollection /\ OneEmission
      /\ InOrder /\ toClient \in Seq(Messages) /\ toServer \in Seq(Messages)
  BY Typing DEF IInv
<1>2. toServer' \in Seq(Messages) /\ Taken(toServer', toServer, Head(toServer))
  BY <1>1, TailFacts
<1>3. UNCHANGED <<denotes, handles, remote, seenGarbage, slot, eventQueue, phase, calling>>
  BY DEF clientVars, handleVars
<1>4. All(toServer', Sent') /\ All(toClient, Received') /\ All(eventQueue', Received')
  BY <1>1, <1>2, <1>3, GrownFacts DEF MessagesTyped, Taken, TakenIds
<1>5. /\ \A K : One(toServer, K) => One(toServer', K)
      /\ \A K : Has(toServer', K) => Has(toServer, K)
      /\ Has(toServer', {"SEEN_GARBAGE"}) <=> Has(toServer, {"SEEN_GARBAGE"})
      /\ Has(toServer', {"REPORT"}) <=> Has(toServer, {"REPORT"})
      /\ ReportFirst(toServer')
  BY <1>1, <1>2 DEF OneCollection, Taken, TakenKinds
<1>6. Distinct(toServer') /\ Emissions(toServer') \subseteq Emissions(toServer)
  BY <1>1, <1>2 DEF OneEmission, Taken, TakenEmission
<1>7. ASSUME ~overtaken
      PROVE  /\ All(toServer', Resolved') /\ All(toClient, Resolved') /\ All(eventQueue', Resolved')
             /\ \A i \in Alive(handles, remote)' : entries'[i] = denotes'[i]
             /\ \A i \in Ids' : GivenAway(i)' =>
                  /\ i \in Ids /\ i \notin live'
                  /\ i \notin Alive(handles, remote)'
                  /\ Spent(toServer', i) /\ ~Uses(toClient, i) /\ ~Uses(eventQueue', i)
             /\ SentSince(toClient, live')
  <2>1. UnderWay
    BY <1>1, <1>7 DEF InOrder
  <2>2. All(toServer', Resolved') /\ All(toClient, Resolved') /\ All(eventQueue', Resolved')
    BY <1>1, <1>2, <1>3, <2>1, GrownFacts DEF UnderWay, MessagesTyped, Taken, TakenIds
  <2>3. Alive(handles, remote)' = Alive(handles, remote)
    BY <1>3 DEF Alive
  <2>4. \A i \in Alive(handles, remote)' : entries'[i] = denotes'[i]
    BY <1>1, <1>3, <2>1, <2>3, HeldFacts DEF UnderWay
  <2>5. ASSUME NEW i, GivenAway(i)'
        PROVE  GivenAway(i) /\ i \in Ids /\ i \notin live'
    <3>1. i \in sweep /\ i \notin live' /\ Reported(toServer', i) /\ i \notin live
      BY <2>5 DEF GivenAway, Grown
    <3>2. Reported(toServer, i)
      BY <1>2, <3>1 DEF Taken, TakenIds
    <3> QED
      BY <1>1, <3>1, <3>2 DEF GivenAway, TypeOK
  <2>6. \A i : Spent(toServer, i) => Spent(toServer', i)
    BY <1>2 DEF Taken, TakenIds
  <2>7. SentSince(toClient, live')
    BY <2>1, Larger DEF UnderWay, Grown
  <2> QED
    BY <1>3, <2>1, <2>2, <2>3, <2>4, <2>5, <2>6, <2>7 DEF UnderWay
<1> QED
  BY <1>2, <1>4, <1>5, <1>6, <1>7

\* The server's variables are typed when nothing is sent, or m is.
LEMMA ServerTyped ==
  ASSUME TypeOK, Grown, UNCHANGED <<clientVars, overtaken>>,
         signalOf' \in [Handler -> Object \cup {NoObject}], answering' \subseteq Emission,
         failed' \in {"no", "self", "handler", "emission"},
         toServer' \in Seq(Messages'), toClient' \in Seq(Messages')
  PROVE  TypeOK'
<1>1. UNCHANGED <<denotes, handles, remote, seenGarbage, slot, eventQueue, phase, calling>>
  BY DEF clientVars, handleVars
<1>2. eventQueue' \in Seq(Messages')
  BY <1>1, Typing, GrownFacts
<1>3. sweep' \subseteq Ids' /\ DOMAIN denotes' \subseteq Ids' /\ sweeping' \in BOOLEAN
  BY <1>1 DEF TypeOK, Grown
<1> QED
  BY <1>1, <1>2, <1>3 DEF TypeOK, Grown

\* It answers a request.
LEMMA ReplyInv ==
  ASSUME IInv, Grown, toServer # <<>>, Head(toServer).kind \in Requests,
         toServer' = Tail(toServer), NEW m, toClient' = Append(toClient, m),
         m \in Received', m.kind \in Answers, m.emission = NoEmission,
         m.id # 0 => m.id \in live' /\ m.id \in Ids' /\ entries'[m.id] = m.obj,
         signalOf' \in [Handler -> Object \cup {NoObject}],
         UNCHANGED <<clientVars, answering, failed, overtaken>>
  PROVE  /\ TypeOK' /\ MessagesTyped' /\ MapExact' /\ OneCollection' /\ OneRequest' /\ OneEmission'
         /\ InOrder'
<1>1. /\ TypeOK /\ MessagesTyped /\ MapExact /\ OneRequest /\ OneCollection /\ OneEmission
      /\ InOrder /\ toClient \in Seq(Messages) /\ toServer \in Seq(Messages)
  BY Typing DEF IInv
<1>2. UNCHANGED <<denotes, handles, remote, seenGarbage, slot, eventQueue, phase, calling>>
  BY DEF clientVars, handleVars
<1>3. Head(toServer).kind \notin {"SEEN_GARBAGE", "REPORT"}
  BY DEF Requests
<1>4. m \in Messages' /\ toClient \in Seq(Messages') /\ Messages \subseteq Messages'
  BY <1>1, GrownFacts DEF Received
<1>5. toClient' \in Seq(Messages') /\ Added(toClient', toClient, m)
  BY <1>4, AppendFacts
<1>6. toServer' \in Seq(Messages) /\ Taken(toServer', toServer, Head(toServer))
  BY <1>1, TailFacts
<1>7. TypeOK'
  <2>1. toServer' \in Seq(Messages')
    BY <1>1, <1>6, GrownFacts
  <2> QED
    BY <1>1, <1>5, <2>1, ServerTyped DEF TypeOK
<1>8. MessagesTyped'
  <2>1. All(toServer', Sent') /\ All(toClient, Received') /\ All(eventQueue', Received')
    BY <1>3, ServerTakes
  <2>2. All(toClient', Received')
    BY <1>5, <2>1 DEF Added, AddedIds
  <2> QED
    BY <1>1, <1>2, <2>1, <2>2 DEF MessagesTyped
<1>9. OneCollection'
  <2>1. /\ \A K : One(toServer, K) => One(toServer', K)
        /\ Has(toServer', {"SEEN_GARBAGE"}) <=> Has(toServer, {"SEEN_GARBAGE"})
        /\ Has(toServer', {"REPORT"}) <=> Has(toServer, {"REPORT"})
        /\ ReportFirst(toServer')
    BY <1>3, ServerTakes
  <2>2. One(toClient', {"SWEEP"}) /\ (Has(toClient', {"SWEEP"}) <=> Has(toClient, {"SWEEP"}))
    BY <1>1, <1>5 DEF OneCollection, Added, AddedKinds, Answers
  <2> QED
    BY <1>1, <1>2, <2>1, <2>2 DEF OneCollection, Grown
<1>10. OneRequest'
  <2>1. One(toServer', Requests) /\ ~Has(toServer', Requests) /\ Has(toServer, Requests)
    BY <1>1, <1>6 DEF OneRequest, Taken, TakenKinds
  <2>2. One(toClient', Answers)
    BY <1>1, <1>5, <2>1 DEF OneRequest, Added, AddedKinds
  <2> QED
    BY <1>1, <1>2, <2>1, <2>2 DEF OneRequest
<1>11. OneEmission'
  <2>1. Distinct(toServer') /\ Emissions(toServer') \subseteq Emissions(toServer)
    BY <1>3, ServerTakes
  <2>2. NoEmission \notin Emissions(toClient)
    BY DEF Emissions
  <2>3. Distinct(toClient') /\ Emissions(toClient') = Emissions(toClient)
    BY <1>1, <1>5, <2>2 DEF OneEmission, Added, AddedEmission
  <2> QED
    BY <1>1, <1>2, <2>1, <2>3 DEF OneEmission
<1>12. InOrder'
  <2> SUFFICES ASSUME ~overtaken PROVE UnderWay'
    BY DEF InOrder
  <2>1. /\ All(toServer', Resolved') /\ All(toClient, Resolved') /\ All(eventQueue', Resolved')
        /\ \A i \in Alive(handles, remote)' : entries'[i] = denotes'[i]
        /\ \A i \in Ids' : GivenAway(i)' =>
             /\ i \in Ids /\ i \notin live'
             /\ i \notin Alive(handles, remote)'
             /\ Spent(toServer', i) /\ ~Uses(toClient, i) /\ ~Uses(eventQueue', i)
        /\ SentSince(toClient, live')
    BY <1>3, ServerTakes
  <2>2. m \in Resolved'
    BY <1>4 DEF Resolved
  <2>3. 0 \notin Ids
    BY <1>1, Typing
  <2>4. All(toClient', Resolved') /\ SentSince(toClient', live')
    BY <1>5, <2>1, <2>2 DEF Added, AddedIds
  <2>5. \A i : Uses(toClient', i) => Uses(toClient, i) \/ m.id = i
    BY <1>5 DEF Added, AddedIds
  <2> QED
    BY <2>1, <2>3, <2>4, <2>5 DEF UnderWay
<1> QED
  BY <1>7, <1>8, <1>9, <1>10, <1>11, <1>12 DEF Grown

\* It answers nothing.
LEMMA NoReplyInv ==
  ASSUME IInv, UNCHANGED <<entries, freeList, live, sweep, sweeping, signalOf, toClient>>,
         toServer # <<>>, toServer' = Tail(toServer),
         Head(toServer).kind \notin {"SEEN_GARBAGE", "REPORT"},
         Head(toServer).kind \in {"CONNECT", "DISCONNECT"} => failed' = "self",
         UNCHANGED <<clientVars, overtaken>>,
         answering' \subseteq answering, answering \ answering' \subseteq {Head(toServer).emission},
         failed' \in {"no", "self"}, failed = "no"
  PROVE  IInv'
<1> DEFINE m == Head(toServer)
<1>1. /\ TypeOK /\ MessagesTyped /\ MapExact /\ OneRequest /\ OneCollection /\ OneEmission
      /\ EmittersStay /\ InOrder /\ toClient \in Seq(Messages) /\ toServer \in Seq(Messages)
  BY Typing DEF IInv
<1>2. UNCHANGED <<denotes, handles, remote, seenGarbage, slot, eventQueue, phase, calling>>
  BY DEF clientVars, handleVars
<1>3. Grown /\ MapExact' /\ Ids' = Ids /\ Messages' = Messages
  BY <1>1, UnchangedIsGrown DEF Grown
<1>4. toServer' \in Seq(Messages) /\ Taken(toServer', toServer, m)
  BY <1>1, TailFacts
<1> HIDE DEF m
<1>5. /\ m.kind \notin {"SEEN_GARBAGE", "REPORT"}
      /\ m.kind \in {"CONNECT", "DISCONNECT"} => failed' = "self"
  BY DEF m
<1>6. TypeOK'
  BY <1>1, <1>3, <1>4, ServerTyped DEF TypeOK
<1>7. MessagesTyped'
  BY <1>1, <1>2, <1>3, <1>5, ServerTakes DEF MessagesTyped, m
<1>8. OneCollection'
  BY <1>1, <1>2, <1>3, <1>5, ServerTakes DEF OneCollection, m
<1>9. OneRequest'
  BY <1>1, <1>2, <1>3, <1>5, ServerTakes DEF OneRequest, m
<1>10. OneEmission'
  <2>1. /\ Distinct(toServer') /\ Emissions(toServer') \subseteq Emissions(toServer)
        /\ m.emission \notin Emissions(toServer')
    BY <1>1, <1>4 DEF OneEmission, Taken, TakenEmission
  <2>2. m.emission \notin Emissions(toClient) /\ m.emission \notin Emissions(eventQueue)
    <3>1. m.emission = NoEmission \/ m.emission \in Emissions(toServer)
      BY <1>4 DEF Taken, TakenEmission
    <3>2. NoEmission \notin Emissions(toClient) /\ NoEmission \notin Emissions(eventQueue)
      BY DEF Emissions
    <3> QED
      BY <1>1, <3>1, <3>2 DEF OneEmission
  <2> QED
    BY <1>1, <1>2, <2>1, <2>2 DEF OneEmission, m
<1>11. EmittersStay'
  <2>1. CASE failed' = "self"
    BY <2>1 DEF EmittersStay
  <2>2. CASE failed' = "no"
    <3>1. \A h \in Handler : Connected(h)' => Connected(h)
      BY <1>2, <1>4, <1>5, <2>2 DEF Connected, Taken, TakenIds
    <3> QED
      BY <1>1, <1>2, <1>3, <1>4, <3>1, EmittersKept DEF Taken, TakenIds
  <2> QED
    BY <2>1, <2>2
<1>12. InOrder'
  <2> SUFFICES ASSUME ~overtaken PROVE UnderWay'
    BY DEF InOrder
  <2> QED
    BY <1>3, <1>5, ServerTakes DEF UnderWay, m
<1> QED
  BY <1>3, <1>6, <1>7, <1>8, <1>9, <1>10, <1>11, <1>12 DEF IInv

\* A method answers with nothing, or with an object it exports.
LEMMA AnswerInv ==
  ASSUME IInv, NEW kind \in Answers, toServer # <<>>, Head(toServer).kind \in {"HELLO", "CALL_TWOWAY"},
         \/ /\ Reply(About(kind, 0, NoObject))
            /\ UNCHANGED <<mapVars, live>>
         \/ \E o \in Object, i \in 1 .. Len(entries) + 1 :
              AddInterface(o, i) /\ Reply(About(kind, i, o)),
         UNCHANGED <<clientVars, sweep, sweeping, signalOf, answering, ghostVars>>
  PROVE  IInv'
<1>1. /\ TypeOK /\ MessagesTyped /\ MapExact /\ EmittersStay /\ toServer \in Seq(Messages)
      /\ failed # "emission" /\ signalOf \in [Handler -> Object \cup {NoObject}]
  BY Typing DEF IInv, TypeOK
<1>2. UNCHANGED <<denotes, handles, remote, slot, failed, overtaken>>
  BY DEF clientVars, handleVars, ghostVars
<1>3. Head(toServer).kind \in Requests /\ kind \in MessageKinds
  BY DEF Requests, Answers, MessageKinds
<1>4. PICK m : /\ Grown /\ toServer' = Tail(toServer) /\ toClient' = Append(toClient, m)
               /\ m \in Received' /\ m.kind = kind /\ m.emission = NoEmission
               /\ m.id # 0 => m.id \in live' /\ m.id \in Ids' /\ entries'[m.id] = m.obj
  <2>1. CASE Reply(About(kind, 0, NoObject)) /\ UNCHANGED <<mapVars, live>>
    <3>1. Grown /\ Messages' = Messages
      BY <1>1, <2>1, UnchangedIsGrown DEF mapVars
    <3>2. HasFields(About(kind, 0, NoObject), Ids, kind, 0, NoObject, NoHandler, NoEmission, {}, TRUE)
      BY <1>3, AboutFields
    <3> QED
      BY <2>1, <3>1, <3>2, MessagesAre DEF Reply, Post, HasFields, Received
  <2>2. CASE \E o \in Object, i \in 1 .. Len(entries) + 1 :
               AddInterface(o, i) /\ Reply(About(kind, i, o))
    <3>1. PICK o \in Object, i \in 1 .. Len(entries) + 1 :
            AddInterface(o, i) /\ Reply(About(kind, i, o))
      BY <2>2
    <3>2. Grown /\ i \in Ids' /\ i \in live' /\ i # 0 /\ entries'[i] = o
      BY <1>1, <3>1, AddedIsGrown
    <3>3. HasFields(About(kind, i, o), Ids', kind, i, o, NoHandler, NoEmission, {}, TRUE)
      <4>1. i \in Ids' \cup {0} /\ o \in Object \cup {NoObject}
        BY <3>2
      <4> QED
        BY <1>3, <4>1, AboutFields
    <3>4. About(kind, i, o) \in Messages'
      BY <3>3 DEF HasFields, Messages, MessagesOver
    <3> QED
      BY <3>1, <3>2, <3>3, <3>4 DEF Reply, Post, HasFields, Received
  <2> QED
    BY <2>1, <2>2
<1>5. /\ TypeOK' /\ MessagesTyped' /\ MapExact' /\ OneCollection' /\ OneRequest' /\ OneEmission'
      /\ InOrder'
  BY <1>1, <1>2, <1>3, <1>4, ReplyInv
<1>6. EmittersStay'
  <2>1. Taken(toServer', toServer, Head(toServer))
    BY <1>1, <1>4, TailFacts
  <2>2. \A h \in Handler : Connected(h)' => Connected(h)
    BY <1>2, <2>1 DEF Connected, Taken, TakenIds
  <2> QED
    BY <1>1, <1>2, <1>4, <2>1, <2>2, EmittersKept DEF Taken, TakenIds
<1> QED
  BY <1>1, <1>2, <1>5, <1>6 DEF IInv

LEMMA ServeHelloInv == IInv /\ ServeHello => IInv'
<1> SUFFICES ASSUME IInv, ServeHello PROVE IInv'
  OBVIOUS
<1>1. PICK i \in 1 .. Len(entries) + 1 : AddInterface(Origin, i) /\ Reply(About("WELCOME", i, Origin))
  BY DEF ServeHello
<1>2. /\ toServer # <<>> /\ Head(toServer).kind = "HELLO"
      /\ UNCHANGED <<clientVars, sweep, sweeping, signalOf, answering, ghostVars>>
  BY DEF ServeHello, Serves
<1>3. Origin \in Object /\ "WELCOME" \in Answers
  BY RemoteAssumption DEF Answers
<1> QED
  BY <1>1, <1>2, <1>3, AnswerInv

LEMMA ServeTwowayInv == IInv /\ ServeTwoway => IInv'
<1> SUFFICES ASSUME IInv, ServeTwoway PROVE IInv'
  OBVIOUS
<1>1. /\ toServer # <<>> /\ Head(toServer).kind = "CALL_TWOWAY"
      /\ \/ /\ Reply(About("CALL_RESULT", 0, NoObject))
            /\ UNCHANGED <<mapVars, live>>
         \/ \E o \in Object, i \in 1 .. Len(entries) + 1 :
              AddInterface(o, i) /\ Reply(About("CALL_RESULT", i, o))
      /\ UNCHANGED <<clientVars, sweep, sweeping, signalOf, answering, ghostVars>>
  BY DEF ServeTwoway, Serves
<1>2. "CALL_RESULT" \in Answers
  BY DEF Answers
<1> QED
  BY <1>1, <1>2, AnswerInv

LEMMA ServeOnewayInv == IInv /\ ServeOneway => IInv'
<1> SUFFICES ASSUME IInv, ServeOneway PROVE IInv'
  OBVIOUS
<1>1. /\ failed = "no" /\ failed' = "no" /\ toServer # <<>> /\ Head(toServer).kind = "CALL_ONEWAY"
      /\ toServer' = Tail(toServer) /\ answering' = answering
      /\ UNCHANGED <<entries, freeList, live, sweep, sweeping, signalOf, toClient>>
      /\ UNCHANGED <<clientVars, overtaken>>
  BY DEF ServeOneway, Serves, NoReply, serverVars, mapVars, sweepVars, ghostVars
<1> QED
  BY <1>1, NoReplyInv

\* The message of a request to connect or disconnect says what its sender has.
LEMMA HandlerRequest ==
  ASSUME TypeOK, MessagesTyped, OneRequest, toServer # <<>>,
         NEW m, m = Head(toServer), m.kind \in {"CONNECT", "DISCONNECT"}
  PROVE  /\ m \in Messages /\ m \in Sent /\ m.handler \in Handler /\ m.id = remote[m.handler]
         /\ m.kind = "DISCONNECT" => slot[m.handler] = "null"
         /\ Taken(Tail(toServer), toServer, m) /\ ~Has(Tail(toServer), Requests)
         /\ \A h : ~Names(Tail(toServer), "CONNECT", h) /\ ~Names(Tail(toServer), "DISCONNECT", h)
         /\ Names(toServer, m.kind, m.handler)
<1>1. m \in Messages /\ Taken(Tail(toServer), toServer, m)
  BY Typing, TailFacts
<1>2. m \in Sent /\ Names(toServer, m.kind, m.handler)
  BY <1>1 DEF MessagesTyped, Taken, TakenIds
<1>3. ~Has(Tail(toServer), Requests)
  <2>1. m.kind \in Requests
    BY DEF Requests
  <2> QED
    BY <1>1, <2>1 DEF OneRequest, Taken, TakenKinds
<1>4. m.handler \in Handler /\ m.id = remote[m.handler]
  BY <1>2 DEF Sent
<1>5. m.kind = "DISCONNECT" => slot[m.handler] = "null"
  BY <1>2, <1>4, RemoteAssumption DEF Sent, MessagesTyped
<1> QED
  BY <1>1, <1>2, <1>3, <1>4, <1>5, Vacuous

LEMMA ServeConnectInv == IInv /\ ServeConnect => IInv'
<1> SUFFICES ASSUME IInv, ServeConnect PROVE IInv'
  OBVIOUS
<1> DEFINE m == Head(toServer)
           r == About("CONNECT_RESULT", 0, NoObject)
<1>1. /\ failed = "no" /\ toServer # <<>> /\ m.kind = "CONNECT" /\ PopInterface(m.id) # NoObject
      /\ signalOf' = [signalOf EXCEPT ![m.handler] = PopInterface(m.id)]
      /\ toServer' = Tail(toServer) /\ toClient' = Append(toClient, r)
      /\ UNCHANGED <<entries, freeList, live, sweep, sweeping, answering, clientVars, failed, overtaken>>
  BY DEF ServeConnect, Serves, SelfIsNull, Reply, Post, mapVars, sweepVars, ghostVars
<1>2. /\ TypeOK /\ MessagesTyped /\ MapExact /\ OneRequest /\ EmittersStay
  BY DEF IInv
<1>3. /\ Grown /\ MapExact' /\ Ids' = Ids /\ Messages' = Messages
      /\ UNCHANGED <<handles, remote, slot>>
  BY <1>1, <1>2, UnchangedIsGrown DEF Grown, clientVars, handleVars
<1>4. HasFields(r, Ids, "CONNECT_RESULT", 0, NoObject, NoHandler, NoEmission, {}, TRUE)
  BY AboutFields DEF MessageKinds
<1> HIDE DEF m, r
<1>5. /\ m \in Messages /\ m.handler \in Handler /\ m.id = remote[m.handler]
      /\ Taken(toServer', toServer, m) /\ Names(toServer, "CONNECT", m.handler)
      /\ \A h : ~Names(toServer', "CONNECT", h) /\ ~Names(toServer', "DISCONNECT", h)
  BY <1>1, <1>2, HandlerRequest DEF m
<1>6. m.id \in Ids /\ PopInterface(m.id) = entries[m.id] /\ entries[m.id] \in Object
  BY <1>1, <1>2, Typing DEF PopInterface, Ids
<1>7. r \in Received'
  BY <1>3, <1>4, MessagesAre DEF HasFields, Received
<1>8. /\ TypeOK' /\ MessagesTyped' /\ OneCollection' /\ OneRequest' /\ OneEmission' /\ InOrder'
  <2>1. signalOf' \in [Handler -> Object \cup {NoObject}]
    BY <1>1, <1>2, <1>5, <1>6 DEF TypeOK
  <2>2. Head(toServer).kind \in Requests /\ r.kind \in Answers
    BY <1>1, <1>4 DEF m, Requests, Answers, HasFields
  <2> QED
    BY <1>1, <1>3, <1>4, <1>7, <2>1, <2>2, ReplyInv DEF HasFields
<1>9. EmittersStay'
  <2> SUFFICES ASSUME NEW h \in Handler
               PROVE  /\ Connected(h)' => /\ entries[remote[h]] = signalOf'[h] /\ signalOf'[h] # NoObject
                                          /\ ~Reported(toServer', remote[h])
                      /\ Spares(toServer', h, remote[h])
    BY <1>1, <1>3 DEF EmittersStay
  <2>1. Spares(toServer', h, remote[h])
    BY <1>5, Vacuous
  <2>2. CASE h = m.handler
    <3>1. signalOf'[h] = entries[remote[h]] /\ signalOf'[h] # NoObject
      BY <1>1, <1>2, <1>5, <1>6, <2>2, RemoteAssumption DEF TypeOK
    <3>2. ~Reported(toServer', remote[h])
      BY <1>1, <1>2, <1>5, <2>2 DEF EmittersStay, Taken, TakenIds
    <3> QED
      BY <2>1, <3>1, <3>2
  <2>3. CASE h # m.handler
    <3>1. signalOf'[h] = signalOf[h]
      BY <1>1, <1>2, <2>3 DEF TypeOK
    <3>2. Connected(h)' => Connected(h)
      BY <1>1, <1>3, <1>5, <2>3 DEF Connected, Taken, TakenIds
    <3>3. Reported(toServer', remote[h]) => Reported(toServer, remote[h])
      BY <1>5 DEF Taken, TakenIds
    <3> QED
      BY <1>1, <1>2, <2>1, <3>1, <3>2, <3>3 DEF EmittersStay
  <2> QED
    BY <2>2, <2>3
<1> QED
  BY <1>1, <1>3, <1>8, <1>9 DEF IInv

\* A handler is found where it is disconnected.
LEMMA ServeDisconnectInv == IInv /\ ServeDisconnect => IInv'
<1> SUFFICES ASSUME IInv, ServeDisconnect PROVE IInv'
  OBVIOUS
<1> DEFINE m == Head(toServer)
           found == signalOf[m.handler] = PopInterface(m.id)
           r == [About("CONNECT_RESULT", 0, NoObject) EXCEPT !.ok = found]
<1>1. /\ failed = "no" /\ toServer # <<>> /\ m.kind = "DISCONNECT"
      /\ signalOf' = [signalOf EXCEPT ![m.handler] = IF found THEN NoObject ELSE @]
      /\ toServer' = Tail(toServer) /\ toClient' = Append(toClient, r)
      /\ UNCHANGED <<entries, freeList, live, sweep, sweeping, answering, clientVars, failed, overtaken>>
  BY DEF ServeDisconnect, Serves, SelfIsNull, Reply, Post, mapVars, sweepVars, ghostVars
<1>2. /\ TypeOK /\ MessagesTyped /\ MapExact /\ OneRequest /\ EmittersStay
  BY DEF IInv
<1>3. /\ Grown /\ MapExact' /\ Ids' = Ids /\ Messages' = Messages
      /\ UNCHANGED <<handles, remote, slot>>
  BY <1>1, <1>2, UnchangedIsGrown DEF Grown, clientVars, handleVars
<1>4. HasFields(r, Ids, "CONNECT_RESULT", 0, NoObject, NoHandler, NoEmission, {}, found)
  <2>1. found \in BOOLEAN
    OBVIOUS
  <2> HIDE DEF found
  <2> QED
    BY <2>1, AboutFields DEF MessageKinds
<1> HIDE DEF m, r
<1>5. /\ m \in Messages /\ m.handler \in Handler /\ m.id = remote[m.handler]
      /\ slot[m.handler] = "null"
      /\ Taken(toServer', toServer, m) /\ Names(toServer, "DISCONNECT", m.handler)
      /\ \A h : ~Names(toServer', "CONNECT", h) /\ ~Names(toServer', "DISCONNECT", h)
  BY <1>1, <1>2, HandlerRequest DEF m
<1>6. found
  <2>1. Connected(m.handler)
    BY <1>5 DEF Connected
  <2>2. entries[m.id] = signalOf[m.handler] /\ m.id \in Ids
    BY <1>1, <1>2, <1>5, <2>1, EmitterFacts DEF EmittersStay
  <2> QED
    BY <2>2 DEF PopInterface, Ids
<1>7. r \in Received'
  BY <1>3, <1>4, <1>6, MessagesAre DEF HasFields, Received
<1>8. signalOf' = [signalOf EXCEPT ![m.handler] = NoObject]
  BY <1>1, <1>6
<1> HIDE DEF found
<1>9. /\ TypeOK' /\ MessagesTyped' /\ OneCollection' /\ OneRequest' /\ OneEmission' /\ InOrder'
  <2>1. signalOf' \in [Handler -> Object \cup {NoObject}]
    BY <1>2, <1>5, <1>8 DEF TypeOK
  <2>2. Head(toServer).kind \in Requests /\ r.kind \in Answers
    BY <1>1, <1>4 DEF m, Requests, Answers, HasFields
  <2> QED
    BY <1>1, <1>3, <1>4, <1>7, <2>1, <2>2, ReplyInv DEF HasFields
<1>10. EmittersStay'
  <2> SUFFICES ASSUME NEW h \in Handler
               PROVE  /\ Connected(h)' => /\ entries[remote[h]] = signalOf'[h] /\ signalOf'[h] # NoObject
                                          /\ ~Reported(toServer', remote[h])
                      /\ Spares(toServer', h, remote[h])
    BY <1>1, <1>3 DEF EmittersStay
  <2>1. Spares(toServer', h, remote[h])
    BY <1>5, Vacuous
  <2>2. ASSUME Connected(h)' PROVE h # m.handler /\ Connected(h)
    BY <1>1, <1>3, <1>5, <2>2 DEF Connected, Taken, TakenIds
  <2>3. h # m.handler => signalOf'[h] = signalOf[h]
    BY <1>2, <1>8 DEF TypeOK
  <2>4. Reported(toServer', remote[h]) => Reported(toServer, remote[h])
    BY <1>5 DEF Taken, TakenIds
  <2> QED
    BY <1>1, <1>2, <2>1, <2>2, <2>3, <2>4 DEF EmittersStay
<1> QED
  BY <1>1, <1>3, <1>9, <1>10 DEF IInv

LEMMA ServeOnNullInv == IInv /\ ServeOnNull => IInv'
<1> SUFFICES ASSUME IInv, ServeOnNull PROVE IInv'
  OBVIOUS
<1>1. /\ failed = "no" /\ failed' = "self" /\ toServer # <<>>
      /\ Head(toServer).kind \in {"CALL_TWOWAY", "CALL_ONEWAY", "CONNECT", "DISCONNECT"}
      /\ toServer' = Tail(toServer) /\ answering' = answering
      /\ UNCHANGED <<entries, freeList, live, sweep, sweeping, signalOf, toClient>>
      /\ UNCHANGED <<clientVars, overtaken>>
  BY DEF ServeOnNull, Serves, NoReply, serverVars, mapVars, sweepVars
<1> QED
  BY <1>1, NoReplyInv

\* The result of an emission is awaited.
LEMMA ServeEmitResultInv == IInv /\ ServeEmitResult => IInv'
<1> SUFFICES ASSUME IInv, ServeEmitResult PROVE IInv'
  OBVIOUS
<1> DEFINE m == Head(toServer)
<1>1. /\ failed = "no" /\ toServer # <<>> /\ m.kind = "EMIT_RESULT"
      /\ IF m.emission \in answering THEN answering' = answering \ {m.emission} /\ UNCHANGED failed
                                     ELSE failed' = "emission" /\ UNCHANGED answering
      /\ toServer' = Tail(toServer)
      /\ UNCHANGED <<entries, freeList, live, sweep, sweeping, signalOf, toClient>>
      /\ UNCHANGED <<clientVars, overtaken>>
  BY DEF ServeEmitResult, Serves, NoReply, mapVars, sweepVars
<1>2. /\ TypeOK /\ MessagesTyped /\ OneEmission /\ toServer \in Seq(Messages)
  BY Typing DEF IInv
<1>3. Taken(toServer', toServer, m)
  BY <1>1, <1>2, TailFacts
<1>4. m.emission # NoEmission
  <2>1. m \in Sent
    BY <1>2, <1>3 DEF MessagesTyped, Taken, TakenIds
  <2> QED
    BY <1>1, <2>1 DEF Sent
<1>5. m.emission \in answering
  BY <1>2, <1>3, <1>4 DEF OneEmission, Taken, TakenEmission
<1> QED
  BY <1>1, <1>5, NoReplyInv

\* The client asks for a collection while none is under way.
LEMMA SeenGarbageFacts ==
  ASSUME IInv, toServer # <<>>, Head(toServer).kind = "SEEN_GARBAGE"
  PROVE  /\ Taken(Tail(toServer), toServer, Head(toServer)) /\ Tail(toServer) \in Seq(Messages)
         /\ ~sweeping /\ sweep = {} /\ seenGarbage
         /\ ~Has(toClient, {"SWEEP"}) /\ ~Has(Tail(toServer), {"SEEN_GARBAGE"})
         /\ ~Has(Tail(toServer), {"REPORT"})
<1>1. TypeOK /\ OneCollection /\ toServer \in Seq(Messages)
  BY Typing DEF IInv
<1>2. Taken(Tail(toServer), toServer, Head(toServer)) /\ Tail(toServer) \in Seq(Messages)
  BY <1>1, TailFacts
<1>3. /\ Has(toServer, {"SEEN_GARBAGE"}) /\ ~Has(toServer, {"REPORT"})
      /\ ~Has(Tail(toServer), {"SEEN_GARBAGE"}) /\ ~Has(Tail(toServer), {"REPORT"})
  BY <1>1, <1>2 DEF OneCollection, Taken, TakenKinds
<1> QED
  BY <1>1, <1>2, <1>3 DEF OneCollection

LEMMA ServeSeenGarbageInv == IInv /\ ServeSeenGarbage => IInv'
<1> SUFFICES ASSUME IInv, ServeSeenGarbage PROVE IInv'
  OBVIOUS
<1> DEFINE m == Head(toServer)
           r == About("SWEEP", 0, NoObject)
<1>1. toServer # <<>> /\ m.kind = "SEEN_GARBAGE" /\ failed = "no"
  BY DEF ServeSeenGarbage, Serves
<1>2. /\ Taken(Tail(toServer), toServer, m) /\ Tail(toServer) \in Seq(Messages)
      /\ ~sweeping /\ sweep = {} /\ seenGarbage
      /\ ~Has(toClient, {"SWEEP"}) /\ ~Has(Tail(toServer), {"SEEN_GARBAGE"})
      /\ ~Has(Tail(toServer), {"REPORT"})
  BY <1>1, SeenGarbageFacts
<1>3. /\ sweeping' = TRUE /\ sweep' = live /\ live' = {}
      /\ toServer' = Tail(toServer) /\ toClient' = Append(toClient, r)
      /\ UNCHANGED <<entries, freeList, signalOf, answering, failed, overtaken>>
      /\ UNCHANGED <<denotes, handles, remote, seenGarbage, slot, eventQueue, phase, calling>>
  BY <1>2 DEF ServeSeenGarbage, StartGarbageCollection, Reply, Post, mapVars, clientVars, handleVars,
              ghostVars
<1>4. /\ TypeOK /\ MessagesTyped /\ MapExact /\ OneRequest /\ OneCollection /\ OneEmission
      /\ EmittersStay /\ InOrder /\ toClient \in Seq(Messages)
  BY Typing DEF IInv
<1>5. HasFields(r, Ids, "SWEEP", 0, NoObject, NoHandler, NoEmission, {}, TRUE)
  BY AboutFields DEF MessageKinds
<1> HIDE DEF m, r
<1>6. r \in Messages /\ r \in Received /\ r \in Resolved
  BY <1>5, MessagesAre DEF HasFields, Received, Resolved
<1>7. toClient' \in Seq(Messages) /\ Added(toClient', toClient, r)
  BY <1>3, <1>4, <1>6, AppendFacts
<1>8. /\ Taken(toServer', toServer, m) /\ toServer' \in Seq(Messages)
      /\ ~Has(toServer', {"SEEN_GARBAGE"}) /\ ~Has(toServer', {"REPORT"})
  BY <1>2, <1>3
<1>9. /\ Ids' = Ids /\ Messages' = Messages /\ Received' = Received /\ Resolved' = Resolved
      /\ Sent' = Sent /\ Alive(handles, remote)' = Alive(handles, remote)
  BY <1>3 DEF Ids, Messages, Received, Resolved, Sent, Alive
<1>10. TypeOK'
  <2>1. live' \subseteq Ids' /\ sweep' \subseteq Ids' /\ sweeping' \in BOOLEAN
    BY <1>3, <1>4, <1>9 DEF TypeOK
  <2> QED
    BY <1>3, <1>4, <1>7, <1>8, <1>9, <2>1 DEF TypeOK
<1>11. MessagesTyped'
  <2>1. All(toServer', Sent) /\ All(toClient', Received)
    BY <1>4, <1>6, <1>7, <1>8 DEF MessagesTyped, Added, AddedIds, Taken, TakenIds
  <2> QED
    BY <1>3, <1>4, <1>9, <2>1 DEF MessagesTyped
<1>12. MapExact'
  <2>1. IdOf(NoObject)' = IdOf(NoObject)
    BY <1>3 DEF IdOf
  <2> QED
    BY <1>2, <1>3, <1>4, <1>9, <2>1 DEF MapExact
<1>13. OneCollection'
  <2>1. /\ One(toServer', {"SEEN_GARBAGE"}) /\ One(toServer', {"REPORT"}) /\ ReportFirst(toServer')
    BY <1>4, <1>8 DEF OneCollection, Taken, TakenKinds
  <2>2. One(toClient', {"SWEEP"}) /\ Has(toClient', {"SWEEP"})
    BY <1>2, <1>4, <1>5, <1>7 DEF OneCollection, HasFields, Added, AddedKinds
  <2> QED
    BY <1>2, <1>3, <1>8, <2>1, <2>2 DEF OneCollection
<1>14. OneRequest'
  <2>1. One(toServer', Requests) /\ (Has(toServer', Requests) => Has(toServer, Requests))
    BY <1>4, <1>8 DEF OneRequest, Taken, TakenKinds
  <2>2. One(toClient', Answers) /\ (Has(toClient', Answers) => Has(toClient, Answers))
    BY <1>4, <1>5, <1>7 DEF OneRequest, Answers, HasFields, Added, AddedKinds
  <2> QED
    BY <1>3, <1>4, <2>1, <2>2 DEF OneRequest
<1>15. OneEmission'
  <2>1. Distinct(toServer') /\ Emissions(toServer') \subseteq Emissions(toServer)
    BY <1>4, <1>8 DEF OneEmission, Taken, TakenEmission
  <2>2. NoEmission \notin Emissions(toClient)
    BY DEF Emissions
  <2>3. Distinct(toClient') /\ Emissions(toClient') = Emissions(toClient)
    BY <1>4, <1>5, <1>7, <2>2 DEF OneEmission, HasFields, Added, AddedEmission
  <2> QED
    BY <1>3, <1>4, <2>1, <2>3 DEF OneEmission
<1>16. EmittersStay'
  <2> SUFFICES ASSUME NEW h \in Handler
               PROVE  /\ Connected(h)' => /\ entries[remote[h]] = signalOf[h] /\ signalOf[h] # NoObject
                                          /\ ~Reported(toServer', remote[h])
                      /\ Spares(toServer', h, remote[h])
    BY <1>3 DEF EmittersStay
  <2>1. Connected(h)' => Connected(h)
    BY <1>1, <1>3, <1>8 DEF Connected, Taken, TakenIds
  <2>2. /\ Spares(toServer, h, remote[h]) => Spares(toServer', h, remote[h])
        /\ Reported(toServer', remote[h]) => Reported(toServer, remote[h])
    BY <1>8 DEF Taken, TakenIds
  <2> QED
    BY <1>1, <1>4, <2>1, <2>2 DEF EmittersStay
<1>17. InOrder'
  <2> SUFFICES ASSUME ~overtaken PROVE UnderWay'
    BY <1>3 DEF InOrder
  <2>1. UnderWay
    BY <1>4 DEF InOrder
  <2>2. All(toServer', Resolved) /\ All(toClient', Resolved)
    BY <1>6, <1>7, <1>8, <2>1 DEF UnderWay, Added, AddedIds, Taken, TakenIds
  <2>3. \A i : ~GivenAway(i)'
    <3>1. All(toServer', Sent)
      BY <1>4, <1>8 DEF MessagesTyped, Taken, TakenIds
    <3> QED
      BY <1>8, <3>1, Vacuous DEF GivenAway
  <2>4. SentSince(toClient', live')
    <3>1. SentSince(toClient, live')
      BY <1>2, Vacuous
    <3> QED
      BY <1>5, <1>7, <3>1 DEF HasFields, Added, AddedIds
  <2> QED
    BY <1>3, <1>9, <2>1, <2>2, <2>3, <2>4 DEF UnderWay
<1> QED
  BY <1>1, <1>3, <1>10, <1>11, <1>12, <1>13, <1>14, <1>15, <1>16, <1>17 DEF IInv

\* What a report purges is not used any more.
LEMMA ServeReportInv == IInv /\ ServeReport => IInv'
<1> SUFFICES ASSUME IInv, ServeReport PROVE IInv'
  OBVIOUS
<1> DEFINE m == Head(toServer)
<1>1. /\ toServer # <<>> /\ m.kind = "REPORT" /\ failed = "no"
      /\ toServer' = Tail(toServer) /\ toClient' = toClient
      /\ UNCHANGED <<signalOf, answering, failed, overtaken>>
      /\ UNCHANGED <<denotes, handles, remote, seenGarbage, slot, eventQueue, phase, calling>>
  BY DEF ServeReport, Serves, NoReply, clientVars, handleVars, ghostVars
<1>2. /\ TypeOK /\ MessagesTyped /\ MapExact /\ OneRequest /\ OneCollection /\ OneEmission
      /\ EmittersStay /\ InOrder /\ toClient \in Seq(Messages) /\ toServer \in Seq(Messages)
  BY Typing DEF IInv
<1>3. m \in Messages /\ toServer' \in Seq(Messages) /\ Taken(toServer', toServer, m)
  BY <1>1, <1>2, TailFacts
<1>4. /\ sweeping /\ ~Has(toServer', {"REPORT"}) /\ ~Has(toClient, {"SWEEP"})
      /\ (Has(toServer', {"SEEN_GARBAGE"}) => seenGarbage)
      /\ One(toServer', {"SEEN_GARBAGE"}) /\ One(toServer', {"REPORT"}) /\ ReportFirst(toServer')
  BY <1>1, <1>2, <1>3 DEF OneCollection, Taken, TakenKinds
<1>5. /\ live' = Retained(m.ids) /\ DeleteOrbids((live \cup sweep) \ live')
      /\ sweep' = {} /\ sweeping' = FALSE
  BY <1>4 DEF ServeReport
<1> HIDE DEF m
<1>6. /\ entries' \in Seq(Object \cup {NoObject}) /\ freeList' \in Seq(Ids')
      /\ Ids' = Ids /\ live' \subseteq Ids
      /\ \A k \in Ids : entries'[k] = IF k \in (sweep \ live) /\ k \in m.ids THEN NoObject ELSE entries[k]
      /\ MapExact'
  BY <1>2, <1>5, PurgeFacts
<1>7. Messages' = Messages /\ Received' = Received /\ Sent' = Sent
  BY <1>1, <1>6 DEF Messages, Received, Sent
<1>8. \A i : Reported(toServer', i) => Reported(toServer, i)
  BY <1>3 DEF Taken, TakenIds
<1>9. TypeOK'
  <2>1. sweep' \subseteq Ids' /\ sweeping' \in BOOLEAN
    BY <1>5
  <2> QED
    BY <1>1, <1>2, <1>3, <1>6, <1>7, <2>1 DEF TypeOK
<1>10. MessagesTyped'
  <2>1. All(toServer', Sent)
    BY <1>2, <1>3 DEF MessagesTyped, Taken, TakenIds
  <2> QED
    BY <1>1, <1>2, <1>7, <2>1 DEF MessagesTyped
<1>11. OneCollection'
  BY <1>1, <1>2, <1>4, <1>5 DEF OneCollection
<1>12. OneRequest'
  <2>1. One(toServer', Requests) /\ (Has(toServer', Requests) => Has(toServer, Requests))
    BY <1>2, <1>3 DEF OneRequest, Taken, TakenKinds
  <2> QED
    BY <1>1, <1>2, <2>1 DEF OneRequest
<1>13. OneEmission'
  <2>1. Distinct(toServer') /\ Emissions(toServer') \subseteq Emissions(toServer)
    BY <1>2, <1>3 DEF OneEmission, Taken, TakenEmission
  <2> QED
    BY <1>1, <1>2, <2>1 DEF OneEmission
<1>14. EmittersStay'
  <2> SUFFICES ASSUME NEW h \in Handler
               PROVE  /\ Connected(h)' => /\ entries'[remote[h]] = signalOf[h] /\ signalOf[h] # NoObject
                                          /\ ~Reported(toServer', remote[h])
                      /\ Spares(toServer', h, remote[h])
    BY <1>1 DEF EmittersStay
  <2>1. Connected(h)' => Connected(h)
    BY <1>1, <1>3 DEF Connected, Taken, TakenIds
  <2>2. Spares(toServer', h, remote[h])
    BY <1>1, <1>2, <1>3 DEF EmittersStay, Taken, TakenIds
  <2>3. ASSUME Connected(h)
        PROVE  /\ entries'[remote[h]] = signalOf[h] /\ signalOf[h] # NoObject
               /\ ~Reported(toServer', remote[h])
    <3>1. /\ entries[remote[h]] = signalOf[h] /\ signalOf[h] # NoObject
          /\ ~Reported(toServer, remote[h])
      BY <1>1, <1>2, <2>3 DEF EmittersStay
    <3>2. remote[h] \in Ids
      BY <1>2, <2>3, EmitterFacts
    <3>3. remote[h] \notin m.ids
      BY <1>3, <3>1 DEF Taken, TakenIds
    <3> QED
      BY <1>6, <1>8, <3>1, <3>2, <3>3
  <2> QED
    BY <2>1, <2>2, <2>3
<1>15. InOrder'
  <2> SUFFICES ASSUME ~overtaken PROVE UnderWay'
    BY <1>1 DEF InOrder
  <2>1. UnderWay
    BY <1>2 DEF InOrder
  <2>2. ASSUME NEW i \in Ids, entries'[i] # entries[i]
        PROVE  /\ i \notin Alive(handles, remote) /\ ~Uses(toServer', i)
               /\ ~Uses(toClient, i) /\ ~Uses(eventQueue, i)
    <3>1. i \in sweep \ live /\ i \in m.ids
      BY <1>6, <2>2
    <3>2. GivenAway(i)
      BY <1>3, <3>1 DEF GivenAway, Taken, TakenIds
    <3>3. Spent(toServer, i) => ~Uses(toServer', i)
      BY <1>3, <3>1 DEF Taken, TakenIds
    <3> QED
      BY <2>1, <3>2, <3>3 DEF UnderWay
  <2>3. ASSUME NEW q, All(q, Resolved), \A i \in Ids : entries'[i] # entries[i] => ~Uses(q, i)
        PROVE  All(q, Resolved')
    <3> SUFFICES ASSUME NEW k \in DOMAIN q PROVE q[k] \in Resolved'
      BY DEF All
    <3>1. q[k] \in Resolved /\ Uses(q, q[k].id)
      BY <2>3 DEF All, Uses
    <3> QED
      BY <1>6, <1>7, <2>3, <3>1 DEF Resolved
  <2>4. All(toServer', Resolved)
    BY <1>3, <2>1 DEF UnderWay, Taken, TakenIds
  <2>5. All(toServer', Resolved') /\ All(toClient', Resolved') /\ All(eventQueue', Resolved')
    BY <1>1, <2>1, <2>2, <2>3, <2>4 DEF UnderWay
  <2>6. \A i \in Alive(handles, remote)' : entries'[i] = denotes'[i]
    <3>1. Alive(handles, remote)' = Alive(handles, remote)
      BY <1>1 DEF Alive
    <3>2. Alive(handles, remote) \subseteq Ids
      BY <1>2 DEF TypeOK, Alive
    <3> QED
      BY <1>1, <2>1, <2>2, <3>1, <3>2 DEF UnderWay
  <2>7. SentSince(toClient', live')
    BY <1>1, <1>4, Vacuous
  <2>8. \A i : ~GivenAway(i)'
    BY <1>5 DEF GivenAway
  <2> QED
    BY <2>5, <2>6, <2>7, <2>8 DEF UnderWay
<1> QED
  BY <1>1, <1>6, <1>9, <1>10, <1>11, <1>12, <1>13, <1>14, <1>15 DEF IInv

\* An emission reaches the client under an id that stands for its argument.
LEMMA EmitInv ==
  ASSUME IInv, NEW h \in Handler, Emit(h)
  PROVE  IInv'
<1>1. PICK e \in {NoEmission} \cup (Emission \ answering) :
        /\ AddEmitResultHandler(e)
        /\ \/ /\ toClient' = Post(toClient, [About("EMIT", 0, NoObject)
                                  EXCEPT !.handler = h, !.emission = e])
              /\ UNCHANGED <<mapVars, live>>
           \/ \E o \in EmitsCarry, i \in 1 .. Len(entries) + 1 :
                /\ AddInterface(o, i)
                /\ toClient' = Post(toClient, [About("EMIT", i, o)
                                 EXCEPT !.handler = h, !.emission = e])
  BY DEF Emit
<1>2. /\ answering' = answering \cup ({e} \ {NoEmission})
      /\ failed = "no"
      /\ UNCHANGED <<clientVars, sweep, sweeping, signalOf, toServer, failed, overtaken>>
      /\ UNCHANGED <<denotes, handles, remote, seenGarbage, slot, eventQueue, phase, calling>>
  BY <1>1 DEF AddEmitResultHandler, Emit, clientVars, handleVars, ghostVars
<1>3. /\ TypeOK /\ MessagesTyped /\ MapExact /\ OneRequest /\ OneCollection /\ OneEmission
      /\ EmittersStay /\ InOrder /\ toClient \in Seq(Messages) /\ toServer \in Seq(Messages)
  BY Typing DEF IInv
<1>4. PICK m : /\ Grown /\ toClient' = Append(toClient, m)
               /\ m \in Received' /\ m.kind = "EMIT" /\ m.emission = e
               /\ m.id # 0 => m.id \in live' /\ m.id \in Ids' /\ entries'[m.id] = m.obj
  <2>1. "EMIT" \in MessageKinds /\ e \in Emission \cup {NoEmission} /\ h \in Handler \cup {NoHandler}
    BY DEF MessageKinds
  <2>2. CASE /\ toClient' = Post(toClient, [About("EMIT", 0, NoObject)
                                   EXCEPT !.handler = h, !.emission = e])
             /\ UNCHANGED <<mapVars, live>>
    <3> DEFINE r == [About("EMIT", 0, NoObject) EXCEPT !.handler = h, !.emission = e]
    <3>1. Grown /\ Messages' = Messages
      BY <1>2, <1>3, <2>2, UnchangedIsGrown DEF mapVars
    <3>2. HasFields(r, Ids, "EMIT", 0, NoObject, h, e, {}, TRUE)
      BY <2>1, AboutFields
    <3>3. toClient' = Append(toClient, r)
      BY <2>2 DEF Post
    <3> HIDE DEF r
    <3> QED
      BY <3>1, <3>2, <3>3, MessagesAre DEF HasFields, Received
  <2>3. CASE \E o \in EmitsCarry, i \in 1 .. Len(entries) + 1 :
               /\ AddInterface(o, i)
               /\ toClient' = Post(toClient, [About("EMIT", i, o)
                                EXCEPT !.handler = h, !.emission = e])
    <3>1. PICK o \in EmitsCarry, i \in 1 .. Len(entries) + 1 :
            /\ AddInterface(o, i)
            /\ toClient' = Post(toClient, [About("EMIT", i, o) EXCEPT !.handler = h, !.emission = e])
      BY <2>3
    <3> DEFINE r == [About("EMIT", i, o) EXCEPT !.handler = h, !.emission = e]
    <3>2. o \in Object
      BY RemoteAssumption
    <3>3. Grown /\ i \in Ids' /\ i \in live' /\ i # 0 /\ entries'[i] = o
      BY <1>2, <1>3, <3>1, <3>2, AddedIsGrown
    <3>4. HasFields(r, Ids', "EMIT", i, o, h, e, {}, TRUE)
      <4>1. i \in Ids' \cup {0} /\ o \in Object \cup {NoObject}
        BY <3>2, <3>3
      <4> QED
        BY <2>1, <4>1, AboutFields
    <3>5. toClient' = Append(toClient, r)
      BY <3>1 DEF Post
    <3> HIDE DEF r
    <3>6. r \in Messages'
      BY <3>4 DEF HasFields, Messages, MessagesOver
    <3> QED
      BY <3>2, <3>3, <3>4, <3>5, <3>6 DEF HasFields, Received
  <2> QED
    BY <1>1, <2>2, <2>3
<1>5. /\ m \in Messages' /\ toClient \in Seq(Messages') /\ toServer' \in Seq(Messages')
  BY <1>2, <1>3, <1>4, GrownFacts DEF Received
<1>6. toClient' \in Seq(Messages') /\ Added(toClient', toClient, m)
  BY <1>4, <1>5, AppendFacts
<1>7. TypeOK'
  <2>1. answering' \subseteq Emission
    BY <1>2, <1>3 DEF TypeOK
  <2> QED
    BY <1>2, <1>3, <1>4, <1>5, <1>6, <2>1, ServerTyped DEF TypeOK
<1>8. MessagesTyped'
  <2>1. All(toServer', Sent') /\ All(toClient, Received') /\ All(eventQueue', Received')
    BY <1>2, <1>3, <1>4, GrownFacts DEF MessagesTyped
  <2>2. All(toClient', Received')
    BY <1>4, <1>6, <2>1 DEF Added, AddedIds
  <2> QED
    BY <1>2, <1>3, <2>1, <2>2 DEF MessagesTyped
<1>9. OneCollection'
  <2>1. One(toClient', {"SWEEP"}) /\ (Has(toClient', {"SWEEP"}) <=> Has(toClient, {"SWEEP"}))
    BY <1>3, <1>4, <1>6 DEF OneCollection, Added, AddedKinds
  <2> QED
    BY <1>2, <1>3, <2>1 DEF OneCollection
<1>10. OneRequest'
  <2>1. One(toClient', Answers) /\ (Has(toClient', Answers) <=> Has(toClient, Answers))
    BY <1>3, <1>4, <1>6 DEF OneRequest, Answers, Added, AddedKinds
  <2> QED
    BY <1>2, <1>3, <2>1 DEF OneRequest
<1>11. OneEmission'
  <2>1. e \notin Emissions(toClient) /\ (e # NoEmission => e \notin answering)
    BY <1>3 DEF OneEmission, Emissions
  <2>2. Distinct(toClient') /\ Emissions(toClient') = Emissions(toClient) \cup ({e} \ {NoEmission})
    BY <1>3, <1>4, <1>6, <2>1 DEF OneEmission, Added, AddedEmission
  <2> QED
    BY <1>2, <1>3, <2>1, <2>2 DEF OneEmission
<1>12. EmittersStay'
  BY <1>2, <1>3, <1>4, EmittersKept DEF Connected
<1>13. InOrder'
  <2> SUFFICES ASSUME ~overtaken PROVE UnderWay'
    BY <1>2 DEF InOrder
  <2>1. UnderWay
    BY <1>3 DEF InOrder
  <2>2. All(toServer', Resolved') /\ All(toClient, Resolved') /\ All(eventQueue', Resolved')
    BY <1>2, <1>3, <1>4, <2>1, GrownFacts DEF UnderWay, MessagesTyped
  <2>3. m \in Resolved'
    BY <1>4, <1>5 DEF Resolved
  <2>4. SentSince(toClient, live')
    BY <1>4, <2>1, Larger DEF UnderWay, Grown
  <2>5. All(toClient', Resolved') /\ SentSince(toClient', live')
    BY <1>4, <1>6, <2>2, <2>3, <2>4 DEF Added, AddedIds
  <2>6. Alive(handles, remote)' = Alive(handles, remote)
    BY <1>2 DEF Alive
  <2>7. \A i \in Alive(handles, remote)' : entries'[i] = denotes'[i]
    BY <1>2, <1>3, <1>4, <2>1, <2>6, HeldFacts DEF UnderWay
  <2>8. ASSUME NEW i, GivenAway(i)'
        PROVE  GivenAway(i) /\ i \in Ids /\ i \notin live' /\ i # 0
    <3>1. i \in sweep /\ i \notin live' /\ Reported(toServer, i) /\ i \notin live
      BY <1>2, <1>4, <2>8 DEF GivenAway, Grown
    <3> QED
      BY <1>3, <3>1, Typing DEF GivenAway, TypeOK
  <2>9. \A i : Uses(toClient', i) => Uses(toClient, i) \/ m.id = i
    BY <1>6 DEF Added, AddedIds
  <2> QED
    BY <1>2, <1>4, <2>1, <2>2, <2>5, <2>6, <2>7, <2>8, <2>9 DEF UnderWay
<1> QED
  BY <1>2, <1>4, <1>7, <1>8, <1>9, <1>10, <1>11, <1>12, <1>13 DEF IInv, Grown

LEMMA StutterInv == IInv /\ UNCHANGED vars => IInv'
<1> SUFFICES ASSUME IInv, UNCHANGED vars PROVE IInv'
  OBVIOUS
<1>1. UNCHANGED <<entries, freeList, live, sweep, sweeping, signalOf, answering, denotes, handles,
                  remote, slot, seenGarbage, eventQueue, phase, calling, toServer, toClient,
                  failed, overtaken>>
  BY DEF vars, serverVars, mapVars, sweepVars, clientVars, handleVars, ghostVars
<1>2. /\ Ids' = Ids /\ Messages' = Messages /\ Received' = Received /\ Resolved' = Resolved
      /\ Sent' = Sent /\ Alive(handles, remote)' = Alive(handles, remote)
      /\ IdOf(NoObject)' = IdOf(NoObject)
      /\ \A i : GivenAway(i)' <=> GivenAway(i)
      /\ \A h : Connected(h)' <=> Connected(h)
  BY <1>1 DEF Ids, Messages, Received, Resolved, Sent, Alive, IdOf, GivenAway, Connected
<1>3. TypeOK' /\ MessagesTyped' /\ MapExact'
  BY <1>1, <1>2 DEF IInv, TypeOK, MessagesTyped, MapExact
<1>4. OneCollection' /\ OneRequest' /\ OneEmission'
  BY <1>1 DEF IInv, OneCollection, OneRequest, OneEmission
<1>5. EmittersStay'
  BY <1>1, <1>2 DEF IInv, EmittersStay
<1>6. InOrder'
  BY <1>1, <1>2 DEF IInv, InOrder, UnderWay
<1> QED
  BY <1>1, <1>3, <1>4, <1>5, <1>6 DEF IInv

LEMMA NextInv == IInv /\ [Next]_vars => IInv'
<1> SUFFICES ASSUME IInv, [Next]_vars PROVE IInv'
  OBVIOUS
<1>1. CASE ClientReceives
  BY <1>1, TakeResultInv, TakeOtherInv, DispatchEventInv, DispatchSweepInv DEF ClientReceives
<1>2. CASE ServerReceives
  BY <1>2, ServeHelloInv, ServeTwowayInv, ServeOnewayInv, ServeConnectInv, ServeDisconnectInv,
     ServeOnNullInv, ServeSeenGarbageInv, ServeReportInv, ServeEmitResultInv DEF ServerReceives
<1>3. CASE ClientCode
  BY <1>3, HelloInv, CallInv, DropHandleInv, SignalConnectInv, SignalDisconnectInv DEF ClientCode
<1>4. CASE \E h \in Handler : Emit(h)
  BY <1>4, EmitInv
<1>5. CASE UNCHANGED vars
  BY <1>5, StutterInv
<1> QED
  BY <1>1, <1>2, <1>3, <1>4, <1>5 DEF Next

\* The inductive invariant holds in every state the two sides can reach.
THEOREM Invariant == Spec => []IInv
BY InitInv, NextInv, PTL DEF Spec

-----------------------------------------------------------------------------
(* What it says.                                                             *)

(* Every variable has its type: ids that are live, swept, free, held or under
   way are indices of the object map.                                      *)
THEOREM TypeCorrect == Spec => []TypeOK
<1>1. IInv => TypeOK
  BY DEF IInv
<1> QED
  BY <1>1, Invariant, PTL

(* The object map is consistent, and a collection is asked for only while
   none is under way: what delete_orbid() and dispatch() assert.           *)
THEOREM MapIsConsistent == Spec => []MapConsistent
<1>1. ASSUME IInv PROVE MapConsistent
  <2>1. TypeOK /\ MapExact
    BY <1>1 DEF IInv
  <2>2. ASSUME NEW o \in Object PROVE Cardinality(IdOf(o)) <= 1
    <3>1. CASE IdOf(o) = {}
      BY <3>1, FS_EmptySet
    <3>2. CASE IdOf(o) # {}
      <4>1. PICK i \in Ids : entries[i] = o
        BY <3>2 DEF IdOf, Ids
      <4>2. IdOf(o) = {i}
        BY <2>1, <4>1, RemoteAssumption DEF MapExact, IdOf, Ids
      <4> QED
        BY <4>2, FS_Singleton
    <3> QED
      BY <3>1, <3>2
  <2>3. Serves("SEEN_GARBAGE") => ~sweeping
    BY <1>1, SeenGarbageFacts DEF Serves
  <2> QED
    BY <2>1, <2>2, <2>3 DEF MapConsistent, MapExact
<1> QED
  BY <1>1, Invariant, PTL

(* A handle of the client resolves to the object it was received for, unless
   a sweep was served in call_remote() ahead of an event that carries what it
   reported.                                                               *)
THEOREM HandlesResolveWhileInOrder == Spec => []HandlesResolveInOrder
<1>1. ASSUME IInv, ~overtaken PROVE HandlesResolve
  <2>1. TypeOK /\ UnderWay
    BY <1>1 DEF IInv, InOrder
  <2>2. \A i \in Ids : PopInterface(i) = entries[i]
    BY DEF PopInterface, Ids
  <2>3. Alive(handles, remote) \subseteq Ids
    BY <2>1 DEF TypeOK, Alive
  <2>4. \A k \in DOMAIN toServer : toServer[k] \in Resolved
    BY <2>1 DEF UnderWay, All
  <2> QED
    BY <2>1, <2>2, <2>3, <2>4 DEF HandlesResolve, UnderWay, Resolved
<1>2. IInv => HandlesResolveInOrder
  BY <1>1 DEF HandlesResolveInOrder
<1> QED
  BY <1>2, Invariant, PTL

(* A handler is found when it is disconnected, whatever was collected since,
   and the result of an emission is awaited when it arrives.               *)
THEOREM RequestsFindTheirs == Spec => []ReferencesAreFound
<1>1. ASSUME IInv PROVE ReferencesAreFound
  <2>1. \A k \in DOMAIN toClient : toClient[k] \in Received
    BY <1>1 DEF IInv, MessagesTyped, All
  <2> QED
    BY <1>1, <2>1 DEF IInv, ReferencesAreFound, Received
<1> QED
  BY <1>1, Invariant, PTL
=============================================================================
