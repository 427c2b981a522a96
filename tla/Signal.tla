------------------------------- MODULE Signal -------------------------------
(***************************************************************************)
(* Aida::Signal (rcore/aidasignal.hh): a ring of reference counted         *)
(* HandlerLinks, which emissions keep alive while their callbacks connect, *)
(* disconnect, emit again or destroy the signal.  All of it runs in one    *)
(* thread; an action is what happens between two callbacks.                *)
(*                                                                         *)
(* A callback is the number of its connection.  Callers forget the id of a *)
(* connection when they disconnect it: ids are the addresses of links, and *)
(* an address may be allocated again.                                      *)
(***************************************************************************)
EXTENDS SequenceLemmas, FiniteSets

CONSTANTS
  Address,      \* where HandlerLinks can be allocated
  MaxConnects,  \* bound: connections made
  MaxDepth,     \* bound: nested emissions
  NULL

ASSUME SignalAssumption ==
  /\ NULL \notin Address /\ IsFiniteSet(Address) /\ NULL \notin Nat
  /\ MaxConnects \in Nat /\ MaxDepth \in Nat

\* The callback the signal was constructed with.
Method == 0
Connection == 1 .. MaxConnects

VARIABLES
  heap,    \* the HandlerLink at every address
  ring,    \* callback_ring_
  alive,   \* the signal is not destroyed
  frames,  \* emit() calls under way: links not yet released, the callback that runs
  ids,     \* the connection ids that callers hold
  count    \* connections made so far

signalVars == <<heap, ring, alive, frames, ids, count>>

Unused == [next |-> NULL, prev |-> NULL, function |-> NULL, ref |-> 0]

-----------------------------------------------------------------------------
(* HandlerLink, operations on a heap h.                                      *)

Allocated(h, a) == h[a].ref > 0

Incref(h, links) == [a \in Address |-> IF a \in links THEN [h[a] EXCEPT !.ref = @ + 1] ELSE h[a]]

\* The last reference deletes the link.
Decref(h, links) ==
  [a \in Address |-> IF a \notin links THEN h[a]
                    ELSE IF h[a].ref = 1 THEN Unused ELSE [h[a] EXCEPT !.ref = @ - 1]]

Detached(link) == [link EXCEPT !.next = NULL, !.prev = NULL, !.function = NULL]

Unlink(h, a) ==
  LET around == [h EXCEPT ![h[a].next].prev = h[a].prev, ![h[a].prev].next = h[a].next]
  IN Decref([around EXCEPT ![a] = Detached(h[a])], {a})

AddBefore(h, head, a, callback) ==
  [h EXCEPT ![a] = [next |-> head, prev |-> h[head].prev, function |-> callback, ref |-> 1],
            ![h[head].prev].next = a,
            ![head].prev = a]

\* Where next leads to from head, in so many steps.
Trail(h, head) ==
  LET at[n \in 0 .. Cardinality(Address)] ==
        IF n = 0 THEN head ELSE IF at[n-1] = NULL THEN NULL ELSE h[at[n-1]].next
  IN at

\* The links from head->next up to head, which is not among them.
Siblings(h, head) ==
  LET at        == Trail(h, head)
      Closed(n) == at[n] \in {head, NULL}
      end == CHOOSE n \in 1 .. Cardinality(Address) : Closed(n) /\ \A k \in 1 .. n-1 : ~Closed(k)
  IN IF head = NULL THEN <<>> ELSE [n \in 1 .. end-1 |-> at[n]]

\* The links leave the ring one after the other, until the head is alone.
UnlinkAll(h, head) ==
  LET gone == ToSet(Siblings(h, head))
  IN Decref([a \in Address |-> IF a \in gone THEN Detached(h[a])
                              ELSE IF a = head THEN [h[a] EXCEPT !.next = head, !.prev = head]
                              ELSE h[a]], gone)

\* ensure_ring() allocates the head at a.
NewHead(h, a, callback) ==
  [h EXCEPT ![a] = [next |-> a, prev |-> a, function |-> callback, ref |-> 2]]

-----------------------------------------------------------------------------
SignalInit ==
  LET none == [a \in Address |-> Unused]
  IN /\ \/ ring = NULL /\ heap = none
        \/ ring \in Address /\ heap = NewHead(none, ring, Method)
     /\ alive = TRUE
     /\ frames = <<>>
     /\ ids = [c \in Connection |-> NULL]
     /\ count = 0

\* connect(), the id is the address of the new link.
Connect ==
  LET free == {a \in Address : ~Allocated(heap, a)}
  IN /\ alive /\ count < MaxConnects
     /\ count' = count + 1
     /\ \E head \in IF ring = NULL THEN free ELSE {ring} : \E a \in free \ {head} :
          /\ ring' = head
          /\ heap' = AddBefore(IF ring = NULL THEN NewHead(heap, head, NULL) ELSE heap,
                               head, a, count')
          /\ ids' = [ids EXCEPT ![count'] = a]
     /\ UNCHANGED <<alive, frames>>

\* disconnect(), its caller forgets the id.
Disconnect(c) ==
  /\ alive /\ ids[c] # NULL
  /\ heap' = IF ids[c] \in ToSet(Siblings(heap, ring)) THEN Unlink(heap, ids[c]) ELSE heap
  /\ ids' = [ids EXCEPT ![c] = NULL]
  /\ UNCHANGED <<ring, alive, frames, count>>

\* ~ProtoSignal(), ids become meaningless.
Destroy ==
  /\ alive
  /\ alive' = FALSE
  /\ heap' = IF ring = NULL THEN heap ELSE Decref(Decref(UnlinkAll(heap, ring), {ring}), {ring})
  /\ ring' = NULL
  /\ ids' = [c \in Connection |-> NULL]
  /\ UNCHANGED <<frames, count>>

\* Mutant of FirstSet: does not look at function again.
FirstLink(h, links) == IF links = <<>> THEN 0 ELSE 1

FirstSet(h, links) == SelectInSeq(links, LAMBDA a : h[a].function # NULL)

\* emit() passes links, released on the way, up to one whose callback is set,
\* and calls that; or it returns to the emissions below.
Walk(h, below, links) ==
  LET k    == FirstSet(h, links)
      past == IF k = 0 THEN links ELSE SubSeq(links, 1, k - 1)
      rest == SubSeq(links, k, Len(links))
  IN /\ heap' = Decref(h, ToSet(past))
     /\ frames' = IF k = 0 THEN below
                  ELSE Append(below, [links |-> rest, running |-> h[rest[1]].function])

Emit ==
  LET links == (IF heap[ring].function = NULL THEN <<>> ELSE <<ring>>) \o Siblings(heap, ring)
  IN /\ alive /\ ring # NULL /\ Len(frames) < MaxDepth
     /\ Walk(Incref(heap, ToSet(links)), frames, links)
     /\ UNCHANGED <<ring, alive, ids, count>>

\* The innermost callback returns and the collector goes on.
Proceed ==
  /\ frames # <<>>
  /\ LET links == Last(frames).links
     IN Walk(Decref(heap, {Head(links)}), Front(frames), Tail(links))
  /\ UNCHANGED <<ring, alive, ids, count>>

\* Mutant of Stop: only the link of the running callback is released.
StopReleasesOne ==
  /\ frames # <<>>
  /\ heap' = Decref(heap, {Head(Last(frames).links)})
  /\ frames' = Front(frames)
  /\ UNCHANGED <<ring, alive, ids, count>>

\* The innermost callback returns and the collector stops the emission.
Stop ==
  /\ frames # <<>>
  /\ heap' = Decref(heap, ToSet(Last(frames).links))
  /\ frames' = Front(frames)
  /\ UNCHANGED <<ring, alive, ids, count>>

SignalNext == \/ Connect \/ Destroy \/ Emit \/ Proceed \/ Stop
              \/ \E c \in Connection : Disconnect(c)

SignalSpec == SignalInit /\ [][SignalNext]_signalVars

-----------------------------------------------------------------------------
Callback == {Method} \cup Connection
Links == [next : Address \cup {NULL}, prev : Address \cup {NULL},
          function : Callback \cup {NULL}, ref : Nat]
Frame == [links : Seq(Address), running : Callback]

SignalTypeOK ==
  /\ heap \in [Address -> Links]
  /\ ring \in Address \cup {NULL}
  /\ alive \in BOOLEAN
  /\ frames \in Seq(Frame)
  /\ ids \in [Connection -> Address \cup {NULL}]
  /\ count \in 0 .. MaxConnects

Members        == ToSet(Siblings(heap, ring)) \cup ({ring} \ {NULL})
\* The references to a link that its ring holds, and the emissions that hold one.
Held(a) == (IF a = ring THEN 2 ELSE 0) + (IF a \in ToSet(Siblings(heap, ring)) THEN 1 ELSE 0)
UsersIn(fs, a) == {k \in DOMAIN fs : a \in ToSet(fs[k].links)}
Users(a)       == UsersIn(frames, a)

(* The ring is closed in both directions and its links but the head have
   callbacks; nothing outside of it points into it: a removed link points
   nowhere, the head of a destroyed signal to itself.                      *)
RingConsistent ==
  \A a \in Address :
    IF a \in Members
      THEN /\ heap[a].next \in Members /\ heap[heap[a].next].prev = a
           /\ heap[a].prev \in Members /\ heap[heap[a].prev].next = a
           /\ a # ring => heap[a].function \in Connection
      ELSE heap[a].next = heap[a].prev /\ heap[a].next \in {NULL} \cup IF alive THEN {} ELSE {a}

(* The references to a link are those of the ring, two to its head, and one
   of each emission that has not passed it: no link is deleted while it is
   in use, and none is left when the signal and its emissions are gone.    *)
References == \A a \in Address : heap[a].ref = Held(a) + Cardinality(Users(a))

(* Emissions find their links where they left them, no matter what callbacks
   connect, disconnect, emit and destroy.                                  *)
HandlersAreKept == RingConsistent /\ References

\* The callbacks of links; those of links that were removed are NULL.
Functions(h, links) == Without([k \in DOMAIN links |-> h[links[k]].function], {NULL})

\* The callbacks connected; the running callback and those to come of emissions.
Attached         == IF ring = NULL THEN <<>> ELSE Functions(heap, <<ring>> \o Siblings(heap, ring))
Emissions(h, fs) == [k \in DOMAIN fs |-> <<fs[k].running>> \o Functions(h, Tail(fs[k].links))]

Abstract == INSTANCE Handlers WITH handlers <- Attached, emissions <- Emissions(heap, frames)

(* The ring and the arrays of its emissions implement a list of handlers:
   an emission calls those that were connected when it began, in order, and
   none that was disconnected since or belonged to a destroyed signal.     *)
ImplementsHandlers == Abstract!Spec
-----------------------------------------------------------------------------
(* What makes these inductive.                                               *)

\* What comes in the i-th place after head in the ring of head and q.
Place(head, q, i) == IF i \in DOMAIN q THEN q[i] ELSE head

\* From head through q and back, in both directions.
Ring(h, head, q) ==
  /\ IsInjective(q) /\ head \notin ToSet(q)
  /\ \A i \in 0 .. Len(q) : /\ h[Place(head, q, i)].next = Place(head, q, i + 1)
                            /\ h[Place(head, q, i + 1)].prev = Place(head, q, i)

\* A link that was removed, or the head that is left of a signal.
Removed(link)     == link.next = NULL /\ link.prev = NULL /\ link.function = NULL
LeftOver(link, a) == link.next = a /\ link.prev = a

RingClosed ==
  /\ ring # NULL => /\ alive
                    /\ Siblings(heap, ring) \in Seq(Address)
                    /\ Ring(heap, ring, Siblings(heap, ring))
  /\ \A a \in Address \ Members : Removed(heap[a]) \/ (~alive /\ LeftOver(heap[a], a))

\* Callers hold the ids of exactly the connections there are.
HandlersKnown ==
  /\ ring # NULL => heap[ring].function \in {NULL, Method}
  /\ \A a \in ToSet(Siblings(heap, ring)) :
       heap[a].function \in 1 .. count /\ ids[heap[a].function] = a
  /\ \A c \in Connection :
       ids[c] # NULL => ids[c] \in ToSet(Siblings(heap, ring)) /\ heap[ids[c]].function = c

\* An emission has links of its own to come, which are connected or were removed.
EmissionsKnown ==
  \A k \in DOMAIN frames :
    LET links == frames[k].links
    IN /\ links # <<>> /\ IsInjective(links)
       /\ \A i \in 2 .. Len(links) :
            heap[links[i]].function = NULL \/ links[i] \in ToSet(Siblings(heap, ring))

SignalInv == SignalTypeOK /\ RingClosed /\ References /\ HandlersKnown /\ EmissionsKnown
=============================================================================
