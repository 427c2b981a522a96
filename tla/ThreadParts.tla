----------------------------- MODULE ThreadParts -----------------------------
(***************************************************************************)
(* Specifications of what the threads of an application do with each       *)
(* other, side by side and without shared state: the channel of a server   *)
(* connection, the calls of a client, the drawing of a window, the threads *)
(* of the user interface and the ring buffer; and the proofs about them,   *)
(* for all values of the constants.                                        *)
(***************************************************************************)
EXTENDS TransportChannel, SequenceLemmas, FiniteSets, FiniteSetTheorems

-----------------------------------------------------------------------------
(* The channel of a ServerConnection (rcore/aida.cc): receive_msg() always   *)
(* allows a wakeup, and the thread of the server either runs it as a source  *)
(* of its event loop (ServerConnectionSource in ui/uithread.cc) or blocks in *)
(* pop_msg().                                                                *)

ReceiveMsg(p, m) == StartSend(p, m, TRUE)

\* A source that found nothing in prepare() has the loop poll the eventfd and
\* looks again in check(); one that found a message takes it in dispatch().
LoopWaits      == op = "PEEK" /\ result = NoMsg
LoopDispatches == op = "PEEK" /\ result # NoMsg

Consume(o) ==
  /\ LoopWaits => efd
  /\ o = "POP" <=> LoopDispatches
  /\ StartGet(o)

Producing(p) == (\E m \in Message : ReceiveMsg(p, m)) \/ SendStep(p, "out")
Consuming    == (\E o \in Op : Consume(o)) \/ GetStep

Next == (\E p \in Producer : Producing(p)) \/ Consuming

Spec == ChannelInit /\ [][Next]_channelVars

\* A thread inside send_msg() runs on, and the consumer never stops.
Fairness == /\ \A p \in Producer : WF_channelVars(SendStep(p, "out"))
            /\ WF_channelVars(Consuming)

FairSpec == Spec /\ Fairness

-----------------------------------------------------------------------------
TypeOK ==
  /\ ChannelTypeOK
  /\ ppc \in [Producer -> {"out", "read", "swap", "wake"}]

Asleep == cpc = "poll" \/ (cpc = "out" /\ LoopWaits)

(* A consumer that sleeps on an unreadable eventfd has no message waiting,
   or the producer that filled the empty queue is about to write to it:
   "wakeups are needed to catch empty => full transition" in send_msg(),
   against the flush and the second look in get_msg().                     *)
NoLostWakeup ==
  Asleep /\ ~efd => Contents = <<>> \/ \E p \in Producer : ppc[p] = "wake"

(* Every message that was pushed is received: the order of flush, second
   look and poll never leaves the consumer asleep behind a full queue.     *)
EveryMessageArrives ==
  \A m \in Message : m \in sent ~> m \in ToSet(received)

(* The stack of new messages, the reversed list of the consumer and last_fb
   behave as one first-in first-out queue: nothing is lost, duplicated or
   reordered, PEEK shows what POP takes next, and get_msg() returns NULL
   only while nothing is queued.                                           *)
ImplementsChannel == Fifo!Spec

-----------------------------------------------------------------------------
(* The inductive invariant of the proofs.                                    *)

\* Wakeups are always allowed here.
WakeupsAllowed == \A p \in Producer : may[p] = TRUE

\* The consumer looks into the queue only once last_fb and local_ are used up.
DrainOrder ==
  /\ cpc # "out" => last_fb = NoMsg
  /\ cpc \in {"take", "flush", "poll"} => local = <<>>

\* What a sleeping consumer left behind: new messages come with a wakeup.
SleepsOnEmpty ==
  Asleep => /\ last_fb = NoMsg
            /\ local = <<>>
            /\ head = <<>> \/ efd \/ \E p \in Producer : ppc[p] = "wake"

\* Messages about to be pushed are new, each has one producer.
Unsent(p) == ppc[p] \in {"read", "swap"}
FreshMessages ==
  \A p \in Producer : Unsent(p) =>
    /\ pmsg[p] \in Message \ sent
    /\ \A q \in Producer : Unsent(q) /\ pmsg[q] = pmsg[p] => q = p

IInv == TypeOK /\ WakeupsAllowed /\ DrainOrder /\ SleepsOnEmpty /\ FreshMessages

-----------------------------------------------------------------------------
(* The other specifications.                                                 *)

CONSTANTS
  Server, Results, Events,           \* ClientCalls
  MaxSize, MaxChanges, NoSurface,    \* WindowUpdates
  Windows, MaxCalls,                 \* UiThread
  Capacity, MaxLength, MaxWritten    \* RingBuffer

VARIABLES
  kHead, kLocal, kLast, kEfd, kPpc, kMsg, kMay, kLastHead, kCpc, kOp, kRetry, kNode, kResult,
  kSent, kReceived, blocking, sem, eventQueue, requested, kpc, back, dispatched,
  ui, display, events, commands, x, notifies, changes,
  main, uiThread, wait, quit, calls, made, windows, shown, callback, dthread, asleep, notifier,
  toDisplay, replies, xwindows,
  buffer, wmark, rmark, writer, reader, written, read

callVars == <<kHead, kLocal, kLast, kEfd, kPpc, kMsg, kMay, kLastHead, kCpc, kOp, kRetry, kNode,
              kResult, kSent, kReceived, blocking, sem, eventQueue, requested, kpc, back, dispatched>>
updateVars  == <<ui, display, events, commands, x, notifies, changes>>
threadVars  == <<main, uiThread, wait, quit, calls, made, windows, shown, callback, dthread, asleep,
                 notifier, toDisplay, replies, xwindows>>
bufferVars  == <<buffer, wmark, rmark, writer, reader, written, read>>

Calls == INSTANCE ClientCalls WITH
  Producer <- {Server}, Message <- Results \cup Events,
  head <- kHead, local <- kLocal, last_fb <- kLast, efd <- kEfd, ppc <- kPpc, pmsg <- kMsg,
  may <- kMay, last_head <- kLastHead, cpc <- kCpc, op <- kOp, retry <- kRetry, node <- kNode,
  result <- kResult, sent <- kSent, received <- kReceived
Updates == INSTANCE WindowUpdates WITH ShrinkBack <- FALSE, NULL <- NoSurface
Thread == INSTANCE UiThread WITH
  DeleteWindows <- FALSE, LateShows <- FALSE,
  ui <- uiThread, alive <- windows, commands <- toDisplay
Buffer == INSTANCE RingBuffer WITH received <- read

ASSUME ThreadsAssumption ==
  /\ Calls!ClientAssumption /\ NoMsg \notin Results \cup Events
  /\ Buffer!RingAssumption
  /\ \A areas \in SUBSET Updates!Areas : NoSurface # areas

-----------------------------------------------------------------------------
(* RingBuffer: one writer and one reader.                                    *)

\* The types of RingBuffer's variables.
Slot == 0 .. Buffer!Size - 1
Access == [busy : BOOLEAN, partial : BOOLEAN, length : Nat, left : Nat, rm : Slot, wm : Slot]
BufferTypeOK ==
  /\ buffer \in [Slot -> Nat] /\ wmark \in Slot /\ rmark \in Slot
  /\ writer \in Access /\ reader \in Access
  /\ written \in Nat /\ read \in Seq(Nat)

\* Slots from a up to b, and the slot k behind a, around the end of the buffer.
Distance(a, b) == IF a <= b THEN b - a ELSE b - a + Buffer!Size
Behind(a, k)   == IF a + k < Buffer!Size THEN a + k ELSE a + k - Buffer!Size

\* Where the calls are, and what they know of the other side's mark.
WritesAt == IF writer.busy THEN writer.wm ELSE wmark
ReadsAt  == IF reader.busy THEN reader.rm ELSE rmark
SeenRead    == IF writer.busy THEN writer.rm ELSE rmark
SeenWritten == IF reader.busy THEN reader.wm ELSE wmark

\* In this order around the buffer: nobody passes what it saw of the other.
MarksInOrder ==
  Distance(SeenRead, rmark) + Distance(rmark, ReadsAt) + Distance(ReadsAt, SeenWritten)
    + Distance(SeenWritten, wmark) + Distance(wmark, WritesAt) <= Capacity

\* Between the reader and the writer are the elements not read yet.
ElementsInPlace ==
  /\ written = Len(read) + Distance(ReadsAt, WritesAt)
  /\ \A k \in 0 .. Distance(ReadsAt, WritesAt) - 1 : buffer[Behind(ReadsAt, k)] = Len(read) + k + 1

\* The inductive invariant of the ring buffer.
BufferInv == BufferTypeOK /\ MarksInOrder /\ ElementsInPlace /\ Buffer!Fifo

(* One round past the end of the buffer at most is taken off. *)
LEMMA RoundTrip ==
  ASSUME NEW S \in Nat \ {0}, NEW y \in 0 .. 2 * S - 1
  PROVE  y % S = IF y < S THEN y ELSE y - S
OBVIOUS

(* Space(), Readable() and the next slot, in terms of distances. *)
LEMMA BufferCounts ==
  ASSUME Buffer!RingAssumption, NEW rm \in Slot, NEW wm \in Slot
  PROVE  /\ Buffer!Size \in Nat \ {0} /\ Capacity = Buffer!Size - 1
         /\ Buffer!Space(rm, wm) = Capacity - Distance(rm, wm)
         /\ Buffer!Readable(rm, wm) = Distance(rm, wm)
         /\ (rm + 1) % Buffer!Size = Behind(rm, 1)
         /\ Behind(rm, 1) \in Slot
         /\ Buffer!Room(rm, wm) > 0 <=> Distance(rm, wm) < Capacity
         /\ Buffer!Room(rm, wm) \in Nat
<1>1. Buffer!Size \in Nat \ {0} /\ Capacity = Buffer!Size - 1
  BY DEF Buffer!RingAssumption, Buffer!Size
<1>2. Buffer!Size - 1 + rm - wm \in 0 .. 2 * Buffer!Size - 1 /\ Buffer!Size + wm - rm \in 0 .. 2 * Buffer!Size - 1
      /\ rm + 1 \in 0 .. 2 * Buffer!Size - 1
  BY <1>1 DEF Slot
<1>3. Buffer!Space(rm, wm) = Capacity - Distance(rm, wm)
  <2>1. PICK y \in 0 .. 2 * Buffer!Size - 1 : y = Buffer!Size - 1 + rm - wm
    BY <1>2
  <2>2. y % Buffer!Size = IF y < Buffer!Size THEN y ELSE y - Buffer!Size
    BY <1>1, RoundTrip
  <2> QED
    BY <1>1, <2>1, <2>2 DEF Buffer!Space, Distance, Slot
<1>4. Buffer!Readable(rm, wm) = Distance(rm, wm)
  <2>1. PICK y \in 0 .. 2 * Buffer!Size - 1 : y = Buffer!Size + wm - rm
    BY <1>2
  <2>2. y % Buffer!Size = IF y < Buffer!Size THEN y ELSE y - Buffer!Size
    BY <1>1, RoundTrip
  <2> QED
    BY <1>1, <2>1, <2>2 DEF Buffer!Readable, Distance, Slot
<1>5. (rm + 1) % Buffer!Size = Behind(rm, 1) /\ Behind(rm, 1) \in Slot
  BY <1>1, <1>2, RoundTrip DEF Behind, Slot
<1>6. (Buffer!Room(rm, wm) > 0 <=> Distance(rm, wm) < Capacity) /\ Buffer!Room(rm, wm) \in Nat
  BY <1>1 DEF Buffer!Room, Distance, Slot
<1> QED
  BY <1>1, <1>3, <1>4, <1>5, <1>6

(* The empty buffer satisfies the invariant. *)
LEMMA BufferInitInv ==
  ASSUME Buffer!RingAssumption, Buffer!Init
  PROVE  BufferInv
<1>1. Buffer!Size \in Nat \ {0} /\ Capacity = Buffer!Size - 1 /\ 0 \in Slot
  BY DEF Buffer!RingAssumption, Buffer!Size, Slot
<1>2. BufferTypeOK
  BY <1>1 DEF Buffer!Init, BufferTypeOK, Buffer!Idle, Access, Slot
<1>3. MarksInOrder /\ ElementsInPlace /\ Buffer!Fifo
  BY <1>1 DEF Buffer!Init, MarksInOrder, ElementsInPlace, Buffer!Fifo, Buffer!Idle, Distance,
     SeenRead, ReadsAt, WritesAt, SeenWritten
<1> QED
  BY <1>2, <1>3 DEF BufferInv

(* Facts of a state. *)
LEMMA BufferFacts ==
  ASSUME Buffer!RingAssumption, BufferInv
  PROVE  /\ Buffer!Size \in Nat \ {0} /\ Capacity = Buffer!Size - 1
         /\ WritesAt \in Slot /\ ReadsAt \in Slot /\ SeenRead \in Slot /\ SeenWritten \in Slot
         /\ wmark \in Slot /\ rmark \in Slot
         /\ written \in Nat /\ Len(read) \in Nat
         /\ writer \in Access /\ reader \in Access
<1>1. Buffer!Size \in Nat \ {0} /\ Capacity = Buffer!Size - 1
  BY DEF Buffer!RingAssumption, Buffer!Size
<1>2. /\ wmark \in Slot /\ rmark \in Slot /\ writer \in Access /\ reader \in Access
      /\ written \in Nat /\ read \in Seq(Nat)
  BY DEF BufferInv, BufferTypeOK
<1>3. writer.rm \in Slot /\ writer.wm \in Slot /\ reader.rm \in Slot /\ reader.wm \in Slot
  BY <1>2 DEF Access
<1>4. WritesAt \in Slot /\ ReadsAt \in Slot /\ SeenRead \in Slot /\ SeenWritten \in Slot
  BY <1>2, <1>3 DEF WritesAt, ReadsAt, SeenRead, SeenWritten
<1> QED
  BY <1>1, <1>2, <1>4

(* Two slots are not further apart than what the buffer holds. *)
LEMMA DistanceType ==
  ASSUME Buffer!RingAssumption, NEW a \in Slot, NEW b \in Slot
  PROVE  Distance(a, b) \in Nat /\ Distance(a, b) <= Capacity
  BY DEF Buffer!RingAssumption, Buffer!Size, Slot, Distance

(* One slot more than the elements that the buffer holds. *)
LEMMA CapacityType ==
  ASSUME Buffer!RingAssumption
  PROVE  Capacity \in Nat \ {0} /\ Buffer!Size \in Nat \ {0} /\ Capacity = Buffer!Size - 1
  BY DEF Buffer!RingAssumption, Buffer!Size

(* The distances around the buffer, when they stay below its size, add up. *)
LEMMA DistancesAdd ==
  ASSUME Buffer!RingAssumption, NEW a \in Slot, NEW b \in Slot, NEW c \in Slot,
         Distance(a, b) + Distance(b, c) <= Capacity
  PROVE  Distance(a, c) = Distance(a, b) + Distance(b, c)
  BY DEF Buffer!RingAssumption, Buffer!Size, Slot, Distance

(* A step forward is one more from behind, one less to what lies ahead. *)
LEMMA NextSlot ==
  ASSUME Buffer!RingAssumption, NEW a \in Slot, NEW b \in Slot
  PROVE  /\ Distance(a, b) < Capacity => Distance(a, Behind(b, 1)) = Distance(a, b) + 1
         /\ a # b => Distance(Behind(a, 1), b) = Distance(a, b) - 1
         /\ a # b => Distance(a, b) > 0
         /\ Distance(a, a) = 0
         /\ Behind(a, 0) = a
         /\ Behind(a, Distance(a, b)) = b
         /\ \A k \in 0 .. Distance(a, b) - 1 : Behind(a, k) \in Slot /\ Behind(a, k) # b
         /\ a # b => \A k \in 0 .. Distance(a, b) - 2 : Behind(Behind(a, 1), k) = Behind(a, k + 1)
  BY DEF Buffer!RingAssumption, Buffer!Size, Slot, Distance, Behind

(* The marks and the positions of the calls are passed in the order of MarksInOrder. *)
LEMMA AroundTheBuffer ==
  ASSUME Buffer!RingAssumption, BufferInv
  PROVE  /\ Distance(SeenRead, WritesAt) = Distance(SeenRead, rmark) + Distance(rmark, ReadsAt)
              + Distance(ReadsAt, SeenWritten) + Distance(SeenWritten, wmark) + Distance(wmark, WritesAt)
         /\ Distance(ReadsAt, WritesAt) = Distance(ReadsAt, SeenWritten)
              + Distance(SeenWritten, wmark) + Distance(wmark, WritesAt)
         /\ Distance(rmark, SeenWritten) = Distance(rmark, ReadsAt) + Distance(ReadsAt, SeenWritten)
<1> DEFINE d1 == Distance(SeenRead, rmark)      d2 == Distance(rmark, ReadsAt)
           d3 == Distance(ReadsAt, SeenWritten) d4 == Distance(SeenWritten, wmark)
           d5 == Distance(wmark, WritesAt)
<1>1. d1 \in Nat /\ d2 \in Nat /\ d3 \in Nat /\ d4 \in Nat /\ d5 \in Nat /\ Capacity \in Nat
  BY BufferFacts, DistanceType, CapacityType
<1>2. d1 + d2 + d3 + d4 + d5 <= Capacity
  BY DEF BufferInv, MarksInOrder
<1>3. Distance(ReadsAt, wmark) = d3 + d4
  BY <1>1, <1>2, BufferFacts, DistancesAdd
<1>4. Distance(ReadsAt, WritesAt) = d3 + d4 + d5
  BY <1>1, <1>2, <1>3, BufferFacts, DistancesAdd
<1>5. Distance(rmark, WritesAt) = d2 + (d3 + d4 + d5)
  BY <1>1, <1>2, <1>4, BufferFacts, DistancesAdd
<1>6. Distance(SeenRead, WritesAt) = d1 + (d2 + (d3 + d4 + d5))
  BY <1>1, <1>2, <1>5, BufferFacts, DistancesAdd
<1>7. Distance(rmark, SeenWritten) = d2 + d3
  BY <1>1, <1>2, BufferFacts, DistancesAdd
<1> HIDE DEF d1, d2, d3, d4, d5
<1>8. Distance(SeenRead, WritesAt) = d1 + d2 + d3 + d4 + d5
  BY <1>1, <1>6
<1> QED
  BY <1>4, <1>7, <1>8 DEF d1, d2, d3, d4, d5

(* A call of write() or read() looks at the marks. *)
LEMMA BufferStart ==
  ASSUME Buffer!RingAssumption, BufferInv, NEW length \in 1 .. MaxLength, NEW partial \in BOOLEAN,
         Buffer!StartWrite(length, partial) \/ Buffer!StartRead(length, partial)
  PROVE  BufferInv'
<1>1. CASE Buffer!StartWrite(length, partial)
  <2>1. /\ ~writer.busy /\ UNCHANGED <<buffer, wmark, rmark, reader, written, read>>
        /\ writer' = [busy |-> TRUE, partial |-> partial, length |-> length, rm |-> rmark, wm |-> wmark,
                      left |-> IF ~partial /\ length > Buffer!Space(rmark, wmark) THEN 0 ELSE length]
    BY <1>1 DEF Buffer!StartWrite, Buffer!Begins
  <2>2. BufferTypeOK'
    BY <2>1 DEF BufferInv, BufferTypeOK, Access, Buffer!RingAssumption
  <2>3. WritesAt' = WritesAt /\ ReadsAt' = ReadsAt /\ SeenRead' = SeenRead /\ SeenWritten' = SeenWritten
    BY <2>1 DEF WritesAt, ReadsAt, SeenRead, SeenWritten
  <2>4. MarksInOrder' /\ ElementsInPlace'
    BY <2>1, <2>3 DEF BufferInv, MarksInOrder, ElementsInPlace
  <2>5. Buffer!Space(rmark, wmark) \in Nat /\ length \in Nat
    <3>1. rmark \in Slot /\ wmark \in Slot /\ length \in Nat
      BY BufferFacts DEF Buffer!RingAssumption
    <3>2. Buffer!Space(rmark, wmark) = Capacity - Distance(rmark, wmark)
      BY <3>1, BufferCounts
    <3> QED
      BY <3>1, <3>2, DistanceType, CapacityType
  <2>6. Buffer!Fifo'
    BY <2>1, <2>5 DEF BufferInv, Buffer!Fifo
  <2> QED
    BY <2>2, <2>4, <2>6 DEF BufferInv
<1>2. CASE Buffer!StartRead(length, partial)
  <2>1. /\ ~reader.busy /\ UNCHANGED <<buffer, wmark, rmark, writer, written, read>>
        /\ reader' = [busy |-> TRUE, partial |-> partial, length |-> length, rm |-> rmark, wm |-> wmark,
                      left |-> IF ~partial /\ length > Buffer!Readable(rmark, wmark) THEN 0 ELSE length]
    BY <1>2 DEF Buffer!StartRead, Buffer!Begins
  <2>2. BufferTypeOK'
    BY <2>1 DEF BufferInv, BufferTypeOK, Access, Buffer!RingAssumption
  <2>3. WritesAt' = WritesAt /\ ReadsAt' = ReadsAt /\ SeenRead' = SeenRead /\ SeenWritten' = SeenWritten
    BY <2>1 DEF WritesAt, ReadsAt, SeenRead, SeenWritten
  <2>4. MarksInOrder' /\ ElementsInPlace'
    BY <2>1, <2>3 DEF BufferInv, MarksInOrder, ElementsInPlace
  <2>5. Buffer!Readable(rmark, wmark) \in Nat /\ length \in Nat
    <3>1. rmark \in Slot /\ wmark \in Slot /\ length \in Nat
      BY BufferFacts DEF Buffer!RingAssumption
    <3>2. Buffer!Readable(rmark, wmark) = Distance(rmark, wmark)
      BY <3>1, BufferCounts
    <3> QED
      BY <3>1, <3>2, DistanceType, CapacityType
  <2>6. Buffer!Fifo'
    BY <2>1, <2>5 DEF BufferInv, Buffer!Fifo
  <2> QED
    BY <2>2, <2>4, <2>6 DEF BufferInv
<1> QED
  BY <1>1, <1>2

(* write() fills the next slot, which holds nothing that is not read yet. *)
LEMMA BufferWrites ==
  ASSUME Buffer!RingAssumption, BufferInv, Buffer!WriteElement
  PROVE  BufferInv'
<1> DEFINE to == Behind(writer.wm, 1)
<1>0. Buffer!Size \in Nat \ {0} /\ Capacity = Buffer!Size - 1
  BY BufferFacts
<1>1. /\ writer.busy /\ writer.left > 0
      /\ buffer' = [buffer EXCEPT ![writer.wm] = written + 1] /\ written' = written + 1
      /\ UNCHANGED <<wmark, rmark, reader, read>>
      /\ Distance(writer.rm, writer.wm) < Capacity
      /\ to \in Slot /\ writer.rm \in Slot /\ writer.wm \in Slot
      /\ writer' = [writer EXCEPT !.wm = to, !.left = @ - 1]
  BY BufferCounts DEF Buffer!WriteElement, BufferInv, BufferTypeOK, Access
<1>2. /\ writer'.busy /\ writer'.partial = writer.partial /\ writer'.rm = writer.rm /\ writer'.wm = to
      /\ writer'.left = writer.left - 1 /\ writer' \in Access
  <2>1. writer \in Access /\ writer.left \in Nat /\ writer.left - 1 \in Nat
    BY <1>1, BufferFacts DEF Access
  <2> QED
    BY <1>1, <2>1 DEF Access
<1>3. BufferTypeOK'
  BY <1>1, <1>2 DEF BufferInv, BufferTypeOK, Access
<1>4. /\ WritesAt = writer.wm /\ WritesAt' = to /\ SeenRead = writer.rm /\ SeenRead' = writer.rm
      /\ ReadsAt' = ReadsAt /\ SeenWritten' = SeenWritten
  BY <1>1, <1>2 DEF WritesAt, ReadsAt, SeenRead, SeenWritten
<1>5. /\ Distance(SeenRead, writer.wm) = Distance(SeenRead, rmark) + Distance(rmark, ReadsAt)
           + Distance(ReadsAt, SeenWritten) + Distance(SeenWritten, wmark) + Distance(wmark, writer.wm)
      /\ Distance(ReadsAt, writer.wm) = Distance(ReadsAt, SeenWritten)
           + Distance(SeenWritten, wmark) + Distance(wmark, writer.wm)
  BY <1>4, AroundTheBuffer
<1>6. Distance(wmark, to) = Distance(wmark, writer.wm) + 1 /\ Distance(ReadsAt, to) = Distance(ReadsAt, writer.wm) + 1
  <2>1. /\ Distance(SeenRead, rmark) \in Nat /\ Distance(rmark, ReadsAt) \in Nat
        /\ Distance(ReadsAt, SeenWritten) \in Nat /\ Distance(SeenWritten, wmark) \in Nat
        /\ Distance(wmark, writer.wm) \in Nat /\ Capacity \in Nat
    BY <1>1, BufferFacts, DistanceType, CapacityType
  <2>2. Distance(wmark, writer.wm) < Capacity /\ Distance(ReadsAt, writer.wm) < Capacity
    BY <1>1, <1>4, <1>5, <2>1
  <2>3. wmark \in Slot /\ ReadsAt \in Slot
    BY BufferFacts
  <2> QED
    BY <1>1, <2>2, <2>3, NextSlot
<1>7. MarksInOrder'
  <2>1. /\ Distance(SeenRead, rmark) \in Nat /\ Distance(rmark, ReadsAt) \in Nat
        /\ Distance(ReadsAt, SeenWritten) \in Nat /\ Distance(SeenWritten, wmark) \in Nat
        /\ Distance(wmark, writer.wm) \in Nat /\ Capacity \in Nat
    BY <1>1, BufferFacts, DistanceType, CapacityType
  <2>2. Distance(SeenRead, rmark) + Distance(rmark, ReadsAt) + Distance(ReadsAt, SeenWritten)
          + Distance(SeenWritten, wmark) + Distance(wmark, to) <= Capacity
    BY <1>1, <1>4, <1>5, <1>6, <2>1
  <2>3. rmark' = rmark /\ wmark' = wmark
    BY <1>1
  <2> HIDE DEF to
  <2>4. /\ Distance(SeenRead, rmark)' = Distance(SeenRead, rmark)
        /\ Distance(rmark, ReadsAt)' = Distance(rmark, ReadsAt)
        /\ Distance(ReadsAt, SeenWritten)' = Distance(ReadsAt, SeenWritten)
        /\ Distance(SeenWritten, wmark)' = Distance(SeenWritten, wmark)
        /\ Distance(wmark, WritesAt)' = Distance(wmark, to)
    BY <1>4, <2>3 DEF Distance
  <2> QED
    BY <2>2, <2>4 DEF MarksInOrder
<1>8. ElementsInPlace'
  <2> DEFINE d == Distance(ReadsAt, writer.wm)
  <2>1. d \in Nat /\ d < Capacity /\ ReadsAt \in Slot /\ Len(read) \in Nat
    <3>1. ReadsAt \in Slot /\ Len(read) \in Nat /\ Distance(ReadsAt, writer.wm) \in Nat
      BY <1>1, BufferFacts, DistanceType
    <3>2. Distance(SeenRead, rmark) \in Nat /\ Distance(rmark, ReadsAt) \in Nat /\ Capacity \in Nat
      BY BufferFacts, DistanceType, CapacityType
    <3>3. Distance(SeenRead, writer.wm) = Distance(SeenRead, rmark) + Distance(rmark, ReadsAt) + d
      <4>1. /\ Distance(ReadsAt, SeenWritten) \in Nat /\ Distance(SeenWritten, wmark) \in Nat
            /\ Distance(wmark, writer.wm) \in Nat
        BY <1>1, BufferFacts, DistanceType
      <4> QED
        BY <1>5, <3>1, <3>2, <4>1
    <3> QED
      BY <1>1, <1>4, <3>1, <3>2, <3>3
  <2>2. written = Len(read) + d /\ \A k \in 0 .. d - 1 : buffer[Behind(ReadsAt, k)] = Len(read) + k + 1
    BY <1>4 DEF BufferInv, ElementsInPlace
  <2>3. Behind(ReadsAt, d) = writer.wm /\ \A k \in 0 .. d - 1 : Behind(ReadsAt, k) # writer.wm /\ Behind(ReadsAt, k) \in Slot
    BY <1>1, <2>1, NextSlot
  <2>4. \A k \in 0 .. d : buffer'[Behind(ReadsAt, k)] = Len(read) + k + 1
    <3> SUFFICES ASSUME NEW k \in 0 .. d PROVE buffer'[Behind(ReadsAt, k)] = Len(read) + k + 1
      OBVIOUS
    <3>1. buffer \in [Slot -> Nat]
      BY DEF BufferInv, BufferTypeOK
    <3>2. CASE k = d
      BY <3>1, <3>2, <1>1, <2>1, <2>2, <2>3
    <3>3. CASE k # d
      <4>1. k \in 0 .. d - 1
        BY <3>3, <2>1
      <4> QED
        BY <3>1, <4>1, <1>1, <2>2, <2>3
    <3> QED
      BY <3>2, <3>3
  <2>5. Distance(ReadsAt', WritesAt') = d + 1 /\ Len(read)' = Len(read) /\ ReadsAt' = ReadsAt
    BY <1>1, <1>4, <1>6
  <2> HIDE DEF d
  <2>6. 0 .. (d + 1) - 1 = 0 .. d /\ written + 1 = Len(read) + (d + 1)
    BY <2>1, <2>2
  <2> QED
    BY <1>1, <2>4, <2>5, <2>6 DEF ElementsInPlace, Behind
<1>9. Buffer!Fifo'
  <2>1. read' = read /\ reader' = reader /\ written' >= written
    BY <1>1, BufferFacts
  <2>2. ~writer'.partial => writer'.left <= Buffer!Space(writer'.rm, writer'.wm)
    <3>1. ~writer.partial => writer.left <= Capacity - Distance(writer.rm, writer.wm)
      BY <1>1, BufferCounts DEF BufferInv, Buffer!Fifo
    <3>2. Distance(writer.rm, to) = Distance(writer.rm, writer.wm) + 1
      BY <1>1, NextSlot
    <3>3. Buffer!Space(writer.rm, to) = Capacity - Distance(writer.rm, to)
      BY <1>1, BufferCounts
    <3>4. writer.left \in Nat
      BY DEF BufferInv, BufferTypeOK, Access
    <3> QED
      BY <1>0, <1>1, <1>2, <3>1, <3>2, <3>3, <3>4 DEF Distance, Slot
  <2> QED
    <3>1. read = [i \in 1..Len(read) |-> i] /\ Len(read) <= written
      BY DEF BufferInv, Buffer!Fifo
    <3>2. reader.busy /\ ~reader.partial => reader.left <= Buffer!Readable(reader.rm, reader.wm)
      BY DEF BufferInv, Buffer!Fifo
    <3>3. Len(read) <= written'
      <4>1. written \in Nat /\ Len(read) \in Nat /\ written' = written + 1
        BY <1>1, BufferFacts
      <4> QED
        BY <3>1, <4>1
    <3> QED
      BY <2>1, <2>2, <3>1, <3>2, <3>3 DEF Buffer!Fifo
<1> QED
  BY <1>3, <1>7, <1>8, <1>9 DEF BufferInv

(* read() takes the element at its position, the oldest that is not read yet. *)
LEMMA BufferReads ==
  ASSUME Buffer!RingAssumption, BufferInv, Buffer!ReadElement
  PROVE  BufferInv'
<1> DEFINE to == Behind(reader.rm, 1)
<1>0. Buffer!Size \in Nat \ {0} /\ Capacity = Buffer!Size - 1
  BY BufferFacts
<1>1. /\ reader.busy /\ reader.left > 0 /\ reader.rm # reader.wm
      /\ read' = Append(read, buffer[reader.rm])
      /\ UNCHANGED <<buffer, wmark, rmark, writer, written>>
      /\ to \in Slot /\ reader.rm \in Slot /\ reader.wm \in Slot
      /\ reader' = [reader EXCEPT !.rm = to, !.left = @ - 1]
  BY BufferCounts DEF Buffer!ReadElement, BufferInv, BufferTypeOK, Access
<1>2. /\ reader'.busy /\ reader'.partial = reader.partial /\ reader'.rm = to /\ reader'.wm = reader.wm
      /\ reader'.left = reader.left - 1 /\ reader' \in Access
  <2>1. reader \in Access /\ reader.left \in Nat /\ reader.left - 1 \in Nat
    BY <1>1, BufferFacts DEF Access
  <2> QED
    BY <1>1, <2>1 DEF Access
<1>3. BufferTypeOK'
  BY <1>1, <1>2 DEF BufferInv, BufferTypeOK, Access
<1>4. /\ ReadsAt = reader.rm /\ ReadsAt' = to /\ SeenWritten = reader.wm /\ SeenWritten' = reader.wm
      /\ WritesAt' = WritesAt /\ SeenRead' = SeenRead
  BY <1>1, <1>2 DEF WritesAt, ReadsAt, SeenRead, SeenWritten
<1>5. Distance(reader.rm, WritesAt) = Distance(reader.rm, reader.wm)
        + Distance(reader.wm, wmark) + Distance(wmark, WritesAt)
  BY <1>4, AroundTheBuffer
<1>6. /\ Distance(rmark, to) = Distance(rmark, reader.rm) + 1
      /\ Distance(to, reader.wm) = Distance(reader.rm, reader.wm) - 1
      /\ Distance(to, WritesAt) = Distance(reader.rm, WritesAt) - 1
      /\ Distance(reader.rm, WritesAt) \in Nat \ {0}
  <2>1. /\ Distance(SeenRead, rmark) \in Nat /\ Distance(rmark, reader.rm) \in Nat
        /\ Distance(reader.rm, reader.wm) \in Nat /\ Distance(reader.wm, wmark) \in Nat
        /\ Distance(wmark, WritesAt) \in Nat /\ Capacity \in Nat
    BY <1>1, BufferFacts, DistanceType, CapacityType
  <2>2. Distance(SeenRead, rmark) + Distance(rmark, reader.rm) + Distance(reader.rm, reader.wm)
          + Distance(reader.wm, wmark) + Distance(wmark, WritesAt) <= Capacity
    BY <1>4 DEF BufferInv, MarksInOrder
  <2>3. Distance(reader.rm, reader.wm) > 0
    BY <1>1, NextSlot
  <2>4. Distance(reader.rm, WritesAt) \in Nat \ {0} /\ Distance(rmark, reader.rm) < Capacity
    BY <1>5, <2>1, <2>2, <2>3
  <2>5. rmark \in Slot /\ WritesAt \in Slot
    BY BufferFacts
  <2>6. reader.rm # WritesAt
    BY <1>1, <2>4, NextSlot
  <2>7. Distance(rmark, to) = Distance(rmark, reader.rm) + 1
    BY <1>1, <2>4, <2>5, NextSlot
  <2>8. Distance(to, reader.wm) = Distance(reader.rm, reader.wm) - 1
    BY <1>1, NextSlot
  <2>9. Distance(to, WritesAt) = Distance(reader.rm, WritesAt) - 1
    BY <1>1, <2>5, <2>6, NextSlot
  <2> QED
    BY <2>4, <2>7, <2>8, <2>9
<1>7. MarksInOrder'
  <2>1. /\ Distance(SeenRead, rmark) \in Nat /\ Distance(rmark, reader.rm) \in Nat
        /\ Distance(reader.rm, reader.wm) \in Nat /\ Distance(reader.wm, wmark) \in Nat
        /\ Distance(wmark, WritesAt) \in Nat /\ Capacity \in Nat
    BY <1>1, BufferFacts, DistanceType, CapacityType
  <2>2. Distance(SeenRead, rmark) + Distance(rmark, reader.rm) + Distance(reader.rm, reader.wm)
          + Distance(reader.wm, wmark) + Distance(wmark, WritesAt) <= Capacity
    BY <1>4 DEF BufferInv, MarksInOrder
  <2>3. rmark' = rmark /\ wmark' = wmark
    BY <1>1
  <2> HIDE DEF to
  <2>4. /\ Distance(SeenRead, rmark)' = Distance(SeenRead, rmark)
        /\ Distance(rmark, ReadsAt)' = Distance(rmark, to)
        /\ Distance(ReadsAt, SeenWritten)' = Distance(to, reader.wm)
        /\ Distance(SeenWritten, wmark)' = Distance(reader.wm, wmark)
        /\ Distance(wmark, WritesAt)' = Distance(wmark, WritesAt)
    BY <1>4, <2>3 DEF Distance
  <2>5. Distance(SeenRead, rmark) + Distance(rmark, to) + Distance(to, reader.wm)
          + Distance(reader.wm, wmark) + Distance(wmark, WritesAt) <= Capacity
    BY <1>6, <2>1, <2>2
  <2> QED
    BY <2>4, <2>5 DEF MarksInOrder
<1>8. /\ Len(read') = Len(read) + 1 /\ buffer[reader.rm] = Len(read) + 1
      /\ read' = [i \in 1 .. Len(read) + 1 |-> i]
  <2>1. 0 \in 0 .. Distance(reader.rm, WritesAt) - 1 /\ Behind(reader.rm, 0) = reader.rm
    BY <1>0, <1>1, <1>6 DEF Behind, Slot
  <2>2. buffer[reader.rm] = Len(read) + 1
    BY <2>1, <1>4, BufferFacts DEF BufferInv, ElementsInPlace
  <2>3. read \in Seq(Nat) /\ read = [i \in 1 .. Len(read) |-> i] /\ Len(read) \in Nat
    BY BufferFacts DEF BufferInv, BufferTypeOK, Buffer!Fifo
  <2>4. read' = [i \in 1 .. Len(read) + 1 |-> IF i = Len(read) + 1 THEN buffer[reader.rm] ELSE read[i]]
    BY <1>1, <2>3
  <2> QED
    BY <1>1, <2>2, <2>3, <2>4
<1>9. ElementsInPlace'
  <2> DEFINE d == Distance(reader.rm, WritesAt)
  <2>1. d \in Nat \ {0} /\ d <= Capacity /\ WritesAt \in Slot /\ Len(read) \in Nat
    BY <1>1, <1>4, <1>6, BufferFacts, DistanceType
  <2>2. written = Len(read) + d /\ \A k \in 0 .. d - 1 : buffer[Behind(reader.rm, k)] = Len(read) + k + 1
    BY <1>4 DEF BufferInv, ElementsInPlace
  <2>3. \A k \in 0 .. d - 2 : Behind(to, k) = Behind(reader.rm, k + 1) /\ k + 1 \in 0 .. d - 1
    <3>1. reader.rm # WritesAt
      BY <1>1, <2>1, NextSlot
    <3> QED
      BY <1>1, <2>1, <3>1, NextSlot
  <2>4. \A k \in 0 .. (d - 1) - 1 : buffer[Behind(to, k)] = (Len(read) + 1) + k + 1
    BY <2>1, <2>2, <2>3
  <2>5. Distance(ReadsAt', WritesAt') = d - 1 /\ ReadsAt' = to
    BY <1>4, <1>6
  <2>6. written = (Len(read) + 1) + (d - 1)
    BY <2>1, <2>2
  <2> HIDE DEF d, to
  <2> QED
    BY <1>1, <1>8, <2>4, <2>5, <2>6 DEF ElementsInPlace, Behind
<1>10. Buffer!Fifo'
  <2>1. read' = [i \in 1 .. Len(read') |-> i] /\ Len(read') <= written'
    BY <1>1, <1>4, <1>6, <1>8, BufferFacts DEF BufferInv, ElementsInPlace
  <2>2. ~reader'.partial => reader'.left <= Buffer!Readable(reader'.rm, reader'.wm)
    <3>1. ~reader.partial => reader.left <= Distance(reader.rm, reader.wm)
      BY <1>1, BufferCounts DEF BufferInv, Buffer!Fifo
    <3>2. Buffer!Readable(to, reader.wm) = Distance(to, reader.wm)
      BY <1>1, BufferCounts
    <3>3. reader.left \in Nat
      BY DEF BufferInv, BufferTypeOK, Access
    <3> QED
      <4>1. Distance(reader.rm, reader.wm) \in Nat
        BY <1>1, DistanceType
      <4> QED
        BY <1>2, <1>6, <3>1, <3>2, <3>3, <4>1
  <2> QED
    BY <1>1, <2>1, <2>2 DEF BufferInv, Buffer!Fifo
<1> QED
  BY <1>3, <1>7, <1>9, <1>10 DEF BufferInv

(* The end of a call publishes its mark. *)
LEMMA BufferEnds ==
  ASSUME Buffer!RingAssumption, BufferInv, Buffer!EndWrite \/ Buffer!EndRead
  PROVE  BufferInv'
<1>0. Buffer!Size \in Nat \ {0} /\ Capacity = Buffer!Size - 1 /\ 0 \in Slot
  BY BufferFacts DEF Slot
<1>1. CASE Buffer!EndWrite
  <2>1. /\ writer.busy /\ wmark' = writer.wm /\ writer' = Buffer!Idle
        /\ UNCHANGED <<buffer, rmark, reader, written, read>>
    BY <1>1 DEF Buffer!EndWrite
  <2>2. BufferTypeOK'
    BY <1>0, <2>1 DEF BufferInv, BufferTypeOK, Access, Buffer!Idle
  <2>3. /\ WritesAt = writer.wm /\ WritesAt' = WritesAt /\ ReadsAt' = ReadsAt /\ SeenRead' = rmark
        /\ SeenWritten' = IF reader.busy THEN SeenWritten ELSE WritesAt
        /\ SeenRead = writer.rm
        /\ ~reader.busy => SeenWritten = wmark /\ ReadsAt = rmark
    BY <2>1 DEF WritesAt, ReadsAt, SeenRead, SeenWritten, Buffer!Idle
  <2>4. MarksInOrder'
    <3>1. /\ Distance(SeenRead, rmark) \in Nat /\ Distance(rmark, ReadsAt) \in Nat
          /\ Distance(ReadsAt, SeenWritten) \in Nat /\ Distance(SeenWritten, wmark) \in Nat
          /\ Distance(wmark, WritesAt) \in Nat /\ Capacity \in Nat
      BY BufferFacts, DistanceType, CapacityType
    <3>2. Distance(SeenRead, rmark) + Distance(rmark, ReadsAt) + Distance(ReadsAt, SeenWritten)
            + Distance(SeenWritten, wmark) + Distance(wmark, WritesAt) <= Capacity
      BY DEF BufferInv, MarksInOrder
    <3>3. Distance(rmark, rmark) = 0 /\ Distance(WritesAt, WritesAt) = 0
      BY BufferFacts, NextSlot
    <3>4. SeenWritten \in Slot /\ wmark \in Slot /\ WritesAt \in Slot /\ ReadsAt \in Slot
      BY BufferFacts
    <3>5. /\ Distance(SeenWritten, WritesAt) = Distance(SeenWritten, wmark) + Distance(wmark, WritesAt)
          /\ Distance(ReadsAt, WritesAt) = Distance(ReadsAt, SeenWritten)
               + Distance(SeenWritten, wmark) + Distance(wmark, WritesAt)
      BY <3>1, <3>2, <3>4, DistancesAdd, AroundTheBuffer
    <3>6. /\ Distance(SeenRead, rmark)' = 0
          /\ Distance(rmark, ReadsAt)' = Distance(rmark, ReadsAt)
          /\ Distance(wmark, WritesAt)' = 0
      BY <2>1, <2>3, <3>3 DEF Distance
    <3>7. CASE reader.busy
      <4>1. /\ Distance(ReadsAt, SeenWritten)' = Distance(ReadsAt, SeenWritten)
            /\ Distance(SeenWritten, wmark)' = Distance(SeenWritten, WritesAt)
        BY <2>1, <2>3, <3>7 DEF Distance
      <4> QED
        BY <3>1, <3>2, <3>5, <3>6, <4>1 DEF MarksInOrder
    <3>8. CASE ~reader.busy
      <4>1. /\ Distance(ReadsAt, SeenWritten)' = Distance(ReadsAt, WritesAt)
            /\ Distance(SeenWritten, wmark)' = 0
        BY <2>1, <2>3, <3>3, <3>8 DEF Distance
      <4> QED
        BY <3>1, <3>2, <3>5, <3>6, <4>1 DEF MarksInOrder
    <3> QED
      BY <3>7, <3>8
  <2>5. ElementsInPlace' /\ Buffer!Fifo'
    BY <2>1, <2>3 DEF BufferInv, ElementsInPlace, Buffer!Fifo, Buffer!Idle
  <2> QED
    BY <2>2, <2>4, <2>5 DEF BufferInv
<1>2. CASE Buffer!EndRead
  <2>1. /\ reader.busy /\ rmark' = reader.rm /\ reader' = Buffer!Idle
        /\ UNCHANGED <<buffer, wmark, writer, written, read>>
    BY <1>2 DEF Buffer!EndRead
  <2>2. BufferTypeOK'
    BY <1>0, <2>1 DEF BufferInv, BufferTypeOK, Access, Buffer!Idle
  <2>3. /\ ReadsAt = reader.rm /\ ReadsAt' = ReadsAt /\ WritesAt' = WritesAt /\ SeenWritten' = wmark
        /\ SeenRead' = IF writer.busy THEN SeenRead ELSE ReadsAt
        /\ ~writer.busy => SeenRead = rmark /\ WritesAt = wmark
    BY <2>1 DEF WritesAt, ReadsAt, SeenRead, SeenWritten, Buffer!Idle
  <2>4. MarksInOrder'
    <3>1. /\ Distance(SeenRead, rmark) \in Nat /\ Distance(rmark, ReadsAt) \in Nat
          /\ Distance(ReadsAt, SeenWritten) \in Nat /\ Distance(SeenWritten, wmark) \in Nat
          /\ Distance(wmark, WritesAt) \in Nat /\ Capacity \in Nat
      BY BufferFacts, DistanceType, CapacityType
    <3>2. Distance(SeenRead, rmark) + Distance(rmark, ReadsAt) + Distance(ReadsAt, SeenWritten)
            + Distance(SeenWritten, wmark) + Distance(wmark, WritesAt) <= Capacity
      BY DEF BufferInv, MarksInOrder
    <3>3. Distance(ReadsAt, ReadsAt) = 0 /\ Distance(wmark, wmark) = 0
      BY BufferFacts, NextSlot
    <3>4. SeenRead \in Slot /\ rmark \in Slot /\ ReadsAt \in Slot /\ SeenWritten \in Slot /\ wmark \in Slot
      BY BufferFacts
    <3>5. /\ Distance(SeenRead, ReadsAt) = Distance(SeenRead, rmark) + Distance(rmark, ReadsAt)
          /\ Distance(ReadsAt, wmark) = Distance(ReadsAt, SeenWritten) + Distance(SeenWritten, wmark)
      BY <3>1, <3>2, <3>4, DistancesAdd
    <3>6. /\ Distance(rmark, ReadsAt)' = 0
          /\ Distance(ReadsAt, SeenWritten)' = Distance(ReadsAt, wmark)
          /\ Distance(SeenWritten, wmark)' = 0
          /\ Distance(wmark, WritesAt)' = Distance(wmark, WritesAt)
      BY <2>1, <2>3, <3>3 DEF Distance
    <3>7. Distance(SeenRead, rmark)' = IF writer.busy THEN Distance(SeenRead, ReadsAt) ELSE 0
      BY <2>1, <2>3, <3>3 DEF Distance
    <3> QED
      BY <3>1, <3>2, <3>5, <3>6, <3>7 DEF MarksInOrder
  <2>5. ElementsInPlace' /\ Buffer!Fifo'
    BY <2>1, <2>3 DEF BufferInv, ElementsInPlace, Buffer!Fifo, Buffer!Idle
  <2> QED
    BY <2>2, <2>4, <2>5 DEF BufferInv
<1> QED
  BY <1>1, <1>2

(* RingBuffer: what read() returns is what write() was given, in order and nothing
   twice, however the two calls interleave, for every capacity. *)
THEOREM FifoHolds ==
  ASSUME Buffer!RingAssumption
  PROVE  Buffer!Spec => []Buffer!Fifo
<1>1. Buffer!Init => BufferInv
  BY BufferInitInv
<1>2. ASSUME BufferInv, [Buffer!Next]_bufferVars PROVE BufferInv'
  <2>1. CASE UNCHANGED Buffer!vars
    BY <1>2, <2>1 DEF Buffer!vars, BufferInv, BufferTypeOK, MarksInOrder, ElementsInPlace,
       Buffer!Fifo, Distance, Behind,
       WritesAt, ReadsAt, SeenRead, SeenWritten
  <2>2. CASE Buffer!Next
    <3>1. CASE \E length \in 1..MaxLength, partial \in BOOLEAN : Buffer!StartWrite(length, partial) \/ Buffer!StartRead(length, partial)
      BY <1>2, <3>1, BufferStart
    <3>3. (\E length \in 1..MaxLength, partial \in BOOLEAN : Buffer!StartWrite(length, partial) \/ Buffer!StartRead(length, partial))
          \/ Buffer!WriteElement \/ Buffer!ReadElement \/ Buffer!EndWrite \/ Buffer!EndRead
      BY <2>2 DEF Buffer!Next
    <3>4. CASE Buffer!WriteElement
      BY <1>2, <3>4, BufferWrites
    <3>5. CASE Buffer!ReadElement
      BY <1>2, <3>5, BufferReads
    <3>6. CASE Buffer!EndWrite \/ Buffer!EndRead
      BY <1>2, <3>6, BufferEnds
    <3> QED
      BY <3>1, <3>3, <3>4, <3>5, <3>6
  <2> QED
    BY <1>2, <2>1, <2>2 DEF bufferVars, Buffer!vars
<1>3. BufferInv => Buffer!Fifo
  BY DEF BufferInv
<1> QED
  BY <1>1, <1>2, <1>3, PTL DEF Buffer!Spec, Buffer!vars, bufferVars

-----------------------------------------------------------------------------
(* UiThread: the application, the UI thread and the display thread.          *)

\* What the application asks for, and the commands for the display thread.
Asked   == [type : {"show", "close", "delete", "edit"}, window : Windows]
CreateCommand  == [type : {"CREATE"}, window : Windows]
DestroyCommand == [type : {"DESTROY"}, window : Windows]
ToShutdown == [type |-> "SHUTDOWN"]
DisplayCommand == CreateCommand \cup DestroyCommand \cup {ToShutdown}

\* The windows that these commands destroy; and a display thread that runs its loop.
Gone(s) == {c.window : c \in ToSet(s)}
DisplayRuns == dthread \in {"setup", "run", "event"}

\* Behind the commands that destroy windows comes this one.
Follows(c) ==
  /\ toDisplay # <<>> /\ Last(toDisplay) = c
  /\ Front(toDisplay) \in Seq(DestroyCommand) /\ xwindows \ Gone(Front(toDisplay)) = shown

\* Where the threads are, and what they have left to do there.
Stages ==
  /\ main \in {"none", "boot", "running", "join", "done"}
  /\ uiThread \in {"none", "init", "run", "drivers", "drain", "ended"}
  /\ wait \in {"none", "open", "create", "shutdown"}
  /\ dthread \in {"none", "connect", "setup", "run", "event", "quit", "ended"}
  /\ calls \in Seq(Asked) /\ toDisplay \in Seq(DisplayCommand)
  /\ shown \in SUBSET Windows /\ IsFiniteSet(shown)
  /\ quit <=> main \in {"join", "done"}
  /\ main = "none" => uiThread = "none"
  /\ main \in {"none", "boot"} => calls = <<>>
  /\ uiThread \in {"drivers", "drain", "ended"} => quit /\ shown = {}
  /\ main = "done" => uiThread = "ended"
  /\ quit => \A k \in DOMAIN calls : calls[k].type # "show"
  /\ wait \in {"open", "create"} => uiThread = "run" /\ calls # <<>> /\ Head(calls).type = "show"
  /\ wait = "shutdown" => uiThread = "drivers"
  /\ uiThread \in {"drain", "ended"} => dthread = "none"

\* What the display thread knows, while the UI thread waits for it or does not.
DisplaySide ==
  /\ dthread = "none" => toDisplay = <<>> /\ xwindows = {} /\ shown = {}
  /\ wait = "none" =>
       /\ dthread = "none" \/ DisplayRuns
       /\ replies = <<>> /\ toDisplay \in Seq(DestroyCommand) /\ xwindows \ Gone(toDisplay) = shown
  /\ wait = "open" =>
       /\ toDisplay = <<>> /\ xwindows = {} /\ shown = {}
       /\ \/ dthread = "connect" /\ replies = <<>>
          \/ DisplayRuns /\ replies = <<"OK">>
  /\ wait = "create" =>
       /\ DisplayRuns
       /\ \/ replies = <<>> /\ Follows([type |-> "CREATE", window |-> Head(calls).window])
          \/ replies = <<"OK">> /\ toDisplay = <<>> /\ xwindows = shown \cup {Head(calls).window}
  /\ wait = "shutdown" =>
       \/ DisplayRuns /\ replies = <<>> /\ Follows(ToShutdown)
       \/ dthread \in {"quit", "ended"} /\ replies = <<"OK">> /\ toDisplay = <<>> /\ xwindows = {}

\* The inductive invariant of the threads.
ThreadInv == Stages /\ DisplaySide

(* The command of every window, in some order. *)
LEMMA DestroysAre ==
  ASSUME NEW ws \in SUBSET Windows, IsFiniteSet(ws)
  PROVE  Thread!Destroys(ws) \in Seq(DestroyCommand) /\ Gone(Thread!Destroys(ws)) = ws
<1> DEFINE n == Cardinality(ws)
           order == Thread!SetToSeq(ws)
<1>1. n \in Nat /\ ExistsBijection(1 .. n, ws)
  BY FS_CardinalityType
<1>2. order = CHOOSE f \in [1 .. n -> ws] : IsInjective(f)
  BY DEF Thread!SetToSeq, Thread!IsInjective, Thread!Cardinality, IsInjective, Cardinality
<1>3. order \in [1 .. n -> ws] /\ IsInjective(order)
  <2>1. \E f \in [1 .. n -> ws] : IsInjective(f)
    BY <1>1 DEF ExistsBijection, Bijection, Injection
  <2> HIDE DEF order, n
  <2> QED
    BY <1>2, <2>1
<1>4. order \in Injection(1 .. n, ws)
  BY <1>3 DEF Injection
<1>5. \A w \in ws : \E k \in 1 .. n : order[k] = w
  <2> HIDE DEF order
  <2>1. n = 0 => ws = {}
    BY FS_EmptySet
  <2>2. Cardinality(1 .. n) = n
    BY <1>1, FS_Interval
  <2>3. order \in Surjection(1 .. n, ws)
    BY <1>4, <2>2, FS_Injection
  <2> QED
    BY <2>3 DEF Surjection
<1> HIDE DEF n, order
<1> DEFINE s == [k \in 1 .. n |-> [type |-> "DESTROY", window |-> order[k]]]
<1>6. Thread!Destroys(ws) = s
  BY <1>3 DEF Thread!Destroys, order
<1>7. s \in Seq(DestroyCommand)
  <2>1. \A k \in 1 .. n : s[k] \in DestroyCommand
    BY <1>3 DEF DestroyCommand
  <2> QED
    BY <1>1, <2>1
<1>8. Gone(s) = ws
  <2>1. DOMAIN s = 1 .. n /\ \A k \in 1 .. n : s[k].window = order[k] /\ order[k] \in ws
    BY <1>3
  <2> HIDE DEF s
  <2>2. \A w \in Gone(s) : w \in ws
    BY <2>1 DEF Gone, ToSet
  <2>3. \A w \in ws : w \in Gone(s)
    <3> SUFFICES ASSUME NEW w \in ws PROVE w \in Gone(s)
      OBVIOUS
    <3>1. PICK k \in 1 .. n : order[k] = w
      BY <1>5
    <3>2. s[k] \in ToSet(s) /\ s[k].window = w
      BY <2>1, <3>1 DEF ToSet
    <3> QED
      BY <3>2 DEF Gone
  <2> QED
    BY <2>2, <2>3
<1> QED
  BY <1>6, <1>7, <1>8

(* The windows that are gone when the first command is executed. *)
LEMMA GoneFirst ==
  ASSUME NEW s \in Seq(DestroyCommand), s # <<>>
  PROVE  /\ Head(s) \in DestroyCommand /\ Tail(s) \in Seq(DestroyCommand)
         /\ Gone(s) = {Head(s).window} \cup Gone(Tail(s))
<1> DEFINE c == Head(s)
           t == Tail(s)
<1>1. c \in DestroyCommand /\ t \in Seq(DestroyCommand) /\ <<c>> \o t = s
  BY HeadThenTail
<1> HIDE DEF c, t
<1>2. ToSet(s) = ToSet(t) \cup {c}
  <2>1. ToSet(<<c>> \o t) = ToSet(t) \cup {c}
    BY <1>1, ConsElements
  <2> QED
    BY <1>1, <2>1
<1> QED
  BY <1>1, <1>2 DEF Gone, c, t

(* The windows of two lists of commands. *)
LEMMA GoneConcat ==
  ASSUME NEW s \in Seq(DestroyCommand), NEW t \in Seq(DestroyCommand)
  PROVE  s \o t \in Seq(DestroyCommand) /\ Gone(s \o t) = Gone(s) \cup Gone(t)
<1>1. /\ s \o t \in Seq(DestroyCommand) /\ Len(s \o t) = Len(s) + Len(t) /\ Len(s) \in Nat /\ Len(t) \in Nat
      /\ \A k \in 1 .. Len(s) + Len(t) : (s \o t)[k] = IF k <= Len(s) THEN s[k] ELSE t[k - Len(s)]
  BY ConcatProperties, LenProperties
<1> DEFINE u == s \o t
<1>2. DOMAIN u = 1 .. Len(s) + Len(t) /\ DOMAIN s = 1 .. Len(s) /\ DOMAIN t = 1 .. Len(t)
  BY <1>1, LenProperties
<1> HIDE DEF u
<1>3. \A k \in DOMAIN u : u[k] \in ToSet(s) \cup ToSet(t)
  <2> SUFFICES ASSUME NEW k \in DOMAIN u PROVE u[k] \in ToSet(s) \cup ToSet(t)
    OBVIOUS
  <2>1. CASE k <= Len(s)
    BY <1>1, <1>2, <2>1 DEF ToSet, u
  <2>2. CASE ~(k <= Len(s))
    <3>1. k - Len(s) \in DOMAIN t /\ u[k] = t[k - Len(s)]
      BY <1>1, <1>2, <2>2 DEF u
    <3> QED
      BY <3>1 DEF ToSet
  <2> QED
    BY <2>1, <2>2
<1>4. \A k \in DOMAIN s : s[k] \in ToSet(u)
  <2> SUFFICES ASSUME NEW k \in DOMAIN s PROVE s[k] \in ToSet(u)
    OBVIOUS
  <2>1. k \in DOMAIN u /\ u[k] = s[k]
    BY <1>1, <1>2 DEF u
  <2> QED
    BY <2>1 DEF ToSet
<1>5. \A k \in DOMAIN t : t[k] \in ToSet(u)
  <2> SUFFICES ASSUME NEW k \in DOMAIN t PROVE t[k] \in ToSet(u)
    OBVIOUS
  <2>1. k + Len(s) \in DOMAIN u /\ u[k + Len(s)] = t[k]
    BY <1>1, <1>2 DEF u
  <2> QED
    BY <2>1 DEF ToSet
<1>6. ToSet(u) = ToSet(s) \cup ToSet(t)
  BY <1>3, <1>4, <1>5 DEF ToSet
<1> QED
  BY <1>1, <1>6 DEF Gone, u

(* The empty list of commands. *)
LEMMA NoneGone == Gone(<<>>) = {} /\ <<>> \in Seq(DestroyCommand) /\ <<>> \in Seq(DisplayCommand)
BY DEF Gone, ToSet

(* A command behind others is the last. *)
LEMMA BehindOthers ==
  ASSUME NEW s \in Seq(DestroyCommand), NEW c \in DisplayCommand
  PROVE  /\ Append(s, c) \in Seq(DisplayCommand) /\ Append(s, c) = s \o <<c>>
         /\ Append(s, c) # <<>> /\ Last(Append(s, c)) = c /\ Front(Append(s, c)) = s
<1>1. DestroyCommand \subseteq DisplayCommand
  BY DEF DisplayCommand
<1>2. s \in Seq(DisplayCommand)
  BY <1>1
<1> DEFINE t == Append(s, c)
<1>3. t \in Seq(DisplayCommand) /\ t = s \o <<c>> /\ Len(t) = Len(s) + 1 /\ t[Len(s) + 1] = c /\ Len(s) \in Nat
      /\ \A k \in 1 .. Len(s) : t[k] = s[k]
  BY <1>2, AppendProperties, AppendIsConcat, LenProperties
<1> HIDE DEF t
<1>4. t # <<>> /\ Last(t) = c
  BY <1>3, EmptySeq DEF Last
<1>5. /\ Front(t) \in Seq(DisplayCommand) /\ Len(Front(t)) = Len(t) - 1
      /\ \A k \in 1 .. (Len(t) - 1) : Front(t)[k] = t[k]
  BY <1>3, <1>4, FrontProperties
<1>6. Len(Front(t)) = Len(s) /\ \A k \in 1 .. Len(s) : Front(t)[k] = s[k]
  BY <1>3, <1>5
<1>7. Front(t) = s
  <2> DEFINE f == Front(t)
  <2>1. f \in Seq(DisplayCommand) /\ Len(f) = Len(s) /\ \A k \in 1 .. Len(s) : f[k] = s[k]
    BY <1>5, <1>6
  <2> HIDE DEF f
  <2>2. f = s
    BY <1>2, <2>1, SeqEqual
  <2> QED
    BY <2>2 DEF f
<1> QED
  BY <1>3, <1>4, <1>7 DEF t

(* The first of the commands before the last one, or the last one itself. *)
LEMMA FirstOfThem ==
  ASSUME NEW s \in Seq(DisplayCommand), s # <<>>, Front(s) \in Seq(DestroyCommand)
  PROVE  /\ Front(s) = <<>> => Head(s) = Last(s) /\ Tail(s) = <<>>
         /\ Front(s) # <<>> => /\ Head(s) = Head(Front(s)) /\ Tail(s) # <<>> /\ Tail(s) \in Seq(DisplayCommand)
                               /\ Last(Tail(s)) = Last(s) /\ Front(Tail(s)) = Tail(Front(s))
<1> DEFINE f == Front(s)
           c == Last(s)
           g == Tail(f)
<1>1. f \in Seq(DestroyCommand) /\ c \in DisplayCommand /\ s = Append(f, c)
  BY FrontThenLast
<1> HIDE DEF f, c
<1>2. s = f \o <<c>>
  BY <1>1, BehindOthers
<1>3. ASSUME f = <<>> PROVE Head(s) = c /\ Tail(s) = <<>>
  <2>1. s = <<c>>
    BY <1>1, <1>3
  <2> QED
    BY <2>1
<1>4. ASSUME f # <<>>
      PROVE  /\ Head(s) = Head(f) /\ Tail(s) = Append(g, c) /\ g \in Seq(DestroyCommand)
  <2> DEFINE h == Head(f)
             one == <<h>>
             end == <<c>>
  <2>1. h \in DestroyCommand /\ g \in Seq(DestroyCommand) /\ one \o g = f
    BY <1>1, <1>4, HeadThenTail
  <2> HIDE DEF h, g
  <2>2. one \in Seq(DisplayCommand) /\ g \in Seq(DisplayCommand) /\ end \in Seq(DisplayCommand) /\ h \in DisplayCommand
    BY <1>1, <2>1 DEF DisplayCommand
  <2>3. g \o end = Append(g, c)
    BY <1>1, <2>1, BehindOthers
  <2>4. s = (one \o g) \o end
    BY <1>2, <2>1
  <2> HIDE DEF one, end
  <2>5. s = one \o (g \o end) /\ g \o end \in Seq(DisplayCommand)
    BY <2>2, <2>4, ConcatAssociative, ConcatProperties
  <2> DEFINE rest == g \o end
  <2>6. rest \in Seq(DisplayCommand) /\ s = <<h>> \o rest
    BY <2>5 DEF one
  <2> HIDE DEF rest
  <2>7. Head(s) = h /\ Tail(s) = rest
    BY <2>2, <2>6, ConsProperties
  <2> QED
    BY <2>1, <2>3, <2>7 DEF h, rest
<1>5. ASSUME f # <<>>
      PROVE  /\ Tail(s) # <<>> /\ Tail(s) \in Seq(DisplayCommand) /\ Last(Tail(s)) = c /\ Front(Tail(s)) = g
  <2>1. g \in Seq(DestroyCommand) /\ Tail(s) = Append(g, c)
    BY <1>4, <1>5
  <2> HIDE DEF g
  <2> QED
    BY <1>1, <2>1, BehindOthers
<1> QED
  BY <1>3, <1>4, <1>5 DEF f, c

(* Steps that leave the display thread and what it was told alone. *)
LEMMA DisplaySideRests ==
  ASSUME ThreadInv, UNCHANGED <<wait, replies, toDisplay, xwindows, shown>>,
         dthread' = dthread \/ (DisplayRuns /\ DisplayRuns'),
         wait = "create" => Head(calls)' = Head(calls)
  PROVE  DisplaySide'
<1>1. /\ DisplayRuns' <=> DisplayRuns
      /\ dthread' = "none" <=> dthread = "none"
      /\ dthread' = "connect" <=> dthread = "connect"
      /\ dthread' \in {"quit", "ended"} <=> dthread \in {"quit", "ended"}
  BY DEF DisplayRuns
<1>2. \A c : Follows(c)' <=> Follows(c)
  BY DEF Follows
<1>3. CASE wait \in {"none", "open"}
  BY <1>1, <1>3 DEF ThreadInv, DisplaySide
<1>4. CASE wait = "create"
  <2>1. Follows([type |-> "CREATE", window |-> Head(calls).window]) => Follows([type |-> "CREATE", window |-> Head(calls).window])'
    BY <1>4 DEF Follows
  <2> QED
    BY <1>1, <1>4, <2>1 DEF ThreadInv, DisplaySide
<1>5. CASE wait = "shutdown"
  <2>1. Follows(ToShutdown) => Follows(ToShutdown)'
    BY DEF Follows
  <2> QED
    BY <1>1, <1>5, <2>1 DEF ThreadInv, DisplaySide
<1> QED
  BY <1>3, <1>4, <1>5 DEF ThreadInv, Stages

(* The application. *)
LEMMA ApplicationKeeps ==
  ASSUME ThreadInv,
         \/ Thread!Application
         \/ \E w \in Windows, type \in {"show", "close", "delete", "edit"} : Thread!Call(type, w)
  PROVE  ThreadInv'
<1>1. CASE Thread!Bootup \/ Thread!Booted \/ Thread!Joined
  <2>1. /\ UNCHANGED <<wait, quit, calls, shown, dthread, toDisplay, replies, xwindows>>
        /\ \/ main = "none" /\ main' = "boot" /\ uiThread' = "init"
           \/ main = "boot" /\ uiThread # "init" /\ main' = "running" /\ uiThread' = uiThread
           \/ main = "join" /\ uiThread = "ended" /\ main' = "done" /\ uiThread' = uiThread
    BY <1>1 DEF Thread!Bootup, Thread!Booted, Thread!Joined, Thread!uiVars, Thread!displayVars
  <2>2. DisplaySide'
    BY <2>1, DisplaySideRests
  <2>3. Stages'
    BY <2>1 DEF ThreadInv, Stages
  <2> QED
    BY <2>2, <2>3 DEF ThreadInv
<1>2. CASE Thread!Shutdown
  <2>1. /\ UNCHANGED <<uiThread, wait, calls, shown, dthread, toDisplay, replies, xwindows>>
        /\ main = "running" /\ main' = "join" /\ quit' = TRUE /\ \A k \in DOMAIN calls : calls[k].type # "show"
    BY <1>2 DEF Thread!Shutdown, Thread!displayVars
  <2>2. DisplaySide'
    BY <2>1, DisplaySideRests
  <2>3. Stages'
    BY <2>1 DEF ThreadInv, Stages
  <2> QED
    BY <2>2, <2>3 DEF ThreadInv
<1>3. CASE \E w \in Windows, type \in {"show", "close", "delete", "edit"} : Thread!Call(type, w)
  <2>1. PICK w \in Windows, type \in {"show", "close", "delete", "edit"} : Thread!Call(type, w)
    BY <1>3
  <2> DEFINE c == [type |-> type, window |-> w]
  <2>2. /\ UNCHANGED <<main, uiThread, wait, quit, shown, dthread, toDisplay, replies, xwindows>>
        /\ main = "running" /\ calls' = Append(calls, c)
    BY <2>1 DEF Thread!Call, Thread!displayVars
  <2>3. c \in Asked /\ calls \in Seq(Asked)
    BY DEF Asked, ThreadInv, Stages
  <2> HIDE DEF c
  <2>4. calls' \in Seq(Asked) /\ (calls # <<>> => Head(calls') = Head(calls)) /\ calls' # <<>>
    BY <2>2, <2>3, AppendProperties
  <2>5. wait = "create" => calls # <<>>
    BY DEF ThreadInv, Stages
  <2>6. DisplaySide'
    BY <2>2, <2>4, <2>5, DisplaySideRests
  <2>7. Stages'
    BY <2>2, <2>4 DEF ThreadInv, Stages
  <2> QED
    BY <2>6, <2>7 DEF ThreadInv
<1> QED
  BY <1>1, <1>2, <1>3 DEF Thread!Application

(* Commands that destroy windows are sent while no reply is awaited. *)
LEMMA DestroysKeep ==
  ASSUME ThreadInv, wait = "none", NEW ws \in SUBSET shown, Thread!Push(Thread!Destroys(ws)), shown' = shown \ ws,
         UNCHANGED <<wait, dthread, replies, xwindows>>
  PROVE  /\ DisplaySide' /\ toDisplay' \in Seq(DisplayCommand)
         /\ shown' \in SUBSET Windows /\ IsFiniteSet(shown')
<1>1. ws \in SUBSET Windows /\ IsFiniteSet(ws) /\ shown' \in SUBSET Windows /\ IsFiniteSet(shown')
  BY FS_Subset DEF ThreadInv, Stages
<1> DEFINE ds == Thread!Destroys(ws)
<1>2. ds \in Seq(DestroyCommand) /\ Gone(ds) = ws /\ toDisplay' = toDisplay \o ds
  BY <1>1, DestroysAre DEF Thread!Push
<1>3. toDisplay \in Seq(DestroyCommand) /\ replies = <<>> /\ (dthread = "none" \/ DisplayRuns) /\ xwindows \ Gone(toDisplay) = shown
      /\ (dthread = "none" => toDisplay = <<>> /\ xwindows = {} /\ shown = {})
  BY DEF ThreadInv, DisplaySide
<1> HIDE DEF ds
<1>4. toDisplay' \in Seq(DestroyCommand) /\ Gone(toDisplay') = Gone(toDisplay) \cup ws
  BY <1>2, <1>3, GoneConcat
<1>5. xwindows' \ Gone(toDisplay') = shown'
  BY <1>3, <1>4
<1>6. ASSUME dthread = "none" PROVE toDisplay' = <<>>
  <2>1. ws = {}
    BY <1>3, <1>6
  <2>2. \A k \in DOMAIN ds : FALSE
    BY <1>2, <2>1 DEF Gone, ToSet
  <2>3. ds = <<>>
    <3>1. Len(ds) \in Nat /\ DOMAIN ds = 1 .. Len(ds)
      BY <1>2, LenProperties
    <3>2. Len(ds) = 0
      BY <2>2, <3>1
    <3> QED
      BY <1>2, <3>2, EmptySeq
  <2> QED
    BY <1>2, <1>3, <1>6, <2>3
<1>7. toDisplay' \in Seq(DisplayCommand)
  BY <1>4 DEF DisplayCommand
<1>8. DisplayRuns' = DisplayRuns
  BY DEF DisplayRuns
<1> QED
  BY <1>1, <1>3, <1>4, <1>5, <1>6, <1>7, <1>8 DEF DisplaySide

(* A command that has a reply follows the others. *)
LEMMA CommandFollows ==
  ASSUME ThreadInv, toDisplay \in Seq(DestroyCommand), xwindows \ Gone(toDisplay) = shown, NEW c \in DisplayCommand,
         Thread!Push(<<c>>), UNCHANGED <<shown, xwindows>>
  PROVE  Follows(c)' /\ toDisplay' \in Seq(DisplayCommand)
<1>1. toDisplay' = toDisplay \o <<c>>
  BY DEF Thread!Push
<1>2. toDisplay' = Append(toDisplay, c) /\ toDisplay' # <<>> /\ Last(toDisplay') = c /\ Front(toDisplay') = toDisplay
      /\ toDisplay' \in Seq(DisplayCommand)
  BY <1>1, BehindOthers
<1> QED
  BY <1>2 DEF Follows

(* The first call of a client. *)
LEMMA FirstCall ==
  ASSUME ThreadInv, calls # <<>>
  PROVE  /\ Head(calls) \in Asked /\ Tail(calls) \in Seq(Asked)
         /\ quit => Head(calls).type # "show" /\ \A k \in DOMAIN Tail(calls) : Tail(calls)[k].type # "show"
         /\ uiThread \in {"run", "drain"} /\ wait = "none" => main \notin {"none", "boot"}
<1>1. calls \in Seq(Asked)
  BY DEF ThreadInv, Stages
<1>2. Head(calls) \in Asked /\ Tail(calls) \in Seq(Asked)
  BY <1>1, HeadThenTail
<1>3. /\ Len(calls) \in Nat /\ 1 \in DOMAIN calls /\ Head(calls) = calls[1] /\ DOMAIN calls = 1 .. Len(calls)
      /\ Len(Tail(calls)) = Len(calls) - 1 /\ DOMAIN Tail(calls) = 1 .. Len(calls) - 1
      /\ \A k \in 1 .. Len(calls) - 1 : Tail(calls)[k] = calls[k + 1]
  BY <1>1, <1>2, HeadTailProperties, LenProperties, EmptySeq
<1>4. quit => \A k \in DOMAIN calls : calls[k].type # "show"
  BY DEF ThreadInv, Stages
<1>5. ASSUME quit, NEW k \in DOMAIN Tail(calls) PROVE Tail(calls)[k].type # "show"
  <2>1. k \in 1 .. Len(calls) - 1 /\ k + 1 \in DOMAIN calls
    BY <1>3, <1>5
  <2>2. Tail(calls)[k] = calls[k + 1]
    BY <1>3, <2>1
  <2> QED
    BY <1>4, <1>5, <2>1, <2>2
<1>6. main \notin {"none", "boot"}
  BY DEF ThreadInv, Stages
<1> QED
  BY <1>2, <1>3, <1>4, <1>5, <1>6

(* The UI thread dispatches a client's call. *)
LEMMA DispatchKeeps ==
  ASSUME ThreadInv, Thread!DispatchCall
  PROVE  ThreadInv'
<1> DEFINE c == Head(calls)
<1>1. /\ wait = "none" /\ calls # <<>> /\ UNCHANGED <<main, uiThread, quit, replies, xwindows>>
      /\ \/ uiThread = "run" /\ ~quit
         \/ uiThread = "drain"
  BY DEF Thread!DispatchCall, Thread!Iterates
<1>2. c \in Asked /\ Tail(calls) \in Seq(Asked)
  BY <1>1, FirstCall
<1>2a. /\ main \notin {"none", "boot"}
       /\ quit => c.type # "show" /\ \A k \in DOMAIN Tail(calls) : Tail(calls)[k].type # "show"
  BY <1>1, FirstCall
<1>3. /\ DisplaySide /\ Stages /\ toDisplay \in Seq(DestroyCommand) /\ xwindows \ Gone(toDisplay) = shown /\ replies = <<>>
      /\ dthread = "none" \/ DisplayRuns
      /\ dthread = "none" => toDisplay = <<>> /\ xwindows = {} /\ shown = {}
  BY <1>1 DEF ThreadInv, DisplaySide
<1>4. uiThread = "drain" => quit /\ shown = {}
  BY <1>3 DEF Stages
\* The call is done.
<1>5. ASSUME calls' = Tail(calls), wait' = "none", toDisplay' \in Seq(DisplayCommand), shown' \in SUBSET Windows, IsFiniteSet(shown'),
             shown' \subseteq shown, dthread' = dthread
      PROVE  Stages'
  BY <1>1, <1>2, <1>2a, <1>3, <1>4, <1>5 DEF Stages
<1>6. CASE c.type = "show" /\ c.window \notin shown
  <2>1. ~quit /\ uiThread = "run"
    BY <1>1, <1>2a, <1>4, <1>6
  <2>2. Thread!ShowWindow(c.window) /\ UNCHANGED <<calls, shown>>
    BY <1>6 DEF Thread!DispatchCall
  <2>3. CASE dthread = "none"
    <3>1. dthread' = "connect" /\ wait' = "open" /\ UNCHANGED toDisplay
      BY <2>2, <2>3 DEF Thread!ShowWindow
    <3>2. Stages'
      BY <1>1, <1>2, <1>3, <1>6, <2>1, <2>2, <3>1 DEF Stages
    <3>3. DisplaySide'
      BY <1>1, <1>3, <2>2, <2>3, <3>1 DEF DisplaySide
    <3> QED
      BY <3>2, <3>3 DEF ThreadInv
  <2>4. CASE dthread # "none"
    <3>1. PICK w \in Windows : c.window = w
      BY <1>2 DEF Asked
    <3> DEFINE create == [type |-> "CREATE", window |-> w]
    <3>2. Thread!Push(<<create>>) /\ wait' = "create" /\ dthread' = dthread
      BY <2>2, <2>4, <3>1 DEF Thread!ShowWindow
    <3>3. create \in DisplayCommand
      BY DEF DisplayCommand, CreateCommand
    <3>4. create = [type |-> "CREATE", window |-> Head(calls').window]
      BY <2>2, <3>1
    <3> HIDE DEF create
    <3>5. Follows(create)' /\ toDisplay' \in Seq(DisplayCommand)
      BY <1>1, <1>3, <2>2, <3>2, <3>3, CommandFollows
    <3>6. Stages'
      BY <1>1, <1>2, <1>3, <1>6, <2>1, <2>2, <2>4, <3>2, <3>5 DEF Stages
    <3>7. DisplayRuns' /\ dthread' # "none"
      BY <1>3, <2>4, <3>2 DEF DisplayRuns
    <3>8. DisplaySide'
      <4>1. Follows([type |-> "CREATE", window |-> Head(calls).window])'
        BY <3>4, <3>5 DEF Follows
      <4> QED
        BY <1>1, <1>3, <3>2, <3>7, <4>1 DEF DisplaySide
    <3> QED
      BY <3>6, <3>8 DEF ThreadInv
  <2> QED
    BY <2>3, <2>4
<1>7. CASE (c.type = "show" /\ c.window \in shown) \/ c.type = "edit"
  <2>1. calls' = Tail(calls) /\ UNCHANGED <<shown, wait, dthread, toDisplay>>
    BY <1>7 DEF Thread!DispatchCall
  <2>2. DisplaySide'
    BY <1>1, <2>1, DisplaySideRests
  <2>3. toDisplay \in Seq(DisplayCommand) /\ shown \in SUBSET Windows /\ IsFiniteSet(shown)
    BY <1>3 DEF Stages
  <2>4. Stages'
    BY <1>1, <1>5, <2>1, <2>3
  <2> QED
    BY <2>2, <2>4 DEF ThreadInv
<1>8. CASE c.type \in {"close", "delete"}
  <2> DEFINE ws == {c.window} \cap shown
  <2>1. /\ Thread!Push(Thread!Destroys(ws)) /\ shown' = shown \ {c.window} /\ calls' = Tail(calls)
        /\ UNCHANGED <<wait, dthread>>
    BY <1>8 DEF Thread!DispatchCall
  <2>2. ws \in SUBSET shown /\ shown' = shown \ ws
    BY <2>1
  <2> HIDE DEF ws
  <2>3. DisplaySide' /\ toDisplay' \in Seq(DisplayCommand) /\ shown' \in SUBSET Windows /\ IsFiniteSet(shown')
    BY <1>1, <2>1, <2>2, DestroysKeep
  <2>4. Stages'
    BY <1>1, <1>5, <2>1, <2>3
  <2> QED
    BY <2>3, <2>4 DEF ThreadInv
<1>9. c.type \in {"show", "close", "delete", "edit"}
  BY <1>2 DEF Asked
<1> QED
  BY <1>6, <1>7, <1>8, <1>9

(* The other steps of the UI thread. *)
LEMMA UiKeeps ==
  ASSUME ThreadInv, Thread!Ui
  PROVE  ThreadInv'
<1>1. Stages /\ DisplaySide
  BY DEF ThreadInv
<1>2. CASE Thread!Initialize \/ Thread!RunCallback
  <2>1. /\ UNCHANGED <<main, wait, quit, calls, shown, dthread, toDisplay, replies, xwindows>>
        /\ (uiThread = "init" /\ uiThread' = "run") \/ uiThread' = uiThread
    BY <1>2 DEF Thread!Initialize, Thread!RunCallback, Thread!displayVars
  <2>2. DisplaySide'
    BY <2>1, DisplaySideRests
  <2>3. Stages'
    BY <1>1, <2>1 DEF Stages
  <2> QED
    BY <2>2, <2>3 DEF ThreadInv
<1>3. CASE Thread!Opened
  <2>1. /\ wait = "open" /\ replies # <<>> /\ replies' = Tail(replies) /\ wait' = "create"
        /\ UNCHANGED <<main, uiThread, quit, calls, shown, dthread, xwindows>>
    BY <1>3 DEF Thread!Opened
  <2>2. toDisplay = <<>> /\ xwindows = {} /\ shown = {} /\ DisplayRuns /\ replies = <<"OK">>
    BY <1>1, <2>1 DEF DisplaySide
  <2>3. calls # <<>> /\ uiThread = "run"
    BY <1>1, <2>1 DEF Stages
  <2>4. PICK w \in Windows : Head(calls).window = w
    BY <2>3, FirstCall DEF Asked
  <2> DEFINE create == [type |-> "CREATE", window |-> w]
  <2>5. Thread!Push(<<create>>)
    BY <1>3, <2>4 DEF Thread!Opened
  <2>6. create \in DisplayCommand /\ create = [type |-> "CREATE", window |-> Head(calls').window]
    BY <2>1, <2>4 DEF DisplayCommand, CreateCommand
  <2>7. toDisplay \in Seq(DestroyCommand) /\ xwindows \ Gone(toDisplay) = shown
    BY <2>2, NoneGone
  <2> HIDE DEF create
  <2>8. Follows(create)' /\ toDisplay' \in Seq(DisplayCommand)
    BY <2>1, <2>5, <2>6, <2>7, CommandFollows
  <2>9. Stages'
    BY <1>1, <2>1, <2>8 DEF Stages
  <2>10. replies' = <<>> /\ DisplayRuns' /\ dthread' # "none"
    BY <2>1, <2>2 DEF DisplayRuns
  <2>11. DisplaySide'
    <3>1. Follows([type |-> "CREATE", window |-> Head(calls).window])'
      BY <2>6, <2>8 DEF Follows
    <3> QED
      BY <2>1, <2>10, <3>1 DEF DisplaySide
  <2> QED
    BY <2>9, <2>11 DEF ThreadInv
<1>4. CASE Thread!Created
  <2>1. /\ wait = "create" /\ replies # <<>> /\ replies' = Tail(replies) /\ wait' = "none"
        /\ shown' = shown \cup {Head(calls).window} /\ calls' = Tail(calls)
        /\ UNCHANGED <<main, uiThread, quit, dthread, toDisplay, xwindows>>
    BY <1>4 DEF Thread!Created
  <2>2. DisplayRuns /\ replies = <<"OK">> /\ toDisplay = <<>> /\ xwindows = shown \cup {Head(calls).window}
    BY <1>1, <2>1 DEF DisplaySide
  <2>3. calls # <<>> /\ uiThread = "run" /\ Head(calls).type = "show"
    BY <1>1, <2>1 DEF Stages
  <2>4. Head(calls).window \in Windows /\ Tail(calls) \in Seq(Asked)
    BY <2>3, FirstCall DEF Asked
  <2>5. quit => Head(calls).type # "show"
    BY <2>3, FirstCall
  <2>6. IsFiniteSet(shown') /\ shown' \in SUBSET Windows
    BY <1>1, <2>1, <2>4, FS_AddElement DEF Stages
  <2>7. Stages'
    BY <1>1, <2>1, <2>3, <2>4, <2>5, <2>6 DEF Stages
  <2>8. replies' = <<>> /\ DisplayRuns' /\ dthread' # "none" /\ toDisplay' \in Seq(DestroyCommand) /\ xwindows' \ Gone(toDisplay') = shown'
    BY <2>1, <2>2, NoneGone DEF DisplayRuns
  <2>9. DisplaySide'
    BY <2>1, <2>8 DEF DisplaySide
  <2> QED
    BY <2>7, <2>9 DEF ThreadInv
<1>5. CASE Thread!CloseWindows \/ Thread!DestroyLoop
  <2>1. /\ wait = "none" /\ Thread!Push(Thread!Destroys(shown)) /\ shown' = {}
        /\ UNCHANGED <<main, wait, quit, calls, dthread, replies, xwindows>>
        /\ \/ uiThread = "run" /\ quit /\ uiThread' = "drivers"
           \/ uiThread = "drain" /\ uiThread' = "ended"
    BY <1>5 DEF Thread!CloseWindows, Thread!DestroyLoop
  <2>2. shown' = shown \ shown
    BY <2>1
  <2>3. DisplaySide' /\ toDisplay' \in Seq(DisplayCommand) /\ shown' \in SUBSET Windows /\ IsFiniteSet(shown')
    BY <2>1, <2>2, DestroysKeep
  <2>4. Stages'
    BY <1>1, <2>1, <2>3 DEF Stages
  <2> QED
    BY <2>3, <2>4 DEF ThreadInv
<1>6. CASE Thread!CloseDriver
  <2>1. /\ uiThread = "drivers" /\ wait = "none" /\ UNCHANGED <<main, quit, calls, shown, dthread, replies, xwindows>>
        /\ IF dthread = "none" THEN uiThread' = "drain" /\ UNCHANGED <<wait, toDisplay>>
           ELSE Thread!Push(<<ToShutdown>>) /\ wait' = "shutdown" /\ UNCHANGED uiThread
    BY <1>6 DEF Thread!CloseDriver, ToShutdown
  <2>2. CASE dthread = "none"
    <3>1. DisplaySide'
      BY <2>1, <2>2, DisplaySideRests
    <3>2. Stages'
      BY <1>1, <2>1, <2>2 DEF Stages
    <3> QED
      BY <3>1, <3>2 DEF ThreadInv
  <2>3. CASE dthread # "none"
    <3>1. toDisplay \in Seq(DestroyCommand) /\ xwindows \ Gone(toDisplay) = shown /\ replies = <<>> /\ DisplayRuns
      BY <1>1, <2>1, <2>3 DEF DisplaySide
    <3>2. ToShutdown \in DisplayCommand
      BY DEF DisplayCommand
    <3>3. Follows(ToShutdown)' /\ toDisplay' \in Seq(DisplayCommand)
      BY <2>1, <2>3, <3>1, <3>2, CommandFollows
    <3>4. Stages'
      BY <1>1, <2>1, <2>3, <3>3 DEF Stages
    <3>5. DisplaySide'
      BY <2>1, <2>3, <3>1, <3>3 DEF DisplaySide, DisplayRuns
    <3> QED
      BY <3>4, <3>5 DEF ThreadInv
  <2> QED
    BY <2>2, <2>3
<1>7. CASE Thread!DriverClosed
  <2>1. /\ wait = "shutdown" /\ replies # <<>> /\ dthread = "ended" /\ replies' = Tail(replies) /\ wait' = "none"
        /\ uiThread' = "drain" /\ dthread' = "none" /\ UNCHANGED <<main, quit, calls, shown, toDisplay, xwindows>>
    BY <1>7 DEF Thread!DriverClosed
  <2>2. replies = <<"OK">> /\ toDisplay = <<>> /\ xwindows = {}
    BY <1>1, <2>1 DEF DisplaySide, DisplayRuns
  <2>3. uiThread = "drivers" /\ shown = {} /\ quit
    BY <1>1, <2>1 DEF Stages
  <2>4. Stages'
    BY <1>1, <2>1, <2>3 DEF Stages
  <2>5. replies' = <<>> /\ toDisplay' \in Seq(DestroyCommand) /\ xwindows' \ Gone(toDisplay') = shown'
    BY <2>1, <2>2, <2>3, NoneGone
  <2>6. DisplaySide'
    BY <2>1, <2>2, <2>3, <2>5 DEF DisplaySide
  <2> QED
    BY <2>4, <2>6 DEF ThreadInv
<1> QED
  BY <1>2, <1>3, <1>4, <1>5, <1>6, <1>7, DispatchKeeps DEF Thread!Ui

(* The display thread executes a command. *)
LEMMA HandleKeeps ==
  ASSUME ThreadInv, Thread!Handle
  PROVE  ThreadInv'
<1> DEFINE c == Head(toDisplay)
<1>1. /\ dthread \in {"run", "quit"} /\ toDisplay # <<>> /\ toDisplay' = Tail(toDisplay)
      /\ UNCHANGED <<main, uiThread, wait, quit, calls, shown>>
      /\ \/ c.type = "CREATE" /\ xwindows' = xwindows \cup {c.window} /\ replies' = Append(replies, "OK") /\ UNCHANGED dthread
         \/ c.type = "DESTROY" /\ xwindows' = xwindows \ {c.window} /\ UNCHANGED <<dthread, replies>>
         \/ c.type = "SHUTDOWN" /\ dthread' = "quit" /\ replies' = Append(replies, "OK") /\ UNCHANGED xwindows
  BY DEF Thread!Handle, Thread!uiVars
<1>2. Stages /\ DisplaySide /\ toDisplay \in Seq(DisplayCommand)
  BY DEF ThreadInv, Stages
<1>3. toDisplay' \in Seq(DisplayCommand)
  BY <1>1, <1>2, HeadThenTail
\* A window is destroyed.
<1>4. ASSUME NEW q \in Seq(DestroyCommand), q # <<>>, c = Head(q), xwindows \ Gone(q) = shown
      PROVE  /\ c.type = "DESTROY" /\ Tail(q) \in Seq(DestroyCommand) /\ xwindows' \ Gone(Tail(q)) = shown
             /\ UNCHANGED <<dthread, replies>>
  <2>1. c \in DestroyCommand /\ Tail(q) \in Seq(DestroyCommand) /\ Gone(q) = {c.window} \cup Gone(Tail(q))
    BY <1>4, GoneFirst
  <2>2. c.type = "DESTROY"
    BY <2>1 DEF DestroyCommand
  <2> QED
    BY <1>1, <1>4, <2>1, <2>2
<1>5. ASSUME UNCHANGED dthread PROVE Stages'
  BY <1>1, <1>2, <1>3, <1>5 DEF Stages
<1>6. CASE wait = "none"
  <2>1. toDisplay \in Seq(DestroyCommand) /\ xwindows \ Gone(toDisplay) = shown /\ replies = <<>> /\ dthread # "none" /\ DisplayRuns
    BY <1>1, <1>2, <1>6 DEF DisplaySide, DisplayRuns
  <2>2. Tail(toDisplay) \in Seq(DestroyCommand) /\ xwindows' \ Gone(Tail(toDisplay)) = shown /\ UNCHANGED <<dthread, replies>>
    BY <1>1, <1>4, <2>1
  <2>3. DisplaySide'
    BY <1>1, <1>6, <2>1, <2>2 DEF DisplaySide, DisplayRuns
  <2> QED
    BY <1>5, <2>2, <2>3 DEF ThreadInv
<1>7. CASE wait = "open"
  BY <1>1, <1>2, <1>7 DEF DisplaySide
\* One of the commands before the last.
<1>8. ASSUME NEW d, Follows(d), Front(toDisplay) # <<>>
      PROVE  Follows(d)' /\ UNCHANGED <<dthread, replies>>
  <2> DEFINE q == Front(toDisplay)
  <2>1. /\ q \in Seq(DestroyCommand) /\ q # <<>> /\ xwindows \ Gone(q) = shown /\ Last(toDisplay) = d
    BY <1>8 DEF Follows
  <2>2. c = Head(q) /\ Tail(toDisplay) # <<>> /\ Last(Tail(toDisplay)) = d /\ Front(Tail(toDisplay)) = Tail(q)
    BY <1>1, <1>2, <2>1, FirstOfThem
  <2> HIDE DEF q, c
  <2>3. Tail(q) \in Seq(DestroyCommand) /\ xwindows' \ Gone(Tail(q)) = shown /\ UNCHANGED <<dthread, replies>>
    BY <1>4, <2>1, <2>2
  <2> QED
    BY <1>1, <2>2, <2>3 DEF Follows
<1>9. ASSUME NEW d, Follows(d), Front(toDisplay) = <<>>
      PROVE  c = d /\ toDisplay' = <<>> /\ xwindows = shown
  <2>1. Head(toDisplay) = d /\ Tail(toDisplay) = <<>>
    BY <1>1, <1>2, <1>9, FirstOfThem, NoneGone DEF Follows
  <2> QED
    BY <1>1, <1>9, <2>1, NoneGone DEF Follows
<1>10. CASE wait = "create"
  <2>0. PICK w : w = Head(calls).window
    OBVIOUS
  <2> DEFINE d == [type |-> "CREATE", window |-> w]
  <2>1. DisplayRuns /\ dthread = "run" /\ replies = <<>> /\ Follows(d)
    BY <1>1, <1>2, <1>10, <2>0 DEF DisplaySide, DisplayRuns
  <2>2. CASE Front(toDisplay) # <<>>
    <3>0. d = [type |-> "CREATE", window |-> Head(calls').window]
      BY <1>1, <2>0
    <3> HIDE DEF d
    <3>1. Follows(d)' /\ UNCHANGED <<dthread, replies>>
      BY <1>8, <2>1, <2>2
    <3>2. Follows([type |-> "CREATE", window |-> Head(calls).window])'
      BY <3>0, <3>1 DEF Follows
    <3>3. DisplaySide'
      BY <1>1, <1>10, <2>1, <3>1, <3>2 DEF DisplaySide, DisplayRuns
    <3> QED
      BY <1>5, <3>1, <3>3 DEF ThreadInv
  <2>3. CASE Front(toDisplay) = <<>>
    <3>1. c = d /\ toDisplay' = <<>> /\ xwindows = shown
      BY <1>9, <2>1, <2>3
    <3>2. xwindows' = shown \cup {Head(calls).window} /\ replies' = <<"OK">> /\ UNCHANGED dthread
      BY <1>1, <2>0, <2>1, <3>1
    <3>3. DisplaySide'
      BY <1>1, <1>10, <2>1, <3>1, <3>2 DEF DisplaySide, DisplayRuns
    <3> QED
      BY <1>5, <3>2, <3>3 DEF ThreadInv
  <2> QED
    BY <2>2, <2>3
<1>11. CASE wait = "shutdown"
  <2>1. DisplayRuns /\ dthread = "run" /\ replies = <<>> /\ Follows(ToShutdown)
    BY <1>1, <1>2, <1>11 DEF DisplaySide, DisplayRuns
  <2>2. CASE Front(toDisplay) # <<>>
    <3>1. Follows(ToShutdown)' /\ UNCHANGED <<dthread, replies>>
      BY <1>8, <2>1, <2>2
    <3>2. DisplaySide'
      BY <1>1, <1>11, <2>1, <3>1 DEF DisplaySide, DisplayRuns
    <3> QED
      BY <1>5, <3>1, <3>2 DEF ThreadInv
  <2>3. CASE Front(toDisplay) = <<>>
    <3>1. c = ToShutdown /\ toDisplay' = <<>> /\ xwindows = shown
      BY <1>9, <2>1, <2>3
    <3>2. shown = {} /\ uiThread = "drivers"
      BY <1>2, <1>11 DEF Stages
    <3>3. xwindows' = {} /\ replies' = <<"OK">> /\ dthread' = "quit"
      BY <1>1, <2>1, <3>1, <3>2 DEF ToShutdown
    <3>4. DisplaySide'
      BY <1>1, <1>11, <3>1, <3>3 DEF DisplaySide
    <3>5. Stages'
      BY <1>1, <1>2, <1>3, <3>2, <3>3 DEF Stages
    <3> QED
      BY <3>4, <3>5 DEF ThreadInv
  <2> QED
    BY <2>2, <2>3
<1> QED
  BY <1>2, <1>6, <1>7, <1>10, <1>11 DEF Stages

(* The other steps of the display thread. *)
LEMMA DisplayKeeps ==
  ASSUME ThreadInv, Thread!Display
  PROVE  ThreadInv'
<1>1. Stages /\ DisplaySide
  BY DEF ThreadInv
<1>2. CASE Thread!Connect
  <2>1. /\ dthread = "connect" /\ dthread' = "setup" /\ replies' = Append(replies, "OK")
        /\ UNCHANGED <<main, uiThread, wait, quit, calls, shown, toDisplay, xwindows>>
    BY <1>2 DEF Thread!Connect, Thread!uiVars
  <2>2. wait = "open" /\ replies = <<>>
    BY <1>1, <2>1 DEF Stages, DisplaySide, DisplayRuns
  <2>3. Stages' /\ DisplaySide'
    BY <1>1, <2>1, <2>2 DEF Stages, DisplaySide, DisplayRuns
  <2> QED
    BY <2>3 DEF ThreadInv
<1>3. CASE Thread!Setup \/ Thread!Poll \/ Thread!TakeEvent \/ Thread!EnqueueEvent
  <2>1. /\ UNCHANGED <<main, uiThread, wait, quit, calls, shown, toDisplay, replies, xwindows>>
        /\ DisplayRuns /\ DisplayRuns' /\ dthread' \in {"run", "event"}
    BY <1>3 DEF Thread!Setup, Thread!Poll, Thread!TakeEvent, Thread!EnqueueEvent, Thread!uiVars,
       DisplayRuns
  <2>2. DisplaySide'
    BY <2>1, DisplaySideRests
  <2>3. Stages'
    BY <1>1, <2>1 DEF Stages, DisplayRuns
  <2> QED
    BY <2>2, <2>3 DEF ThreadInv
<1>4. CASE Thread!Stop
  <2>1. /\ dthread = "quit" /\ dthread' = "ended"
        /\ UNCHANGED <<main, uiThread, wait, quit, calls, shown, toDisplay, replies, xwindows>>
    BY <1>4 DEF Thread!Stop, Thread!uiVars
  <2>2. wait = "shutdown"
    BY <1>1, <2>1 DEF Stages, DisplaySide, DisplayRuns
  <2>3. Stages' /\ DisplaySide'
    BY <1>1, <2>1, <2>2 DEF Stages, DisplaySide, DisplayRuns
  <2> QED
    BY <2>3 DEF ThreadInv
<1> QED
  BY <1>2, <1>3, <1>4, HandleKeeps DEF Thread!Display, Thread!Working

(* UiThread: when the display thread ends there are no windows and no commands left,
   and after shutdown() nothing runs any more. *)
THEOREM ThreadsEnd == Thread!Spec => [](Thread!DriverEndsIdle /\ Thread!NothingRunsAfterShutdown)
<1>1. Thread!Init => ThreadInv
  <2> SUFFICES ASSUME Thread!Init PROVE ThreadInv
    OBVIOUS
  <2>1. <<>> \in Seq(Asked) /\ <<>> \in Seq(DisplayCommand) /\ IsFiniteSet({})
    BY EmptySeq, FS_EmptySet
  <2>2. Stages
    BY <2>1 DEF Thread!Init, Stages
  <2>3. DisplaySide
    BY NoneGone DEF Thread!Init, DisplaySide
  <2> QED
    BY <2>2, <2>3 DEF ThreadInv
<1>2. ThreadInv /\ [Thread!Next]_(Thread!vars) => ThreadInv'
  <2> SUFFICES ASSUME ThreadInv, [Thread!Next]_(Thread!vars) PROVE ThreadInv'
    OBVIOUS
  <2>1. CASE UNCHANGED Thread!vars
    <3>1. UNCHANGED <<main, uiThread, wait, quit, calls, shown, dthread, toDisplay, replies, xwindows>>
      BY <2>1 DEF Thread!vars, Thread!uiVars, Thread!displayVars
    <3>2. DisplaySide'
      BY <3>1, DisplaySideRests
    <3>3. Stages'
      BY <3>1 DEF ThreadInv, Stages
    <3> QED
      BY <3>2, <3>3 DEF ThreadInv
  <2> QED
    BY <2>1, ApplicationKeeps, UiKeeps, DisplayKeeps DEF Thread!Next
<1>3. ThreadInv => Thread!DriverEndsIdle /\ Thread!NothingRunsAfterShutdown
  <2> SUFFICES ASSUME ThreadInv PROVE Thread!DriverEndsIdle /\ Thread!NothingRunsAfterShutdown
    OBVIOUS
  <2>1. Stages /\ DisplaySide
    BY DEF ThreadInv
  <2>2. ASSUME dthread = "ended" PROVE xwindows = {} /\ toDisplay = <<>>
    BY <2>1, <2>2 DEF Stages, DisplaySide, DisplayRuns
  <2>3. ASSUME main = "done" PROVE dthread = "none" /\ xwindows = {} /\ toDisplay = <<>> /\ replies = <<>>
    BY <2>1, <2>3 DEF Stages, DisplaySide
  <2> QED
    BY <2>2, <2>3 DEF Thread!DriverEndsIdle, Thread!NothingRunsAfterShutdown
<1> QED
  BY <1>1, <1>2, <1>3, PTL DEF Thread!Spec

-----------------------------------------------------------------------------
(* WindowUpdates: resizing and drawing.                                      *)

\* The types of WindowUpdates' variables.
WindowImpl == [alloc : Nat, req : Nat, invalid : BOOLEAN, resizer : BOOLEAN, exposed : SUBSET Updates!Areas,
               pending_win_size : BOOLEAN, pending_expose : BOOLEAN]
DisplayWindow == [size : Nat, surface : (SUBSET Updates!Areas) \cup {NoSurface}, pending_configures : Nat]
Blits    == [type : {"BLIT"}, region : SUBSET Updates!Areas, fresh : SUBSET Updates!Areas, size : Nat]
DrawCommand == Blits \cup {[type |-> "CONFIGURE"]}
WinSizes == [size : Nat, intermediate : BOOLEAN]

\* The variables keep their types.
UpdatesTypeOK ==
  /\ ui \in WindowImpl
  /\ display \in BOOLEAN /\ events \in Seq(WinSizes) /\ commands \in Seq(DrawCommand) /\ notifies \in Seq(Nat)
  /\ x \in DisplayWindow

\* What is under way: events, sizes and commands that ask for one.
IsBlit(k) == commands[k].type = "BLIT"
Configures == \E k \in DOMAIN commands : commands[k].type = "CONFIGURE"
Comes == events # <<>> \/ notifies # <<>> \/ Configures

(* The window manager lets the window grow, and the last event has the size that the
   display thread knows. *)
SizesGrow ==
  /\ x.pending_configures <= Len(notifies)
  /\ \A k \in DOMAIN notifies : notifies[k] > x.size /\ \A j \in 1 .. k - 1 : notifies[j] < notifies[k]
  /\ \A k \in DOMAIN events : events[k].size <= x.size
  /\ events # <<>> => Last(events).size = x.size /\ (Last(events).intermediate => notifies # <<>>)

\* A window that waits for WIN_SIZE, or has another size, will get one.
WaitsForSize ==
  /\ ui.pending_win_size => Comes
  /\ ui.alloc = x.size \/ Comes
  /\ ui.pending_expose \/ (ui.alloc <= x.size /\ \A k \in DOMAIN events : ui.alloc <= events[k].size)

\* The surface shows this area as it is now, or will once the commands are drawn.
Shows(a) == x.surface # NoSurface /\ a \in x.surface

\* Some command, or the surface, has the area; and commands behind it have it as well.
Drawn(a) ==
  \E k \in 0 .. Len(commands) :
    /\ IF k = 0 THEN Shows(a) ELSE IsBlit(k) /\ a \in commands[k].fresh
    /\ \A j \in DOMAIN commands : j > k /\ IsBlit(j) /\ a \in commands[j].region => a \in commands[j].fresh

\* An event will come that exposes all of the window.
WillExpose == notifies # <<>> \/ (Comes /\ (ui.pending_expose \/ ui.alloc # x.size))

\* Each area is drawn, or is going to be.
AllIsDrawn ==
  \A a \in Updates!Areas : Drawn(a) \/ a \in ui.exposed \/ (a = "child" /\ ui.invalid) \/ WillExpose

\* The inductive invariant of the drawing.
UpdatesInv == UpdatesTypeOK /\ (display => SizesGrow /\ WaitsForSize /\ AllIsDrawn)

USE DEF WindowImpl, DisplayWindow

(* What the invariant says once nothing is under way. *)
LEMMA SettledFromInv ==
  ASSUME ThreadsAssumption, UpdatesInv
  PROVE  Updates!SettledIsDrawn
<1> SUFFICES ASSUME Updates!Settled
             PROVE  ~ui.pending_win_size /\ ui.alloc = x.size /\ x.surface = Updates!Areas
  BY DEF Updates!SettledIsDrawn
<1>1. /\ display /\ events = <<>> /\ commands = <<>> /\ notifies = <<>> /\ ui.exposed = {} /\ ~ui.invalid
      /\ WaitsForSize /\ AllIsDrawn /\ UpdatesTypeOK
  BY DEF Updates!Settled, UpdatesInv
<1>2. ~Comes
  BY <1>1 DEF Comes, Configures
<1>3. ~ui.pending_win_size /\ ui.alloc = x.size
  BY <1>1, <1>2 DEF WaitsForSize
<1>4. ASSUME NEW a \in Updates!Areas PROVE x.surface # NoSurface /\ a \in x.surface
  <2>1. Drawn(a)
    BY <1>1, <1>2 DEF AllIsDrawn, WillExpose
  <2>2. Len(commands) = 0
    BY <1>1
  <2> QED
    BY <2>1, <2>2 DEF Drawn, Shows
<1>5. "child" \in Updates!Areas
  BY DEF Updates!Areas
<1>6. x.surface \in SUBSET Updates!Areas
  BY <1>1, <1>4, <1>5 DEF UpdatesTypeOK
<1> QED
  BY <1>3, <1>4, <1>6

(* What is outdated: the types and sizes stay. *)
LEMMA OutdateTypes ==
  ASSUME ThreadsAssumption, UpdatesTypeOK, NEW areas, Updates!Outdate(areas)
  PROVE  /\ commands' \in Seq(DrawCommand) /\ Len(commands') = Len(commands) /\ DOMAIN commands' = DOMAIN commands
         /\ x' \in DisplayWindow
         /\ x'.size = x.size /\ x'.pending_configures = x.pending_configures
         /\ Configures' <=> Configures
         /\ \A j \in DOMAIN commands : /\ IsBlit(j)' <=> IsBlit(j)
                                       /\ IsBlit(j) => /\ commands'[j].fresh = commands[j].fresh \ areas
                                                       /\ commands'[j].region = commands[j].region
         /\ \A a : a \notin areas /\ Shows(a) => Shows(a)'
<1>1. /\ commands \in Seq(DrawCommand) /\ DOMAIN commands = 1 .. Len(commands) /\ Len(commands) \in Nat
      /\ x \in DisplayWindow
  BY LenProperties DEF UpdatesTypeOK
<1>2. /\ commands' = [j \in DOMAIN commands |->
                       IF commands[j].type = "BLIT" THEN [commands[j] EXCEPT !.fresh = @ \ areas] ELSE commands[j]]
      /\ x' = IF x.surface = NoSurface THEN x ELSE [x EXCEPT !.surface = @ \ areas]
  BY DEF Updates!Outdate
<1>3. \A j \in DOMAIN commands : IsBlit(j) => commands[j] \in Blits
  BY <1>1 DEF IsBlit, DrawCommand
<1>4. \A j \in DOMAIN commands : commands'[j] \in DrawCommand
  <2> SUFFICES ASSUME NEW j \in DOMAIN commands PROVE commands'[j] \in DrawCommand
    OBVIOUS
  <2>1. CASE IsBlit(j)
    BY <1>2, <1>3, <2>1 DEF IsBlit, Blits, DrawCommand
  <2>2. CASE ~IsBlit(j)
    BY <1>1, <1>2, <2>2 DEF IsBlit
  <2> QED
    BY <2>1, <2>2
<1>5. commands' \in Seq(DrawCommand) /\ Len(commands') = Len(commands) /\ DOMAIN commands' = DOMAIN commands
  BY <1>1, <1>2, <1>4
<1>6. \A j \in DOMAIN commands :
        /\ IsBlit(j)' <=> IsBlit(j)
        /\ IsBlit(j) => commands'[j].fresh = commands[j].fresh \ areas /\ commands'[j].region = commands[j].region
        /\ commands'[j].type = commands[j].type
  BY <1>2, <1>3 DEF IsBlit, Blits
<1>7. Configures' <=> Configures
  BY <1>5, <1>6 DEF Configures
<1>8. /\ x' \in DisplayWindow
      /\ x'.size = x.size /\ x'.pending_configures = x.pending_configures
  <2>1. CASE x.surface = NoSurface
    BY <1>1, <1>2, <2>1
  <2>2. CASE x.surface # NoSurface
    BY <1>1, <1>2, <2>2
  <2> QED
    BY <2>1, <2>2
<1>9. ASSUME NEW a, a \notin areas, Shows(a) PROVE Shows(a)'
  <2>1. x.surface \in SUBSET Updates!Areas /\ x.surface # NoSurface /\ a \in x.surface
    BY <1>1, <1>9 DEF Shows
  <2>2. x'.surface = x.surface \ areas
    BY <1>1, <1>2, <2>1
  <2>3. x'.surface \in SUBSET Updates!Areas
    BY <2>1, <2>2
  <2> QED
    BY <1>9, <2>1, <2>2, <2>3 DEF Shows, ThreadsAssumption
<1> QED
  BY <1>5, <1>6, <1>7, <1>8, <1>9

(* What is drawn stays drawn while no area of it changes. *)
LEMMA DrawnStays ==
  ASSUME ThreadsAssumption, UpdatesTypeOK, NEW areas, NEW a \in Updates!Areas, a \notin areas, Drawn(a), Updates!Outdate(areas)
  PROVE  Drawn(a)'
<1>1. PICK k \in 0 .. Len(commands) :
        /\ IF k = 0 THEN Shows(a) ELSE IsBlit(k) /\ a \in commands[k].fresh
        /\ \A j \in DOMAIN commands : j > k /\ IsBlit(j) /\ a \in commands[j].region => a \in commands[j].fresh
  BY DEF Drawn
<1>2. commands \in Seq(DrawCommand) /\ DOMAIN commands = 1 .. Len(commands) /\ Len(commands) \in Nat
  BY LenProperties DEF UpdatesTypeOK
<1>3. /\ Len(commands') = Len(commands) /\ DOMAIN commands' = DOMAIN commands
      /\ \A j \in DOMAIN commands : /\ IsBlit(j)' <=> IsBlit(j)
                                    /\ IsBlit(j) => /\ commands'[j].fresh = commands[j].fresh \ areas
                                                    /\ commands'[j].region = commands[j].region
      /\ Shows(a) => Shows(a)'
  BY OutdateTypes
<1>4. IF k = 0 THEN Shows(a)' ELSE IsBlit(k)' /\ a \in commands'[k].fresh
  BY <1>1, <1>2, <1>3
<1>5. \A j \in DOMAIN commands' : j > k /\ IsBlit(j)' /\ a \in commands'[j].region => a \in commands'[j].fresh
  BY <1>1, <1>3
<1> QED
  BY <1>3, <1>4, <1>5 DEF Drawn

(* Content changes, and nothing is discarded. *)
LEMMA ContentChanges ==
  ASSUME ThreadsAssumption, UpdatesInv, Updates!Outdate({"child"}), UNCHANGED <<display, events, notifies>>,
         ui' \in WindowImpl,
         ui'.alloc = ui.alloc, ui'.pending_win_size = ui.pending_win_size, ui'.pending_expose = ui.pending_expose,
         ui.exposed \subseteq ui'.exposed, "child" \in ui'.exposed \/ ui'.invalid, ui.invalid => ui'.invalid
  PROVE  UpdatesInv'
<1>1. UpdatesTypeOK'
  BY OutdateTypes DEF UpdatesInv, UpdatesTypeOK
<1>2. x'.size = x.size /\ x'.pending_configures = x.pending_configures /\ (Comes' <=> Comes)
  BY OutdateTypes DEF UpdatesInv, Comes
<1>3. ASSUME display PROVE SizesGrow' /\ WaitsForSize' /\ AllIsDrawn'
  <2>1. SizesGrow /\ WaitsForSize /\ AllIsDrawn
    BY <1>3 DEF UpdatesInv
  <2>2. SizesGrow' /\ WaitsForSize'
    BY <1>2, <2>1 DEF SizesGrow, WaitsForSize
  <2>3. WillExpose' <=> WillExpose
    BY <1>2 DEF WillExpose
  <2>4. ASSUME NEW a \in Updates!Areas, a # "child", Drawn(a) PROVE Drawn(a)'
    BY <2>4, DrawnStays DEF UpdatesInv
  <2>5. ASSUME NEW a \in Updates!Areas
        PROVE  Drawn(a)' \/ a \in ui'.exposed \/ (a = "child" /\ ui'.invalid) \/ WillExpose'
    <3>1. Drawn(a) \/ a \in ui.exposed \/ (a = "child" /\ ui.invalid) \/ WillExpose
      BY <2>1 DEF AllIsDrawn
    <3> QED
      BY <2>3, <2>4, <3>1
  <2> QED
    BY <2>2, <2>5 DEF AllIsDrawn
<1> QED
  BY <1>1, <1>3 DEF UpdatesInv

(* Widgets change content or size. *)
LEMMA WidgetsKeep ==
  ASSUME ThreadsAssumption, UpdatesInv, Updates!Expose \/ \E n \in Updates!Size : Updates!Invalidate(n)
  PROVE  UpdatesInv'
<1>1. /\ ui \in WindowImpl
      /\ "child" \in Updates!Areas
  BY DEF UpdatesInv, UpdatesTypeOK, Updates!Areas
<1> DEFINE more == ui.exposed \cup IF ui.invalid THEN {} ELSE {"child"}
<1>2. more \in SUBSET Updates!Areas /\ ui.exposed \subseteq more /\ ("child" \in more \/ ui.invalid)
  BY <1>1
<1>3. CASE Updates!Expose
  <2>1. ui' = [ui EXCEPT !.exposed = more] /\ Updates!Outdate({"child"}) /\ UNCHANGED <<display, events, notifies>>
    BY <1>3 DEF Updates!Expose
  <2> HIDE DEF more
  <2> QED
    BY <1>1, <1>2, <2>1, ContentChanges
<1>4. CASE \E n \in Updates!Size : Updates!Invalidate(n)
  <2>1. PICK n \in Updates!Size : Updates!Invalidate(n)
    BY <1>4
  <2>2. ui' = [ui EXCEPT !.req = n, !.invalid = TRUE, !.resizer = TRUE, !.exposed = more]
        /\ Updates!Outdate({"child"}) /\ UNCHANGED <<display, events, notifies>>
    BY <2>1 DEF Updates!Invalidate
  <2>3. n \in Nat
    BY DEF Updates!Size
  <2> HIDE DEF more
  <2> QED
    BY <1>1, <1>2, <2>2, <2>3, ContentChanges
<1> QED
  BY <1>3, <1>4

(* What dispatch_win_size_event() does to the window. *)
LEMMA EventLeads ==
  ASSUME UpdatesTypeOK, events # <<>>, NEW e \in WinSizes, e = Head(events), Updates!DispatchEvent
  PROVE  /\ ui' \in WindowImpl
         /\ ui'.pending_win_size <=> (e.intermediate \/ Tail(events) # <<>>)
         /\ \/ /\ ~(e.intermediate \/ Tail(events) # <<>>)
               /\ ui'.exposed = Updates!Areas /\ ~ui'.pending_expose /\ ui'.alloc = e.size
            \/ /\ e.size = ui.alloc /\ ui'.alloc = ui.alloc /\ ui'.exposed = ui.exposed /\ ui'.invalid = ui.invalid
               /\ ui'.pending_expose = ui.pending_expose
               /\ (e.intermediate \/ Tail(events) # <<>>) \/ ~ui.pending_expose
            \/ /\ e.intermediate \/ Tail(events) # <<>>
               /\ e.size # ui.alloc /\ ui'.alloc = ui.alloc /\ ui'.exposed = {} /\ ui'.invalid = ui.invalid
               /\ ui'.pending_expose = ui.pending_expose
<1> DEFINE U == WindowImpl
           p == e.intermediate \/ Tail(events) # <<>>
           told == [ui EXCEPT !.pending_win_size = p]
           sized == IF e.size = ui.alloc THEN told
                    ELSE IF told.pending_win_size THEN [told EXCEPT !.exposed = {}]
                    ELSE [Updates!Allocate(told, e.size) EXCEPT !.pending_expose = TRUE]
<1>1. ui \in U /\ e.size \in Nat /\ p \in BOOLEAN
  BY DEF UpdatesTypeOK, WinSizes
<1>2. ui' = IF ~sized.pending_win_size /\ sized.pending_expose
              THEN [sized EXCEPT !.exposed = Updates!Areas, !.pending_expose = FALSE] ELSE sized
  BY DEF Updates!DispatchEvent, Updates!WinSizeEvent, Updates!HasQueuedWinSize
<1> HIDE DEF p
<1>3. told \in U /\ told.pending_win_size = p
  BY <1>1
<1>4. CASE e.size = ui.alloc
  <2>1. sized = told
    BY <1>4
  <2> HIDE DEF sized
  <2>2. CASE ~p /\ ui.pending_expose
    <3>1. ui' = [told EXCEPT !.exposed = Updates!Areas, !.pending_expose = FALSE]
      BY <1>1, <1>2, <2>1, <2>2
    <3> QED
      BY <1>1, <1>4, <2>2, <3>1 DEF p
  <2>3. CASE p \/ ~ui.pending_expose
    <3>1. ui' = told
      BY <1>1, <1>2, <2>1, <2>3
    <3> QED
      BY <1>1, <1>4, <2>3, <3>1 DEF p
  <2> QED
    BY <2>2, <2>3
<1>5. CASE e.size # ui.alloc /\ p
  <2>1. sized = [told EXCEPT !.exposed = {}]
    BY <1>3, <1>5
  <2> HIDE DEF sized
  <2>2. ui' = [told EXCEPT !.exposed = {}]
    BY <1>1, <1>2, <1>5, <2>1
  <2> QED
    BY <1>1, <1>5, <2>2 DEF p
<1>6. CASE e.size # ui.alloc /\ ~p
  <2> DEFINE out == told.exposed \cup (IF told.alloc # e.size THEN Updates!Areas ELSE {}) \cup IF told.invalid THEN {"child"} ELSE {}
  <2>1. sized = [[told EXCEPT !.alloc = e.size, !.invalid = FALSE, !.exposed = out] EXCEPT !.pending_expose = TRUE]
    BY <1>3, <1>6 DEF Updates!Allocate
  <2> HIDE DEF sized, out
  <2>2. ui' = [sized EXCEPT !.exposed = Updates!Areas, !.pending_expose = FALSE]
    BY <1>1, <1>2, <1>6, <2>1
  <2>3. ui' = [ui EXCEPT !.pending_win_size = p, !.alloc = e.size, !.invalid = FALSE, !.exposed = Updates!Areas, !.pending_expose = FALSE]
    BY <1>1, <2>1, <2>2
  <2> QED
    BY <1>1, <1>6, <2>3 DEF p
<1> QED
  BY <1>4, <1>5, <1>6

(* event_dispatcher() *)
LEMMA EventKeeps ==
  ASSUME ThreadsAssumption, UpdatesInv, Updates!DispatchEvent
  PROVE  UpdatesInv'
<1>1. /\ events # <<>> /\ events' = Tail(events) /\ UNCHANGED <<display, notifies>>
      /\ Updates!Outdate(IF ui'.alloc # ui.alloc THEN Updates!Areas ELSE {})
  BY DEF Updates!DispatchEvent
<1>2. UpdatesTypeOK
  BY DEF UpdatesInv
<1>3. events \in Seq(WinSizes) /\ Head(events) \in WinSizes /\ Tail(events) \in Seq(WinSizes)
  BY <1>1, <1>2, HeadThenTail DEF UpdatesTypeOK
<1>4. PICK e \in WinSizes : e = Head(events)
  BY <1>3
<1> DEFINE p == e.intermediate \/ Tail(events) # <<>>
<1>5. /\ ui' \in WindowImpl
      /\ ui'.pending_win_size <=> p
      /\ \/ ~p /\ ui'.exposed = Updates!Areas /\ ~ui'.pending_expose /\ ui'.alloc = e.size
         \/ /\ e.size = ui.alloc /\ ui'.alloc = ui.alloc /\ ui'.exposed = ui.exposed /\ ui'.invalid = ui.invalid
            /\ ui'.pending_expose = ui.pending_expose /\ (p \/ ~ui.pending_expose)
         \/ /\ p /\ e.size # ui.alloc /\ ui'.alloc = ui.alloc /\ ui'.exposed = {} /\ ui'.invalid = ui.invalid
            /\ ui'.pending_expose = ui.pending_expose
  BY <1>1, <1>2, <1>4, EventLeads
<1>6. UpdatesTypeOK'
  BY <1>1, <1>2, <1>3, <1>5, OutdateTypes DEF UpdatesTypeOK
<1>7. /\ x'.size = x.size /\ x'.pending_configures = x.pending_configures /\ (Configures' <=> Configures)
  BY <1>1, <1>2, OutdateTypes
<1>8. /\ \A k \in DOMAIN events' : k \in Nat /\ k + 1 \in DOMAIN events /\ events'[k] = events[k + 1]
      /\ events' = <<>> => Last(events) = e
      /\ events' # <<>> => Last(events') = Last(events)
      /\ 1 \in DOMAIN events /\ events[1] = e
  <2>1. /\ Len(events) \in Nat /\ Len(events) > 0 /\ Len(Tail(events)) = Len(events) - 1 /\ DOMAIN events = 1 .. Len(events)
        /\ DOMAIN Tail(events) = 1 .. Len(events) - 1 /\ Head(events) = events[1]
        /\ \A k \in 1 .. Len(events) - 1 : Tail(events)[k] = events[k + 1]
    BY <1>1, <1>3, HeadTailProperties, LenProperties, EmptySeq
  <2>2. \A k \in DOMAIN events' : k \in Nat /\ k + 1 \in DOMAIN events /\ events'[k] = events[k + 1]
    BY <1>1, <2>1
  <2>3. ASSUME events' = <<>> PROVE Last(events) = e
    <3>1. Len(Tail(events)) = 0
      BY <1>1, <1>3, <2>3, EmptySeq
    <3>2. Len(events) = 1
      BY <2>1, <3>1
    <3> QED
      BY <1>4, <2>1, <3>2 DEF Last
  <2>4. ASSUME events' # <<>> PROVE Last(events') = Last(events)
    <3>1. Tail(events) # <<>> /\ Len(Tail(events)) # 0
      BY <1>1, <1>3, <2>4, EmptySeq
    <3>2. Len(events) - 1 \in 1 .. Len(events) - 1 /\ (Len(events) - 1) + 1 = Len(events)
      BY <2>1, <3>1
    <3>3. Tail(events)[Len(events) - 1] = events[Len(events)]
      BY <2>1, <3>2
    <3> QED
      BY <1>1, <2>1, <3>3 DEF Last
  <2> QED
    BY <1>4, <2>1, <2>2, <2>3, <2>4
<1>9. ASSUME display PROVE SizesGrow' /\ WaitsForSize' /\ AllIsDrawn'
  <2>1. SizesGrow /\ WaitsForSize /\ AllIsDrawn
    BY <1>9 DEF UpdatesInv
  <2>2. /\ x.size \in Nat /\ ui.alloc \in Nat /\ e.size \in Nat
        /\ \A k \in DOMAIN events : events[k].size \in Nat
    <3>1. \A k \in DOMAIN events : events[k] \in WinSizes
      BY <1>3
    <3> QED
      BY <1>2, <3>1 DEF UpdatesTypeOK, WinSizes
  <2>3. SizesGrow'
    BY <1>1, <1>7, <1>8, <2>1 DEF SizesGrow
  <2>4. p => events' # <<>> \/ notifies # <<>>
    BY <1>1, <1>8, <2>1 DEF SizesGrow
  <2>5. ~p => events' = <<>> /\ e.size = x.size
    BY <1>1, <1>8, <2>1 DEF SizesGrow
  <2>6. p => Comes'
    BY <1>1, <2>4 DEF Comes
  <2>7. e.size <= x.size /\ (ui.pending_expose \/ ui.alloc <= e.size)
    BY <1>8, <2>1 DEF SizesGrow, WaitsForSize
  <2> HIDE DEF p
  <2>8. WaitsForSize'
    <3>1. ui'.pending_win_size => Comes'
      BY <1>5, <2>6
    <3>2. ui'.alloc = x'.size \/ Comes'
      BY <1>5, <1>7, <2>5, <2>6
    <3>3. ui'.pending_expose \/ (ui'.alloc <= x'.size /\ \A k \in DOMAIN events' : ui'.alloc <= events'[k].size)
      <4>1. CASE ~p /\ ui'.alloc = e.size
        BY <1>7, <2>2, <2>5, <4>1
      <4>2. CASE ui'.alloc = ui.alloc /\ ui'.pending_expose = ui.pending_expose
        BY <1>7, <1>8, <2>1, <4>2 DEF WaitsForSize
      <4> QED
        BY <1>5, <4>1, <4>2
    <3> QED
      BY <3>1, <3>2, <3>3 DEF WaitsForSize
  <2>9. ASSUME NEW a \in Updates!Areas
        PROVE  Drawn(a)' \/ a \in ui'.exposed \/ (a = "child" /\ ui'.invalid) \/ WillExpose'
    <3>1. Drawn(a) \/ a \in ui.exposed \/ (a = "child" /\ ui.invalid) \/ WillExpose
      BY <2>1 DEF AllIsDrawn
    <3>2. CASE ui'.exposed = Updates!Areas
      BY <3>2
    <3>3. CASE /\ e.size = ui.alloc /\ ui'.alloc = ui.alloc /\ ui'.exposed = ui.exposed /\ ui'.invalid = ui.invalid
               /\ ui'.pending_expose = ui.pending_expose /\ (p \/ ~ui.pending_expose)
      <4>1. Drawn(a) => Drawn(a)'
        <5>1. Updates!Outdate({})
          BY <1>1, <3>3
        <5> QED
          BY <1>2, <5>1, DrawnStays
      <4>2. WillExpose => WillExpose'
        BY <1>1, <1>7, <2>5, <2>6, <3>3 DEF WillExpose
      <4> QED
        BY <3>1, <3>3, <4>1, <4>2
    <3>4. CASE /\ p /\ e.size # ui.alloc /\ ui'.alloc = ui.alloc /\ ui'.exposed = {} /\ ui'.invalid = ui.invalid
               /\ ui'.pending_expose = ui.pending_expose
      <4>1. ui.pending_expose \/ ui.alloc # x.size
        BY <2>2, <2>7, <3>4
      <4> QED
        BY <1>1, <1>7, <2>6, <3>4, <4>1 DEF WillExpose
    <3> QED
      BY <1>5, <3>2, <3>3, <3>4
  <2> QED
    BY <2>3, <2>8, <2>9 DEF AllIsDrawn
<1> QED
  BY <1>1, <1>6, <1>9 DEF UpdatesInv

(* A command is added. *)
LEMMA CommandAdded ==
  ASSUME UpdatesTypeOK, NEW c \in DrawCommand, commands' = Append(commands, c), x' = x
  PROVE  /\ commands' \in Seq(DrawCommand)
         /\ Configures' <=> Configures \/ c.type = "CONFIGURE"
         /\ \A a : Drawn(a) /\ (c.type = "BLIT" /\ a \in c.region => a \in c.fresh) => Drawn(a)'
         /\ \A a : c.type = "BLIT" /\ a \in c.fresh => Drawn(a)'
<1>1. commands \in Seq(DrawCommand)
  BY DEF UpdatesTypeOK
<1>l. PICK l \in Nat : l = Len(commands)
  BY <1>1, LenProperties
<1>2. /\ commands' \in Seq(DrawCommand) /\ l \in Nat /\ Len(commands') = l + 1 /\ DOMAIN commands = 1 .. l
      /\ DOMAIN commands' = 1 .. l + 1 /\ commands'[l + 1] = c /\ \A k \in 1 .. l : commands'[k] = commands[k]
  BY <1>1, <1>l, AppendProperties, LenProperties
<1>3. (\A k \in 1 .. l : IsBlit(k)' <=> IsBlit(k)) /\ (IsBlit(l + 1)' <=> c.type = "BLIT")
  <2>1. IsBlit(l + 1)' <=> commands'[l + 1].type = "BLIT"
    BY DEF IsBlit
  <2>2. ASSUME NEW k \in 1 .. l PROVE IsBlit(k)' <=> IsBlit(k)
    BY <1>2, <2>2 DEF IsBlit
  <2> QED
    BY <1>2, <2>1, <2>2
<1>4. ASSUME Configures PROVE Configures'
  BY <1>2, <1>4 DEF Configures
<1>5. ASSUME c.type = "CONFIGURE" PROVE Configures'
  <2>1. l + 1 \in DOMAIN commands'
    BY <1>2
  <2> QED
    BY <1>2, <1>5, <2>1 DEF Configures
<1>6. ASSUME Configures' PROVE Configures \/ c.type = "CONFIGURE"
  <2>1. PICK k \in 1 .. l + 1 : commands'[k].type = "CONFIGURE"
    BY <1>2, <1>6 DEF Configures
  <2>2. CASE k = l + 1
    BY <1>2, <2>1, <2>2
  <2>3. CASE k # l + 1
    <3>1. k \in 1 .. l
      BY <1>2, <2>3
    <3> QED
      BY <1>2, <2>1, <3>1 DEF Configures
  <2> QED
    BY <2>2, <2>3
<1>7. ASSUME NEW a, Drawn(a), c.type = "BLIT" /\ a \in c.region => a \in c.fresh
      PROVE  Drawn(a)'
  <2>1. PICK k \in 0 .. l :
          /\ IF k = 0 THEN Shows(a) ELSE IsBlit(k) /\ a \in commands[k].fresh
          /\ \A j \in DOMAIN commands : j > k /\ IsBlit(j) /\ a \in commands[j].region => a \in commands[j].fresh
    BY <1>7, <1>l DEF Drawn
  <2>2. Shows(a)' <=> Shows(a)
    BY DEF Shows
  <2>3. k \in 0 .. l + 1 /\ IF k = 0 THEN Shows(a)' ELSE IsBlit(k)' /\ a \in commands'[k].fresh
    BY <1>2, <1>3, <2>1, <2>2
  <2>4. \A j \in DOMAIN commands' : j > k /\ IsBlit(j)' /\ a \in commands'[j].region => a \in commands'[j].fresh
    <3> SUFFICES ASSUME NEW j \in DOMAIN commands', j > k, IsBlit(j)', a \in commands'[j].region
                 PROVE  a \in commands'[j].fresh
      OBVIOUS
    <3>1. CASE j = l + 1
      <4>1. commands'[j] = c /\ commands'[j].type = "BLIT"
        BY <1>2, <3>1 DEF IsBlit
      <4> QED
        BY <1>7, <4>1
    <3>2. CASE j # l + 1
      <4>1. j \in 1 .. l
        BY <1>2, <3>2
      <4> QED
        BY <1>2, <1>3, <2>1, <4>1
    <3> QED
      BY <3>1, <3>2
  <2> QED
    BY <1>2, <2>3, <2>4 DEF Drawn
<1>8. ASSUME NEW a, c.type = "BLIT", a \in c.fresh PROVE Drawn(a)'
  <2>1. l + 1 \in 0 .. Len(commands') /\ l + 1 # 0 /\ IsBlit(l + 1)' /\ a \in commands'[l + 1].fresh
    BY <1>2, <1>3, <1>8
  <2>2. \A j \in DOMAIN commands' : ~(j > l + 1)
    BY <1>2
  <2>3. \E k \in 0 .. Len(commands') :
          /\ IF k = 0 THEN Shows(a)' ELSE IsBlit(k)' /\ a \in commands'[k].fresh
          /\ \A j \in DOMAIN commands' : j > k /\ IsBlit(j)' /\ a \in commands'[j].region => a \in commands'[j].fresh
    BY <2>1, <2>2
  <2> QED
    BY <2>3 DEF Drawn
<1> QED
  BY <1>2, <1>4, <1>5, <1>6, <1>7, <1>8

(* drawing_dispatcher() *)
LEMMA DrawKeeps ==
  ASSUME ThreadsAssumption, UpdatesInv, Updates!DrawNow
  PROVE  UpdatesInv'
<1>1. /\ ui' = [ui EXCEPT !.exposed = {}] /\ UNCHANGED <<display, events, x, notifies>>
      /\ commands' = IF display THEN Append(commands, Updates!Blit(ui)) ELSE commands
  BY DEF Updates!DrawNow
<1>2. UpdatesTypeOK
  BY DEF UpdatesInv
<1>3. PICK c \in DrawCommand : c = Updates!Blit(ui)
  BY <1>2 DEF UpdatesTypeOK, Updates!Blit, Blits, DrawCommand
<1>4. c.type = "BLIT" /\ c.region = ui.exposed /\ c.fresh = ui.exposed
  BY <1>3 DEF Updates!Blit
<1>5. /\ ui' \in WindowImpl
      /\ ui'.alloc = ui.alloc /\ ui'.invalid = ui.invalid /\ ui'.pending_win_size = ui.pending_win_size
      /\ ui'.pending_expose = ui.pending_expose
  BY <1>1, <1>2 DEF UpdatesTypeOK
<1>6. CASE ~display
  BY <1>1, <1>2, <1>5, <1>6 DEF UpdatesInv, UpdatesTypeOK
<1>7. CASE display
  <2>1. commands' = Append(commands, c)
    BY <1>1, <1>3, <1>7
  <2>2. /\ commands' \in Seq(DrawCommand) /\ (Configures' <=> Configures)
        /\ \A a : Drawn(a) => Drawn(a)'
        /\ \A a : a \in ui.exposed => Drawn(a)'
    BY <1>1, <1>2, <1>4, <2>1, CommandAdded
  <2>3. SizesGrow /\ WaitsForSize /\ AllIsDrawn
    BY <1>7 DEF UpdatesInv
  <2>4. (Comes' <=> Comes) /\ (WillExpose' <=> WillExpose)
    BY <1>1, <1>5, <2>2 DEF Comes, WillExpose
  <2>5. SizesGrow' /\ WaitsForSize'
    BY <1>1, <1>5, <2>3, <2>4 DEF SizesGrow, WaitsForSize
  <2>6. AllIsDrawn'
    BY <1>5, <2>2, <2>3, <2>4 DEF AllIsDrawn
  <2>7. UpdatesTypeOK'
    BY <1>1, <1>2, <1>5, <2>2 DEF UpdatesTypeOK
  <2> QED
    BY <2>5, <2>6, <2>7 DEF UpdatesInv
<1> QED
  BY <1>6, <1>7

(* idle_sizing() *)
LEMMA IdleKeeps ==
  ASSUME ThreadsAssumption, UpdatesInv, Updates!IdleSizing
  PROVE  UpdatesInv'
<1>1. UNCHANGED <<display, events, commands, x, notifies>>
  BY DEF Updates!IdleSizing
<1>2. UpdatesTypeOK
  BY DEF UpdatesInv
<1>3. /\ ui' \in WindowImpl
      /\ ui'.alloc = ui.alloc /\ ui'.pending_win_size = ui.pending_win_size
      /\ ui'.pending_expose = ui.pending_expose
      /\ ui.exposed \subseteq ui'.exposed /\ (ui.invalid => "child" \in ui'.exposed)
  <2>1. CASE ui.invalid
    <3> DEFINE out == ui.exposed \cup (IF ui.alloc # ui.alloc THEN Updates!Areas ELSE {}) \cup IF ui.invalid THEN {"child"} ELSE {}
    <3>1. ui' = [[ui EXCEPT !.alloc = ui.alloc, !.invalid = FALSE, !.exposed = out] EXCEPT !.resizer = FALSE]
      BY <2>1 DEF Updates!IdleSizing, Updates!Allocate
    <3>2. out \in SUBSET Updates!Areas /\ ui.exposed \subseteq out /\ "child" \in out
      BY <1>2, <2>1 DEF UpdatesTypeOK, Updates!Areas
    <3> HIDE DEF out
    <3> QED
      BY <1>2, <3>1, <3>2 DEF UpdatesTypeOK
  <2>2. CASE ~ui.invalid
    <3>1. ui' = [ui EXCEPT !.resizer = FALSE]
      BY <2>2 DEF Updates!IdleSizing
    <3> QED
      BY <1>2, <2>2, <3>1 DEF UpdatesTypeOK
  <2> QED
    BY <2>1, <2>2
<1>4. UpdatesTypeOK'
  BY <1>1, <1>2, <1>3 DEF UpdatesTypeOK
<1>5. ASSUME display PROVE SizesGrow' /\ WaitsForSize' /\ AllIsDrawn'
  <2>1. SizesGrow /\ WaitsForSize /\ AllIsDrawn
    BY <1>5 DEF UpdatesInv
  <2>2. (Configures' <=> Configures) /\ \A a : Drawn(a) => Drawn(a)'
    BY <1>1 DEF Configures, Drawn, IsBlit, Shows
  <2>3. (Comes' <=> Comes) /\ (WillExpose' <=> WillExpose)
    BY <1>1, <1>3, <2>2 DEF Comes, WillExpose
  <2> QED
    BY <1>1, <1>3, <2>1, <2>2, <2>3 DEF SizesGrow, WaitsForSize, AllIsDrawn
<1> QED
  BY <1>1, <1>4, <1>5 DEF UpdatesInv

(* Negotiate(), Allocate() *)
LEMMA Negotiated ==
  ASSUME UpdatesTypeOK
  PROVE  /\ Updates!Negotiate(ui) \in WindowImpl
         /\ Updates!Negotiate(ui).req = ui.req
         /\ ui.invalid => /\ Updates!Negotiate(ui).alloc = ui.req /\ ~Updates!Negotiate(ui).invalid
                          /\ Updates!Negotiate(ui).pending_win_size = ui.pending_win_size
                          /\ "child" \in Updates!Negotiate(ui).exposed
                          /\ Updates!Negotiate(ui).exposed = ui.exposed \cup (IF ui.alloc # ui.req THEN Updates!Areas ELSE {"child"})
<1>1. ui \in WindowImpl
  BY DEF UpdatesTypeOK
<1>2. CASE ui.invalid
  <2> DEFINE out == ui.exposed \cup (IF ui.alloc # ui.req THEN Updates!Areas ELSE {}) \cup IF ui.invalid THEN {"child"} ELSE {}
  <2>1. Updates!Negotiate(ui) = [ui EXCEPT !.alloc = ui.req, !.invalid = FALSE, !.exposed = out]
    BY <1>2 DEF Updates!Negotiate, Updates!Allocate
  <2>2. /\ out \in SUBSET Updates!Areas /\ "child" \in out
        /\ out = ui.exposed \cup (IF ui.alloc # ui.req THEN Updates!Areas ELSE {"child"})
    BY <1>1, <1>2 DEF Updates!Areas
  <2> HIDE DEF out
  <2> QED
    BY <1>1, <2>1, <2>2
<1>3. CASE ~ui.invalid
  BY <1>1, <1>3 DEF Updates!Negotiate
<1> QED
  BY <1>2, <1>3

(* Another size is allocated, to a valid layout. *)
LEMMA Resized ==
  ASSUME UpdatesTypeOK, Updates!Resize
  PROVE  /\ ui' \in WindowImpl
         /\ ui'.pending_expose
         /\ \/ ui.req > x.size
            \/ /\ ~(ui.req > x.size) /\ ~ui'.pending_win_size /\ ui'.alloc = x.size
               /\ \/ ui'.exposed = Updates!Areas
                  \/ "child" \in ui'.exposed /\ ui'.alloc = ui.alloc
<1>1. /\ ui \in WindowImpl
      /\ x.size \in Nat /\ ui.invalid /\ ~ui.pending_win_size /\ ui.exposed = {} /\ ui' = Updates!ResizeWindow(ui, x.size)
  BY DEF UpdatesTypeOK, Updates!Resize
<1> DEFINE U == WindowImpl
           m == Updates!Negotiate(ui)
           n == [m EXCEPT !.pending_expose = TRUE]
<1>2. /\ m \in U /\ m.req = ui.req /\ m.alloc = ui.req /\ m.pending_win_size = FALSE /\ "child" \in m.exposed
      /\ m.exposed = (IF ui.alloc # ui.req THEN Updates!Areas ELSE {"child"})
      /\ ~m.invalid
  BY <1>1, Negotiated
<1>3. ui' = IF n.req > x.size THEN [n EXCEPT !.pending_win_size = TRUE, !.exposed = {}]
            ELSE IF n.req # x.size THEN Updates!Allocate(n, x.size)
            ELSE n
  BY <1>1 DEF Updates!ResizeWindow
<1> HIDE DEF m
<1>4. /\ n \in U /\ n.req = ui.req /\ n.alloc = ui.req /\ ~n.pending_win_size /\ n.exposed = m.exposed /\ n.pending_expose
      /\ ~n.invalid
  BY <1>2
<1> HIDE DEF n
<1>5. CASE ui.req > x.size
  <2>1. ui' = [n EXCEPT !.pending_win_size = TRUE, !.exposed = {}]
    BY <1>3, <1>4, <1>5
  <2> QED
    BY <1>4, <1>5, <2>1
<1>6. CASE ~(ui.req > x.size) /\ ui.req # x.size
  <2> DEFINE out == n.exposed \cup (IF n.alloc # x.size THEN Updates!Areas ELSE {}) \cup IF n.invalid THEN {"child"} ELSE {}
  <2>1. ui' = [n EXCEPT !.alloc = x.size, !.invalid = FALSE, !.exposed = out]
    BY <1>3, <1>4, <1>6 DEF Updates!Allocate
  <2>2. out = Updates!Areas
    BY <1>4, <1>6
  <2> HIDE DEF out
  <2> QED
    BY <1>1, <1>4, <1>6, <2>1, <2>2
<1>7. CASE ui.req = x.size
  <2>1. ui' = n
    BY <1>1, <1>3, <1>4, <1>7
  <2> QED
    BY <1>1, <1>2, <1>4, <1>7, <2>1
<1> QED
  BY <1>5, <1>6, <1>7

(* resizing_dispatcher() *)
LEMMA ResizeKeeps ==
  ASSUME ThreadsAssumption, UpdatesInv, Updates!Resize
  PROVE  UpdatesInv'
<1>1. /\ display /\ UNCHANGED <<display, events, notifies>>
      /\ ui.exposed = {}
      /\ IF ui.req > x.size
           THEN /\ commands' = Append([k \in DOMAIN commands |->
                                         IF commands[k].type = "BLIT" THEN [commands[k] EXCEPT !.fresh = {}] ELSE commands[k]],
                                      Updates!Configure)
                /\ x' = IF x.surface = NoSurface THEN x ELSE [x EXCEPT !.surface = {}]
           ELSE Updates!Outdate(IF ui'.alloc # ui.alloc THEN Updates!Areas ELSE {})
  BY DEF Updates!Resize
<1>2. UpdatesTypeOK /\ SizesGrow /\ WaitsForSize /\ AllIsDrawn
  BY <1>1 DEF UpdatesInv
<1>3. /\ ui' \in WindowImpl
      /\ ui'.pending_expose
  BY <1>2, Resized
<1>4. CASE ui.req > x.size
  <2>1. commands \in Seq(DrawCommand) /\ x \in DisplayWindow
    BY <1>2 DEF UpdatesTypeOK
  <2> DEFINE out == [k \in DOMAIN commands |->
                       IF commands[k].type = "BLIT" THEN [commands[k] EXCEPT !.fresh = {}] ELSE commands[k]]
  <2>2. out \in Seq(DrawCommand)
    <3>1. DOMAIN commands = 1 .. Len(commands) /\ Len(commands) \in Nat
      BY <2>1, LenProperties
    <3>2. \A k \in DOMAIN commands : out[k] \in DrawCommand
      <4> SUFFICES ASSUME NEW k \in DOMAIN commands PROVE out[k] \in DrawCommand
        OBVIOUS
      <4>1. commands[k] \in DrawCommand
        BY <2>1
      <4>2. CASE commands[k].type = "BLIT"
        BY <4>1, <4>2 DEF DrawCommand, Blits
      <4>3. CASE commands[k].type # "BLIT"
        BY <4>1, <4>3
      <4> QED
        BY <4>2, <4>3
    <3> QED
      BY <3>1, <3>2
  <2>3. commands' = Append(out, [type |-> "CONFIGURE"]) /\ [type |-> "CONFIGURE"] \in DrawCommand
    BY <1>1, <1>4 DEF Updates!Configure, DrawCommand
  <2> HIDE DEF out
  <2>4. /\ commands' \in Seq(DrawCommand) /\ Len(commands') = Len(out) + 1 /\ Len(out) \in Nat
        /\ commands'[Len(out) + 1] = [type |-> "CONFIGURE"] /\ DOMAIN commands' = 1 .. Len(commands')
    BY <2>2, <2>3, AppendProperties, LenProperties
  <2>5. Configures'
    <3>1. Len(out) + 1 \in DOMAIN commands'
      BY <2>4
    <3> QED
      BY <2>4, <3>1 DEF Configures
  <2>6. /\ x' \in DisplayWindow
        /\ x'.size = x.size /\ x'.pending_configures = x.pending_configures
    <3>1. CASE x.surface = NoSurface
      BY <1>1, <1>4, <2>1, <3>1
    <3>2. CASE x.surface # NoSurface
      BY <1>1, <1>4, <2>1, <3>2
    <3> QED
      BY <3>1, <3>2
  <2>7. UpdatesTypeOK'
    BY <1>1, <1>2, <1>3, <2>4, <2>6 DEF UpdatesTypeOK
  <2>8. SizesGrow'
    BY <1>1, <1>2, <2>6 DEF SizesGrow
  <2>9. Comes' /\ WillExpose'
    BY <1>3, <2>5 DEF Comes, WillExpose
  <2>10. WaitsForSize' /\ AllIsDrawn'
    BY <1>3, <2>9 DEF WaitsForSize, AllIsDrawn
  <2> QED
    BY <2>7, <2>8, <2>10 DEF UpdatesInv
<1>5. CASE ~(ui.req > x.size)
  <2>1. /\ ~ui'.pending_win_size /\ ui'.alloc = x.size
        /\ ui'.exposed = Updates!Areas \/ ("child" \in ui'.exposed /\ ui'.alloc = ui.alloc)
    BY <1>2, <1>5, Resized
  <2>2. PICK areas : areas = IF ui'.alloc # ui.alloc THEN Updates!Areas ELSE {}
    OBVIOUS
  <2>3. Updates!Outdate(areas)
    BY <1>1, <1>5, <2>2
  <2>4. /\ commands' \in Seq(DrawCommand) /\ (Configures' <=> Configures)
        /\ x' \in DisplayWindow
        /\ x'.size = x.size /\ x'.pending_configures = x.pending_configures
    BY <1>2, <2>3, OutdateTypes
  <2>5. UpdatesTypeOK'
    BY <1>1, <1>2, <1>3, <2>4 DEF UpdatesTypeOK
  <2>6. SizesGrow'
    BY <1>1, <1>2, <2>4 DEF SizesGrow
  <2>7. WaitsForSize'
    BY <1>3, <2>1, <2>4 DEF WaitsForSize
  <2>8. WillExpose => WillExpose'
    BY <1>1, <1>3, <2>4 DEF WillExpose, Comes
  <2>9. ASSUME NEW a \in Updates!Areas
        PROVE  Drawn(a)' \/ a \in ui'.exposed \/ (a = "child" /\ ui'.invalid) \/ WillExpose'
    <3>1. CASE ui'.exposed = Updates!Areas
      BY <3>1
    <3>2. CASE "child" \in ui'.exposed /\ ui'.alloc = ui.alloc
      <4>1. Drawn(a) \/ a = "child" \/ WillExpose
        BY <1>1, <1>2 DEF AllIsDrawn
      <4>2. Drawn(a) => Drawn(a)'
        BY <1>2, <2>2, <2>3, <3>2, DrawnStays
      <4> QED
        BY <2>8, <3>2, <4>1, <4>2
    <3> QED
      BY <2>1, <3>1, <3>2
  <2> QED
    BY <2>5, <2>6, <2>7, <2>9 DEF AllIsDrawn, UpdatesInv
<1> QED
  BY <1>4, <1>5

(* A window is drawing or closed. *)
LEMMA ShowKeeps ==
  ASSUME UpdatesInv, Updates!Show
  PROVE  UpdatesInv'
<1>1. /\ display' /\ ui' = [Updates!Negotiate(ui) EXCEPT !.pending_expose = TRUE, !.pending_win_size = TRUE]
      /\ x' = [size |-> ui.req, surface |-> NoSurface, pending_configures |-> 0]
      /\ events' = <<Updates!WinSize(x', ui.req), Updates!WinSize(x', ui.req)>>
      /\ commands' = <<>> /\ notifies' = <<>> /\ display' = TRUE
  BY DEF Updates!Show
<1>2. UpdatesTypeOK
  BY DEF UpdatesInv
<1>3. /\ ui' \in WindowImpl
      /\ ui'.pending_expose
  BY <1>1, <1>2, Negotiated
<1>4. PICK e : e = [size |-> ui.req, intermediate |-> FALSE]
  OBVIOUS
<1>5. e \in WinSizes /\ e.size = ui.req /\ ~e.intermediate /\ ui.req \in Nat
  BY <1>2, <1>4 DEF UpdatesTypeOK, WinSizes
<1>6. x'.size = ui.req /\ x'.pending_configures = 0
  BY <1>1
<1>7. events' = <<e, e>>
  <2>1. (x'.pending_configures > 0) = FALSE
    BY <1>6
  <2>2. Updates!WinSize(x', ui.req) = e
    BY <1>4, <2>1 DEF Updates!WinSize
  <2> QED
    BY <1>1, <2>2
<1>8. events' \in Seq(WinSizes) /\ events' # <<>> /\ Last(events') = e /\ \A k \in DOMAIN events' : events'[k] = e
  BY <1>5, <1>7 DEF Last
<1>9. UpdatesTypeOK'
  BY <1>1, <1>3, <1>5, <1>8 DEF UpdatesTypeOK
<1>10. SizesGrow'
  BY <1>1, <1>5, <1>6, <1>8 DEF SizesGrow
<1>11. Comes'
  BY <1>8 DEF Comes
<1>12. WaitsForSize' /\ WillExpose'
  BY <1>3, <1>11 DEF WaitsForSize, WillExpose
<1> QED
  BY <1>9, <1>10, <1>12 DEF AllIsDrawn, UpdatesInv

(* A window is closed. *)
LEMMA CloseKeeps ==
  ASSUME UpdatesInv, Updates!Close
  PROVE  UpdatesInv'
<1>1. /\ ~display' /\ ui' = ui /\ x' = [x EXCEPT !.surface = NoSurface] /\ display' = FALSE
      /\ events' = <<>> /\ commands' = <<>> /\ notifies' = <<>>
  BY DEF Updates!Close
<1>2. UpdatesTypeOK'
  <2>1. /\ ui' \in WindowImpl
        /\ x' \in DisplayWindow
    BY <1>1 DEF UpdatesInv, UpdatesTypeOK
  <2>2. events' \in Seq(WinSizes) /\ commands' \in Seq(DrawCommand) /\ notifies' \in Seq(Nat)
    BY <1>1, EmptySeq
  <2> QED
    BY <1>1, <2>1, <2>2 DEF UpdatesTypeOK
<1> QED
  BY <1>1, <1>2 DEF UpdatesInv

(* The display thread takes a command. *)
LEMMA CommandTaken ==
  ASSUME UpdatesTypeOK, commands # <<>>, commands' = Tail(commands)
  PROVE  /\ commands' \in Seq(DrawCommand) /\ Head(commands) \in DrawCommand /\ Head(commands) = commands[1]
         /\ Configures' => Configures
         /\ Configures => Configures' \/ Head(commands).type = "CONFIGURE"
         /\ \A a : /\ Drawn(a)
                   /\ Shows(a) /\ (IsBlit(1) /\ a \in commands[1].region => a \in commands[1].fresh) => Shows(a)'
                   /\ IsBlit(1) /\ a \in commands[1].fresh => Shows(a)'
                   => Drawn(a)'
<1>1. commands \in Seq(DrawCommand)
  BY DEF UpdatesTypeOK
<1>2. PICK l \in Nat : l = Len(commands)
  BY <1>1, LenProperties
<1>3. /\ commands' \in Seq(DrawCommand) /\ l > 0 /\ Len(commands') = l - 1 /\ DOMAIN commands = 1 .. l
      /\ DOMAIN commands' = 1 .. l - 1 /\ Head(commands) = commands[1] /\ Head(commands) \in DrawCommand
      /\ \A k \in 1 .. l - 1 : commands'[k] = commands[k + 1]
  BY <1>1, <1>2, HeadTailProperties, LenProperties, EmptySeq
<1>4. \A k \in 1 .. l - 1 : IsBlit(k)' <=> IsBlit(k + 1)
  BY <1>3 DEF IsBlit
<1>5. ASSUME Configures' PROVE Configures
  <2>1. PICK k \in 1 .. l - 1 : commands'[k].type = "CONFIGURE"
    BY <1>3, <1>5 DEF Configures
  <2>2. k + 1 \in DOMAIN commands /\ commands[k + 1].type = "CONFIGURE"
    BY <1>3, <2>1
  <2> QED
    BY <2>2 DEF Configures
<1>6. ASSUME Configures, Head(commands).type # "CONFIGURE" PROVE Configures'
  <2>1. PICK k \in 1 .. l : commands[k].type = "CONFIGURE"
    BY <1>3, <1>6 DEF Configures
  <2>2. k # 1
    BY <1>3, <1>6, <2>1
  <2>3. k - 1 \in 1 .. l - 1 /\ (k - 1) + 1 = k
    BY <1>3, <2>2
  <2>4. commands'[k - 1] = commands[k]
    BY <1>3, <2>3
  <2> QED
    BY <1>3, <2>1, <2>3, <2>4 DEF Configures
<1>7. ASSUME NEW a, Drawn(a),
             Shows(a) /\ (IsBlit(1) /\ a \in commands[1].region => a \in commands[1].fresh) => Shows(a)',
             IsBlit(1) /\ a \in commands[1].fresh => Shows(a)'
      PROVE  Drawn(a)'
  <2>1. PICK k \in 0 .. l :
          /\ IF k = 0 THEN Shows(a) ELSE IsBlit(k) /\ a \in commands[k].fresh
          /\ \A j \in DOMAIN commands : j > k /\ IsBlit(j) /\ a \in commands[j].region => a \in commands[j].fresh
    BY <1>2, <1>7 DEF Drawn
  <2>2. PICK i \in 0 .. l - 1 : i = IF k > 0 THEN k - 1 ELSE 0
    BY <1>3
  <2>3. \A j \in 1 .. l - 1 : j > i => j + 1 > k /\ j + 1 \in DOMAIN commands
    BY <1>3, <2>2
  <2>4. \A j \in DOMAIN commands' : j > i /\ IsBlit(j)' /\ a \in commands'[j].region => a \in commands'[j].fresh
    BY <1>3, <1>4, <2>1, <2>3
  <2>5. IF i = 0 THEN Shows(a)' ELSE IsBlit(i)' /\ a \in commands'[i].fresh
    <3>1. CASE k = 0
      <4>1. 1 \in DOMAIN commands /\ 1 > k
        BY <1>3, <3>1
      <4>2. IsBlit(1) /\ a \in commands[1].region => a \in commands[1].fresh
        BY <2>1, <4>1
      <4> QED
        BY <1>7, <2>1, <2>2, <3>1, <4>2
    <3>2. CASE k = 1
      BY <1>7, <2>1, <2>2, <3>2
    <3>3. CASE k > 1
      <4>1. i = k - 1 /\ i \in 1 .. l - 1 /\ i + 1 = k /\ i # 0
        BY <2>2, <3>3
      <4>2. IsBlit(k) /\ a \in commands[k].fresh
        BY <2>1, <3>3
      <4> QED
        BY <1>3, <1>4, <4>1, <4>2
    <3> QED
      BY <1>3, <3>1, <3>2, <3>3
  <2>6. \E n \in 0 .. Len(commands') :
          /\ IF n = 0 THEN Shows(a)' ELSE IsBlit(n)' /\ a \in commands'[n].fresh
          /\ \A j \in DOMAIN commands' : j > n /\ IsBlit(j)' /\ a \in commands'[j].region => a \in commands'[j].fresh
    BY <1>3, <2>4, <2>5
  <2> QED
    BY <2>6 DEF Drawn
<1> QED
  BY <1>3, <1>5, <1>6, <1>7

(* A WIN_SIZE event with the size that the window has now. *)
LEMMA EventAdded ==
  ASSUME UpdatesTypeOK, NEW e \in WinSizes, events' = Append(events, e)
  PROVE  /\ events' \in Seq(WinSizes) /\ events' # <<>> /\ Last(events') = e /\ Comes'
         /\ \A k \in DOMAIN events' : events'[k] = e \/ (k \in DOMAIN events /\ events'[k] = events[k])
<1>1. events \in Seq(WinSizes) /\ Len(events) \in Nat /\ DOMAIN events = 1 .. Len(events)
  BY LenProperties DEF UpdatesTypeOK
<1>2. /\ events' \in Seq(WinSizes) /\ events' # <<>> /\ Len(events') = Len(events) + 1
      /\ \A k \in 1 .. Len(events) : events'[k] = events[k]
      /\ events'[Len(events) + 1] = e /\ DOMAIN events' = 1 .. Len(events) + 1
  BY <1>1, AppendProperties, LenProperties
<1>3. Last(events') = e
  BY <1>2 DEF Last
<1>4. \A k \in DOMAIN events' : events'[k] = e \/ (k \in DOMAIN events /\ events'[k] = events[k])
  <2> SUFFICES ASSUME NEW k \in DOMAIN events'
               PROVE  events'[k] = e \/ (k \in DOMAIN events /\ events'[k] = events[k])
    OBVIOUS
  <2>1. CASE k = Len(events) + 1
    BY <1>2, <2>1
  <2>2. CASE k # Len(events) + 1
    <3>1. k \in 1 .. Len(events)
      BY <1>1, <1>2, <2>2
    <3> QED
      BY <1>1, <1>2, <3>1
  <2> QED
    BY <2>1, <2>2
<1> QED
  BY <1>2, <1>3, <1>4 DEF Comes

(* CONFIGURE is answered with the size. *)
LEMMA HandleConfigureKeeps ==
  ASSUME UpdatesInv, Updates!HandleConfigure
  PROVE  UpdatesInv'
<1>1. /\ commands # <<>> /\ Head(commands).type = "CONFIGURE" /\ commands' = Tail(commands)
      /\ events' = Append(events, Updates!WinSize(x, x.size)) /\ UNCHANGED <<ui, display, x, notifies>>
  BY DEF Updates!HandleConfigure
<1>2. UpdatesTypeOK
  BY DEF UpdatesInv
<1>3. PICK e : e = Updates!WinSize(x, x.size)
  OBVIOUS
<1>4. e \in WinSizes /\ e.size = x.size /\ (e.intermediate <=> x.pending_configures > 0)
      /\ x.size \in Nat /\ x.pending_configures \in Nat
  <2>1. e = [size |-> x.size, intermediate |-> x.pending_configures > 0]
    BY <1>3 DEF Updates!WinSize
  <2>2. x.size \in Nat /\ x.pending_configures \in Nat /\ (x.pending_configures > 0) \in BOOLEAN
    BY <1>2 DEF UpdatesTypeOK
  <2> QED
    BY <2>1, <2>2 DEF WinSizes
<1>5. /\ events' \in Seq(WinSizes) /\ events' # <<>> /\ Last(events') = e /\ Comes'
      /\ \A k \in DOMAIN events' : events'[k] = e \/ (k \in DOMAIN events /\ events'[k] = events[k])
  BY <1>1, <1>2, <1>3, <1>4, EventAdded
<1>6. /\ commands' \in Seq(DrawCommand) /\ Head(commands) = commands[1]
      /\ \A a : /\ Drawn(a)
                /\ Shows(a) /\ (IsBlit(1) /\ a \in commands[1].region => a \in commands[1].fresh) => Shows(a)'
                /\ IsBlit(1) /\ a \in commands[1].fresh => Shows(a)'
                => Drawn(a)'
  BY <1>1, <1>2, CommandTaken
<1>7. ~IsBlit(1) /\ \A a : Shows(a)' <=> Shows(a)
  BY <1>1, <1>6 DEF IsBlit, Shows
<1>8. UpdatesTypeOK'
  BY <1>1, <1>2, <1>5, <1>6 DEF UpdatesTypeOK
<1>9. ASSUME display PROVE SizesGrow' /\ WaitsForSize' /\ AllIsDrawn'
  <2>1. SizesGrow /\ WaitsForSize /\ AllIsDrawn
    BY <1>9 DEF UpdatesInv
  <2>2. x.pending_configures > 0 => notifies # <<>>
    <3>1. notifies = <<>> => Len(notifies) = 0
      OBVIOUS
    <3> QED
      BY <1>4, <2>1, <3>1 DEF SizesGrow
  <2>3. \A k \in DOMAIN events' : events'[k].size <= x'.size
    BY <1>1, <1>4, <1>5, <2>1 DEF SizesGrow
  <2>4. SizesGrow'
    BY <1>1, <1>4, <1>5, <2>1, <2>2, <2>3 DEF SizesGrow
  <2>5. WaitsForSize'
    <3>1. ui'.pending_expose \/ \A k \in DOMAIN events' : ui'.alloc <= events'[k].size
      BY <1>1, <1>4, <1>5, <2>1 DEF WaitsForSize
    <3> QED
      BY <1>1, <1>5, <2>1, <3>1 DEF WaitsForSize
  <2>6. AllIsDrawn'
    <3>1. WillExpose => WillExpose'
      BY <1>1, <1>5 DEF WillExpose
    <3> QED
      BY <1>1, <1>6, <1>7, <2>1, <3>1 DEF AllIsDrawn
  <2> QED
    BY <2>4, <2>5, <2>6
<1> QED
  BY <1>1, <1>8, <1>9 DEF UpdatesInv

(* blit() *)
LEMMA HandleBlitKeeps ==
  ASSUME ThreadsAssumption, UpdatesInv, Updates!HandleBlit
  PROVE  UpdatesInv'
<1>1. /\ commands # <<>> /\ Head(commands).type = "BLIT" /\ commands' = Tail(commands)
      /\ x' = Updates!Paint(x, Head(commands)) /\ UNCHANGED <<ui, display, events, notifies>>
  BY DEF Updates!HandleBlit
<1>2. UpdatesTypeOK
  BY DEF UpdatesInv
<1>3. PICK c : c = Head(commands)
  OBVIOUS
<1>4. /\ commands' \in Seq(DrawCommand) /\ c \in DrawCommand /\ c = commands[1] /\ (Configures' <=> Configures)
      /\ \A a : /\ Drawn(a)
                /\ Shows(a) /\ (IsBlit(1) /\ a \in commands[1].region => a \in commands[1].fresh) => Shows(a)'
                /\ IsBlit(1) /\ a \in commands[1].fresh => Shows(a)'
                => Drawn(a)'
  BY <1>1, <1>2, <1>3, CommandTaken
<1>5. c \in Blits
  BY <1>1, <1>3, <1>4 DEF DrawCommand
<1> DEFINE drawing == IF c.region = Updates!Areas /\ c.size = x.size THEN c.fresh
                    ELSE ((IF x.surface = NoSurface THEN {} ELSE x.surface) \ c.region) \cup c.fresh
<1>6. /\ x \in DisplayWindow
      /\ x' = [x EXCEPT !.surface = drawing]
  BY <1>1, <1>2, <1>3 DEF UpdatesTypeOK, Updates!Paint
<1>7. drawing \in SUBSET Updates!Areas
  BY <1>5, <1>6 DEF Blits
<1>8. ASSUME NEW a, a \in c.fresh \/ (Shows(a) /\ (a \in c.region => a \in c.fresh)) PROVE a \in drawing
  <2>1. CASE a \in c.fresh
    BY <2>1
  <2>2. CASE Shows(a) /\ a \notin c.region
    BY <1>6, <2>2 DEF Shows
  <2> QED
    BY <1>8, <2>1, <2>2
<1> HIDE DEF drawing
<1>9. /\ x' \in DisplayWindow
      /\ x'.size = x.size /\ x'.pending_configures = x.pending_configures /\ x'.surface = drawing
  BY <1>6, <1>7
<1>10. ASSUME NEW a, a \in drawing PROVE Shows(a)'
  BY <1>7, <1>9, <1>10 DEF Shows, ThreadsAssumption
<1>11. IsBlit(1)
  BY <1>1, <1>3, <1>4 DEF IsBlit
<1>12. ASSUME NEW a, Drawn(a) PROVE Drawn(a)'
  BY <1>4, <1>8, <1>10, <1>11, <1>12
<1>13. UpdatesTypeOK'
  BY <1>1, <1>2, <1>4, <1>9 DEF UpdatesTypeOK
<1>14. ASSUME display PROVE SizesGrow' /\ WaitsForSize' /\ AllIsDrawn'
  <2>1. SizesGrow /\ WaitsForSize /\ AllIsDrawn
    BY <1>14 DEF UpdatesInv
  <2>2. (Comes' <=> Comes) /\ (WillExpose' <=> WillExpose)
    BY <1>1, <1>4, <1>9 DEF Comes, WillExpose
  <2> QED
    BY <1>1, <1>9, <1>12, <2>1, <2>2 DEF SizesGrow, WaitsForSize, AllIsDrawn
<1> QED
  BY <1>1, <1>13, <1>14 DEF UpdatesInv

(* The window manager gives the window another size. *)
LEMMA ServerResizeKeeps ==
  ASSUME UpdatesInv, NEW n \in Updates!Size, Updates!ServerResize(n)
  PROVE  UpdatesInv'
<1>1. /\ display /\ n > Updates!Max({x.size} \cup Updates!ToSet(notifies)) /\ notifies' = Append(notifies, n)
      /\ UNCHANGED <<ui, display, events, commands, x>> /\ n \in Nat
  BY DEF Updates!ServerResize, Updates!Size
<1>2. UpdatesTypeOK /\ SizesGrow /\ WaitsForSize
  BY <1>1 DEF UpdatesInv
<1>3. /\ notifies \in Seq(Nat) /\ x.size \in Nat /\ DOMAIN notifies = 1 .. Len(notifies) /\ Len(notifies) \in Nat
  BY <1>2, LenProperties DEF UpdatesTypeOK
<1> DEFINE sizes == {x.size} \cup Updates!ToSet(notifies)
<1>4. sizes = {x.size} \cup {notifies[k] : k \in DOMAIN notifies}
  BY DEF Updates!ToSet
<1>5. \A s \in sizes : s \in Nat
  BY <1>3, <1>4
<1>6. \E m \in sizes : \A s \in sizes : m >= s
  <2>1. CASE Len(notifies) = 0
    <3>1. sizes = {x.size}
      BY <1>3, <1>4, <2>1
    <3> HIDE DEF sizes
    <3> QED
      BY <1>3, <3>1
  <2>2. CASE Len(notifies) > 0
    <3>1. PICK l \in DOMAIN notifies : l = Len(notifies)
      BY <1>3, <2>2
    <3>2. notifies[l] > x.size /\ \A j \in 1 .. l - 1 : notifies[j] < notifies[l]
      BY <1>2 DEF SizesGrow
    <3>3. \A s \in sizes : notifies[l] >= s
      <4> SUFFICES ASSUME NEW s \in sizes PROVE notifies[l] >= s
        OBVIOUS
      <4>1. CASE s = x.size
        BY <1>3, <3>2, <4>1
      <4>2. CASE \E k \in DOMAIN notifies : s = notifies[k]
        <5>1. PICK k \in DOMAIN notifies : s = notifies[k]
          BY <4>2
        <5>2. CASE k = l
          BY <1>3, <5>1, <5>2
        <5>3. CASE k # l
          <6>1. k \in 1 .. l - 1
            BY <1>3, <3>1, <5>3
          <6> QED
            BY <1>3, <3>2, <5>1, <6>1
        <5> QED
          BY <5>2, <5>3
      <4> QED
        BY <1>4, <4>1, <4>2
    <3> QED
      BY <1>4, <3>3
  <2> QED
    BY <1>3, <2>1, <2>2
<1> HIDE DEF sizes
<1>7. Updates!Max(sizes) \in sizes /\ \A s \in sizes : Updates!Max(sizes) >= s
  BY <1>6 DEF Updates!Max
<1>8. \A s \in sizes : n > s
  <2>1. n > Updates!Max(sizes) /\ n \in Nat
    BY <1>1 DEF sizes
  <2> QED
    BY <1>5, <1>7, <2>1
<1>9. n > x.size /\ \A k \in DOMAIN notifies : n > notifies[k]
  BY <1>4, <1>8
<1>10. /\ notifies' \in Seq(Nat) /\ notifies' # <<>> /\ Len(notifies') = Len(notifies) + 1
       /\ notifies'[Len(notifies) + 1] = n /\ \A k \in 1 .. Len(notifies) : notifies'[k] = notifies[k]
       /\ DOMAIN notifies' = 1 .. Len(notifies) + 1
  BY <1>1, <1>3, AppendProperties, LenProperties
<1>11. ASSUME NEW k \in DOMAIN notifies'
       PROVE  notifies'[k] > x'.size /\ \A j \in 1 .. k - 1 : notifies'[j] < notifies'[k]
  <2>1. CASE k = Len(notifies) + 1
    <3>1. \A j \in 1 .. k - 1 : j \in DOMAIN notifies /\ notifies'[j] = notifies[j] /\ notifies[j] \in Nat
      BY <1>3, <1>10, <2>1
    <3> QED
      BY <1>1, <1>9, <1>10, <2>1, <3>1
  <2>2. CASE k # Len(notifies) + 1
    <3>1. k \in DOMAIN notifies /\ notifies'[k] = notifies[k] /\ \A j \in 1 .. k - 1 : notifies'[j] = notifies[j]
      BY <1>3, <1>10, <2>2
    <3> QED
      BY <1>1, <1>2, <3>1 DEF SizesGrow
  <2> QED
    BY <2>1, <2>2
<1>12. x.pending_configures <= Len(notifies')
  BY <1>2, <1>3, <1>10 DEF SizesGrow, UpdatesTypeOK
<1>13. SizesGrow'
  BY <1>1, <1>2, <1>10, <1>11, <1>12 DEF SizesGrow
<1>14. Comes' /\ WillExpose'
  BY <1>10 DEF Comes, WillExpose
<1>15. WaitsForSize' /\ AllIsDrawn'
  BY <1>1, <1>2, <1>14 DEF WaitsForSize, AllIsDrawn
<1>16. UpdatesTypeOK'
  BY <1>1, <1>2, <1>10 DEF UpdatesTypeOK
<1> QED
  BY <1>13, <1>15, <1>16 DEF UpdatesInv

(* The window has a new size. *)
LEMMA NotifyKeeps ==
  ASSUME UpdatesInv, Updates!ConfigureNotify
  PROVE  UpdatesInv'
<1>1. /\ notifies # <<>> /\ notifies' = Tail(notifies) /\ UNCHANGED <<ui, display, commands>>
      /\ x' = [size |-> Head(notifies),
               surface |-> IF Head(notifies) # x.size THEN NoSurface ELSE x.surface,
               pending_configures |-> IF x.pending_configures > 1 THEN x.pending_configures - 1 ELSE Len(Tail(notifies))]
      /\ events' = Append(events, Updates!WinSize(x', x'.size))
  BY DEF Updates!ConfigureNotify
<1>2. UpdatesTypeOK
  BY DEF UpdatesInv
<1>3. /\ notifies \in Seq(Nat) /\ Len(notifies) \in Nat /\ Len(notifies) > 0 /\ DOMAIN notifies = 1 .. Len(notifies)
      /\ Head(notifies) \in Nat /\ Head(notifies) = notifies[1] /\ notifies' \in Seq(Nat)
      /\ Len(notifies') = Len(notifies) - 1 /\ DOMAIN notifies' = 1 .. Len(notifies) - 1
      /\ \A k \in 1 .. Len(notifies) - 1 : notifies'[k] = notifies[k + 1]
      /\ x.pending_configures \in Nat
  <2>1. notifies \in Seq(Nat) /\ x.pending_configures \in Nat
    BY <1>2 DEF UpdatesTypeOK
  <2>2. Len(notifies) \in Nat /\ DOMAIN notifies = 1 .. Len(notifies) /\ Len(notifies) > 0
    BY <1>1, <2>1, LenProperties, EmptySeq
  <2>3. /\ Head(notifies) \in Nat /\ Tail(notifies) \in Seq(Nat) /\ Len(Tail(notifies)) = Len(notifies) - 1
        /\ \A i \in 1 .. Len(Tail(notifies)) : Tail(notifies)[i] = notifies[i + 1]
    BY <1>1, <2>1, HeadTailProperties
  <2>4. Head(notifies) = notifies[1]
    BY <1>1, <2>1
  <2>5. DOMAIN Tail(notifies) = 1 .. Len(notifies) - 1
    BY <2>3, LenProperties
  <2> QED
    BY <1>1, <2>1, <2>2, <2>3, <2>4, <2>5
<1>4. /\ x' \in DisplayWindow
      /\ x'.size = Head(notifies)
      /\ x'.pending_configures = IF x.pending_configures > 1 THEN x.pending_configures - 1 ELSE Len(notifies')
  <2>1. x.surface \in (SUBSET Updates!Areas) \cup {NoSurface}
    BY <1>2 DEF UpdatesTypeOK
  <2>2. (IF x.pending_configures > 1 THEN x.pending_configures - 1 ELSE Len(Tail(notifies))) \in Nat
    BY <1>1, <1>3
  <2> QED
    BY <1>1, <1>3, <2>1, <2>2
<1>5. PICK e : e = Updates!WinSize(x', x'.size)
  OBVIOUS
<1>6. e \in WinSizes /\ e.size = x'.size /\ (e.intermediate <=> x'.pending_configures > 0)
      /\ x'.size \in Nat /\ x'.pending_configures \in Nat
  <2>1. e = [size |-> x'.size, intermediate |-> x'.pending_configures > 0]
    BY <1>5 DEF Updates!WinSize
  <2>2. x'.size \in Nat /\ x'.pending_configures \in Nat /\ (x'.pending_configures > 0) \in BOOLEAN
    BY <1>4
  <2> QED
    BY <2>1, <2>2 DEF WinSizes
<1>7. /\ events' \in Seq(WinSizes) /\ events' # <<>> /\ Last(events') = e /\ Comes'
      /\ \A k \in DOMAIN events' : events'[k] = e \/ (k \in DOMAIN events /\ events'[k] = events[k])
  BY <1>1, <1>2, <1>5, <1>6, EventAdded
<1>8. UpdatesTypeOK'
  BY <1>1, <1>2, <1>3, <1>4, <1>7 DEF UpdatesTypeOK
<1>9. ASSUME display PROVE SizesGrow' /\ WaitsForSize' /\ WillExpose'
  <2>1. SizesGrow /\ WaitsForSize
    BY <1>9 DEF UpdatesInv
  <2>2. x'.size > x.size /\ x.size \in Nat /\ ui.alloc \in Nat
    <3>1. 1 \in DOMAIN notifies
      BY <1>3
    <3> QED
      BY <1>2, <1>3, <1>4, <2>1, <3>1 DEF SizesGrow, UpdatesTypeOK
  <2>3. x'.pending_configures <= Len(notifies')
    BY <1>3, <1>4, <2>1 DEF SizesGrow
  <2>4. ASSUME NEW k \in DOMAIN notifies'
        PROVE  notifies'[k] > x'.size /\ \A j \in 1 .. k - 1 : notifies'[j] < notifies'[k]
    <3>1. k \in 1 .. Len(notifies) - 1 /\ k + 1 \in DOMAIN notifies /\ notifies'[k] = notifies[k + 1] /\ 1 \in 1 .. (k + 1) - 1
      BY <1>3
    <3>2. \A j \in 1 .. (k + 1) - 1 : notifies[j] < notifies[k + 1]
      BY <2>1, <3>1 DEF SizesGrow
    <3>3. notifies[k + 1] \in Nat
      BY <1>3, <3>1
    <3>4. notifies'[k] > x'.size
      BY <1>3, <1>4, <3>1, <3>2, <3>3
    <3>5. \A j \in 1 .. k - 1 : notifies'[j] = notifies[j + 1] /\ j + 1 \in 1 .. (k + 1) - 1
      <4>1. \A j \in 1 .. k - 1 : j \in 1 .. Len(notifies) - 1 /\ j + 1 \in 1 .. (k + 1) - 1
        <5>1. PICK l \in Nat : l = Len(notifies)
          BY <1>3
        <5>2. k \in 1 .. l - 1
          BY <3>1, <5>1
        <5>3. \A j \in 1 .. k - 1 : j \in 1 .. l - 1 /\ j + 1 \in 1 .. (k + 1) - 1
          BY <5>2
        <5> QED
          BY <5>1, <5>3
      <4> QED
        BY <1>3, <4>1
    <3> QED
      BY <3>1, <3>2, <3>4, <3>5
  <2>5. \A k \in DOMAIN events' : events'[k].size <= x'.size
    <3>1. \A k \in DOMAIN events : events[k].size \in Nat /\ events[k].size <= x.size
      <4>1. \A k \in DOMAIN events : events[k] \in WinSizes
        BY <1>2 DEF UpdatesTypeOK
      <4> QED
        BY <2>1, <4>1 DEF SizesGrow, WinSizes
    <3> QED
      BY <1>6, <1>7, <2>2, <3>1
  <2>6. x'.pending_configures > 0 => notifies' # <<>>
    <3>1. notifies' = <<>> => Len(notifies') = 0
      OBVIOUS
    <3> QED
      BY <1>6, <2>3, <3>1
  <2>7. SizesGrow'
    BY <1>6, <1>7, <2>3, <2>4, <2>5, <2>6 DEF SizesGrow
  <2>8. ui.pending_expose \/ ui.alloc <= x.size
    BY <2>1 DEF WaitsForSize
  <2>9. ui'.pending_expose \/ (ui'.alloc <= x'.size /\ \A k \in DOMAIN events' : ui'.alloc <= events'[k].size)
    BY <1>1, <1>6, <1>7, <2>1, <2>2 DEF WaitsForSize
  <2>10. WillExpose'
    BY <1>1, <1>7, <2>2, <2>8 DEF WillExpose
  <2>11. WaitsForSize'
    BY <1>1, <1>7, <2>9 DEF WaitsForSize
  <2> QED
    BY <2>7, <2>10, <2>11
<1> QED
  BY <1>1, <1>8, <1>9 DEF AllIsDrawn, UpdatesInv

(* The invariant holds before the window is shown. *)
LEMMA UpdatesStart ==
  ASSUME Updates!Init PROVE UpdatesInv
BY EmptySeq DEF Updates!Init, UpdatesInv, UpdatesTypeOK, Updates!Areas

(* Every step of the two threads keeps the invariant. *)
LEMMA UpdatesKeep ==
  ASSUME ThreadsAssumption, UpdatesInv, [Updates!Next]_(Updates!vars)
  PROVE  UpdatesInv'
<1>1. CASE UNCHANGED Updates!vars
  BY <1>1 DEF Updates!vars, UpdatesInv, UpdatesTypeOK, SizesGrow, WaitsForSize, AllIsDrawn,
     WillExpose, Comes, Configures, Drawn, Shows, IsBlit
<1>2. CASE Updates!Next
  BY <1>2, WidgetsKeep, ShowKeeps, CloseKeeps, EventKeeps, DrawKeeps, ResizeKeeps, IdleKeeps,
     HandleConfigureKeeps,
     HandleBlitKeeps, NotifyKeeps, ServerResizeKeeps DEF Updates!Next
<1> QED
  BY <1>1, <1>2

(* WindowUpdates: once both threads have nothing left to do, the widgets have the size of
   the X window and the surface shows all of them as they are. *)
THEOREM WindowIsDrawn ==
  ASSUME ThreadsAssumption
  PROVE  Updates!Spec => []Updates!SettledIsDrawn
<1>1. Updates!Init => UpdatesInv
  BY UpdatesStart
<1>2. UpdatesInv /\ [Updates!Next]_(Updates!vars) => UpdatesInv'
  BY UpdatesKeep
<1>3. UpdatesInv => Updates!SettledIsDrawn
  BY SettledFromInv
<1> QED
  BY <1>1, <1>2, <1>3, PTL DEF Updates!Spec

HIDE DEF WindowImpl, DisplayWindow

-----------------------------------------------------------------------------
(* ClientCalls: calls and events on one connection.                          *)

\* What the server sends.
CallMessage == Results \cup Events

\* get_msg() is called from these places of the client.
InsideGet ==
  /\ kCpc # "out" => kpc \in {"fetched", "popped", "peeked"}
  /\ kpc = "peeked" => kOp = "PEEK"
  /\ kpc \in {"fetched", "popped"} => kOp = "POP"
  /\ kpc = "popped" => eventQueue = <<>>

\* The server sends a message.
HasMessage == kPpc[Server] \in {"read", "swap"} => kMsg[Server] \in CallMessage

\* The answers in the channel; and where an answer can be.
Answers  == Without(Calls!Contents, Events)
InCall   == kpc \in {"fetch", "fetched", "block"}
Replying == kPpc[Server] \in {"read", "swap"} /\ kMsg[Server] \in Results
Answered == kpc = "fetched" /\ kCpc = "out" /\ kResult \in Results

\* Nobody but the call that waits is answered, and it is answered once.
OneAnswer ==
  /\ requested \/ Replying \/ Answers # <<>> => InCall
  /\ ~(requested /\ Replying) /\ Len(Answers) <= 1
  /\ Answers # <<>> => ~requested /\ ~Replying
  /\ Answered => ~requested /\ ~Replying /\ Answers = <<>>
  /\ kpc = "popped" /\ kCpc = "out" => kResult \notin Results

\* get_msg() looks into local_ and at new messages once last_fb and local_ are used up.
Drained ==
  /\ kCpc # "out" => kLast = NoMsg
  /\ kCpc = "take" => kLocal = <<>>

\* The inductive invariant of the calls.
CallsInv == Calls!TypeOK /\ InsideGet /\ HasMessage /\ Drained /\ OneAnswer /\ Calls!EventsInOrder

\* What is the client's.
ClientVariables == <<blocking, sem, eventQueue, requested, kpc, back, dispatched>>

(* What a step of get_msg() can lead to. *)
LEMMA GetLeads ==
  ASSUME ThreadsAssumption, CallsInv, (\E o \in {"PEEK", "POP"} : Calls!StartGet(o)) \/ Calls!GetStep
  PROVE  /\ Calls!ChannelTypeOK' /\ kPpc' = kPpc /\ kMsg' = kMsg
         /\ \/ kCpc' # "out" /\ kReceived' = kReceived
            \/ kCpc' = "out" /\ kReceived' = kReceived /\ (kOp' = "PEEK" \/ kResult' = NoMsg)
            \/ kCpc' = "out" /\ kOp' # "PEEK" /\ kResult' \in CallMessage /\ kReceived' = Append(kReceived, kResult')
<1>1. /\ kHead \in Seq(CallMessage) /\ kLocal \in Seq(CallMessage) /\ kLast \in CallMessage \cup {NoMsg} /\ kEfd \in BOOLEAN
      /\ kMsg \in [{Server} -> CallMessage \cup {NoMsg}] /\ kMay \in [{Server} -> BOOLEAN]
      /\ kLastHead \in [{Server} -> Seq(CallMessage)]
      /\ kCpc \in {"out", "pop", "take", "flush", "poll"} /\ kOp \in Calls!Op /\ kRetry \in BOOLEAN
      /\ kNode \in Seq(CallMessage) /\ kResult \in CallMessage \cup {NoMsg} /\ kSent \subseteq CallMessage
      /\ kReceived \in Seq(CallMessage)
  BY DEF CallsInv, Calls!TypeOK, Calls!ChannelTypeOK, CallMessage
<1>2. UNCHANGED <<kPpc, kMsg, kMay, kLastHead, kSent>>
  BY DEF Calls!StartGet, Calls!GetStep, Calls!PopLocal, Calls!PopRead, Calls!PopTake,
     Calls!Flush, Calls!PollIn,
     Calls!producerVars
<1> DEFINE Same == kMsg' \in [{Server} -> CallMessage \cup {NoMsg}] /\ kMay' \in [{Server} -> BOOLEAN]
                   /\ kLastHead' \in [{Server} -> Seq(CallMessage)] /\ kSent' \subseteq CallMessage
<1>3. Same
  BY <1>1, <1>2
<1> HIDE DEF Same
<1>4. ASSUME kHead' \in Seq(CallMessage), kLocal' \in Seq(CallMessage), kLast' \in CallMessage \cup {NoMsg}, kEfd' \in BOOLEAN,
             kCpc' \in {"out", "pop", "take", "flush", "poll"}, kOp' \in Calls!Op, kRetry' \in BOOLEAN,
             kNode' \in Seq(CallMessage), kResult' \in CallMessage \cup {NoMsg}, kReceived' \in Seq(CallMessage)
      PROVE  Calls!ChannelTypeOK'
  BY <1>3, <1>4 DEF Calls!ChannelTypeOK, Same, CallMessage
\* A message is returned.
<1>5. ASSUME NEW o \in Calls!Op, NEW m \in CallMessage, Calls!Return(o, m), kOp' = o
      PROVE  /\ kCpc' = "out" /\ kResult' = m /\ kResult' \in CallMessage \cup {NoMsg} /\ kLast' \in CallMessage \cup {NoMsg}
             /\ kReceived' \in Seq(CallMessage)
             /\ (kOp' = "PEEK" /\ kReceived' = kReceived) \/ (kOp' # "PEEK" /\ kReceived' = Append(kReceived, kResult'))
  <2>1. Append(kReceived, m) \in Seq(CallMessage)
    BY <1>1, AppendProperties
  <2> QED
    BY <1>1, <1>5, <2>1 DEF Calls!Return
<1>6. CASE \E o \in {"PEEK", "POP"} : Calls!StartGet(o)
  <2>1. PICK o \in {"PEEK", "POP"} : Calls!StartGet(o)
    BY <1>6
  <2>2. /\ kOp' = o /\ o \in Calls!Op /\ kRetry' = FALSE /\ UNCHANGED <<kHead, kLocal, kEfd, kNode>>
        /\ IF kLast # NoMsg THEN Calls!Return(o, kLast)
           ELSE kCpc' = "pop" /\ UNCHANGED <<kResult, kLast, kReceived>>
    BY <2>1 DEF Calls!StartGet, Calls!queueVars, Calls!Op
  <2>3. CASE kLast # NoMsg
    BY <1>1, <1>2, <1>4, <1>5, <2>2, <2>3
  <2>4. CASE kLast = NoMsg
    BY <1>1, <1>2, <1>4, <2>2, <2>4
  <2> QED
    BY <2>3, <2>4
<1>7. CASE Calls!PopLocal
  <2>1. /\ kLocal # <<>> /\ kLocal' = Tail(kLocal) /\ Calls!Return(kOp, Head(kLocal)) /\ kOp' = kOp
        /\ UNCHANGED <<kHead, kEfd, kRetry, kNode>>
    BY <1>7 DEF Calls!PopLocal
  <2>2. Head(kLocal) \in CallMessage /\ Tail(kLocal) \in Seq(CallMessage)
    BY <1>1, <2>1, HeadTailProperties
  <2> QED
    BY <1>1, <1>2, <1>4, <1>5, <2>1, <2>2
<1>8. CASE Calls!PopRead
  <2>1. kNode' = kHead /\ kCpc' = "take" /\ UNCHANGED <<kHead, kLocal, kEfd, kOp, kRetry, kResult, kLast, kReceived>>
    BY <1>8 DEF Calls!PopRead, Calls!queueVars
  <2> QED
    BY <1>1, <1>2, <1>4, <2>1
<1>9. CASE Calls!PopTake
  <2>1. UNCHANGED <<kEfd, kOp, kRetry, kNode>>
    BY <1>9 DEF Calls!PopTake
  <2>2. CASE kHead # kNode
    <3>1. kCpc' = "pop" /\ UNCHANGED <<kHead, kLocal, kResult, kLast, kReceived>>
      BY <1>9, <2>2 DEF Calls!PopTake, Calls!queueVars
    <3> QED
      BY <1>1, <1>2, <1>4, <2>1, <3>1
  <2>3. CASE kHead = kNode /\ kNode # <<>>
    <3>1. kHead' = <<>> /\ kLocal' = Tail(Calls!Reverse(kNode)) /\ Calls!Return(kOp, Head(Calls!Reverse(kNode)))
      BY <1>9, <2>3 DEF Calls!PopTake
    <3>2. Calls!Reverse(kNode) = Reverse(kNode)
      BY DEF Calls!Reverse, Reverse
    <3>3. Head(Reverse(kNode)) \in CallMessage /\ Tail(Reverse(kNode)) \in Seq(CallMessage) /\ <<>> \in Seq(CallMessage)
      BY <1>1, <2>3, ReverseProperties, HeadTailProperties
    <3> QED
      BY <1>1, <1>2, <1>4, <1>5, <2>1, <3>1, <3>2, <3>3
  <2>4. CASE kHead = kNode /\ kNode = <<>>
    <3>1. Calls!NoMessage /\ UNCHANGED <<kHead, kLocal, kLast, kReceived>>
      BY <1>9, <2>4 DEF Calls!PopTake, Calls!queueVars
    <3>2. (kCpc' \in {"flush", "poll"} /\ kResult' = kResult) \/ (kCpc' = "out" /\ kResult' = NoMsg)
      BY <3>1 DEF Calls!NoMessage
    <3> QED
      BY <1>1, <1>2, <1>4, <2>1, <3>1, <3>2
  <2> QED
    BY <2>2, <2>3, <2>4
<1>10. CASE Calls!Flush
  <2>1. kEfd' = FALSE /\ kRetry' = TRUE /\ kCpc' = "pop" /\ UNCHANGED <<kHead, kLocal, kOp, kNode, kResult, kLast, kReceived>>
    BY <1>10 DEF Calls!Flush, Calls!queueVars
  <2> QED
    BY <1>1, <1>2, <1>4, <2>1
<1>11. CASE Calls!PollIn
  <2>1. kRetry' = FALSE /\ kCpc' = "pop" /\ UNCHANGED <<kHead, kLocal, kEfd, kOp, kNode, kResult, kLast, kReceived>>
    BY <1>11 DEF Calls!PollIn, Calls!queueVars
  <2> QED
    BY <1>1, <1>2, <1>4, <2>1
<1> QED
  BY <1>6, <1>7, <1>8, <1>9, <1>10, <1>11 DEF Calls!GetStep

\* What the channel holds.
Messages(f, l, h) == (IF f = NoMsg THEN <<>> ELSE <<f>>) \o l \o Reverse(h)

(* The parts of the channel are lists of messages. *)
LEMMA HeldMessages ==
  ASSUME NEW h \in Seq(CallMessage), NEW l \in Seq(CallMessage), NEW f \in CallMessage \cup {NoMsg}
  PROVE  /\ Messages(f, l, h) \in Seq(CallMessage) /\ l \o Reverse(h) \in Seq(CallMessage) /\ Reverse(h) \in Seq(CallMessage)
         /\ Messages(NoMsg, l, h) = l \o Reverse(h)
         /\ f # NoMsg => f \in CallMessage /\ Messages(f, l, h) = <<f>> \o (l \o Reverse(h))
         /\ <<>> \o Reverse(h) = Reverse(h)
<1> DEFINE r == Reverse(h)
<1>1. r \in Seq(CallMessage)
  BY ReverseProperties
<1> HIDE DEF r
<1>2. l \o r \in Seq(CallMessage) /\ <<>> \o l = l /\ <<>> \o r = r
  BY <1>1, ConcatProperties, ConcatEmptySeq
<1>3. Messages(NoMsg, l, h) = l \o r
  BY <1>2 DEF Messages, r
<1>4. ASSUME f # NoMsg
      PROVE  f \in CallMessage /\ Messages(f, l, h) = <<f>> \o (l \o r) /\ Messages(f, l, h) \in Seq(CallMessage)
  <2> DEFINE one == <<f>>
  <2>1. one \in Seq(CallMessage) /\ f \in CallMessage
    BY <1>4
  <2>2. Messages(f, l, h) = (one \o l) \o r
    BY <1>4 DEF Messages, r
  <2> HIDE DEF one
  <2>3. (one \o l) \o r = one \o (l \o r)
    BY <1>1, <2>1, ConcatAssociative
  <2>4. one \o (l \o r) \in Seq(CallMessage)
    BY <1>2, <2>1, ConcatProperties
  <2> QED
    BY <2>1, <2>2, <2>3, <2>4 DEF one
<1> QED
  BY <1>1, <1>2, <1>3, <1>4 DEF r

(* Contents, before a step and after it. *)
LEMMA ContentsHeld ==
  /\ Calls!Contents = Messages(kLast, kLocal, kHead)
  /\ Calls!Contents' = Messages(kLast', kLocal', kHead')
BY DEF Calls!Contents, Calls!Reverse, Reverse, Messages

(* A step of get_msg() takes the first message of the channel or none. *)
LEMMA GetTakes ==
  ASSUME ThreadsAssumption, CallsInv, (\E o \in {"PEEK", "POP"} : Calls!StartGet(o)) \/ Calls!GetStep
  PROVE  /\ Drained'
         /\ \/ (kCpc' # "out" \/ kOp' = "PEEK" \/ kResult' = NoMsg) /\ Calls!Contents' = Calls!Contents
            \/ /\ kCpc' = "out" /\ kOp' # "PEEK" /\ kResult' \in CallMessage
               /\ Calls!Contents' \in Seq(CallMessage) /\ Calls!Contents = <<kResult'>> \o Calls!Contents'
<1>1. /\ kHead \in Seq(CallMessage) /\ kLocal \in Seq(CallMessage) /\ kLast \in CallMessage \cup {NoMsg}
      /\ kNode \in Seq(CallMessage) /\ NoMsg \notin CallMessage /\ Drained
  BY DEF CallsInv, Calls!TypeOK, Calls!ChannelTypeOK, CallMessage, ThreadsAssumption
<1>2. /\ Calls!Contents = Messages(kLast, kLocal, kHead)
      /\ Calls!Contents' = Messages(kLast', kLocal', kHead')
  BY ContentsHeld
<1>3. CASE \E o \in {"PEEK", "POP"} : Calls!StartGet(o)
  <2>1. PICK o \in {"PEEK", "POP"} : Calls!StartGet(o)
    BY <1>3
  <2>2. kOp' = o /\ UNCHANGED <<kHead, kLocal>> /\ kCpc = "out"
    BY <2>1 DEF Calls!StartGet, Calls!queueVars
  <2>3. CASE kLast = NoMsg
    <3>1. kCpc' = "pop" /\ kLast' = kLast
      BY <2>1, <2>3 DEF Calls!StartGet
    <3> QED
      BY <1>2, <2>2, <2>3, <3>1 DEF Drained
  <2>4. CASE kLast # NoMsg
    <3>1. kCpc' = "out" /\ kResult' = kLast /\ kLast' = IF o = "PEEK" THEN kLast ELSE NoMsg
      BY <2>1, <2>4 DEF Calls!StartGet, Calls!Return
    <3>2. Drained'
      BY <3>1 DEF Drained
    <3>3. CASE o = "PEEK"
      BY <1>2, <2>2, <3>1, <3>2, <3>3
    <3>4. CASE o # "PEEK"
      <4>1. Calls!Contents' = kLocal \o Reverse(kHead) /\ kLocal \o Reverse(kHead) \in Seq(CallMessage)
        BY <1>1, <1>2, <2>2, <3>1, <3>4, HeldMessages
      <4>2. kLast \in CallMessage /\ Calls!Contents = <<kLast>> \o (kLocal \o Reverse(kHead))
        BY <1>1, <1>2, <2>4, HeldMessages
      <4> QED
        BY <2>2, <3>1, <3>2, <3>4, <4>1, <4>2
    <3> QED
      BY <3>3, <3>4
  <2> QED
    BY <2>3, <2>4
<1>4. CASE Calls!PopLocal
  <2>1. /\ kCpc = "pop" /\ kLocal # <<>> /\ kLocal' = Tail(kLocal) /\ kHead' = kHead /\ kOp' = kOp /\ kCpc' = "out"
        /\ kResult' = Head(kLocal) /\ kLast' = IF kOp = "PEEK" THEN Head(kLocal) ELSE NoMsg
    BY <1>4 DEF Calls!PopLocal, Calls!Return
  <2>2. kLast = NoMsg /\ Drained'
    BY <1>1, <2>1 DEF Drained
  <2>3. Head(kLocal) \in CallMessage /\ Tail(kLocal) \in Seq(CallMessage) /\ <<Head(kLocal)>> \o Tail(kLocal) = kLocal
    BY <1>1, <2>1, HeadThenTail
  <2> DEFINE m == Head(kLocal)
             one == <<m>>
             t == Tail(kLocal)
             r == Reverse(kHead)
  <2>4. r \in Seq(CallMessage) /\ one \in Seq(CallMessage) /\ one \o t = kLocal
    BY <1>1, <2>3, HeldMessages
  <2>5. m \in CallMessage /\ t \in Seq(CallMessage)
    BY <2>3
  <2>6. Calls!Contents = kLocal \o r
    BY <1>1, <1>2, <2>2, HeldMessages
  <2>7. /\ kOp = "PEEK" => Calls!Contents' = one \o (t \o r)
        /\ kOp # "PEEK" => Calls!Contents' = t \o r
        /\ t \o r \in Seq(CallMessage)
    <3>1. /\ Messages(m, t, kHead) = one \o (t \o r) /\ Messages(NoMsg, t, kHead) = t \o r /\ t \o r \in Seq(CallMessage)
      BY <1>1, <2>5, HeldMessages
    <3> QED
      BY <1>2, <2>1, <3>1
  <2> HIDE DEF one, r, t, m
  <2>8. kLocal \o r = one \o (t \o r)
    <3>1. one \in Seq(CallMessage) /\ t \in Seq(CallMessage) /\ r \in Seq(CallMessage)
      BY <2>4, <2>5
    <3>2. (one \o t) \o r = one \o (t \o r)
      BY <3>1, ConcatAssociative
    <3> QED
      BY <2>4, <3>2
  <2> QED
    BY <2>1, <2>2, <2>5, <2>6, <2>7, <2>8 DEF one, m
<1>5. CASE Calls!PopRead
  <2>1. kCpc = "pop" /\ kLocal = <<>> /\ kCpc' = "take" /\ UNCHANGED <<kHead, kLocal, kLast>>
    BY <1>5 DEF Calls!PopRead, Calls!queueVars
  <2> QED
    BY <1>1, <1>2, <2>1 DEF Drained
<1>6. CASE Calls!PopTake
  <2>1. kCpc = "take" /\ kOp' = kOp /\ kLast = NoMsg /\ kLocal = <<>>
    BY <1>1, <1>6 DEF Calls!PopTake, Drained
  <2>2. CASE kHead # kNode
    <3>1. kCpc' = "pop" /\ UNCHANGED <<kHead, kLocal, kLast>>
      BY <1>6, <2>2 DEF Calls!PopTake, Calls!queueVars
    <3> QED
      BY <1>2, <2>1, <3>1 DEF Drained
  <2>3. CASE kHead = kNode /\ kNode = <<>>
    <3>1. Calls!NoMessage /\ UNCHANGED <<kHead, kLocal, kLast>>
      BY <1>6, <2>3 DEF Calls!PopTake, Calls!queueVars
    <3>2. kCpc' \in {"flush", "poll"} \/ (kCpc' = "out" /\ kResult' = NoMsg)
      BY <3>1 DEF Calls!NoMessage
    <3> QED
      BY <1>2, <2>1, <3>1, <3>2 DEF Drained
  <2>4. CASE kHead = kNode /\ kNode # <<>>
    <3> DEFINE r == Reverse(kHead)
               m == Head(r)
               t == Tail(r)
               one == <<m>>
    <3>1. /\ kHead' = <<>> /\ kLocal' = t /\ kCpc' = "out" /\ kResult' = m
          /\ kLast' = IF kOp = "PEEK" THEN m ELSE NoMsg
      BY <1>6, <2>4 DEF Calls!PopTake, Calls!Return, Calls!Reverse, Reverse
    <3>2. r \in Seq(CallMessage) /\ r # <<>>
      BY <1>1, <2>4, ReverseProperties
    <3> HIDE DEF r
    <3>3. m \in CallMessage /\ t \in Seq(CallMessage) /\ one \o t = r
      BY <3>2, HeadThenTail
    <3>4. Calls!Contents = r
      <4>1. <<>> \o r = r
        BY <3>2, ConcatEmptySeq
      <4>2. Messages(NoMsg, kLocal, kHead) = kLocal \o r
        BY <1>1, HeldMessages DEF r
      <4> QED
        BY <1>2, <2>1, <4>1, <4>2
    <3>5. Reverse(<<>>) = <<>> /\ <<>> \in Seq(CallMessage) /\ t \o <<>> = t
      BY <3>3, EmptySeq, ReverseProperties, ConcatEmptySeq
    <3>6. /\ kOp = "PEEK" => Calls!Contents' = one \o t
          /\ kOp # "PEEK" => Calls!Contents' = t
      <4> HIDE DEF m, t
      <4>1. /\ Messages(m, t, <<>>) = one \o (t \o Reverse(<<>>)) /\ Messages(NoMsg, t, <<>>) = t \o Reverse(<<>>)
        BY <1>1, <3>3, <3>5, HeldMessages
      <4> QED
        BY <1>2, <3>1, <3>5, <4>1
    <3>7. Drained'
      BY <3>1 DEF Drained
    <3> HIDE DEF t, m
    <3> QED
      BY <2>1, <3>1, <3>3, <3>4, <3>6, <3>7
  <2> QED
    BY <2>2, <2>3, <2>4
<1>7. CASE Calls!Flush \/ Calls!PollIn
  <2>1. kCpc' = "pop" /\ kCpc # "out" /\ UNCHANGED <<kHead, kLocal, kLast>>
    BY <1>7 DEF Calls!Flush, Calls!PollIn, Calls!queueVars
  <2> QED
    BY <1>1, <1>2, <2>1 DEF Drained
<1> QED
  BY <1>3, <1>4, <1>5, <1>6, <1>7 DEF Calls!GetStep

(* The event that leaves the channel last stands behind the others. *)
LEMMA EventTaken ==
  ASSUME ThreadsAssumption, NEW s \in Seq(CallMessage), NEW m \in CallMessage
  PROVE  /\ Without(Append(s, m), Results) = Without(s, Results) \o (IF m \in Events THEN <<m>> ELSE <<>>)
         /\ Without(s, Results) \in Seq(CallMessage)
<1>1. Without(s, Results) \in Seq(CallMessage)
  BY WithoutElements
<1>2. m \in Results <=> m \notin Events
  BY DEF ThreadsAssumption, Calls!ClientAssumption, CallMessage
<1>3. Without(Append(s, m), Results) = IF m \in Results THEN Without(s, Results) ELSE Append(Without(s, Results), m)
  BY WithoutAppend
<1> DEFINE w == Without(s, Results)
<1> HIDE DEF w
<1>4. w \o <<>> = w /\ w \o <<m>> = Append(w, m)
  BY <1>1, ConcatEmptySeq DEF w
<1> QED
  BY <1>1, <1>2, <1>3, <1>4 DEF w

(* An answer that leaves the channel is the only one. *)
LEMMA AnswersTaken ==
  ASSUME ThreadsAssumption, NEW m \in CallMessage, NEW s \in Seq(CallMessage)
  PROVE  /\ Without(<<m>> \o s, Events) = (IF m \in Events THEN <<>> ELSE <<m>>) \o Without(s, Events)
         /\ Without(s, Events) \in Seq(CallMessage)
         /\ m \in Events => Without(<<m>> \o s, Events) = Without(s, Events)
         /\ m \notin Events => Len(Without(<<m>> \o s, Events)) = 1 + Len(Without(s, Events))
<1> DEFINE one == <<m>>
           w == Without(s, Events)
<1>1. one \in Seq(CallMessage) /\ <<>> \in Seq(CallMessage) /\ one = Append(<<>>, m) /\ Len(one) = 1
  OBVIOUS
<1>2. Without(one, Events) = IF m \in Events THEN <<>> ELSE one
  <2> DEFINE none == <<>>
  <2>1. none \in Seq(CallMessage) /\ Without(none, Events) = none /\ Append(none, m) = one
    BY <1>1, WithoutEmpty
  <2> HIDE DEF none, one
  <2>2. Without(Append(none, m), Events) = IF m \in Events THEN Without(none, Events) ELSE Append(Without(none, Events), m)
    BY <2>1, WithoutAppend
  <2> QED
    BY <2>1, <2>2 DEF none
<1> HIDE DEF one
<1>3. Without(one \o s, Events) = Without(one, Events) \o w
  <2>1. one \in Seq(CallMessage)
    BY <1>1
  <2> QED
    BY <2>1, WithoutConcat
<1>4. w \in Seq(CallMessage)
  BY WithoutElements
<1> HIDE DEF w
<1>5. <<>> \o w = w /\ Len(one \o w) = 1 + Len(w)
  BY <1>1, <1>4, ConcatEmptySeq, ConcatProperties
<1> QED
  BY <1>2, <1>3, <1>4, <1>5 DEF one, w

(* A step of get_msg() takes at most the one answer that the client waits for. *)
LEMMA GetAnswers ==
  ASSUME ThreadsAssumption, CallsInv, UNCHANGED <<requested, kPpc, kMsg>>,
         kpc' \in {"fetched", "popped", "peeked"},
         kpc' = "fetched" => InCall, InCall => kpc' = "fetched", ~Answered,
         \/ (kCpc' # "out" \/ kOp' = "PEEK" \/ kResult' = NoMsg) /\ Calls!Contents' = Calls!Contents
         \/ /\ kCpc' = "out" /\ kOp' # "PEEK" /\ kResult' \in CallMessage
            /\ Calls!Contents' \in Seq(CallMessage) /\ Calls!Contents = <<kResult'>> \o Calls!Contents',
         kpc' = "popped" => kOp' # "PEEK", kpc' = "fetched" => kOp' # "PEEK"
  PROVE  OneAnswer'
<1>1. OneAnswer /\ NoMsg \notin CallMessage /\ Results \cap Events = {} /\ CallMessage = Results \cup Events
  BY DEF CallsInv, ThreadsAssumption, Calls!ClientAssumption, CallMessage
<1>2. InCall' <=> InCall
  BY DEF InCall
<1>3. Replying' <=> Replying
  BY DEF Replying
<1>4. CASE (kCpc' # "out" \/ kOp' = "PEEK" \/ kResult' = NoMsg) /\ Calls!Contents' = Calls!Contents
  <2>1. Answers' = Answers /\ ~Answered' /\ ~(kpc' = "popped" /\ kCpc' = "out" /\ kResult' \in Results)
    BY <1>1, <1>4 DEF Answers, Answered
  <2> QED
    BY <1>1, <1>2, <1>3, <2>1 DEF OneAnswer
<1>5. CASE /\ kCpc' = "out" /\ kOp' # "PEEK" /\ kResult' \in CallMessage
           /\ Calls!Contents' \in Seq(CallMessage) /\ Calls!Contents = <<kResult'>> \o Calls!Contents'
  <2>1. /\ Answers' \in Seq(CallMessage)
        /\ kResult' \in Events => Answers = Answers'
        /\ kResult' \notin Events => Len(Answers) = 1 + Len(Answers')
    BY <1>5, AnswersTaken DEF Answers
  <2>2. CASE kResult' \in Events
    <3>1. ~Answered' /\ ~(kpc' = "popped" /\ kCpc' = "out" /\ kResult' \in Results)
      BY <1>1, <2>2 DEF Answered
    <3> QED
      BY <1>1, <1>2, <1>3, <2>1, <2>2, <3>1 DEF OneAnswer
  <2>3. CASE kResult' \notin Events
    <3>1. Len(Answers) = 1 + Len(Answers') /\ Len(Answers') \in Nat /\ Len(Answers) <= 1
      BY <1>1, <2>1, <2>3, LenProperties DEF OneAnswer
    <3>2. Answers' = <<>>
      BY <2>1, <3>1, EmptySeq
    <3>3. Answers # <<>>
      BY <2>1, <3>1, EmptySeq
    <3>4. InCall /\ ~requested /\ ~Replying
      BY <1>1, <3>3 DEF OneAnswer
    <3>5. Len(Answers') <= 1 /\ kpc' = "fetched"
      BY <3>1, <3>4
    <3> QED
      BY <1>3, <3>2, <3>4, <3>5 DEF OneAnswer
  <2> QED
    BY <2>2, <2>3
<1> QED
  BY <1>4, <1>5

(* The client's side of a call of get_msg(), from its first step to its return. *)
LEMMA GetKeeps ==
  ASSUME ThreadsAssumption, CallsInv, Calls!TypeOK', OneAnswer', Drained',
         UNCHANGED <<eventQueue, dispatched, kPpc, kMsg>>, kpc' \in {"fetched", "popped", "peeked"},
         Calls!InHand = <<>>,
         IF kpc' = "peeked" THEN kOp' = "PEEK" ELSE kOp' = "POP", kpc' = "popped" => eventQueue = <<>>,
         \/ kCpc' # "out" /\ kReceived' = kReceived
         \/ kCpc' = "out" /\ kReceived' = kReceived /\ (kOp' = "PEEK" \/ kResult' = NoMsg)
         \/ kCpc' = "out" /\ kOp' # "PEEK" /\ kResult' \in CallMessage /\ kReceived' = Append(kReceived, kResult')
  PROVE  CallsInv'
<1>1. /\ dispatched \in Seq(Events) /\ eventQueue \in Seq(Events) /\ kReceived \in Seq(CallMessage)
  BY DEF CallsInv, Calls!TypeOK, Calls!ChannelTypeOK, CallMessage
<1>2. dispatched \o eventQueue = Without(kReceived, Results)
  <2>1. (dispatched \o eventQueue) \o <<>> = dispatched \o eventQueue
    BY <1>1, ConcatProperties, ConcatEmptySeq
  <2>2. (dispatched \o eventQueue) \o Calls!InHand = Calls!Without(kReceived, Results)
    BY DEF CallsInv, Calls!EventsInOrder
  <2> QED
    BY <2>1, <2>2 DEF Calls!Without, Without
<1> DEFINE out == dispatched \o eventQueue
<1>3. out \o <<>> = out /\ out \in Seq(Events)
  BY <1>1, ConcatProperties, ConcatEmptySeq
<1> HIDE DEF out
<1>4. out' = out
  BY DEF out
<1>5. out' \o Calls!InHand' = Without(kReceived', Results)
  <2>1. CASE kReceived' = kReceived /\ (kCpc' # "out" \/ kOp' = "PEEK" \/ kResult' = NoMsg)
    <3>1. Calls!InHand' = <<>>
      BY <2>1 DEF Calls!InHand, Calls!At, ThreadsAssumption
    <3> QED
      BY <1>2, <1>3, <1>4, <2>1, <3>1 DEF out
  <2>2. CASE kCpc' = "out" /\ kOp' # "PEEK" /\ kResult' \in CallMessage /\ kReceived' = Append(kReceived, kResult')
    <3>1. Calls!InHand' = IF kResult' \in Events THEN <<kResult'>> ELSE <<>>
      BY <2>2 DEF Calls!InHand, Calls!At
    <3>2. Without(kReceived', Results) = Without(kReceived, Results) \o (IF kResult' \in Events THEN <<kResult'>> ELSE <<>>)
      BY <1>1, <2>2, EventTaken
    <3> QED
      BY <1>2, <1>4, <3>1, <3>2 DEF out
  <2> QED
    BY <2>1, <2>2
<1>6. Calls!EventsInOrder'
  BY <1>5 DEF Calls!EventsInOrder, Calls!Without, Without, out
<1>7. InsideGet' /\ HasMessage'
  BY DEF InsideGet, HasMessage, CallsInv
<1> QED
  BY <1>6, <1>7 DEF CallsInv

(* The server answers the call that waits, once. *)
LEMMA ServerAnswers ==
  ASSUME ThreadsAssumption, CallsInv,
         Calls!Reply \/ Calls!Emit \/ Calls!Sending \/ Calls!NotifyForResult \/ Calls!SemPost
  PROVE  OneAnswer'
<1>1. /\ OneAnswer /\ kHead \in Seq(CallMessage) /\ kLocal \in Seq(CallMessage) /\ kLast \in CallMessage \cup {NoMsg}
      /\ kPpc \in [{Server} -> {"out", "read", "swap", "wake", "notify", "post"}]
      /\ kMsg \in [{Server} -> CallMessage \cup {NoMsg}]
      /\ Results \cap Events = {} /\ CallMessage = Results \cup Events
  BY DEF CallsInv, Calls!TypeOK, Calls!ChannelTypeOK, CallMessage, ThreadsAssumption,
     Calls!ClientAssumption
<1>2. UNCHANGED <<kCpc, kResult, kLast, kLocal, kpc>>
  BY DEF Calls!Reply, Calls!Emit, Calls!Sending, Calls!NotifyForResult, Calls!SemPost,
     Calls!ReceiveMsg, Calls!StartSend,
     Calls!SendStep, Calls!ReadHead, Calls!SwapHead, Calls!WakeUp, Calls!queueVars, Calls!consumerVars, Calls!clientVars
<1>3. /\ InCall' = InCall /\ Answered' = Answered
      /\ kHead' = kHead => Answers' = Answers
  <2>1. kHead' = kHead => Calls!Contents' = Calls!Contents
    BY <1>2 DEF Calls!Contents
  <2> QED
    BY <1>2, <2>1 DEF InCall, Answered, Answers
<1>4. CASE Calls!Reply
  <2>1. PICK m \in Results : Calls!StartSend(Server, m, ~blocking)
    BY <1>4 DEF Calls!Reply, Calls!ReceiveMsg
  <2>2. kHead' = kHead /\ requested /\ requested' = FALSE
    BY <1>4, <2>1 DEF Calls!Reply, Calls!StartSend, Calls!queueVars
  <2> QED
    BY <1>1, <1>2, <1>3, <2>2 DEF OneAnswer, Answered
<1>5. CASE Calls!Emit
  <2>1. PICK m \in Events : Calls!StartSend(Server, m, ~blocking)
    BY <1>5 DEF Calls!Emit, Calls!ReceiveMsg
  <2>2. kHead' = kHead /\ requested' = requested /\ kMsg' = [kMsg EXCEPT ![Server] = m]
    BY <1>5, <2>1 DEF Calls!Emit, Calls!StartSend, Calls!queueVars, Calls!clientVars
  <2>3. ~Replying'
    BY <1>1, <2>2 DEF Replying
  <2> QED
    BY <1>1, <1>2, <1>3, <2>2, <2>3 DEF OneAnswer, Answered
<1>6. CASE Calls!Sending
  <2>1. requested' = requested
    BY <1>6 DEF Calls!Sending, Calls!clientVars
  <2>2. CASE Calls!ReadHead(Server) \/ Calls!WakeUp(Server, "notify") \/ (Calls!SwapHead(Server, "notify") /\ kHead # kLastHead[Server])
    <3>1. kHead' = kHead /\ kMsg' = kMsg
      BY <2>2 DEF Calls!ReadHead, Calls!WakeUp, Calls!SwapHead, Calls!queueVars
    <3>2. Replying' => Replying
      BY <1>1, <2>2, <3>1 DEF Replying, Calls!ReadHead, Calls!WakeUp, Calls!SwapHead
    <3> QED
      BY <1>1, <1>2, <1>3, <2>1, <3>1, <3>2 DEF OneAnswer, Answered
  <2>3. CASE Calls!SwapHead(Server, "notify") /\ kHead = kLastHead[Server]
    <3> DEFINE m == kMsg[Server]
    <3>1. /\ kPpc[Server] = "swap" /\ kHead' = <<m>> \o kHead
          /\ \E after \in {"wake", "notify"} : kPpc' = [kPpc EXCEPT ![Server] = after]
      BY <2>3 DEF Calls!SwapHead
    <3>2. ~Replying' /\ m \in CallMessage
      BY <1>1, <3>1 DEF Replying, CallsInv, HasMessage
    <3>3. Calls!Contents' = Append(Calls!Contents, m) /\ Calls!Contents \in Seq(CallMessage)
      <4> DEFINE r == Reverse(kHead)
                 front == (IF kLast = NoMsg THEN <<>> ELSE <<kLast>>) \o kLocal
      <4>1. Reverse(<<m>> \o kHead) = Append(r, m)
        BY <1>1, <3>2, ReversePush
      <4>2. Calls!Contents = front \o r /\ Calls!Contents' = front \o Append(r, m)
        BY <1>2, <3>1, <4>1, ContentsHeld DEF Messages
      <4>3. (IF kLast = NoMsg THEN <<>> ELSE <<kLast>>) \in Seq(CallMessage)
        <5>1. CASE kLast = NoMsg
          BY <5>1
        <5>2. CASE kLast # NoMsg
          <6>1. kLast \in CallMessage
            BY <1>1, <5>2
          <6> QED
            BY <5>2, <6>1
        <5> QED
          BY <5>1, <5>2
      <4>4. front \in Seq(CallMessage) /\ r \in Seq(CallMessage)
        BY <1>1, <4>3, ConcatProperties, ReverseProperties
      <4> HIDE DEF front, r, m
      <4>5. front \o Append(r, m) = Append(front \o r, m) /\ front \o r \in Seq(CallMessage)
        BY <3>2, <4>4, ConcatAppend, ConcatProperties
      <4> QED
        BY <4>2, <4>5
    <3> HIDE DEF m
    <3>4. Answers' = IF m \in Events THEN Answers ELSE Append(Answers, m)
      BY <3>2, <3>3, WithoutAppend DEF Answers
    <3>5. CASE m \in Events
      BY <1>1, <1>2, <1>3, <2>1, <3>2, <3>4, <3>5 DEF OneAnswer, Answered
    <3>6. CASE m \notin Events
      <4>1. Replying
        BY <1>1, <3>1, <3>2, <3>6 DEF Replying, m
      <4>2. InCall /\ ~requested /\ Answers = <<>> /\ ~Answered
        BY <1>1, <4>1 DEF OneAnswer
      <4>3. Len(Answers') = 1
        BY <3>4, <3>6, <4>2
      <4> QED
        BY <1>1, <1>2, <1>3, <2>1, <3>2, <4>2, <4>3 DEF OneAnswer, Answered
    <3> QED
      BY <3>5, <3>6
  <2> QED
    BY <1>6, <2>2, <2>3 DEF Calls!Sending, Calls!SendStep
<1>7. CASE Calls!NotifyForResult \/ Calls!SemPost
  <2>1. kHead' = kHead /\ requested' = requested /\ kMsg' = kMsg
    BY <1>7 DEF Calls!NotifyForResult, Calls!SemPost, Calls!queueVars, Calls!clientVars
  <2>2. ~Replying'
    BY <1>1, <1>7 DEF Replying, Calls!NotifyForResult, Calls!SemPost
  <2> QED
    BY <1>1, <1>2, <1>3, <2>1, <2>2 DEF OneAnswer, Answered
<1> QED
  BY <1>4, <1>5, <1>6, <1>7

(* The thread of the server sends and notifies. *)
LEMMA ServerSends ==
  ASSUME ThreadsAssumption, CallsInv,
         Calls!Reply \/ Calls!Emit \/ Calls!Sending \/ Calls!NotifyForResult \/ Calls!SemPost
  PROVE  CallsInv'
<1>1. /\ blocking \in BOOLEAN /\ kHead \in Seq(CallMessage) /\ kPpc \in [{Server} -> {"out", "read", "swap", "wake", "notify", "post"}]
      /\ kMsg \in [{Server} -> CallMessage \cup {NoMsg}] /\ kMay \in [{Server} -> BOOLEAN]
      /\ kLastHead \in [{Server} -> Seq(CallMessage)] /\ kSent \subseteq CallMessage /\ kEfd \in BOOLEAN
      /\ sem \in Nat /\ requested \in BOOLEAN
  BY DEF CallsInv, Calls!TypeOK, Calls!ChannelTypeOK, CallMessage
<1>2. /\ UNCHANGED <<kCpc, kOp, kRetry, kNode, kResult, kLast, kReceived, kLocal>>
      /\ UNCHANGED <<blocking, eventQueue, kpc, back, dispatched>>
  BY DEF Calls!Reply, Calls!Emit, Calls!Sending, Calls!NotifyForResult, Calls!SemPost,
     Calls!ReceiveMsg, Calls!StartSend,
     Calls!SendStep, Calls!ReadHead, Calls!SwapHead, Calls!WakeUp, Calls!queueVars, Calls!consumerVars, Calls!clientVars
<1>3. /\ kHead' \in Seq(CallMessage) /\ kPpc' \in [{Server} -> {"out", "read", "swap", "wake", "notify", "post"}]
      /\ kMsg' \in [{Server} -> CallMessage \cup {NoMsg}] /\ kMay' \in [{Server} -> BOOLEAN]
      /\ kLastHead' \in [{Server} -> Seq(CallMessage)] /\ kSent' \subseteq CallMessage /\ kEfd' \in BOOLEAN
      /\ sem' \in Nat /\ requested' \in BOOLEAN /\ HasMessage'
  <2>1. CASE Calls!Reply \/ Calls!Emit
    <3>1. PICK m \in CallMessage : Calls!StartSend(Server, m, ~blocking)
      BY <2>1 DEF Calls!Reply, Calls!Emit, Calls!ReceiveMsg, CallMessage
    <3>2. /\ kPpc' = [kPpc EXCEPT ![Server] = "read"] /\ kMsg' = [kMsg EXCEPT ![Server] = m]
          /\ kMay' = [kMay EXCEPT ![Server] = ~blocking]
          /\ UNCHANGED <<kHead, kEfd, kLastHead, kSent>>
      BY <3>1 DEF Calls!StartSend, Calls!queueVars
    <3>3. UNCHANGED sem /\ requested' \in BOOLEAN
      BY <1>1, <2>1 DEF Calls!Reply, Calls!Emit, Calls!clientVars
    <3>4. (~blocking) \in BOOLEAN
      OBVIOUS
    <3> QED
      BY <1>1, <3>2, <3>3, <3>4 DEF HasMessage
  <2>2. CASE Calls!Sending
    <3>1. UNCHANGED <<sem, requested>>
      BY <2>2 DEF Calls!Sending, Calls!clientVars
    <3>2. CASE Calls!ReadHead(Server)
      <4>1. /\ kPpc[Server] = "read" /\ kPpc' = [kPpc EXCEPT ![Server] = "swap"]
            /\ kLastHead' = [kLastHead EXCEPT ![Server] = kHead] /\ UNCHANGED <<kHead, kEfd, kMsg, kMay, kSent>>
        BY <3>2 DEF Calls!ReadHead, Calls!queueVars
      <4> QED
        BY <1>1, <3>1, <4>1 DEF HasMessage, CallsInv
    <3>3. CASE Calls!SwapHead(Server, "notify") /\ kHead = kLastHead[Server]
      <4>1. /\ kPpc[Server] = "swap" /\ kHead' = <<kMsg[Server]>> \o kHead /\ kSent' = kSent \cup {kMsg[Server]}
            /\ \E after \in {"wake", "notify"} : kPpc' = [kPpc EXCEPT ![Server] = after]
            /\ UNCHANGED <<kEfd, kMsg, kMay, kLastHead>>
        BY <3>3 DEF Calls!SwapHead
      <4>2. kMsg[Server] \in CallMessage
        BY <4>1 DEF HasMessage, CallsInv
      <4>3. <<kMsg[Server]>> \o kHead \in Seq(CallMessage)
        BY <1>1, <4>2, ConcatProperties
      <4> QED
        BY <1>1, <3>1, <4>1, <4>2, <4>3 DEF HasMessage
    <3>4. CASE Calls!SwapHead(Server, "notify") /\ kHead # kLastHead[Server]
      <4>1. /\ kPpc[Server] = "swap" /\ kPpc' = [kPpc EXCEPT ![Server] = "read"]
            /\ UNCHANGED <<kHead, kSent, kEfd, kMsg, kMay, kLastHead>>
        BY <3>4 DEF Calls!SwapHead
      <4> QED
        BY <1>1, <3>1, <4>1 DEF HasMessage, CallsInv
    <3>5. CASE Calls!WakeUp(Server, "notify")
      <4>1. /\ kPpc' = [kPpc EXCEPT ![Server] = "notify"] /\ kEfd' = TRUE
            /\ UNCHANGED <<kHead, kSent, kMsg, kMay, kLastHead>>
        BY <3>5 DEF Calls!WakeUp, Calls!queueVars
      <4> QED
        BY <1>1, <3>1, <4>1 DEF HasMessage
    <3> QED
      BY <2>2, <3>2, <3>3, <3>4, <3>5 DEF Calls!Sending, Calls!SendStep
  <2>3. CASE Calls!NotifyForResult
    <3>1. /\ \E after \in {"post", "out"} : kPpc' = [kPpc EXCEPT ![Server] = after]
          /\ UNCHANGED <<kHead, kEfd, kMsg, kMay, kLastHead, kSent, sem, requested>>
      BY <2>3 DEF Calls!NotifyForResult, Calls!queueVars, Calls!clientVars
    <3> QED
      BY <1>1, <3>1 DEF HasMessage
  <2>4. CASE Calls!SemPost
    <3>1. /\ kPpc' = [kPpc EXCEPT ![Server] = "out"] /\ sem' = sem + 1
          /\ UNCHANGED <<kHead, kEfd, kMsg, kMay, kLastHead, kSent, requested>>
      BY <2>4 DEF Calls!SemPost, Calls!queueVars
    <3> QED
      BY <1>1, <3>1 DEF HasMessage
  <2> QED
    BY <2>1, <2>2, <2>3, <2>4
<1>4. Calls!TypeOK'
  BY <1>2, <1>3 DEF CallsInv, Calls!TypeOK, Calls!ChannelTypeOK, CallMessage
<1>5. InsideGet' /\ Calls!EventsInOrder' /\ Drained'
  BY <1>2 DEF CallsInv, InsideGet, Calls!EventsInOrder, Calls!InHand, Calls!At, Drained
<1>6. OneAnswer'
  BY ServerAnswers
<1> QED
  BY <1>3, <1>4, <1>5, <1>6 DEF CallsInv

(* get_msg() is called, or goes on. *)
LEMMA GetsKeep ==
  ASSUME ThreadsAssumption, CallsInv, Calls!FetchResult \/ Calls!InGetMsg
                            \/ (Calls!Pending /\ eventQueue = <<>>) \/ (Calls!Dispatch /\ eventQueue = <<>>)
  PROVE  CallsInv'
<1>1. /\ UNCHANGED <<blocking, sem, eventQueue, requested, back, dispatched>>
      /\ (\E o \in {"PEEK", "POP"} : Calls!StartGet(o)) \/ Calls!GetStep
  BY DEF Calls!FetchResult, Calls!InGetMsg, Calls!Pending, Calls!Dispatch, Calls!clientVars
<1>2. /\ InsideGet /\ Calls!TypeOK /\ Drained
      /\ kpc \in {"app", "ready", "post", "fetch", "fetched", "block", "peeked", "poll", "popped"}
  BY DEF CallsInv, Calls!TypeOK
<1>3. \/ kpc = "fetch" /\ kpc' = "fetched" /\ kOp' = "POP" /\ kCpc = "out"
      \/ kpc \in {"fetched", "popped", "peeked"} /\ kpc' = kpc /\ kOp' = kOp /\ kCpc # "out"
      \/ kpc = "app" /\ kpc' = "peeked" /\ kOp' = "PEEK" /\ kCpc = "out"
      \/ kpc = "ready" /\ kpc' = "popped" /\ kOp' = "POP" /\ kCpc = "out" /\ eventQueue = <<>>
  <2>1. CASE Calls!FetchResult
    BY <2>1 DEF Calls!FetchResult, Calls!At, Calls!Goto, Calls!StartGet
  <2>2. CASE Calls!InGetMsg
    BY <1>2, <2>2 DEF Calls!InGetMsg, Calls!GetStep, Calls!PopLocal, Calls!PopRead,
       Calls!PopTake, Calls!Flush, Calls!PollIn,
       InsideGet, Calls!clientVars
  <2>3. CASE Calls!Pending /\ eventQueue = <<>>
    BY <2>3 DEF Calls!Pending, Calls!At, Calls!Goto, Calls!StartGet
  <2>4. CASE Calls!Dispatch /\ eventQueue = <<>>
    BY <2>4 DEF Calls!Dispatch, Calls!At, Calls!Goto, Calls!StartGet
  <2> QED
    BY <2>1, <2>2, <2>3, <2>4
<1>4. /\ kpc' \in {"fetched", "popped", "peeked"}
      /\ IF kpc' = "peeked" THEN kOp' = "PEEK" ELSE kOp' = "POP"
      /\ kpc' = "popped" => eventQueue = <<>>
      /\ kpc' = "fetched" => InCall
      /\ InCall => kpc' = "fetched"
      /\ ~Answered /\ Calls!InHand = <<>>
  BY <1>2, <1>3 DEF InsideGet, InCall, Answered, Calls!InHand, Calls!At
<1>5. /\ Calls!ChannelTypeOK' /\ kPpc' = kPpc /\ kMsg' = kMsg
      /\ \/ kCpc' # "out" /\ kReceived' = kReceived
         \/ kCpc' = "out" /\ kReceived' = kReceived /\ (kOp' = "PEEK" \/ kResult' = NoMsg)
         \/ kCpc' = "out" /\ kOp' # "PEEK" /\ kResult' \in CallMessage /\ kReceived' = Append(kReceived, kResult')
  BY <1>1, GetLeads
<1>6. /\ Drained'
      /\ \/ (kCpc' # "out" \/ kOp' = "PEEK" \/ kResult' = NoMsg) /\ Calls!Contents' = Calls!Contents
         \/ /\ kCpc' = "out" /\ kOp' # "PEEK" /\ kResult' \in CallMessage
            /\ Calls!Contents' \in Seq(CallMessage) /\ Calls!Contents = <<kResult'>> \o Calls!Contents'
  BY <1>1, GetTakes
<1>7. OneAnswer'
  BY <1>1, <1>4, <1>5, <1>6, GetAnswers
<1>8. Calls!TypeOK'
  BY <1>1, <1>2, <1>4, <1>5 DEF Calls!TypeOK
<1> QED
  BY <1>1, <1>4, <1>5, <1>6, <1>7, <1>8, GetKeeps

(* Outside of get_msg() the client leaves the channel alone. *)
LEMMA OutsideKeeps ==
  ASSUME ThreadsAssumption, CallsInv, UNCHANGED Calls!channelVars, kCpc = "out",
         kpc' \in {"app", "ready", "post", "fetch", "block", "poll"},
         blocking' \in BOOLEAN, sem' \in Nat, eventQueue' \in Seq(Events), requested' \in BOOLEAN,
         back' \in {"app", "ready"}, dispatched' \in Seq(Events),
         requested' \/ Replying \/ Answers # <<>> => InCall',
         requested' => ~Replying /\ Answers = <<>>,
         dispatched' \o eventQueue' = (dispatched \o eventQueue) \o Calls!InHand
  PROVE  CallsInv'
<1>1. UNCHANGED <<kHead, kLocal, kLast, kEfd, kPpc, kMsg, kMay, kLastHead, kCpc, kOp, kRetry, kNode, kResult, kSent, kReceived>>
  BY DEF Calls!channelVars, Calls!queueVars, Calls!producerVars, Calls!consumerVars
<1>2. HasMessage' /\ Drained' /\ (Replying' <=> Replying)
  BY <1>1 DEF CallsInv, HasMessage, Drained, Replying
<1>3. Answers' = Answers
  BY <1>1 DEF Answers, Calls!Contents
<1>4. InsideGet' /\ ~Answered' /\ Calls!InHand' = <<>>
  BY <1>1 DEF InsideGet, Answered, Calls!InHand, Calls!At
<1>5. Calls!TypeOK'
  BY <1>1 DEF CallsInv, Calls!TypeOK, Calls!ChannelTypeOK
<1>6. OneAnswer'
  BY <1>2, <1>3, <1>4 DEF CallsInv, OneAnswer
<1>7. Calls!EventsInOrder'
  <2>1. dispatched' \o eventQueue' \in Seq(Events)
    BY ConcatProperties
  <2>2. (dispatched' \o eventQueue') \o <<>> = dispatched' \o eventQueue'
    BY <2>1, ConcatEmptySeq
  <2> QED
    BY <1>1, <1>4, <2>2 DEF CallsInv, Calls!EventsInOrder, Calls!Without
<1> QED
  BY <1>2, <1>4, <1>5, <1>6, <1>7 DEF CallsInv

(* The other steps of the client. *)
LEMMA ClientKeeps ==
  ASSUME ThreadsAssumption, CallsInv,
         \/ Calls!StartCall \/ Calls!PostCall \/ Calls!Fetched \/ Calls!BlockForResult
         \/ (Calls!Pending /\ eventQueue # <<>>) \/ Calls!Peeked \/ Calls!LoopWakes
         \/ (Calls!Dispatch /\ eventQueue # <<>>) \/ Calls!Popped
  PROVE  CallsInv'
<1>1. /\ blocking \in BOOLEAN /\ sem \in Nat /\ eventQueue \in Seq(Events) /\ requested \in BOOLEAN
      /\ back \in {"app", "ready"} /\ dispatched \in Seq(Events) /\ kResult \in CallMessage \cup {NoMsg}
      /\ InsideGet /\ OneAnswer /\ CallMessage = Results \cup Events /\ Results \cap Events = {} /\ NoMsg \notin CallMessage
  BY DEF CallsInv, Calls!TypeOK, Calls!ChannelTypeOK, CallMessage, ThreadsAssumption,
     Calls!ClientAssumption
<1>2. UNCHANGED Calls!channelVars
  BY DEF Calls!StartCall, Calls!PostCall, Calls!Fetched, Calls!BlockForResult, Calls!Pending,
     Calls!Peeked, Calls!LoopWakes,
     Calls!Dispatch, Calls!Popped
<1> DEFINE both == dispatched \o eventQueue
<1>3. both \in Seq(Events) /\ both \o <<>> = both
  BY <1>1, ConcatProperties, ConcatEmptySeq
<1> HIDE DEF both
<1>4. CASE Calls!StartCall
  <2>1. /\ kpc \in {"app", "ready"} /\ kCpc = "out" /\ kpc' = "post" /\ blocking' = TRUE /\ back' = kpc
        /\ UNCHANGED <<sem, eventQueue, requested, dispatched>>
    BY <1>4 DEF Calls!StartCall, Calls!At, Calls!Goto
  <2>2. ~InCall /\ Calls!InHand = <<>>
    BY <2>1 DEF InCall, Calls!InHand, Calls!At
  <2>3. ~requested /\ ~Replying /\ Answers = <<>>
    BY <1>1, <2>2 DEF OneAnswer
  <2> QED
    BY <1>1, <1>2, <1>3, <2>1, <2>2, <2>3, OutsideKeeps DEF both
<1>5. CASE Calls!PostCall
  <2>1. /\ kpc = "post" /\ kCpc = "out" /\ kpc' = "fetch" /\ requested' = TRUE
        /\ UNCHANGED <<blocking, sem, eventQueue, back, dispatched>>
    BY <1>5 DEF Calls!PostCall, Calls!At, Calls!Goto
  <2>2. ~InCall /\ Calls!InHand = <<>> /\ InCall'
    BY <2>1 DEF InCall, Calls!InHand, Calls!At
  <2>3. ~requested /\ ~Replying /\ Answers = <<>>
    BY <1>1, <2>2 DEF OneAnswer
  <2> QED
    BY <1>1, <1>2, <1>3, <2>1, <2>2, <2>3, OutsideKeeps DEF both
<1>6. CASE Calls!Fetched
  <2>1. /\ kpc = "fetched" /\ kCpc = "out" /\ UNCHANGED <<sem, requested, back, dispatched>>
        /\ \/ kResult = NoMsg /\ kpc' = "block" /\ UNCHANGED <<blocking, eventQueue>>
           \/ kResult \in Events /\ eventQueue' = Append(eventQueue, kResult) /\ kpc' = "fetch" /\ UNCHANGED blocking
           \/ kResult \in Results /\ blocking' = FALSE /\ kpc' = back /\ UNCHANGED eventQueue
    BY <1>6 DEF Calls!Fetched, Calls!At, Calls!Goto
  <2>2. CASE kResult = NoMsg
    <3>1. kpc' = "block" /\ UNCHANGED <<blocking, eventQueue>> /\ InCall' /\ Calls!InHand = <<>>
      BY <1>1, <2>1, <2>2 DEF InCall, Calls!InHand, Calls!At
    <3>2. requested => ~Replying /\ Answers = <<>>
      BY <1>1 DEF OneAnswer
    <3> QED
      BY <1>1, <1>2, <1>3, <2>1, <3>1, <3>2, OutsideKeeps DEF both
  <2>3. CASE kResult \in Events
    <3>1. kpc' = "fetch" /\ blocking' = blocking /\ eventQueue' = Append(eventQueue, kResult)
      BY <1>1, <2>1, <2>3
    <3>2. InCall' /\ Calls!InHand = <<kResult>>
      BY <2>1, <2>3, <3>1 DEF InCall, Calls!InHand, Calls!At
    <3>3. requested => ~Replying /\ Answers = <<>>
      BY <1>1 DEF OneAnswer
    <3>4. dispatched \o Append(eventQueue, kResult) = Append(both, kResult) /\ both \o <<kResult>> = Append(both, kResult)
      BY <1>1, <1>3, <2>3, ConcatAppend, AppendIsConcat DEF both
    <3>5. eventQueue' \in Seq(Events)
      BY <1>1, <2>3, <3>1, AppendProperties
    <3> QED
      BY <1>1, <1>2, <2>1, <3>1, <3>2, <3>3, <3>4, <3>5, OutsideKeeps DEF both
  <2>4. CASE kResult \in Results
    <3>1. kpc' = back /\ blocking' = FALSE /\ eventQueue' = eventQueue
      BY <1>1, <2>1, <2>4
    <3>2. Calls!InHand = <<>> /\ Answered
      BY <1>1, <2>1, <2>4 DEF Calls!InHand, Answered
    <3>3. ~requested /\ ~Replying /\ Answers = <<>>
      BY <1>1, <3>2 DEF OneAnswer
    <3> QED
      BY <1>1, <1>2, <1>3, <2>1, <3>1, <3>2, <3>3, OutsideKeeps DEF both
  <2> QED
    BY <1>1, <2>2, <2>3, <2>4
<1>7. CASE Calls!BlockForResult
  <2>1. /\ kpc = "block" /\ kCpc = "out" /\ kpc' = "fetch" /\ sem > 0 /\ sem' = sem - 1
        /\ UNCHANGED <<blocking, eventQueue, requested, back, dispatched>>
    BY <1>7 DEF Calls!BlockForResult, Calls!At, Calls!Goto
  <2>2. InCall' /\ Calls!InHand = <<>> /\ sem' \in Nat
    BY <1>1, <2>1 DEF InCall, Calls!InHand, Calls!At
  <2>3. requested => ~Replying /\ Answers = <<>>
    BY <1>1 DEF OneAnswer
  <2> QED
    BY <1>1, <1>2, <1>3, <2>1, <2>2, <2>3, OutsideKeeps DEF both
<1>8. CASE (Calls!Pending /\ eventQueue # <<>>) \/ Calls!Peeked \/ Calls!LoopWakes
  <2>1. /\ kpc \in {"app", "peeked", "poll"} /\ kCpc = "out" /\ kpc' \in {"ready", "poll", "app"}
        /\ UNCHANGED <<blocking, sem, eventQueue, requested, back, dispatched>>
    BY <1>8 DEF Calls!Pending, Calls!Peeked, Calls!LoopWakes, Calls!At, Calls!Goto
  <2>2. ~InCall /\ Calls!InHand = <<>>
    BY <2>1 DEF InCall, Calls!InHand, Calls!At
  <2>3. ~requested /\ ~Replying /\ Answers = <<>>
    BY <1>1, <2>2 DEF OneAnswer
  <2> QED
    BY <1>1, <1>2, <1>3, <2>1, <2>2, <2>3, OutsideKeeps DEF both
<1>9. CASE Calls!Dispatch /\ eventQueue # <<>>
  <2> DEFINE m == Head(eventQueue)
             t == Tail(eventQueue)
  <2>1. /\ kpc = "ready" /\ kCpc = "out" /\ kpc' = "app" /\ dispatched' = Append(dispatched, m) /\ eventQueue' = t
        /\ UNCHANGED <<blocking, sem, requested, back>>
    BY <1>9 DEF Calls!Dispatch, Calls!Handle, Calls!At, Calls!Goto
  <2>2. ~InCall /\ Calls!InHand = <<>>
    BY <2>1 DEF InCall, Calls!InHand, Calls!At
  <2>3. ~requested /\ ~Replying /\ Answers = <<>>
    BY <1>1, <2>2 DEF OneAnswer
  <2>4. m \in Events /\ t \in Seq(Events) /\ <<m>> \o t = eventQueue
    BY <1>1, <1>9, HeadThenTail
  <2> HIDE DEF m, t
  <2>5. Append(dispatched, m) \o t = both /\ Append(dispatched, m) \in Seq(Events)
    <3> DEFINE one == <<m>>
    <3>1. one \in Seq(Events) /\ Append(dispatched, m) = dispatched \o one /\ Append(dispatched, m) \in Seq(Events)
      BY <1>1, <2>4, AppendIsConcat, AppendProperties
    <3>2. one \o t = eventQueue
      BY <2>4
    <3> HIDE DEF one
    <3>3. dispatched \in Seq(Events) /\ t \in Seq(Events) /\ one \in Seq(Events)
      BY <1>1, <2>4, <3>1
    <3>4. (dispatched \o one) \o t = dispatched \o (one \o t)
      BY <3>3, ConcatAssociative
    <3> QED
      BY <3>1, <3>2, <3>4 DEF both
  <2> QED
    BY <1>1, <1>2, <1>3, <2>1, <2>2, <2>3, <2>4, <2>5, OutsideKeeps DEF both
<1>10. CASE Calls!Popped
  <2>1. /\ kpc = "popped" /\ kCpc = "out" /\ kpc' = "app" /\ UNCHANGED <<blocking, sem, eventQueue, requested, back>>
        /\ dispatched' = IF kResult = NoMsg THEN dispatched ELSE Append(dispatched, kResult)
    BY <1>10 DEF Calls!Popped, Calls!Handle, Calls!At, Calls!Goto
  <2>2. eventQueue = <<>> /\ kResult \notin Results /\ ~InCall
    BY <1>1, <2>1 DEF InsideGet, OneAnswer, InCall
  <2>3. ~requested /\ ~Replying /\ Answers = <<>>
    BY <1>1, <2>2 DEF OneAnswer
  <2>4. Calls!InHand = IF kResult = NoMsg THEN <<>> ELSE <<kResult>>
    BY <1>1, <2>1, <2>2 DEF Calls!InHand, Calls!At
  <2>5. both = dispatched
    BY <1>1, <2>2, ConcatEmptySeq DEF both
  <2>6. dispatched' \in Seq(Events) /\ dispatched' \o eventQueue' = both \o Calls!InHand
    <3>1. CASE kResult = NoMsg
      BY <1>1, <1>3, <2>1, <2>4, <3>1 DEF both
    <3>2. CASE kResult # NoMsg
      <4>1. kResult \in Events
        BY <1>1, <2>2, <3>2
      <4> DEFINE more == Append(dispatched, kResult)
      <4>2. more \in Seq(Events) /\ more = dispatched \o <<kResult>>
        BY <1>1, <4>1, AppendProperties, AppendIsConcat
      <4>3. dispatched' = more
        BY <2>1, <3>2
      <4> HIDE DEF more
      <4>4. more \o <<>> = more
        BY <4>2, ConcatEmptySeq
      <4> QED
        BY <2>1, <2>2, <2>4, <2>5, <3>2, <4>2, <4>3, <4>4
    <3> QED
      BY <3>1, <3>2
  <2> QED
    BY <1>1, <1>2, <2>1, <2>3, <2>6, OutsideKeeps DEF both
<1> QED
  BY <1>4, <1>5, <1>6, <1>7, <1>8, <1>9, <1>10

(* ClientCalls: the client runs the handlers of events in the order in which the
   server emitted them, though calls that wait for answers take events aside. *)
THEOREM CallsInOrder == ASSUME ThreadsAssumption PROVE Calls!Spec => []Calls!EventsInOrder
<1>1. Calls!Init => CallsInv
  <2> SUFFICES ASSUME Calls!Init PROVE CallsInv
    OBVIOUS
  <2>1. /\ kHead = <<>> /\ kLocal = <<>> /\ kLast = NoMsg /\ kEfd = FALSE /\ kPpc = [p \in {Server} |-> "out"]
        /\ kMsg = [p \in {Server} |-> NoMsg] /\ kMay = [p \in {Server} |-> TRUE] /\ kLastHead = [p \in {Server} |-> <<>>]
        /\ kCpc = "out" /\ kOp = "POP" /\ kRetry = FALSE /\ kNode = <<>> /\ kResult = NoMsg /\ kSent = {} /\ kReceived = <<>>
        /\ blocking = FALSE /\ sem = 0 /\ eventQueue = <<>> /\ requested = FALSE /\ kpc = "app" /\ back = "app"
        /\ dispatched = <<>>
    BY DEF Calls!Init, Calls!ChannelInit
  <2>2. Calls!TypeOK
    <3>1. <<>> \in Seq(Results \cup Events) /\ <<>> \in Seq(Events)
      BY EmptySeq
    <3>2. Calls!ChannelTypeOK
      BY <2>1, <3>1 DEF Calls!ChannelTypeOK, Calls!Op
    <3> QED
      BY <2>1, <3>1, <3>2 DEF Calls!TypeOK
  <2>3. Calls!Contents = <<>>
    <3> DEFINE none == <<>>
    <3>1. none \in Seq(CallMessage) /\ none \o none = none /\ Len(none) = 0
      BY EmptySeq, ConcatEmptySeq
    <3>2. Reverse(none) \in Seq(CallMessage) /\ Len(Reverse(none)) = 0
      <4> HIDE DEF none
      <4> QED
        BY <3>1, ReverseProperties
    <3>4. Reverse(none) = none
      BY <3>2, EmptySeq
    <3>3. Calls!Contents = (none \o none) \o Reverse(none)
      BY <2>1, ContentsHeld DEF Messages
    <3> QED
      BY <3>1, <3>3, <3>4
  <2>4. Answers = <<>>
    BY <2>3, WithoutEmpty DEF Answers
  <2>5. OneAnswer /\ Drained /\ InsideGet /\ HasMessage
    BY <2>1, <2>4 DEF OneAnswer, Drained, InsideGet, HasMessage, Replying, Answered
  <2>6. Calls!EventsInOrder
    <3>1. Calls!InHand = <<>> /\ Calls!Without(kReceived, Results) = <<>>
      BY <2>1, WithoutEmpty DEF Calls!InHand, Calls!At, Calls!Without, Without
    <3> QED
      BY <2>1, <3>1 DEF Calls!EventsInOrder
  <2> QED
    BY <2>2, <2>5, <2>6 DEF CallsInv
<1>2. CallsInv /\ [Calls!Next]_(Calls!vars) => CallsInv'
  <2> SUFFICES ASSUME CallsInv, [Calls!Next]_(Calls!vars) PROVE CallsInv'
    OBVIOUS
  <2>1. CASE UNCHANGED Calls!vars
    <3>1. UNCHANGED callVars
      BY <2>1 DEF Calls!vars, Calls!channelVars, Calls!queueVars, Calls!producerVars,
         Calls!consumerVars, Calls!clientVars,
         callVars
    <3>2. Calls!Contents' = Calls!Contents
      BY <3>1 DEF Calls!Contents, callVars
    <3>3. OneAnswer'
      BY <3>1, <3>2 DEF CallsInv, OneAnswer, Answers, Answered, Replying, InCall, callVars
    <3>4. Calls!TypeOK' /\ InsideGet' /\ HasMessage' /\ Drained'
      BY <3>1 DEF CallsInv, Calls!TypeOK, Calls!ChannelTypeOK, InsideGet, HasMessage, Drained,
         callVars
    <3>5. Calls!EventsInOrder'
      BY <3>1 DEF CallsInv, Calls!EventsInOrder, Calls!InHand, Calls!At, callVars
    <3> QED
      BY <3>3, <3>4, <3>5 DEF CallsInv
  <2>2. CASE Calls!Next
    BY <2>2, GetsKeep, ClientKeeps, ServerSends DEF Calls!Next, Calls!Calling, Calls!Looping,
       Calls!Serving
  <2> QED
    BY <2>1, <2>2
<1>3. CallsInv => Calls!EventsInOrder
  BY DEF CallsInv
<1> QED
  BY <1>1, <1>2, <1>3, PTL DEF Calls!Spec

-----------------------------------------------------------------------------
(* The channel of a server connection.                                       *)

(* The initial state satisfies the inductive invariant. *)
LEMMA InitInv == ChannelInit => IInv
<1> SUFFICES ASSUME ChannelInit PROVE IInv
  OBVIOUS
<1>1. <<>> \in Seq(Message)
  BY EmptySeq
<1>2. ChannelTypeOK
  BY <1>1 DEF ChannelInit, ChannelTypeOK, Op
<1>3. ppc \in [Producer -> {"out", "read", "swap", "wake"}]
  BY DEF ChannelInit
<1>4. WakeupsAllowed /\ DrainOrder /\ FreshMessages /\ SleepsOnEmpty
  BY DEF ChannelInit, WakeupsAllowed, DrainOrder, FreshMessages, Unsent,
         SleepsOnEmpty, Asleep, LoopWaits
<1> QED
  BY <1>2, <1>3, <1>4 DEF IInv, TypeOK

(* send_msg() keeps the invariant: a message that ends the emptiness of the  *)
(* queue is followed by a wakeup.                                            *)
LEMMA ProducerInv ==
  ASSUME IInv, NEW p \in Producer, Producing(p)
  PROVE  IInv'
<1> USE DEF IInv
<1>1. CASE \E m \in Message : ReceiveMsg(p, m)
  <2>1. PICK m \in Message : ReceiveMsg(p, m)
    BY <1>1
  <2>2. /\ ppc[p] = "out" /\ m \notin sent
        /\ \A q \in Producer : ppc[q] # "out" => pmsg[q] # m
        /\ ppc' = [ppc EXCEPT ![p] = "read"] /\ pmsg' = [pmsg EXCEPT ![p] = m]
        /\ may' = [may EXCEPT ![p] = TRUE]
        /\ UNCHANGED <<head, local, efd, last_head, sent>>
        /\ UNCHANGED consumerVars
    BY <2>1 DEF ReceiveMsg, StartSend, queueVars
  <2>3. TypeOK' /\ WakeupsAllowed'
    BY <2>2 DEF TypeOK, ChannelTypeOK, WakeupsAllowed, consumerVars
  <2>4. DrainOrder' /\ SleepsOnEmpty'
    BY <2>2 DEF DrainOrder, SleepsOnEmpty, Asleep, LoopWaits, consumerVars, TypeOK
  <2>5. FreshMessages'
    BY <2>2 DEF FreshMessages, Unsent, TypeOK, ChannelTypeOK
  <2> QED
    BY <2>3, <2>4, <2>5
<1>2. CASE ReadHead(p)
  <2>1. /\ ppc[p] = "read"
        /\ ppc' = [ppc EXCEPT ![p] = "swap"]
        /\ last_head' = [last_head EXCEPT ![p] = head]
        /\ UNCHANGED <<head, local, efd, pmsg, may, sent>>
        /\ UNCHANGED consumerVars
    BY <1>2 DEF ReadHead, queueVars
  <2>2. TypeOK' /\ WakeupsAllowed'
    BY <2>1 DEF TypeOK, ChannelTypeOK, WakeupsAllowed, consumerVars
  <2>3. DrainOrder' /\ SleepsOnEmpty'
    BY <2>1 DEF DrainOrder, SleepsOnEmpty, Asleep, LoopWaits, consumerVars, TypeOK
  <2>4. FreshMessages'
    BY <2>1 DEF FreshMessages, Unsent, TypeOK
  <2> QED
    BY <2>2, <2>3, <2>4
<1>3. CASE SwapHead(p, "out") /\ head = last_head[p]
  <2>1. /\ ppc[p] = "swap"
        /\ head' = <<pmsg[p]>> \o head /\ sent' = sent \cup {pmsg[p]}
        /\ ppc' = [ppc EXCEPT ![p] = IF may[p] /\ last_head[p] = <<>> THEN "wake" ELSE "out"]
        /\ UNCHANGED <<local, efd, pmsg, may, last_head>>
        /\ UNCHANGED consumerVars
    BY <1>3 DEF SwapHead, MustWakeup
  <2>2. pmsg[p] \in Message \ sent
    BY <2>1 DEF FreshMessages, Unsent
  <2>3. head' \in Seq(Message)
    <3>1. <<pmsg[p]>> \in Seq(Message)
      BY <2>2
    <3> QED
      BY <2>1, <3>1, ConcatProperties DEF TypeOK, ChannelTypeOK
  <2>4. TypeOK' /\ WakeupsAllowed'
    BY <2>1, <2>2, <2>3 DEF TypeOK, ChannelTypeOK, WakeupsAllowed, consumerVars
  <2>5. DrainOrder'
    BY <2>1 DEF DrainOrder, consumerVars
  <2>6. SleepsOnEmpty'
    <3>1. head = <<>> => ppc'[p] = "wake"
      BY <1>3, <2>1 DEF WakeupsAllowed, TypeOK
    <3>2. \A q \in Producer : ppc[q] = "wake" => ppc'[q] = "wake"
      BY <2>1 DEF TypeOK
    <3> QED
      BY <2>1, <3>1, <3>2 DEF SleepsOnEmpty, Asleep, LoopWaits, consumerVars
  <2>7. FreshMessages'
    <3>1. ~Unsent(p)'
      BY <2>1 DEF Unsent, TypeOK
    <3>2. \A q \in Producer : Unsent(q)' => q # p /\ Unsent(q)
      BY <2>1, <3>1 DEF Unsent, TypeOK
    <3>3. \A q \in Producer : Unsent(q)' => pmsg[q] # pmsg[p]
      BY <2>1, <3>2 DEF FreshMessages, Unsent
    <3> QED
      BY <2>1, <3>2, <3>3 DEF FreshMessages
  <2> QED
    BY <2>4, <2>5, <2>6, <2>7
<1>4. CASE SwapHead(p, "out") /\ head # last_head[p]
  <2>1. /\ ppc[p] = "swap"
        /\ ppc' = [ppc EXCEPT ![p] = "read"]
        /\ UNCHANGED <<head, local, efd, pmsg, may, last_head, sent>>
        /\ UNCHANGED consumerVars
    BY <1>4 DEF SwapHead
  <2>2. TypeOK' /\ WakeupsAllowed'
    BY <2>1 DEF TypeOK, ChannelTypeOK, WakeupsAllowed, consumerVars
  <2>3. DrainOrder' /\ SleepsOnEmpty'
    BY <2>1 DEF DrainOrder, SleepsOnEmpty, Asleep, LoopWaits, consumerVars, TypeOK
  <2>4. FreshMessages'
    BY <2>1 DEF FreshMessages, Unsent, TypeOK
  <2> QED
    BY <2>2, <2>3, <2>4
<1>5. CASE WakeUp(p, "out")
  <2>1. /\ ppc[p] = "wake"
        /\ efd' = TRUE /\ ppc' = [ppc EXCEPT ![p] = "out"]
        /\ UNCHANGED <<head, local, pmsg, may, last_head, sent>>
        /\ UNCHANGED consumerVars
    BY <1>5 DEF WakeUp, queueVars
  <2>2. TypeOK' /\ WakeupsAllowed'
    BY <2>1 DEF TypeOK, ChannelTypeOK, WakeupsAllowed, consumerVars
  <2>3. DrainOrder' /\ SleepsOnEmpty'
    BY <2>1 DEF DrainOrder, SleepsOnEmpty, Asleep, LoopWaits, consumerVars
  <2>4. FreshMessages'
    BY <2>1 DEF FreshMessages, Unsent, TypeOK
  <2> QED
    BY <2>2, <2>3, <2>4
<1> QED
  BY <1>1, <1>2, <1>3, <1>4, <1>5 DEF Producing, SendStep
(* get_msg() returns a message: types, and the consumer stays awake. *)
LEMMA ReturnInv ==
  ASSUME IInv, NEW o \in Op, NEW m \in Message, Return(o, m), op' = o
  PROVE  /\ last_fb' \in Message \cup {NoMsg}
         /\ result' = m
         /\ received' \in Seq(Message)
         /\ cpc' = "out"
         /\ ~Asleep'
<1> USE DEF Return
<1>1. received' \in Seq(Message)
  <2>1. received \in Seq(Message)
    BY DEF IInv, TypeOK, ChannelTypeOK
  <2> QED
    BY <2>1, AppendProperties
<1>2. m # NoMsg
  BY ChannelAssumption
<1> QED
  BY <1>1, <1>2 DEF Asleep, LoopWaits

(* An action of the consumer leaves the producers alone. *)
LEMMA ConsumerFrame ==
  ASSUME IInv, UNCHANGED producerVars, UNCHANGED sent
  PROVE  /\ WakeupsAllowed' /\ FreshMessages'
         /\ ppc' \in [Producer -> {"out", "read", "swap", "wake"}]
         /\ pmsg' \in [Producer -> Message \cup {NoMsg}]
         /\ may' \in [Producer -> BOOLEAN]
         /\ last_head' \in [Producer -> Seq(Message)]
         /\ sent' \subseteq Message
<1>1. ppc' = ppc /\ pmsg' = pmsg /\ may' = may /\ last_head' = last_head /\ sent' = sent
  BY DEF producerVars
<1> QED
  BY <1>1 DEF IInv, TypeOK, ChannelTypeOK, WakeupsAllowed, FreshMessages, Unsent

(* get_msg() keeps the invariant: the consumer only falls asleep on a queue  *)
(* that it found empty after the last flush.                                 *)
LEMMA ConsumerInv ==
  ASSUME IInv, Consuming
  PROVE  IInv'
<1> USE DEF IInv
<1>0. /\ UNCHANGED producerVars /\ UNCHANGED sent
  BY DEF Consuming, Consume, GetStep, StartGet, PopLocal, PopRead, PopTake, Flush, PollIn
<1>1. CASE \E o \in Op : Consume(o)
  <2>1. PICK o \in Op : StartGet(o)
    BY <1>1 DEF Consume
  <2>2. /\ cpc = "out" /\ op' = o /\ retry' = FALSE
        /\ UNCHANGED <<head, local, efd, node>>
    BY <2>1 DEF StartGet, queueVars
  <2>3. CASE last_fb # NoMsg
    <3>1. Return(o, last_fb) /\ last_fb \in Message
      BY <2>1, <2>3 DEF StartGet, TypeOK, ChannelTypeOK
    <3>2. /\ last_fb' \in Message \cup {NoMsg} /\ result' \in Message \cup {NoMsg}
          /\ received' \in Seq(Message) /\ cpc' = "out" /\ ~Asleep'
      BY <2>2, <3>1, ReturnInv
    <3>3. TypeOK'
      BY <1>0, <2>2, <3>2, ConsumerFrame DEF TypeOK, ChannelTypeOK
    <3>4. DrainOrder' /\ SleepsOnEmpty'
      BY <3>2 DEF DrainOrder, SleepsOnEmpty
    <3> QED
      BY <1>0, <3>3, <3>4, ConsumerFrame
  <2>4. CASE last_fb = NoMsg
    <3>1. cpc' = "pop" /\ UNCHANGED <<result, last_fb, received>>
      BY <2>1, <2>4 DEF StartGet
    <3>2. TypeOK'
      BY <1>0, <2>2, <3>1, ConsumerFrame DEF TypeOK, ChannelTypeOK
    <3>3. DrainOrder' /\ SleepsOnEmpty'
      BY <2>4, <3>1 DEF DrainOrder, SleepsOnEmpty, Asleep
    <3> QED
      BY <1>0, <3>2, <3>3, ConsumerFrame
  <2> QED
    BY <2>3, <2>4
<1>2. CASE PopLocal
  <2>1. /\ cpc = "pop" /\ local # <<>> /\ local' = Tail(local)
        /\ Return(op, Head(local))
        /\ UNCHANGED <<head, efd, op, retry, node>>
    BY <1>2 DEF PopLocal
  <2>2. local \in Seq(Message) /\ op \in Op
    BY DEF TypeOK, ChannelTypeOK
  <2>3. Head(local) \in Message /\ Tail(local) \in Seq(Message)
    BY <2>1, <2>2, HeadTailProperties
  <2>4. /\ last_fb' \in Message \cup {NoMsg} /\ result' \in Message \cup {NoMsg}
        /\ received' \in Seq(Message) /\ cpc' = "out" /\ ~Asleep'
    BY <2>1, <2>2, <2>3, ReturnInv
  <2>5. TypeOK'
    BY <1>0, <2>1, <2>3, <2>4, ConsumerFrame DEF TypeOK, ChannelTypeOK
  <2>6. DrainOrder' /\ SleepsOnEmpty'
    BY <2>4 DEF DrainOrder, SleepsOnEmpty
  <2> QED
    BY <1>0, <2>5, <2>6, ConsumerFrame
<1>3. CASE PopRead
  <2>1. /\ cpc = "pop" /\ local = <<>> /\ node' = head /\ cpc' = "take"
        /\ UNCHANGED <<head, local, efd, op, retry, result, last_fb, received>>
    BY <1>3 DEF PopRead, queueVars
  <2>2. TypeOK'
    BY <1>0, <2>1, ConsumerFrame DEF TypeOK, ChannelTypeOK
  <2>3. DrainOrder' /\ SleepsOnEmpty'
    BY <2>1 DEF DrainOrder, SleepsOnEmpty, Asleep
  <2> QED
    BY <1>0, <2>2, <2>3, ConsumerFrame
<1>4. CASE PopTake
  <2>1. cpc = "take" /\ UNCHANGED <<efd, op, retry, node>>
    BY <1>4 DEF PopTake
  <2>2. local = <<>> /\ last_fb = NoMsg
    BY <2>1 DEF DrainOrder
  <2>3. CASE head # node
    <3>1. cpc' = "pop" /\ UNCHANGED <<head, local, result, last_fb, received>>
      BY <1>4, <2>3 DEF PopTake, queueVars
    <3>2. TypeOK'
      BY <1>0, <2>1, <3>1, ConsumerFrame DEF TypeOK, ChannelTypeOK
    <3>3. DrainOrder' /\ SleepsOnEmpty'
      BY <2>2, <3>1 DEF DrainOrder, SleepsOnEmpty, Asleep
    <3> QED
      BY <1>0, <3>2, <3>3, ConsumerFrame
  <2>4. CASE head = node /\ node # <<>>
    <3>1. /\ head' = <<>> /\ local' = Tail(Reverse(node))
          /\ Return(op, Head(Reverse(node)))
      BY <1>4, <2>4 DEF PopTake
    <3>2. /\ node \in Seq(Message) /\ op \in Op
      BY DEF TypeOK, ChannelTypeOK
    <3>3. Head(Reverse(node)) \in Message /\ Tail(Reverse(node)) \in Seq(Message)
      BY <2>4, <3>2, ReverseProperties, HeadTailProperties
    <3>4. /\ last_fb' \in Message \cup {NoMsg} /\ result' \in Message \cup {NoMsg}
          /\ received' \in Seq(Message) /\ cpc' = "out" /\ ~Asleep'
      BY <2>1, <3>1, <3>2, <3>3, ReturnInv
    <3>5. TypeOK'
      <4>1. head' \in Seq(Message)
        BY <3>1, EmptySeq
      <4> QED
        BY <1>0, <2>1, <3>1, <3>3, <3>4, <4>1, ConsumerFrame DEF TypeOK, ChannelTypeOK
    <3>6. DrainOrder' /\ SleepsOnEmpty'
      BY <3>4 DEF DrainOrder, SleepsOnEmpty
    <3> QED
      BY <1>0, <3>5, <3>6, ConsumerFrame
  <2>5. CASE head = node /\ node = <<>>
    <3>1. NoMessage /\ UNCHANGED <<head, local, last_fb, received>>
      BY <1>4, <2>5 DEF PopTake, queueVars
    <3>2. /\ cpc' \in {"out", "flush", "poll"}
          /\ result' \in {result, NoMsg}
      BY <3>1 DEF NoMessage
    <3>3. TypeOK'
      BY <1>0, <2>1, <3>1, <3>2, ConsumerFrame DEF TypeOK, ChannelTypeOK
    <3>4. DrainOrder' /\ SleepsOnEmpty'
      BY <2>2, <2>5, <3>1, <3>2 DEF DrainOrder, SleepsOnEmpty
    <3> QED
      BY <1>0, <3>3, <3>4, ConsumerFrame
  <2> QED
    BY <2>3, <2>4, <2>5
<1>5. CASE Flush
  <2>1. /\ cpc = "flush" /\ cpc' = "pop" /\ efd' = FALSE /\ retry' = TRUE
        /\ UNCHANGED <<head, local, op, node, result, last_fb, received>>
    BY <1>5 DEF Flush, queueVars
  <2>2. TypeOK'
    BY <1>0, <2>1, ConsumerFrame DEF TypeOK, ChannelTypeOK
  <2>3. DrainOrder' /\ SleepsOnEmpty'
    BY <2>1 DEF DrainOrder, SleepsOnEmpty, Asleep
  <2> QED
    BY <1>0, <2>2, <2>3, ConsumerFrame
<1>6. CASE PollIn
  <2>1. /\ cpc = "poll" /\ cpc' = "pop" /\ retry' = FALSE
        /\ UNCHANGED <<head, local, efd, op, node, result, last_fb, received>>
    BY <1>6 DEF PollIn, queueVars
  <2>2. TypeOK'
    BY <1>0, <2>1, ConsumerFrame DEF TypeOK, ChannelTypeOK
  <2>3. DrainOrder' /\ SleepsOnEmpty'
    BY <2>1 DEF DrainOrder, SleepsOnEmpty, Asleep
  <2> QED
    BY <1>0, <2>2, <2>3, ConsumerFrame
<1> QED
  BY <1>1, <1>2, <1>3, <1>4, <1>5, <1>6 DEF Consuming, GetStep

(* The inductive invariant holds in every behaviour. *)
THEOREM Invariance == Spec => []IInv
<1>1. ChannelInit => IInv
  BY InitInv
<1>2. IInv /\ [Next]_channelVars => IInv'
  <2> SUFFICES ASSUME IInv, [Next]_channelVars PROVE IInv'
    OBVIOUS
  <2>1. CASE UNCHANGED channelVars
    <3>1. UNCHANGED <<head, local, efd, ppc, pmsg, may, last_head, cpc, op, retry,
                      node, result, last_fb, received, sent>>
      BY <2>1 DEF channelVars, queueVars, producerVars, consumerVars
    <3> QED
      BY <3>1 DEF IInv, TypeOK, ChannelTypeOK, WakeupsAllowed, DrainOrder,
                  SleepsOnEmpty, Asleep, LoopWaits, FreshMessages, Unsent
  <2> QED
    BY <2>1, ProducerInv, ConsumerInv DEF Next
<1> QED
  BY <1>1, <1>2, PTL DEF Spec

(* The variables of the channel keep their types. *)
THEOREM TypeCorrect == Spec => []TypeOK
<1>1. IInv => TypeOK
  BY DEF IInv
<1> QED
  BY <1>1, Invariance, PTL

(* get_msg() never leaves a consumer asleep on an unreadable eventfd while a *)
(* message waits that nobody is about to announce.                           *)
THEOREM WakeupsArrive == Spec => []NoLostWakeup
<1>1. IInv => NoLostWakeup
  <2> SUFFICES ASSUME IInv, Asleep, ~efd, \A p \in Producer : ppc[p] # "wake"
               PROVE  Contents = <<>>
    BY DEF NoLostWakeup
  <2>1. last_fb = NoMsg /\ local = <<>> /\ head = <<>>
    BY DEF IInv, SleepsOnEmpty
  <2>2. <<>> \in Seq(Message)
    BY EmptySeq
  <2>3. Reverse(head) = <<>>
    BY <2>1, <2>2, ReverseProperties
  <2> QED
    BY <2>1, <2>2, <2>3, ConcatEmptySeq DEF Contents
<1> QED
  BY <1>1, Invariance, PTL

-----------------------------------------------------------------------------
(* It implements Channel. *)

(* What get_msg() does to the abstract queue when it returns its front. *)
LEMMA ReturnRefines ==
  ASSUME NEW o \in Op, NEW m \in Message, NEW rest \in Seq(Message),
         Return(o, m), UNCHANGED sent, Contents = <<m>> \o rest,
         Contents' = (IF last_fb' = NoMsg THEN <<>> ELSE <<last_fb'>>) \o rest
  PROVE  Fifo!Look \/ Fifo!Receive
<1>1. m # NoMsg
  BY ChannelAssumption
<1>2. Contents # <<>> /\ Head(Contents) = m /\ Tail(Contents) = rest
  BY ConsProperties
<1>3. result' = m
  BY DEF Return
<1>4. CASE o = "PEEK"
  <2>1. last_fb' = m /\ received' = received
    BY <1>4 DEF Return
  <2>2. Contents' = Contents
    BY <1>1, <2>1
  <2> QED
    BY <1>2, <1>3, <2>1, <2>2 DEF Fifo!Look
<1>5. CASE o # "PEEK"
  <2>1. last_fb' = NoMsg /\ received' = Append(received, m)
    BY <1>5 DEF Return
  <2>2. Contents' = rest
    BY <2>1, ConcatEmptySeq
  <2> QED
    BY <1>2, <1>3, <2>1, <2>2 DEF Fifo!Receive
<1> QED
  BY <1>4, <1>5

(* The successful compare-and-swap is the step that sends. *)
LEMMA SendRefines ==
  ASSUME IInv, NEW p \in Producer, Producing(p)
  PROVE  [Fifo!Next]_(Fifo!vars)
<1>1. CASE SwapHead(p, "out") /\ head = last_head[p]
  <2>1. /\ ppc[p] = "swap"
        /\ head' = <<pmsg[p]>> \o head /\ sent' = sent \cup {pmsg[p]}
        /\ UNCHANGED <<local, last_fb, result, received>>
    BY <1>1 DEF SwapHead, consumerVars
  <2>2. pmsg[p] \in Message \ sent
    BY <2>1 DEF IInv, FreshMessages, Unsent
  <2>3. head \in Seq(Message) /\ local \in Seq(Message)
    BY DEF IInv, TypeOK, ChannelTypeOK
  <2> DEFINE front == IF last_fb = NoMsg THEN <<>> ELSE <<last_fb>>
  <2>4. front \in Seq(Message)
    <3>1. last_fb \in Message \cup {NoMsg}
      BY DEF IInv, TypeOK, ChannelTypeOK
    <3> QED
      BY <3>1, EmptySeq
  <2>5. Reverse(head') = Append(Reverse(head), pmsg[p])
    BY <2>1, <2>2, <2>3, ReversePush
  <2>6. Contents' = front \o local \o Reverse(head') /\ Contents = front \o local \o Reverse(head)
    BY <2>1 DEF Contents
  <2>7. front \o local \in Seq(Message) /\ Reverse(head) \in Seq(Message)
    BY <2>3, <2>4, ConcatProperties, ReverseProperties
  <2> HIDE DEF front
  <2>8. Contents' = Append(Contents, pmsg[p])
    BY <2>2, <2>5, <2>6, <2>7, ConcatAppend
  <2>9. Fifo!Send(pmsg[p])
    BY <2>1, <2>2, <2>8 DEF Fifo!Send
  <2> QED
    BY <2>2, <2>9 DEF Fifo!Next
<1>2. CASE ~(SwapHead(p, "out") /\ head = last_head[p])
  <2>1. UNCHANGED <<head, local, last_fb, sent, result, received>>
    BY <1>2 DEF Producing, ReceiveMsg, StartSend, SendStep, ReadHead, SwapHead, WakeUp,
                queueVars, consumerVars
  <2>2. UNCHANGED Contents
    BY <2>1 DEF Contents
  <2> QED
    BY <2>1, <2>2 DEF Fifo!vars
<1> QED
  BY <1>1, <1>2

(* Lists of messages are joined in any order. *)
LEMMA MessagesAssociative ==
  \A a, b, c \in Seq(Message) : (a \o b) \o c = a \o (b \o c)
  BY ConcatAssociative

(* get_msg() looks at the front of the queue, takes it, or finds it empty; *)
(* moving the stack into local_ changes nothing.                           *)
LEMMA GetRefines ==
  ASSUME IInv, Consuming
  PROVE  [Fifo!Next]_(Fifo!vars)
<1>1. /\ head \in Seq(Message) /\ local \in Seq(Message) /\ op \in Op
      /\ last_fb \in Message \cup {NoMsg} /\ Reverse(head) \in Seq(Message)
  BY ReverseProperties DEF IInv, TypeOK, ChannelTypeOK
<1>2. UNCHANGED sent
  BY DEF Consuming, Consume, GetStep, StartGet, PopLocal, PopRead, PopTake, Flush, PollIn
<1>3. ASSUME NEW o \in Op, StartGet(o), last_fb # NoMsg
      PROVE  Fifo!Look \/ Fifo!Receive
  <2>1. Return(o, last_fb) /\ last_fb \in Message /\ UNCHANGED <<head, local>>
    BY <1>1, <1>3 DEF StartGet, queueVars
  <2> DEFINE rest == local \o Reverse(head)
  <2>2. rest \in Seq(Message)
    BY <1>1, ConcatProperties
  <2>3. <<last_fb>> \in Seq(Message)
    BY <2>1
  <2>4. Contents = <<last_fb>> \o rest
    BY <1>1, <1>3, <2>3, ConcatAssociative DEF Contents
  <2>5. Contents' = (IF last_fb' = NoMsg THEN <<>> ELSE <<last_fb'>>) \o rest
    <3>1. last_fb' \in Message \cup {NoMsg}
      BY <2>1 DEF Return
    <3> DEFINE front == IF last_fb' = NoMsg THEN <<>> ELSE <<last_fb'>>
    <3>2. front \in Seq(Message)
      BY <3>1, EmptySeq
    <3>3. Contents' = front \o local \o Reverse(head)
      BY <2>1 DEF Contents
    <3> HIDE DEF front
    <3>4. Contents' = front \o rest
      BY <1>1, <3>2, <3>3, MessagesAssociative
    <3> QED
      BY <3>4 DEF front
  <2> HIDE DEF rest
  <2> QED
    BY <1>2, <2>1, <2>2, <2>4, <2>5, ReturnRefines
<1>4. ASSUME NEW m \in Message, NEW mid \in Seq(Message), NEW behind \in Seq(Message),
             cpc \in {"pop", "take"}, Return(op, m),
             local \o Reverse(head) = <<m>> \o (mid \o behind),
             local' = mid, Reverse(head') = behind
      PROVE  Fifo!Look \/ Fifo!Receive
  <2> DEFINE rest == mid \o behind
  <2>0. rest \in Seq(Message)
    BY <1>4, ConcatProperties
  <2>1. last_fb = NoMsg
    BY <1>4 DEF IInv, DrainOrder
  <2>2. Contents = <<m>> \o rest
    <3>1. Contents = local \o Reverse(head)
      BY <1>1, <2>1, ConcatEmptySeq DEF Contents
    <3> QED
      BY <1>4, <3>1
  <2>3. Contents' = (IF last_fb' = NoMsg THEN <<>> ELSE <<last_fb'>>) \o rest
    <3>1. last_fb' \in Message \cup {NoMsg}
      BY <1>4 DEF Return
    <3>2. ASSUME NEW front \in Seq(Message)
          PROVE  (front \o mid) \o behind = front \o rest
      BY <1>4, MessagesAssociative
    <3>3. (IF last_fb' = NoMsg THEN <<>> ELSE <<last_fb'>>) \in Seq(Message)
      BY <3>1, EmptySeq
    <3>4. Contents' = ((IF last_fb' = NoMsg THEN <<>> ELSE <<last_fb'>>) \o mid) \o behind
      BY <1>4 DEF Contents
    <3> HIDE DEF rest
    <3> QED
      BY <3>2, <3>3, <3>4
  <2> HIDE DEF rest
  <2> QED
    BY <1>1, <1>2, <1>4, <2>0, <2>2, <2>3, ReturnRefines
<1>5. CASE \E o \in Op : Consume(o)
  <2>1. PICK o \in Op : StartGet(o)
    BY <1>5 DEF Consume
  <2>2. CASE last_fb = NoMsg
    <3>1. UNCHANGED <<head, local, last_fb, result, received>>
      BY <2>1, <2>2 DEF StartGet, queueVars
    <3>2. UNCHANGED Contents
      BY <3>1 DEF Contents
    <3> QED
      BY <1>2, <3>1, <3>2 DEF Fifo!vars
  <2> QED
    BY <1>3, <2>1, <2>2 DEF Fifo!Next
<1>6. CASE PopLocal
  <2>1. /\ cpc = "pop" /\ local # <<>> /\ local' = Tail(local) /\ head' = head
        /\ Return(op, Head(local))
    BY <1>6 DEF PopLocal
  <2>2. /\ Head(local) \in Message /\ Tail(local) \in Seq(Message)
        /\ <<Head(local)>> \o Tail(local) = local
    BY <1>1, <2>1, HeadThenTail
  <2>3. Tail(local) \o Reverse(head) \in Seq(Message)
    BY <1>1, <2>2, ConcatProperties
  <2>4. local \o Reverse(head) = <<Head(local)>> \o (Tail(local) \o Reverse(head))
    <3>1. <<Head(local)>> \in Seq(Message)
      BY <2>2
    <3> QED
      BY <1>1, <2>2, <3>1, ConcatAssociative
  <2> QED
    BY <1>1, <1>4, <2>1, <2>2, <2>3, <2>4 DEF Fifo!Next
<1>7. CASE PopTake /\ head = node /\ node # <<>>
  <2>1. /\ cpc = "take" /\ head' = <<>> /\ local' = Tail(Reverse(head))
        /\ Return(op, Head(Reverse(head)))
    BY <1>7 DEF PopTake
  <2>2. local = <<>>
    BY <2>1 DEF IInv, DrainOrder
  <2>3. Reverse(head) # <<>>
    BY <1>1, <1>7, ReverseProperties
  <2>4. /\ Head(Reverse(head)) \in Message /\ Tail(Reverse(head)) \in Seq(Message)
        /\ <<Head(Reverse(head))>> \o Tail(Reverse(head)) = Reverse(head)
    BY <1>1, <2>3, HeadThenTail
  <2>5. Reverse(head') = <<>> /\ <<>> \in Seq(Message)
    BY <2>1, EmptySeq, ReverseProperties
  <2>6. local \o Reverse(head) = Reverse(head) /\ local' \o Reverse(head') = local'
    BY <1>1, <2>1, <2>2, <2>4, <2>5, ConcatEmptySeq
  <2> QED
    BY <1>4, <2>1, <2>4, <2>5, <2>6 DEF Fifo!Next
<1>8. CASE PopTake /\ ~(head = node /\ node # <<>>)
  <2>1. cpc = "take" /\ UNCHANGED <<head, local, last_fb, received>>
    BY <1>8 DEF PopTake, queueVars
  <2>2. UNCHANGED Contents
    BY <2>1 DEF Contents
  <2>3. CASE result' = result
    BY <1>2, <2>1, <2>2, <2>3 DEF Fifo!vars
  <2>4. CASE result' # result
    <3>1. head = <<>> /\ result' = NoMsg
      BY <1>8, <2>4 DEF PopTake, NoMessage
    <3>2. local = <<>> /\ last_fb = NoMsg
      BY <2>1 DEF IInv, DrainOrder
    <3>3. Contents = <<>>
      BY <1>1, <3>1, <3>2, ReverseProperties, ConcatEmptySeq DEF Contents
    <3> QED
      BY <1>2, <2>1, <2>2, <3>1, <3>3 DEF Fifo!Next, Fifo!FindEmpty
  <2> QED
    BY <2>3, <2>4
<1>9. CASE PopRead \/ Flush \/ PollIn
  <2>1. UNCHANGED <<head, local, last_fb, result, received>>
    BY <1>9 DEF PopRead, Flush, PollIn, queueVars
  <2>2. UNCHANGED Contents
    BY <2>1 DEF Contents
  <2> QED
    BY <1>2, <2>1, <2>2 DEF Fifo!vars
<1> QED
  BY <1>5, <1>6, <1>7, <1>8, <1>9 DEF Consuming, GetStep

(* The lock-free stack, its reversal into local_ and last_fb are together one *)
(* first-in first-out queue, for any number of producers and messages.       *)
THEOREM Refinement == Spec => ImplementsChannel
<1>1. ChannelInit => Fifo!Init
  <2> SUFFICES ASSUME ChannelInit PROVE Fifo!Init
    OBVIOUS
  <2>1. <<>> \in Seq(Message)
    BY EmptySeq
  <2>2. Contents = <<>>
    BY <2>1, ReverseProperties, ConcatEmptySeq DEF ChannelInit, Contents
  <2> QED
    BY <2>2 DEF ChannelInit, Fifo!Init
<1>2. IInv /\ [Next]_channelVars => [Fifo!Next]_(Fifo!vars)
  <2> SUFFICES ASSUME IInv, [Next]_channelVars PROVE [Fifo!Next]_(Fifo!vars)
    OBVIOUS
  <2>1. CASE UNCHANGED channelVars
    <3>1. UNCHANGED <<head, local, last_fb, sent, result, received>>
      BY <2>1 DEF channelVars, queueVars, consumerVars
    <3>2. UNCHANGED Contents
      BY <3>1 DEF Contents
    <3> QED
      BY <3>1, <3>2 DEF Fifo!vars
  <2> QED
    BY <2>1, SendRefines, GetRefines DEF Next
<1> QED
  BY <1>1, <1>2, Invariance, PTL DEF Spec, ImplementsChannel, Fifo!Spec
=============================================================================
