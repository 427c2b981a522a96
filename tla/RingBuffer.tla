----------------------------- MODULE RingBuffer -----------------------------
(* AsyncRingBuffer (rcore/thread.hh): one thread writes, one reads, neither  *)
(* locks.  Each loads both marks once, copies element by element up to the   *)
(* mark it saw of the other side, and publishes its own mark at the end.     *)
(* The elements written are numbered 1, 2, 3 ...; copies of one call may be  *)
(* interleaved with those of the other, in the order the fences allow.       *)
EXTENDS Integers, Sequences

CONSTANTS Capacity, MaxLength, MaxWritten

RingAssumption == {Capacity, MaxLength, MaxWritten} \subseteq Nat \ {0}

VARIABLES buffer, wmark, rmark,
          writer, reader,       \* the call in progress and its local variables
          written, received
vars == <<buffer, wmark, rmark, writer, reader, written, received>>

Size == Capacity + 1            \* size_: one slot always stays free
Idle == [busy |-> FALSE, partial |-> TRUE, length |-> 0, left |-> 0, rm |-> 0, wm |-> 0]

Init == /\ buffer = [i \in 0..Size - 1 |-> 0] /\ wmark = 0 /\ rmark = 0
        /\ writer = Idle /\ reader = Idle /\ written = 0 /\ received = <<>>

Space(rm, wm) == (Size - 1 + rm - wm) % Size    \* n_writable()
Readable(rm, wm) == (Size + wm - rm) % Size     \* n_readable()
Begins(length, partial, space) ==
  [busy |-> TRUE, partial |-> partial, length |-> length, rm |-> rmark, wm |-> wmark,
   left |-> IF ~partial /\ length > space THEN 0 ELSE length]

StartWrite(length, partial) ==
  /\ ~writer.busy /\ written + length <= MaxWritten
  /\ writer' = Begins(length, partial, Space(rmark, wmark))
  /\ UNCHANGED <<buffer, wmark, rmark, reader, written, received>>

(* What is left in one piece from wm on: up to the end of the buffer or to   *)
(* the slot before rm.                                                       *)
RoomToEnd(rm, wm) ==            \* mutant: the last slot is taken with rm at 0
  IF rm <= wm THEN Size - wm ELSE rm - wm - 1
Room(rm, wm) == IF rm <= wm THEN Size - wm - (IF rm = 0 THEN 1 ELSE 0) ELSE rm - wm - 1

WriteElement ==
  /\ writer.busy /\ writer.left > 0 /\ Room(writer.rm, writer.wm) > 0
  /\ buffer' = [buffer EXCEPT ![writer.wm] = written + 1]
  /\ written' = written + 1
  /\ writer' = [writer EXCEPT !.wm = (@ + 1) % Size, !.left = @ - 1]
  /\ UNCHANGED <<wmark, rmark, reader, received>>
EndWrite ==
  /\ writer.busy /\ (writer.left = 0 \/ Room(writer.rm, writer.wm) = 0)
  /\ wmark' = writer.wm /\ writer' = Idle
  /\ UNCHANGED <<buffer, rmark, reader, written, received>>

StartRead(length, partial) ==
  /\ ~reader.busy
  /\ reader' = Begins(length, partial, Readable(rmark, wmark))
  /\ UNCHANGED <<buffer, wmark, rmark, writer, written, received>>
ReadElement ==
  /\ reader.busy /\ reader.left > 0 /\ reader.rm # reader.wm
  /\ received' = Append(received, buffer[reader.rm])
  /\ reader' = [reader EXCEPT !.rm = (@ + 1) % Size, !.left = @ - 1]
  /\ UNCHANGED <<buffer, wmark, rmark, writer, written>>
EndRead ==
  /\ reader.busy /\ (reader.left = 0 \/ reader.rm = reader.wm)
  /\ rmark' = reader.rm /\ reader' = Idle
  /\ UNCHANGED <<buffer, wmark, writer, written, received>>

Next == \/ \E length \in 1..MaxLength, partial \in BOOLEAN : StartWrite(length, partial) \/ StartRead(length, partial)
        \/ WriteElement \/ EndWrite \/ ReadElement \/ EndRead
Spec == Init /\ [][Next]_vars

-----------------------------------------------------------------------------
(* The reader receives every element once, in the order written, however the *)
(* two calls interleave; and a write that is not partial fits as a whole     *)
(* once it begins (write(), read(): "Only a single single reader and a       *)
(* single writer must access the ring buffer", thread.hh:252).               *)
Fifo ==
  /\ received = [i \in 1..Len(received) |-> i] /\ Len(received) <= written
  /\ writer.busy /\ ~writer.partial => writer.left <= Space(writer.rm, writer.wm)
  /\ reader.busy /\ ~reader.partial => reader.left <= Readable(reader.rm, reader.wm)
=============================================================================
