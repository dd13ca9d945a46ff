-------------------------------- MODULE Fifo --------------------------------
(***************************************************************************)
(* What a pipe promises: a bounded queue of bytes.  A step appends bytes   *)
(* of one write at the end, or hands the bytes at the front to a reader.   *)
(***************************************************************************)
EXTENDS Naturals, Sequences

CONSTANTS
  Bytes,     \* what may be written
  Capacity   \* the most bytes the queue holds

VARIABLES
  queue,     \* bytes written and not yet read
  out        \* bytes that the last read handed to its caller

Init == queue = <<>> /\ out = <<>>

Put ==
  /\ Len(queue) < Len(queue') /\ Len(queue') <= Capacity
  /\ SubSeq(queue', 1, Len(queue)) = queue
  /\ \E b \in Bytes : \A i \in (Len(queue) + 1)..Len(queue') : queue'[i] = b
  /\ UNCHANGED out

Get ==
  \E k \in 1..Len(queue) :
    /\ out' = SubSeq(queue, 1, k)
    /\ queue' = SubSeq(queue, k + 1, Len(queue))

Spec == Init /\ [][Put \/ Get]_<<queue, out>>
=============================================================================
