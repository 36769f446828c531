----------------------------- MODULE FrameQueue -----------------------------
(***************************************************************************)
(* What a descriptor ring promises: a bounded queue.  Frames leave in the  *)
(* order in which they entered, none is altered, repeated or dropped on    *)
(* the way, and a frame is admitted only while there is room.              *)
(***************************************************************************)
EXTENDS Integers, Sequences

CONSTANTS
    Frames,     \* what the queue may hold
    Capacity    \* how many of them

VARIABLE queue

Init == queue = <<>>

Put(f) == Len(queue) < Capacity /\ queue' = Append(queue, f)

Take == queue # <<>> /\ queue' = Tail(queue)

Next == Take \/ \E f \in Frames : Put(f)

Spec == Init /\ [][Next]_queue
=============================================================================
