----------------------------- MODULE LossyFifo -----------------------------
(***************************************************************************)
(* What the ring buffer of hw14_chardevice promises: a bounded queue of    *)
(* bytes that makes room by dropping its oldest byte, and starts empty     *)
(* again when its capacity is set.                                         *)
(***************************************************************************)
EXTENDS Naturals, Sequences

CONSTANTS Bytes, Sizes

VARIABLES queue, capacity

vars == <<queue, capacity>>

Init == queue = <<>> /\ capacity \in Sizes

Put(b) == /\ queue' = Append(IF Len(queue) = capacity THEN Tail(queue) ELSE queue, b)
          /\ UNCHANGED capacity

Get == queue # <<>> /\ queue' = Tail(queue) /\ UNCHANGED capacity

Resize(n) == queue' = <<>> /\ capacity' = n

Next == (\E b \in Bytes : Put(b)) \/ Get \/ (\E n \in Sizes : Resize(n))

Spec == Init /\ [][Next]_vars
=============================================================================
