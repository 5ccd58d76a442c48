----------------------------- MODULE RingBuffer -----------------------------
(***************************************************************************)
(* The ring buffer of hw14_chardevice/ring_buffer.c: its five variables    *)
(* and the three pieces of code that change them, each executed under      *)
(* buffer_lock.  RingDevice adds the calls that run them.                  *)
(***************************************************************************)
EXTENDS Integers, Sequences

CONSTANTS Bytes,    \* what a writer may store
          Sizes,    \* values of buffer_size
          Junk      \* memory nobody has written

ASSUME ByteAssumption == Junk \notin Bytes
ASSUME SizesAssumption == Sizes \subseteq Nat \ {0}

VARIABLES ring_buffer, buffer_size, head, tail, is_full

ringVars == <<ring_buffer, buffer_size, head, tail, is_full>>

Ring(n) == [0..n - 1 -> Bytes \cup {Junk}]

RingInit == /\ buffer_size \in Sizes
            /\ ring_buffer = [i \in 0..buffer_size - 1 |-> Junk]
            /\ head = 0 /\ tail = 0 /\ is_full = FALSE

Empty == ~is_full /\ head = tail

\* (slip) A full buffer forgets to let go of its oldest byte.
buffer_write_char_TailStays(c) ==
    /\ ring_buffer' = [ring_buffer EXCEPT ![head] = c]
    /\ head' = (head + 1) % buffer_size
    /\ is_full' = (head' = tail)
    /\ UNCHANGED <<buffer_size, tail>>

buffer_write_char(c) ==
    /\ ring_buffer' = [ring_buffer EXCEPT ![head] = c]
    /\ tail' = IF is_full THEN (tail + 1) % buffer_size ELSE tail
    /\ head' = (head + 1) % buffer_size
    /\ is_full' = (head' = tail')
    /\ UNCHANGED buffer_size

buffer_read_char(c) ==
    /\ ~Empty
    /\ c = ring_buffer[tail]
    /\ tail' = (tail + 1) % buffer_size
    /\ is_full' = FALSE
    /\ UNCHANGED <<ring_buffer, buffer_size, head>>

\* (slip) The indices are left where they were.
Resized_KeepingIndices(new_size) ==
    /\ ring_buffer' = [i \in 0..new_size - 1 |->
                          IF i < buffer_size THEN ring_buffer[i] ELSE Junk]
    /\ buffer_size' = new_size
    /\ UNCHANGED <<head, tail, is_full>>

\* krealloc succeeded: it keeps what fits and leaves the rest unwritten.
Resized(new_size) ==
    /\ ring_buffer' = [i \in 0..new_size - 1 |->
                          IF i < buffer_size THEN ring_buffer[i] ELSE Junk]
    /\ buffer_size' = new_size
    /\ head' = 0 /\ tail' = 0 /\ is_full' = FALSE

(***************************************************************************)
(* The queue the ring stands for.                                          *)
(***************************************************************************)
Count == IF is_full THEN buffer_size
         ELSE IF head >= tail THEN head - tail ELSE head - tail + buffer_size

\* The slot of the byte that i bytes are in front of.
Slot(i) == (tail + i) % buffer_size

Queue == [i \in 1..Count |-> ring_buffer[Slot(i - 1)]]

\* The indices stay inside the buffer that is allocated now, the full flag is
\* raised only when they meet, and everything between them was written.
RingOK ==
    /\ buffer_size \in Sizes
    /\ ring_buffer \in Ring(buffer_size)
    /\ head \in 0..buffer_size - 1 /\ tail \in 0..buffer_size - 1
    /\ is_full \in BOOLEAN
    /\ is_full => head = tail
    /\ \A i \in 0..Count - 1 : ring_buffer[Slot(i)] \in Bytes

Fifo == INSTANCE LossyFifo WITH queue <- Queue, capacity <- buffer_size
=============================================================================
