-------------------------- MODULE RingDeviceProofs --------------------------
(***************************************************************************)
(* The ring of the device, for every size, is the queue it stands for:     *)
(* first the arithmetic of its slots, then what each of the three pieces   *)
(* of code does to the queue, then the invariant of the whole device and   *)
(* its refinement of LossyFifo, byte by byte, and of DeviceCalls, call by  *)
(* call.                                                                   *)
(***************************************************************************)
EXTENDS RingDevice, SequenceTheorems, TLAPS

USE ByteAssumption, SizesAssumption, ProcAssumption, CallAssumption

\* One wrap around is enough for indices below the size.
LEMMA ModSum ==
  ASSUME NEW N \in Nat \ {0}, NEW a \in 0..N - 1, NEW i \in 0..N
  PROVE  (a + i) % N = IF a + i < N THEN a + i ELSE a + i - N
  <1>1. CASE a + i < N BY <1>1
  <1>2. CASE a + i >= N
    <2>1. (a + i) = 1 * N + (a + i - N) /\ a + i - N \in 0..N - 1 BY <1>2
    <2> QED BY <1>2, <2>1
  <1> QED BY <1>1, <1>2

\* Slots by subtraction; the head is the slot behind the last byte; different
\* bytes have different slots.
LEMMA Slots ==
  ASSUME RingOK
  PROVE  /\ buffer_size \in Nat \ {0} /\ Count \in 0..buffer_size
         /\ is_full <=> Count = buffer_size
         /\ \A i \in 0..buffer_size :
               Slot(i) = IF tail + i < buffer_size THEN tail + i
                         ELSE tail + i - buffer_size
         /\ \A i \in 0..buffer_size : Slot(i) \in 0..buffer_size - 1
         /\ Slot(Count) = head
         /\ \A i \in 0..Count - 1 : Count < buffer_size => Slot(i) # head
         /\ \A i \in 1..buffer_size - 1 : Slot(i) # tail
  <1>1. /\ buffer_size \in Nat \ {0} /\ head \in 0..buffer_size - 1
        /\ tail \in 0..buffer_size - 1 /\ (is_full => head = tail)
    BY DEF RingOK
  <1>2. /\ Count \in 0..buffer_size /\ (is_full <=> Count = buffer_size)
    BY <1>1 DEF Count
  <1>3. \A i \in 0..buffer_size :
           Slot(i) = IF tail + i < buffer_size THEN tail + i
                     ELSE tail + i - buffer_size
    BY <1>1, ModSum DEF Slot
  <1>4. \A i \in 0..buffer_size : Slot(i) \in 0..buffer_size - 1
    BY <1>1, <1>3
  <1>5. Slot(Count) = head BY <1>1, <1>2, <1>3 DEF Count
  <1>6. \A i \in 0..Count - 1 : Count < buffer_size => Slot(i) # head
    BY <1>1, <1>2, <1>3, <1>5
  <1>7. \A i \in 1..buffer_size - 1 : Slot(i) # tail BY <1>1, <1>3
  <1> QED BY <1>1, <1>2, <1>3, <1>4, <1>5, <1>6, <1>7

\* The next index, as the code computes it.
LEMMA NextIndex ==
  ASSUME NEW N \in Nat \ {0}, NEW a \in 0..N - 1
  PROVE  (a + 1) % N = IF a + 1 < N THEN a + 1 ELSE 0
  <1>1. 1 \in 0..N OBVIOUS
  <1>2. (a + 1) % N = IF a + 1 < N THEN a + 1 ELSE a + 1 - N BY <1>1, ModSum
  <1> QED BY <1>2

\* The queue is a sequence of written bytes.
LEMMA QueueType ==
  ASSUME RingOK
  PROVE  Queue \in Seq(Bytes) /\ Len(Queue) = Count /\ DOMAIN Queue = 1..Count
         /\ \A i \in 1..Count : Queue[i] = ring_buffer[Slot(i - 1)]
  <1>1. Count \in Nat BY Slots
  <1>2. \A i \in 1..Count : ring_buffer[Slot(i - 1)] \in Bytes
    BY <1>1 DEF RingOK
  <1> QED BY <1>1, <1>2 DEF Queue

\* buffer_write_char into a buffer with room: the byte goes to the end.
LEMMA WriteWithRoom ==
  ASSUME RingOK, NEW c \in Bytes, buffer_write_char(c), ~is_full
  PROVE  RingOK' /\ Queue' = Append(Queue, c)
  <1> DEFINE N == buffer_size
  <1>1. /\ N \in Nat \ {0} /\ head \in 0..N - 1 /\ tail \in 0..N - 1
        /\ ring_buffer \in Ring(N) /\ N \in Sizes
    BY DEF RingOK
  <1>2. /\ buffer_size' = N /\ tail' = tail /\ head' = (head + 1) % N
        /\ is_full' = (head' = tail)
        /\ ring_buffer' = [ring_buffer EXCEPT ![head] = c]
    BY DEF buffer_write_char
  <1>3. head' = IF head + 1 < N THEN head + 1 ELSE 0 BY <1>1, <1>2, NextIndex
  <1>4. Count \in 0..N - 1 BY Slots
  <1>5. Count' = Count + 1
    <2>1. CASE head' = tail
      <3>1. is_full' BY <1>2, <2>1
      <3> QED BY <1>1, <1>2, <1>3, <2>1, <3>1 DEF Count
    <2>2. CASE head' # tail
      <3>1. ~is_full' BY <1>2, <2>2
      <3> QED BY <1>1, <1>2, <1>3, <2>2, <3>1 DEF Count
    <2> QED BY <2>1, <2>2
  <1>6. \A i \in Int : (ring_buffer[Slot(i)])' = ring_buffer'[Slot(i)]
    BY <1>2 DEF Slot
  <1>7. \A i \in 0..Count - 1 : ring_buffer'[Slot(i)] = ring_buffer[Slot(i)]
    BY <1>1, <1>2, <1>4, Slots DEF Ring
  <1>8. ring_buffer'[Slot(Count)] = c BY <1>1, <1>2, Slots DEF Ring
  <1>9. RingOK'
    <2>1. ring_buffer' \in Ring(N)' BY <1>1, <1>2 DEF Ring
    <2>2. \A i \in 0..Count : ring_buffer'[Slot(i)] \in Bytes
      BY <1>4, <1>7, <1>8 DEF RingOK
    <2>3. \A i \in 0..Count' - 1 : (ring_buffer[Slot(i)])' \in Bytes
      BY <1>4, <1>5, <1>6, <2>2
    <2> QED BY <1>1, <1>2, <1>3, <2>1, <2>3 DEF RingOK, Ring
  <1>10. Queue' = Append(Queue, c)
    <2>1. /\ Queue' \in Seq(Bytes) /\ DOMAIN Queue' = 1..Count + 1
          /\ \A i \in 1..Count + 1 : Queue'[i] = ring_buffer'[Slot(i - 1)]
      <3>1. \A i \in 1..Count + 1 : (ring_buffer[Slot(i - 1)])' =
                                    ring_buffer'[Slot(i - 1)]
        BY <1>4, <1>6
      <3>2. Queue' = [i \in 1..Count + 1 |-> (ring_buffer[Slot(i - 1)])']
        BY <1>5 DEF Queue
      <3>3. \A i \in 1..Count + 1 : ring_buffer'[Slot(i - 1)] \in Bytes
        BY <1>4, <1>7, <1>8 DEF RingOK
      <3> QED BY <1>4, <3>1, <3>2, <3>3
    <2>2. /\ Append(Queue, c) \in Seq(Bytes)
          /\ DOMAIN Append(Queue, c) = 1..Count + 1
          /\ \A i \in 1..Count : Append(Queue, c)[i] = ring_buffer[Slot(i - 1)]
          /\ Append(Queue, c)[Count + 1] = c
      BY <1>4, QueueType
    <2>3. \A i \in 1..Count + 1 : Queue'[i] = Append(Queue, c)[i]
      BY <1>4, <1>7, <1>8, <2>1, <2>2
    <2>4. Len(Queue') = Count + 1 /\ Len(Append(Queue, c)) = Count + 1
      BY <1>4, <2>1, <2>2
    <2> QED BY <1>4, <2>1, <2>2, <2>3, <2>4, SeqEqual
  <1> QED BY <1>9, <1>10

\* buffer_write_char into a full buffer: the oldest byte makes room.
LEMMA WriteOverOldest ==
  ASSUME RingOK, NEW c \in Bytes, buffer_write_char(c), is_full
  PROVE  RingOK' /\ Queue' = Append(Tail(Queue), c)
  <1> DEFINE N == buffer_size
  <1>1. /\ N \in Nat \ {0} /\ head \in 0..N - 1 /\ tail = head
        /\ ring_buffer \in Ring(N) /\ N \in Sizes
    BY DEF RingOK
  <1>2. /\ buffer_size' = N /\ tail' = (tail + 1) % N /\ head' = (tail + 1) % N
        /\ is_full' = (head' = tail')
        /\ ring_buffer' = [ring_buffer EXCEPT ![tail] = c]
    BY <1>1 DEF buffer_write_char
  <1>3. tail' = (IF tail + 1 < N THEN tail + 1 ELSE 0) /\ head' = tail' /\ is_full'
    BY <1>1, <1>2, NextIndex
  <1>4. Count = N /\ Count' = N BY <1>2, <1>3 DEF Count
  <1>5. \A i \in 0..N - 1 : Slot(i)' = Slot(i + 1)
    <2>1. TAKE i \in 0..N - 1
    <2>2. Slot(i)' = (tail' + i) % N BY <1>2 DEF Slot
    <2>3. (tail' + i) % N = IF tail' + i < N THEN tail' + i ELSE tail' + i - N
      <3>1. tail' \in 0..N - 1 /\ i \in 0..N BY <1>1, <1>3, <2>1
      <3> QED BY <1>1, <3>1, ModSum
    <2>4. Slot(i + 1) = IF tail + (i + 1) < N THEN tail + (i + 1)
                        ELSE tail + (i + 1) - N
      BY <1>1, <2>1, Slots
    <2> QED BY <1>1, <1>3, <2>1, <2>2, <2>3, <2>4
  <1>6. \A i \in 0..N - 1 : (ring_buffer[Slot(i)])' = ring_buffer'[Slot(i + 1)]
    BY <1>5
  <1>7. Slot(N) = tail BY <1>1, <1>4, Slots
  <1>8. \A i \in 1..N - 1 : ring_buffer'[Slot(i)] = ring_buffer[Slot(i)]
    <2>1. TAKE i \in 1..N - 1
    <2>2. Slot(i) \in 0..N - 1 /\ Slot(i) # tail BY <1>1, <2>1, Slots
    <2> QED BY <1>1, <1>2, <2>2 DEF Ring
  <1>9. ring_buffer'[Slot(N)] = c BY <1>1, <1>2, <1>7 DEF Ring
  <1>10. \A i \in 1..N - 1 : ring_buffer[Slot(i)] \in Bytes
    BY <1>4 DEF RingOK
  <1>11. RingOK'
    <2>1. ring_buffer' \in Ring(N)' BY <1>1, <1>2 DEF Ring
    <2>2. ASSUME NEW i \in 0..N - 1 PROVE (ring_buffer[Slot(i)])' \in Bytes
      <3>1. (ring_buffer[Slot(i)])' = ring_buffer'[Slot(i + 1)] BY <1>6
      <3>2. CASE i = N - 1 BY <1>1, <1>9, <3>1, <3>2
      <3>3. CASE i < N - 1
        <4>1. i + 1 \in 1..N - 1 BY <1>1, <3>3
        <4> QED BY <1>8, <1>10, <3>1, <4>1
      <3> QED BY <1>1, <3>2, <3>3
    <2>3. tail' \in 0..N - 1 BY <1>1, <1>3
    <2>4. \A i \in 0..Count' - 1 : (ring_buffer[Slot(i)])' \in Bytes
      BY <1>4, <2>2
    <2> QED BY <1>1, <1>2, <1>3, <2>1, <2>3, <2>4 DEF RingOK
  <1>12. Queue' = Append(Tail(Queue), c)
    <2>1. /\ Queue' \in Seq(Bytes) /\ Len(Queue') = N
          /\ \A i \in 1..N : Queue'[i] = (ring_buffer[Slot(i - 1)])'
      <3>1. Queue' = [i \in 1..N |-> (ring_buffer[Slot(i - 1)])']
        BY <1>4 DEF Queue
      <3>2. \A i \in 1..N : (ring_buffer[Slot(i - 1)])' \in Bytes
        BY <1>1, <1>4, <1>11 DEF RingOK
      <3> QED BY <1>1, <3>1, <3>2
    <2>2. /\ Queue \in Seq(Bytes) /\ Len(Queue) = N /\ Queue # << >>
          /\ \A i \in 1..N : Queue[i] = ring_buffer[Slot(i - 1)]
      BY <1>1, <1>4, QueueType
    <2>3. /\ Tail(Queue) \in Seq(Bytes) /\ Len(Tail(Queue)) = N - 1
          /\ \A i \in 1..N - 1 : Tail(Queue)[i] = Queue[i + 1]
      BY <1>1, <2>2, HeadTailProperties
    <2>4. /\ Append(Tail(Queue), c) \in Seq(Bytes)
          /\ Len(Append(Tail(Queue), c)) = N
          /\ \A i \in 1..N - 1 : Append(Tail(Queue), c)[i] = Queue[i + 1]
          /\ Append(Tail(Queue), c)[N] = c
      BY <1>1, <2>3
    <2>5. ASSUME NEW i \in 1..N PROVE Queue'[i] = Append(Tail(Queue), c)[i]
      <3>1. i - 1 \in 0..N - 1 /\ (i - 1) + 1 = i BY <1>1
      <3>2. Queue'[i] = ring_buffer'[Slot(i)] BY <1>6, <2>1, <3>1
      <3>3. CASE i = N BY <1>9, <2>4, <3>2, <3>3
      <3>4. CASE i < N
        <4>1. i \in 1..N - 1 /\ i + 1 \in 1..N /\ (i + 1) - 1 = i BY <1>1, <3>4
        <4>2. Queue[i + 1] = ring_buffer[Slot(i)] BY <2>2, <4>1
        <4> QED BY <1>8, <2>4, <3>2, <4>1, <4>2
      <3>5. i = N \/ i < N BY <1>1
      <3> QED BY <3>3, <3>4, <3>5
    <2> QED BY <2>1, <2>4, <2>5, SeqEqual
  <1> QED BY <1>11, <1>12

\* buffer_read_char takes the oldest byte.
LEMMA ReadOldest ==
  ASSUME RingOK, NEW c, buffer_read_char(c)
  PROVE  RingOK' /\ Queue # <<>> /\ c = Head(Queue) /\ Queue' = Tail(Queue)
  <1> DEFINE N == buffer_size
  <1>1. /\ N \in Nat \ {0} /\ head \in 0..N - 1 /\ tail \in 0..N - 1
        /\ ring_buffer \in Ring(N) /\ N \in Sizes /\ (is_full => head = tail)
    BY DEF RingOK
  <1>2. /\ is_full \/ head # tail
        /\ tail' = (tail + 1) % N /\ is_full' = FALSE
        /\ UNCHANGED <<ring_buffer, buffer_size, head>>
        /\ c = ring_buffer[tail]
    BY DEF buffer_read_char, Empty
  <1>3. tail' = IF tail + 1 < N THEN tail + 1 ELSE 0 BY <1>1, <1>2, NextIndex
  <1>4. Count \in 1..N BY <1>1, <1>2 DEF Count
  <1>5. Count' = Count - 1
    <2>1. CASE is_full BY <1>1, <1>2, <1>3, <2>1 DEF Count
    <2>2. CASE ~is_full BY <1>1, <1>2, <1>3, <2>2 DEF Count
    <2> QED BY <2>1, <2>2
  <1>6. \A i \in 0..N - 1 : (ring_buffer[Slot(i)])' = ring_buffer[Slot(i + 1)]
    <2>1. TAKE i \in 0..N - 1
    <2>2. Slot(i)' = (tail' + i) % N BY <1>2 DEF Slot
    <2>3. (tail' + i) % N = IF tail' + i < N THEN tail' + i ELSE tail' + i - N
      <3>1. tail' \in 0..N - 1 /\ i \in 0..N BY <1>1, <1>3, <2>1
      <3> QED BY <1>1, <3>1, ModSum
    <2>4. Slot(i + 1) = IF tail + (i + 1) < N THEN tail + (i + 1)
                        ELSE tail + (i + 1) - N
      BY <1>1, <2>1, Slots
    <2>5. Slot(i)' = Slot(i + 1) BY <1>1, <1>3, <2>1, <2>2, <2>3, <2>4
    <2> QED BY <1>2, <2>5
  <1>7. Slot(0) = tail BY <1>1, Slots
  <1>8. RingOK'
    <2>1. \A i \in 0..Count' - 1 : (ring_buffer[Slot(i)])' \in Bytes
      <3>1. TAKE i \in 0..Count' - 1
      <3>2. i \in 0..N - 1 /\ i + 1 \in 0..Count - 1 BY <1>1, <1>4, <1>5, <3>1
      <3>3. ring_buffer[Slot(i + 1)] \in Bytes BY <3>2 DEF RingOK
      <3> QED BY <1>6, <3>2, <3>3
    <2>2. tail' \in 0..N - 1 BY <1>1, <1>3
    <2> QED BY <1>1, <1>2, <2>1, <2>2 DEF RingOK, Ring
  <1>9. /\ Queue \in Seq(Bytes) /\ Len(Queue) = Count /\ Queue # <<>>
        /\ \A i \in 1..Count : Queue[i] = ring_buffer[Slot(i - 1)]
    BY <1>4, QueueType
  <1>10. c = Head(Queue)
    <2>1. 1 \in 1..Count /\ 1 - 1 = 0 BY <1>4
    <2>2. Queue[1] = c BY <1>2, <1>7, <1>9, <2>1
    <2> QED BY <1>9, <2>2
  <1>11. Queue' = Tail(Queue)
    <2>1. /\ Tail(Queue) \in Seq(Bytes) /\ Len(Tail(Queue)) = Count - 1
          /\ \A i \in 1..Count - 1 : Tail(Queue)[i] = Queue[i + 1]
      BY <1>4, <1>9, HeadTailProperties
    <2>2. /\ Queue' \in Seq(Bytes) /\ Len(Queue') = Count - 1
          /\ \A i \in 1..Count - 1 : Queue'[i] = (ring_buffer[Slot(i - 1)])'
      <3>1. Queue' = [i \in 1..Count - 1 |-> (ring_buffer[Slot(i - 1)])']
        BY <1>5 DEF Queue
      <3>2. \A i \in 1..Count - 1 : (ring_buffer[Slot(i - 1)])' \in Bytes
        BY <1>1, <1>4, <1>5, <1>8 DEF RingOK
      <3> QED BY <1>4, <3>1, <3>2
    <2>3. ASSUME NEW i \in 1..Count - 1 PROVE Queue'[i] = Tail(Queue)[i]
      <3>1. /\ i - 1 \in 0..N - 1 /\ (i - 1) + 1 = i /\ i + 1 \in 1..Count
            /\ (i + 1) - 1 = i
        BY <1>1, <1>4
      <3>2. Queue'[i] = ring_buffer[Slot(i)] BY <1>6, <2>2, <3>1
      <3> QED BY <1>9, <2>1, <3>1, <3>2
    <2> QED BY <1>4, <2>1, <2>2, <2>3, SeqEqual
  <1> QED BY <1>8, <1>9, <1>10, <1>11

\* A successful resize leaves an empty queue, whatever was in the memory.
LEMMA ResizeEmpties ==
  ASSUME RingOK, NEW n \in Sizes, Resized(n)
  PROVE  RingOK' /\ Queue' = <<>>
  <1>1. /\ n \in Nat \ {0} /\ buffer_size' = n /\ head' = 0 /\ tail' = 0
        /\ is_full' = FALSE
    BY DEF Resized
  <1>2. Count' = 0 BY <1>1 DEF Count
  <1>3. ring_buffer' \in Ring(n)
    <2>1. \A i \in 0..n - 1 : (IF i < buffer_size THEN ring_buffer[i] ELSE Junk)
                              \in Bytes \cup {Junk}
      BY <1>1 DEF RingOK, Ring
    <2> QED BY <2>1 DEF Resized, Ring
  <1>4. RingOK'
    <2>1. ring_buffer' \in Ring(buffer_size') BY <1>1, <1>3
    <2>2. \A i \in 0..Count' - 1 : (ring_buffer[Slot(i)])' \in Bytes BY <1>2
    <2>3. /\ buffer_size' \in Sizes
          /\ head' \in 0..buffer_size' - 1 /\ tail' \in 0..buffer_size' - 1
          /\ is_full' \in BOOLEAN /\ head' = tail'
      <3>1. 0 \in 0..n - 1 BY <1>1
      <3> QED BY <1>1, <3>1
    <2> QED BY <2>1, <2>2, <2>3 DEF RingOK, Ring
  <1>5. Queue' = <<>> BY <1>2 DEF Queue
  <1> QED BY <1>4, <1>5

(***************************************************************************)
(* The device: every step leaves the ring alone or runs one of the three.  *)
(***************************************************************************)
\* What a step may do to the ring.
RingStep ==
    \/ UNCHANGED ringVars
    \/ \E c \in Bytes : buffer_write_char(c)
    \/ \E c \in Bytes \cup {Junk} : buffer_read_char(c)
    \/ \E n \in Sizes : Resized(n)

\* Whatever a process does, the ring changes by one byte put, one byte taken, a
\* resize, or not at all.
LEMMA EveryStepIsRingStep ==
  ASSUME RingInv, [Next]_vars PROVE RingStep
  <1>1. CASE UNCHANGED vars BY <1>1 DEF vars, RingStep
  <1>2. ASSUME NEW p \in Procs, ReadChar(p) PROVE RingStep
    BY <1>2 DEF ReadChar, RingStep
  <1>3. ASSUME NEW p \in Procs, WriteChar(p) PROVE RingStep
    BY <1>3 DEF WriteChar, RingStep
  <1>4. ASSUME NEW p \in Procs, Store(p) PROVE RingStep
    <2>1. proc[p].len \in Sizes
      BY <1>4 DEF Store, Inside, RingInv, TypeOK
    <2> QED BY <1>4, <2>1 DEF Store, RingStep
  <1>5. ASSUME NEW p \in Procs,
               \/ Invoke(p) \/ Show(p) \/ Interrupted(p) \/ RejectSize(p)
               \/ Lock(p) \/ Finish(p)
        PROVE  RingStep
    BY <1>5 DEF Invoke, Show, Interrupted, RejectSize, Lock, Finish, RingStep
  <1> QED BY <1>1, <1>2, <1>3, <1>4, <1>5 DEF Next, Step

\* Each of these keeps the ring well-formed: indices in bounds, full flag only
\* where they meet, no unwritten byte between them.
LEMMA RingStepRingOK == RingOK /\ RingStep => RingOK'
  <1> SUFFICES ASSUME RingOK, RingStep PROVE RingOK' OBVIOUS
  <1>1. CASE UNCHANGED ringVars
    <2>1. Count' = Count BY <1>1 DEF ringVars, Count
    <2>2. \A i \in Int : (ring_buffer[Slot(i)])' = ring_buffer[Slot(i)]
      BY <1>1 DEF ringVars, Slot
    <2>3. Count \in Nat BY Slots
    <2> QED BY <1>1, <2>1, <2>2, <2>3 DEF ringVars, RingOK, Ring
  <1>2. ASSUME NEW c \in Bytes, buffer_write_char(c) PROVE RingOK'
    BY <1>2, WriteWithRoom, WriteOverOldest
  <1>3. ASSUME NEW c, buffer_read_char(c) PROVE RingOK' BY <1>3, ReadOldest
  <1>4. ASSUME NEW n \in Sizes, Resized(n) PROVE RingOK' BY <1>4, ResizeEmpties
  <1> QED BY <1>1, <1>2, <1>3, <1>4 DEF RingStep

ProcRec == [pc : {"idle", "lock", "locked"},
            op : {"read", "write", "store", "returned"},
            len : Nat, ret : Int, data : Seq(Bytes)]

\* What the type invariant says of one process.
ProcOK(r) == /\ r \in ProcRec
             /\ r.pc = "idle" <=> r.op = "returned"
             /\ r.op = "store" => r.len \in Sizes \cup {0}
             /\ r.pc = "locked" /\ r.op = "store" => r.len # 0

\* The type invariant, one process at a time.
LEMMA TypeByProcess ==
  /\ TypeOK <=> /\ buffer_lock \in Procs \cup {NoOne} /\ before \in Seq(Bytes)
                /\ proc = [p \in Procs |-> proc[p]]
                /\ \A p \in Procs : ProcOK(proc[p])
  BY DEF TypeOK, ProcOK, ProcRec

\* The record of a call that returned is well-typed.
LEMMA IdleOK ==
  ASSUME NEW ret \in Int, NEW data \in Seq(Bytes)
  PROVE  ProcOK(Idle(ret, data)) /\ Idle(ret, data).pc = "idle"
  BY DEF Idle, ProcOK, ProcRec

\* A step of one process that leaves its record well typed and the mutex with
\* whoever is inside.
LEMMA ProcessStep ==
  ASSUME RingInv, RingOK', NEW p \in Procs, NEW r, ProcOK(r),
         proc' = [proc EXCEPT ![p] = r],
         before' \in Seq(Bytes),
         \/ buffer_lock' = buffer_lock /\ (r.pc = "locked" <=> proc[p].pc = "locked")
         \/ buffer_lock = NoOne /\ buffer_lock' = p /\ r.pc = "locked"
         \/ buffer_lock = p /\ buffer_lock' = NoOne /\ r.pc # "locked"
  PROVE  RingInv'
  <1>1. /\ buffer_lock \in Procs \cup {NoOne}
        /\ proc = [q \in Procs |-> proc[q]]
        /\ \A q \in Procs : ProcOK(proc[q])
        /\ \A q \in Procs : proc[q].pc = "locked" <=> buffer_lock = q
    BY TypeByProcess DEF RingInv, MutexOwnedInside
  <1>2. /\ proc' = [q \in Procs |-> proc'[q]] /\ proc'[p] = r
        /\ \A q \in Procs \ {p} : proc'[q] = proc[q]
    BY <1>1
  <1>3. TypeOK'
    <2>1. /\ buffer_lock' \in Procs \cup {NoOne}
          /\ \A q \in Procs : ProcOK(proc'[q])
      BY <1>1, <1>2
    <2> QED BY <1>2, <2>1 DEF TypeOK, ProcOK, ProcRec
  <1>4. MutexOwnedInside' BY <1>1, <1>2 DEF MutexOwnedInside
  <1> QED BY <1>3, <1>4 DEF RingInv

\* The initial state.
LEMMA InitRingInv == Init => RingInv
  <1> SUFFICES ASSUME Init PROVE RingInv OBVIOUS
  <1>1. /\ buffer_size \in Sizes /\ buffer_size \in Nat \ {0}
        /\ head = 0 /\ tail = 0 /\ is_full = FALSE
        /\ ring_buffer = [i \in 0..buffer_size - 1 |-> Junk]
        /\ buffer_lock = NoOne /\ before = <<>>
        /\ proc = [p \in Procs |-> Idle(0, <<>>)]
    BY DEF Init, RingInit
  <1>2. Count = 0 BY <1>1 DEF Count
  <1>3. RingOK
    <2>1. ring_buffer \in Ring(buffer_size) BY <1>1 DEF Ring
    <2>2. head \in 0..buffer_size - 1 /\ tail \in 0..buffer_size - 1 BY <1>1
    <2>3. \A i \in 0..Count - 1 : ring_buffer[Slot(i)] \in Bytes BY <1>2
    <2>4. is_full \in BOOLEAN /\ head = tail BY <1>1
    <2> QED BY <1>1, <2>1, <2>2, <2>3, <2>4 DEF RingOK
  <1>4. \A p \in Procs : ProcOK(proc[p]) /\ proc[p].pc = "idle"
    <2>1. <<>> \in Seq(Bytes) /\ 0 \in Int OBVIOUS
    <2> QED BY <1>1, <2>1, IdleOK
  <1>5. TypeOK
    <2>1. proc = [p \in Procs |-> proc[p]] BY <1>1
    <2> QED BY <1>1, <1>4, <2>1, TypeByProcess
  <1>6. MutexOwnedInside BY <1>1, <1>4 DEF MutexOwnedInside
  <1> QED BY <1>3, <1>5, <1>6 DEF RingInv

\* Every step preserves it.
LEMMA NextRingInv == RingInv /\ [Next]_vars => RingInv'
  <1> SUFFICES ASSUME RingInv, [Next]_vars PROVE RingInv' OBVIOUS
  <1>1. RingOK /\ RingOK'
    BY EveryStepIsRingStep, RingStepRingOK DEF RingInv
  <1>2. /\ before \in Seq(Bytes) /\ Queue \in Seq(Bytes)
        /\ \A p \in Procs : ProcOK(proc[p])
        /\ \A p \in Procs : proc[p].pc = "locked" <=> buffer_lock = p
    BY <1>1, TypeByProcess, QueueType DEF RingInv, MutexOwnedInside
  <1>3. ASSUME UNCHANGED vars PROVE RingInv'
    BY <1>1, <1>3 DEF vars, RingInv, TypeOK, MutexOwnedInside
  <1>4. ASSUME NEW p \in Procs, Invoke(p) PROVE RingInv'
    <2>1. PICK c \in Calls :
             proc' = [proc EXCEPT ![p] = [pc |-> "lock", op |-> c.op, len |-> c.len,
                                          ret |-> 0, data |-> <<>>]]
      BY <1>4 DEF Invoke
    <2>2. /\ proc[p].pc = "idle" /\ UNCHANGED <<buffer_lock, before>>
      BY <1>4 DEF Invoke
    <2> DEFINE r == [pc |-> "lock", op |-> c.op, len |-> c.len, ret |-> 0,
                     data |-> <<>>]
    <2>3. /\ c.op \in {"read", "write", "store"} /\ c.len \in Nat
          /\ c.op = "store" => c.len \in Sizes \cup {0}
      <3>1. c \in [op : {"read", "write"}, len : 0..MaxLen]
            \/ c \in [op : {"store"}, len : NewSizes]
        BY DEF Calls
      <3>2. NewSizes \subseteq Nat /\ NewSizes \subseteq Sizes \cup {0}
        OBVIOUS
      <3>3. CASE c \in [op : {"read", "write"}, len : 0..MaxLen] BY <3>3
      <3>4. CASE c \in [op : {"store"}, len : NewSizes] BY <3>2, <3>4
      <3> QED BY <3>1, <3>3, <3>4
    <2>4. ProcOK(r) /\ r.pc = "lock" BY <2>3 DEF ProcOK, ProcRec
    <2> HIDE DEF r
    <2> QED BY <1>1, <1>2, <2>1, <2>2, <2>4, ProcessStep DEF r
  <1>5. ASSUME NEW p \in Procs, NEW ret \in Int, NEW data \in Seq(Bytes),
               Return(p, ret, data), before' = before,
               \/ buffer_lock' = buffer_lock /\ proc[p].pc # "locked"
               \/ buffer_lock' = NoOne /\ proc[p].pc = "locked"
        PROVE  RingInv'
    <2>1. ProcOK(Idle(ret, data)) /\ Idle(ret, data).pc = "idle" BY IdleOK
    <2>2. proc' = [proc EXCEPT ![p] = Idle(ret, data)] BY <1>5 DEF Return
    <2> QED BY <1>1, <1>2, <1>5, <2>1, <2>2, ProcessStep
  <1>6. ASSUME NEW p \in Procs, NEW ret \in Int, Unlock(p, ret),
               before' = before, proc[p].pc = "locked"
        PROVE  RingInv'
    <2>1. proc[p].data \in Seq(Bytes) BY <1>2 DEF ProcOK, ProcRec
    <2> QED BY <1>5, <1>6, <2>1 DEF Unlock
  <1>7. ASSUME NEW p \in Procs, NEW c \in Bytes, KeepCopying(p, c),
               before' = before
        PROVE  RingInv'
    <2> DEFINE r == [proc[p] EXCEPT !.data = Append(@, c)]
    <2>1. ProcOK(proc[p]) BY <1>2
    <2>2. Append(proc[p].data, c) \in Seq(Bytes) BY <2>1 DEF ProcOK, ProcRec
    <2>3. ProcOK(r) /\ r.pc = proc[p].pc BY <2>1, <2>2 DEF ProcOK, ProcRec
    <2>4. proc' = [proc EXCEPT ![p] = r] /\ buffer_lock' = buffer_lock
      BY <1>7, TypeByProcess DEF KeepCopying, RingInv
    <2> HIDE DEF r
    <2> QED BY <1>1, <1>2, <1>7, <2>3, <2>4, ProcessStep
  <1>8. ASSUME NEW p \in Procs, Lock(p) PROVE RingInv'
    <2> DEFINE r == [proc[p] EXCEPT !.pc = "locked"]
    <2>1. ProcOK(proc[p]) BY <1>2
    <2>2. /\ proc[p].pc = "lock" /\ ~(proc[p].op = "store" /\ proc[p].len = 0)
          /\ buffer_lock = NoOne /\ buffer_lock' = p /\ before' = Queue
          /\ proc' = [proc EXCEPT ![p] = r]
      BY <1>8, TypeByProcess DEF Lock, Invalid, RingInv
    <2>3. ProcOK(r) /\ r.pc = "locked" BY <2>1, <2>2 DEF ProcOK, ProcRec
    <2> HIDE DEF r
    <2> QED BY <1>1, <1>2, <2>2, <2>3, ProcessStep
  <1>9. ASSUME NEW p \in Procs, Show(p) \/ Interrupted(p) \/ RejectSize(p)
        PROVE  RingInv'
    <2>1. /\ proc[p].pc # "locked" /\ UNCHANGED <<buffer_lock, before>>
          /\ \E ret \in Int : Return(p, ret, <<>>)
      <3>1. buffer_size \in Int BY <1>1 DEF RingOK
      <3> QED BY <1>9, <3>1 DEF Show, Interrupted, RejectSize, EINVAL, ERESTARTSYS
    <2>2. <<>> \in Seq(Bytes) OBVIOUS
    <2> QED BY <1>5, <2>1, <2>2
  <1>10. ASSUME NEW p \in Procs, ReadChar(p) PROVE RingInv'
    <2>1. PICK c \in Bytes \cup {Junk} :
             /\ buffer_read_char(c)
             /\ KeepCopying(p, c) \/ Unlock(p, -EFAULT)
      BY <1>10 DEF ReadChar
    <2>2. before' = before /\ proc[p].pc = "locked"
      BY <1>10 DEF ReadChar, Inside
    <2>3. c \in Bytes
      <3>1. Queue # <<>> /\ c = Head(Queue) BY <1>1, <2>1, ReadOldest
      <3> QED BY <1>2, <3>1
    <2>4. -EFAULT \in Int BY DEF EFAULT
    <2> QED BY <1>6, <1>7, <2>1, <2>2, <2>3, <2>4
  <1>11. ASSUME NEW p \in Procs, WriteChar(p) PROVE RingInv'
    <2>1. -EFAULT \in Int BY DEF EFAULT
    <2> QED BY <1>6, <1>7, <1>11, <2>1 DEF WriteChar, Inside
  <1>12. ASSUME NEW p \in Procs, Finish(p) PROVE RingInv'
    <2>1. Copied(p) \in Int BY <1>2 DEF Copied, ProcOK, ProcRec
    <2> QED BY <1>6, <1>12, <2>1 DEF Finish, Inside
  <1>13. ASSUME NEW p \in Procs, Store(p) PROVE RingInv'
    <2>1. Stored \in Int /\ -ENOMEM \in Int BY DEF Stored, ENOMEM
    <2> QED BY <1>6, <1>13, <2>1 DEF Store, Inside
  <1> QED BY <1>3, <1>4, <1>8, <1>9, <1>10, <1>11, <1>12, <1>13 DEF Next, Step

\* Types, a well-formed ring and the mutex with whoever copies: the invariant of
\* dev_read, dev_write and size_store for any number of processes and any sizes.
THEOREM RingInductive == Spec => []RingInv
  BY InitRingInv, NextRingInv, PTL DEF Spec

\* Whatever the sizes, the processes and the lengths of their calls, the
\* indices stay inside the allocated buffer and only written bytes are queued.
THEOREM RingSafe == Spec => []RingOK
  <1>1. RingInv => RingOK BY DEF RingInv
  <1> QED BY <1>1, RingInductive, PTL

\* The mutex is owned by exactly the process that is copying.
THEOREM MutexSafe == Spec => []MutexOwnedInside
  <1>1. RingInv => MutexOwnedInside BY DEF RingInv
  <1> QED BY <1>1, RingInductive, PTL

\* The module starts with an empty queue.
LEMMA InitFifo == Init => Fifo!Init
  <1> SUFFICES ASSUME Init PROVE Fifo!Init OBVIOUS
  <1>1. Count = 0 BY DEF Init, RingInit, Count
  <1> QED BY <1>1 DEF Init, RingInit, Fifo!Init, Queue

\* Every step puts one byte, takes the oldest, empties the queue with its new
\* capacity, or leaves it alone.
LEMMA StepFifo == RingInv /\ [Next]_vars => [Fifo!Next]_Fifo!vars
  <1> SUFFICES ASSUME RingInv, [Next]_vars PROVE [Fifo!Next]_Fifo!vars OBVIOUS
  <1>1. RingOK /\ RingStep BY EveryStepIsRingStep DEF RingInv
  <1>2. CASE UNCHANGED ringVars
    BY <1>2 DEF ringVars, Fifo!vars, Queue, Count, Slot
  <1>3. ASSUME NEW c \in Bytes, buffer_write_char(c) PROVE Fifo!Put(c)
    <2>1. /\ Len(Queue) = Count /\ buffer_size' = buffer_size
          /\ is_full <=> Count = buffer_size
      BY <1>1, <1>3, QueueType, Slots DEF buffer_write_char
    <2>2. CASE is_full
      <3>1. Queue' = Append(Tail(Queue), c) BY <1>1, <1>3, <2>2, WriteOverOldest
      <3> QED BY <2>1, <2>2, <3>1 DEF Fifo!Put
    <2>3. CASE ~is_full
      <3>1. Queue' = Append(Queue, c) BY <1>1, <1>3, <2>3, WriteWithRoom
      <3> QED BY <2>1, <2>3, <3>1 DEF Fifo!Put
    <2> QED BY <2>2, <2>3
  <1>4. ASSUME NEW c, buffer_read_char(c) PROVE Fifo!Get
    <2>1. Queue # <<>> /\ Queue' = Tail(Queue) BY <1>1, <1>4, ReadOldest
    <2>2. buffer_size' = buffer_size BY <1>4 DEF buffer_read_char
    <2> QED BY <2>1, <2>2 DEF Fifo!Get
  <1>5. ASSUME NEW n \in Sizes, Resized(n) PROVE Fifo!Resize(n)
    <2>1. Queue' = <<>> BY <1>1, <1>5, ResizeEmpties
    <2>2. buffer_size' = n BY <1>5 DEF Resized
    <2> QED BY <2>1, <2>2 DEF Fifo!Resize
  <1> QED BY <1>1, <1>2, <1>3, <1>4, <1>5 DEF RingStep, Fifo!Next

\* For every size the ring is the queue that drops its oldest byte for room.
THEOREM RingIsFifo == Spec => ImplementsFifo
  BY InitFifo, StepFifo, RingInductive, PTL
  DEF Spec, ImplementsFifo, Fifo!Spec

(***************************************************************************)
(* The calls: between the lock and the unlock the process inside has taken *)
(* the oldest bytes that were there, or put its bytes behind them.         *)
(***************************************************************************)
\* The last n elements of s, or all.
Newest(s, n) == IF Len(s) <= n THEN s ELSE SubSeq(s, Len(s) - n + 1, Len(s))

Reading(p) == LET n == Len(proc[p].data)
              IN /\ n <= Len(before)
                 /\ proc[p].data = SubSeq(before, 1, n)
                 /\ Queue = SubSeq(before, n + 1, Len(before))
Writing(p) == Queue = Newest(before \o proc[p].data, buffer_size)
Storing(p) == proc[p].data = <<>> /\ Queue = before

CopyInv ==
    \A p \in Procs :
        /\ proc[p].pc = "lock" => proc[p].data = <<>>
        /\ proc[p].pc = "locked" =>
              /\ Len(proc[p].data) <= proc[p].len \/ proc[p].op = "store"
              /\ proc[p].op = "read" => Reading(p)
              /\ proc[p].op = "write" => Writing(p)
              /\ proc[p].op = "store" => Storing(p)

\* Taking the first of what is left is taking one more.
LEMMA OneMoreTaken ==
  ASSUME NEW T, NEW s \in Seq(T), NEW n \in Nat, n < Len(s)
  PROVE  /\ Head(SubSeq(s, n + 1, Len(s))) = s[n + 1]
         /\ Tail(SubSeq(s, n + 1, Len(s))) = SubSeq(s, (n + 1) + 1, Len(s))
         /\ Append(SubSeq(s, 1, n), s[n + 1]) = SubSeq(s, 1, n + 1)
  <1>1. Len(s) \in Nat /\ \A i \in 1..Len(s) : s[i] \in T
    BY LenProperties, ElementOfSeq
  <1>2. /\ Head(SubSeq(s, n + 1, Len(s))) = s[n + 1]
        /\ Tail(SubSeq(s, n + 1, Len(s))) = SubSeq(s, (n + 1) + 1, Len(s))
    <2>1. n + 1 \in 1..Len(s) BY <1>1
    <2> QED BY <1>1, <2>1
  <1>3. Append(SubSeq(s, 1, n), s[n + 1]) = SubSeq(s, 1, n + 1)
    <2> DEFINE a == SubSeq(s, 1, n)
               b == SubSeq(s, 1, n + 1)
    <2>1. /\ a \in Seq(T) /\ Len(a) = n /\ \A i \in 1..n : a[i] = s[i]
          /\ b \in Seq(T) /\ Len(b) = n + 1 /\ \A i \in 1..n + 1 : b[i] = s[i]
      BY <1>1
    <2>2. s[n + 1] \in T BY <1>1
    <2> HIDE DEF a, b
    <2>3. /\ Append(a, s[n + 1]) \in Seq(T) /\ Len(Append(a, s[n + 1])) = n + 1
          /\ \A i \in 1..n : Append(a, s[n + 1])[i] = s[i]
          /\ Append(a, s[n + 1])[n + 1] = s[n + 1]
      BY <2>1, <2>2
    <2>4. \A i \in 1..n + 1 : Append(a, s[n + 1])[i] = b[i] BY <2>1, <2>3
    <2>5. Append(a, s[n + 1]) = b BY <2>1, <2>3, <2>4, SeqEqual
    <2> QED BY <2>5 DEF a, b
  <1> QED BY <1>2, <1>3

\* b behind the elements of q, of which the first makes room when there are n.
Pushed(q, b, n) == Append(IF Len(q) = n THEN Tail(q) ELSE q, b)

\* The newest of one element more are the newest, that element behind them.
LEMMA NewestAppend ==
  ASSUME NEW T, NEW s \in Seq(T), NEW b \in T, NEW n \in Nat \ {0}
  PROVE  Newest(Append(s, b), n) = Pushed(Newest(s, n), b, n)
  <1>1. /\ Len(s) \in Nat /\ \A i \in 1..Len(s) : s[i] \in T
        /\ Append(s, b) \in Seq(T) /\ Len(Append(s, b)) = Len(s) + 1
        /\ Append(s, b)[Len(s) + 1] = b /\ \A i \in 1..Len(s) : Append(s, b)[i] = s[i]
    BY LenProperties, ElementOfSeq, AppendProperties
  <1>2. CASE Len(s) < n
    <2>1. Newest(s, n) = s /\ Len(s) # n BY <1>1, <1>2 DEF Newest
    <2>2. Newest(Append(s, b), n) = Append(s, b) BY <1>1, <1>2 DEF Newest
    <2> QED BY <2>1, <2>2 DEF Pushed
  <1>3. CASE Len(s) >= n
    <2> DEFINE k == Len(s) - n
               q == SubSeq(s, k + 1, Len(s))
               r == Append(s, b)
               z == SubSeq(r, k + 2, Len(s) + 1)
    <2>1. k \in Nat /\ k + n = Len(s) BY <1>1, <1>3
    <2>2. /\ q \in Seq(T) /\ Len(q) = n /\ \A i \in 1..n : q[i] = s[k + i]
      BY <1>1, <2>1
    <2>3. Newest(s, n) = q
      <3>1. CASE Len(s) = n
        <4>1. q = SubSeq(s, 1, Len(s)) BY <1>1, <3>1
        <4> QED BY <1>1, <3>1, <4>1, SubSeqFull DEF Newest
      <3>2. CASE Len(s) > n BY <1>1, <3>2 DEF Newest
      <3> QED BY <1>1, <1>3, <3>1, <3>2
    <2>4. Newest(r, n) = z
      <3>1. Len(r) = Len(s) + 1 /\ ~(Len(r) <= n) /\ Len(r) - n + 1 = k + 2
        BY <1>1, <1>3
      <3> QED BY <3>1 DEF Newest
    <2>5. z \in Seq(T) /\ Len(z) = n /\ \A i \in 1..n : z[i] = r[k + 1 + i]
      <3>1. r \in Seq(T) /\ Len(r) = Len(s) + 1 BY <1>1
      <3> HIDE DEF r
      <3> QED BY <1>1, <2>1, <3>1
    <2>6. q # <<>> BY <2>2
    <2> HIDE DEF q, z
    <2>7. /\ Tail(q) \in Seq(T) /\ Len(Tail(q)) = n - 1
          /\ \A i \in 1..n - 1 : Tail(q)[i] = q[i + 1]
      BY <2>2, <2>6, HeadTailProperties
    <2> DEFINE y == Append(Tail(q), b)
    <2>8. /\ y \in Seq(T) /\ Len(y) = n /\ y[n] = b
          /\ \A i \in 1..n - 1 : y[i] = q[i + 1]
      BY <2>7
    <2> HIDE DEF y
    <2>9. ASSUME NEW i \in 1..n PROVE z[i] = y[i]
      <3>1. CASE i = n BY <1>1, <2>1, <2>5, <2>8, <3>1
      <3>2. CASE i < n
        <4>1. i \in 1..n - 1 /\ i + 1 \in 1..n /\ k + (i + 1) \in 1..Len(s)
          BY <2>1, <3>2
        <4>2. z[i] = r[k + (i + 1)] /\ k + (i + 1) = (k + 1) + i BY <2>1, <2>5
        <4>3. r[k + (i + 1)] = s[k + (i + 1)] BY <1>1, <4>1
        <4> QED BY <2>2, <2>8, <4>1, <4>2, <4>3
      <3> QED BY <3>1, <3>2
    <2>10. z = y BY <2>5, <2>8, <2>9, SeqEqual
    <2> QED BY <2>2, <2>3, <2>4, <2>10 DEF y, Pushed
  <1> QED BY <1>1, <1>2, <1>3

LEMMA ConcatAppend ==
  ASSUME NEW T, NEW s \in Seq(T), NEW r \in Seq(T), NEW b \in T
  PROVE  s \o Append(r, b) = Append(s \o r, b)
  OBVIOUS

\* What a step of another process leaves of the call of p.
LEMMA CopyKept ==
  ASSUME CopyInv, NEW p \in Procs, UNCHANGED <<ringVars, before>>, proc'[p] = proc[p]
  PROVE  /\ proc'[p].pc = "lock" => proc'[p].data = <<>>
         /\ proc'[p].pc = "locked" =>
               /\ Len(proc'[p].data) <= proc'[p].len \/ proc'[p].op = "store"
               /\ proc'[p].op = "read" => Reading(p)'
               /\ proc'[p].op = "write" => Writing(p)'
               /\ proc'[p].op = "store" => Storing(p)'
  <1>1. Queue' = Queue /\ buffer_size' = buffer_size
    BY DEF ringVars, Queue, Count, Slot
  <1> QED BY <1>1 DEF CopyInv, Reading, Writing, Storing

LEMMA CopyInit == Init => CopyInv
  BY DEF Init, Idle, CopyInv

LEMMA CopyStays ==
  ASSUME RingInv, CopyInv, [Next]_vars PROVE CopyInv'
  <1>1. /\ RingOK /\ before \in Seq(Bytes) /\ Queue \in Seq(Bytes)
        /\ proc = [p \in Procs |-> proc[p]]
        /\ \A p \in Procs : ProcOK(proc[p])
        /\ \A p \in Procs : proc[p].pc = "locked" <=> buffer_lock = p
    BY TypeByProcess, QueueType DEF RingInv, MutexOwnedInside
  <1>2. CASE UNCHANGED vars
    <2>1. UNCHANGED <<ringVars, before, proc>> BY <1>2 DEF vars
    <2> QED BY <2>1, CopyKept DEF CopyInv
  \* The mutex keeps the others out while the ring changes.
  <1>3. ASSUME NEW p \in Procs, UNCHANGED <<ringVars, before>>,
               NEW r, proc' = [proc EXCEPT ![p] = r],
               r.pc = "idle" \/ (r.pc = "lock" /\ r.data = <<>>)
        PROVE  CopyInv'
    <2>1. proc'[p] = r /\ \A q \in Procs \ {p} : proc'[q] = proc[q] BY <1>1, <1>3
    <2>2. /\ proc'[p].pc = "lock" => proc'[p].data = <<>>
          /\ proc'[p].pc # "locked"
      BY <1>3, <2>1
    <2>3. \A q \in Procs \ {p} : proc'[q] = proc[q] BY <2>1
    <2> QED BY <1>3, <2>2, <2>3, CopyKept DEF CopyInv
  <1>4. ASSUME NEW p \in Procs, buffer_lock = p, NEW r, proc' = [proc EXCEPT ![p] = r],
               /\ r.pc = "idle" \/ r.pc = "locked"
               /\ r.pc = "locked" =>
                     /\ Len(r.data) <= r.len \/ r.op = "store"
                     /\ r.op = "read" => Reading(p)'
                     /\ r.op = "write" => Writing(p)'
                     /\ r.op = "store" => Storing(p)'
        PROVE  CopyInv'
    <2>1. proc'[p] = r /\ \A q \in Procs \ {p} : proc'[q] = proc[q] BY <1>1, <1>4
    <2>2. \A q \in Procs \ {p} : proc'[q].pc # "locked" BY <1>1, <1>4, <2>1
    <2>3. \A q \in Procs \ {p} : proc'[q].pc = "lock" => proc'[q].data = <<>>
      BY <2>1 DEF CopyInv
    <2> QED BY <1>4, <2>1, <2>2, <2>3 DEF CopyInv
  <1>5. ASSUME NEW p \in Procs, Invoke(p) PROVE CopyInv'
    <2>1. PICK c \in Calls :
             proc' = [proc EXCEPT ![p] = [pc |-> "lock", op |-> c.op, len |-> c.len,
                                          ret |-> 0, data |-> <<>>]]
      BY <1>5 DEF Invoke
    <2> DEFINE r == [pc |-> "lock", op |-> c.op, len |-> c.len, ret |-> 0, data |-> <<>>]
    <2>2. r.pc = "lock" /\ r.data = <<>> OBVIOUS
    <2> HIDE DEF r
    <2>3. proc' = [proc EXCEPT ![p] = r] BY <2>1 DEF r
    <2>4. UNCHANGED <<ringVars, before>> BY <1>5 DEF Invoke
    <2> QED BY <1>3, <2>2, <2>3, <2>4
  <1>6. ASSUME NEW p \in Procs, NEW ret, NEW data, Return(p, ret, data),
               UNCHANGED <<ringVars, before>> \/ buffer_lock = p
        PROVE  CopyInv'
    <2>1. proc' = [proc EXCEPT ![p] = Idle(ret, data)] /\ Idle(ret, data).pc = "idle"
      BY <1>6 DEF Return, Idle
    <2> QED BY <1>3, <1>4, <1>6, <2>1
  <1>7. ASSUME NEW p \in Procs, Show(p) \/ Interrupted(p) \/ RejectSize(p) PROVE CopyInv'
    BY <1>6, <1>7 DEF Show, Interrupted, RejectSize
  <1>8. ASSUME NEW p \in Procs, Lock(p) PROVE CopyInv'
    <2> DEFINE r == [proc[p] EXCEPT !.pc = "locked"]
    <2>1. /\ proc[p].pc = "lock" /\ buffer_lock = NoOne /\ before' = Queue
          /\ UNCHANGED ringVars /\ ProcOK(proc[p]) /\ proc[p].data = <<>>
      BY <1>1, <1>8 DEF Lock, CopyInv
    <2>2. proc' = [proc EXCEPT ![p] = r] BY <1>1, <1>8 DEF Lock
    <2>3. /\ r.pc = "locked" /\ r.data = <<>> /\ r.op = proc[p].op /\ r.len \in Nat
      BY <2>1 DEF ProcOK, ProcRec
    <2> HIDE DEF r
    <2>4. proc'[p] = r /\ \A q \in Procs \ {p} : proc'[q] = proc[q] BY <1>1, <2>2
    <2>5. Queue' = Queue /\ buffer_size' = buffer_size /\ Len(Queue) <= buffer_size
      <3>1. Queue' = Queue /\ buffer_size' = buffer_size
        BY <2>1 DEF ringVars, Queue, Count, Slot
      <3> QED BY <1>1, <3>1, QueueType, Slots
    <2>6. Reading(p)'
      <3>1. Len(Queue) \in Nat /\ SubSeq(Queue, 1, 0) = <<>>
            /\ SubSeq(Queue, 1, Len(Queue)) = Queue
        BY <1>1, LenProperties, SubSeqEmpty, SubSeqFull
      <3>2. Len(r.data) = 0 /\ 0 + 1 = 1 BY <2>3
      <3>3. proc'[p].data = <<>> /\ Len(proc'[p].data) = 0 /\ before' = Queue
        BY <2>1, <2>3, <2>4, <3>2
      <3>4. /\ Len(before') >= 0 /\ SubSeq(before', 1, 0) = <<>>
            /\ SubSeq(before', 0 + 1, Len(before')) = Queue'
        BY <2>5, <3>1, <3>2, <3>3
      <3>5. /\ Len(proc'[p].data) <= Len(before')
            /\ proc'[p].data = SubSeq(before', 1, Len(proc'[p].data))
            /\ Queue' = SubSeq(before', Len(proc'[p].data) + 1, Len(before'))
        BY <3>3, <3>4
      <3> QED BY <3>5 DEF Reading
    <2>7. Writing(p)'
      <3>1. Queue \o <<>> = Queue BY <1>1, ConcatEmptySeq
      <3> QED BY <2>1, <2>3, <2>4, <2>5, <3>1 DEF Writing, Newest
    <2>8. Storing(p)' BY <2>1, <2>3, <2>4, <2>5 DEF Storing
    <2>9. \A q \in Procs \ {p} : proc'[q].pc # "locked"
      BY <1>1, <2>1, <2>4
    <2>10. \A q \in Procs \ {p} : proc'[q].pc = "lock" => proc'[q].data = <<>>
      BY <2>4 DEF CopyInv
    <2>11. Len(r.data) <= r.len BY <2>3
    <2> QED BY <2>3, <2>4, <2>6, <2>7, <2>8, <2>9, <2>10, <2>11 DEF CopyInv
  <1>9. ASSUME NEW p \in Procs, Inside(p, "read"), NEW c, buffer_read_char(c),
               KeepCopying(p, c), Copied(p) < proc[p].len
        PROVE  CopyInv'
    <2> DEFINE n == Len(proc[p].data)
               r == [proc[p] EXCEPT !.data = Append(@, c)]
    <2>1. /\ proc[p].pc = "locked" /\ proc[p].op = "read" /\ before' = before
          /\ buffer_lock = p /\ ProcOK(proc[p]) /\ Reading(p)
      BY <1>1, <1>9 DEF Inside, CopyInv
    <2>2. /\ n <= Len(before) /\ proc[p].data = SubSeq(before, 1, n) /\ n \in Nat
          /\ Queue = SubSeq(before, n + 1, Len(before)) /\ Len(before) \in Nat
      BY <1>1, <2>1 DEF Reading, ProcOK, ProcRec
    <2>3. Queue # <<>> /\ c = Head(Queue) /\ Queue' = Tail(Queue)
      BY <1>1, <1>9, ReadOldest
    <2>4. n < Len(before)
      <3>1. n = Len(before) => Queue = <<>>
        <4>1. SubSeq(before, n + 1, n) = <<>> BY <2>2, SubSeqEmpty
        <4> QED BY <2>2, <4>1
      <3>2. n # Len(before) BY <2>3, <3>1
      <3>3. n <= Len(before) /\ n \in Nat /\ Len(before) \in Nat BY <2>2
      <3> HIDE DEF n
      <3> QED BY <3>2, <3>3
    <2>5. proc' = [proc EXCEPT ![p] = r] BY <1>1, <1>9 DEF KeepCopying
    <2>6. r.pc = "locked" /\ r.op = "read" /\ r.len = proc[p].len
          /\ r.data = Append(proc[p].data, c)
      BY <2>1 DEF ProcOK, ProcRec
    <2>7. Len(proc[p].data) < proc[p].len /\ proc[p].len \in Nat
      BY <1>9, <2>1 DEF Copied, ProcOK, ProcRec
    <2> HIDE DEF n, r
    <2>8. c = before[n + 1] /\ Queue' = SubSeq(before, (n + 1) + 1, Len(before))
          /\ r.data = SubSeq(before, 1, n + 1)
      <3>1. Append(SubSeq(before, 1, n), before[n + 1]) = SubSeq(before, 1, n + 1)
            /\ Head(Queue) = before[n + 1]
            /\ Tail(Queue) = SubSeq(before, (n + 1) + 1, Len(before))
        BY <1>1, <2>2, <2>4, OneMoreTaken
      <3> QED BY <2>2, <2>3, <2>6, <3>1
    <2>9. Len(r.data) = n + 1 /\ Len(r.data) <= r.len
      <3>1. Len(r.data) = n + 1 BY <1>1, <2>2, <2>4, <2>8, SubSeqProperties, ElementOfSeq
      <3> QED BY <2>2, <2>6, <2>7, <3>1 DEF n
    <2>10. proc'[p] = r BY <1>1, <2>5
    <2>11. Reading(p)'
      <3>1. Len(proc'[p].data) = n + 1 /\ proc'[p].data = SubSeq(before', 1, n + 1)
            /\ Queue' = SubSeq(before', (n + 1) + 1, Len(before')) /\ n + 1 <= Len(before')
        BY <2>1, <2>2, <2>4, <2>8, <2>9, <2>10
      <3>2. /\ Len(proc'[p].data) <= Len(before')
            /\ proc'[p].data = SubSeq(before', 1, Len(proc'[p].data))
            /\ Queue' = SubSeq(before', Len(proc'[p].data) + 1, Len(before'))
        BY <3>1
      <3> QED BY <3>2 DEF Reading
    <2> QED BY <1>4, <2>1, <2>5, <2>6, <2>9, <2>11
  <1>10. ASSUME NEW p \in Procs, Inside(p, "write"), NEW c \in Bytes, buffer_write_char(c),
                KeepCopying(p, c), Copied(p) < proc[p].len
         PROVE  CopyInv'
    <2> DEFINE r == [proc[p] EXCEPT !.data = Append(@, c)]
               data == proc[p].data
    <2>1. /\ proc[p].pc = "locked" /\ proc[p].op = "write" /\ before' = before
          /\ buffer_lock = p /\ ProcOK(proc[p]) /\ Writing(p)
      BY <1>1, <1>10 DEF Inside, CopyInv
    <2>2. data \in Seq(Bytes) /\ Len(data) < proc[p].len /\ proc[p].len \in Nat
          /\ Len(data) \in Nat
      BY <1>10, <2>1 DEF Copied, ProcOK, ProcRec
    <2>3. proc' = [proc EXCEPT ![p] = r] BY <1>1, <1>10 DEF KeepCopying
    <2>4. r.pc = "locked" /\ r.op = "write" /\ r.len = proc[p].len /\ r.data = Append(data, c)
      BY <2>1 DEF ProcOK, ProcRec
    <2> HIDE DEF r, data
    <2>5. Queue = Newest(before \o data, buffer_size) /\ before \o data \in Seq(Bytes)
      BY <1>1, <2>1, <2>2, ConcatProperties DEF Writing, data
    <2>6. /\ buffer_size' = buffer_size /\ buffer_size \in Nat \ {0}
          /\ Queue' = Append(IF Len(Queue) = buffer_size THEN Tail(Queue) ELSE Queue, c)
      <3>1. Len(Queue) = Count /\ (is_full <=> Count = buffer_size) /\ buffer_size \in Nat \ {0}
        BY <1>1, QueueType, Slots
      <3>2. buffer_size' = buffer_size BY <1>10 DEF buffer_write_char
      <3>3. CASE is_full BY <1>1, <1>10, <3>1, <3>2, <3>3, WriteOverOldest
      <3>4. CASE ~is_full BY <1>1, <1>10, <3>1, <3>2, <3>4, WriteWithRoom
      <3> QED BY <3>3, <3>4
    <2>7. Queue' = Newest(Append(before \o data, c), buffer_size)
      <3> DEFINE s == before \o data
                 m == buffer_size
      <3>1. s \in Seq(Bytes) /\ m \in Nat \ {0} /\ c \in Bytes BY <2>5, <2>6
      <3> HIDE DEF s, m
      <3>2. Newest(Append(s, c), m)
                = Pushed(Newest(s, m), c, m)
        BY <3>1, NewestAppend
      <3>3. Queue = Newest(s, m) BY <2>5 DEF s, m
      <3> QED BY <2>6, <3>2, <3>3 DEF s, m, Pushed
    <2>8. before \o Append(data, c) = Append(before \o data, c)
      BY <1>1, <2>2, ConcatAppend
    <2>9. proc'[p] = r BY <1>1, <2>3
    <2>10. Writing(p)' BY <2>1, <2>4, <2>6, <2>7, <2>8, <2>9 DEF Writing
    <2>11. Len(r.data) <= r.len
      <3>1. Len(Append(data, c)) = Len(data) + 1 BY <2>2, AppendProperties
      <3> QED BY <2>2, <2>4, <3>1
    <2> QED BY <1>4, <2>1, <2>3, <2>4, <2>10, <2>11
  <1>11. ASSUME NEW p \in Procs, NEW ret, Unlock(p, ret), proc[p].pc = "locked" PROVE CopyInv'
    BY <1>1, <1>6, <1>11 DEF Unlock
  <1>12. ASSUME NEW p \in Procs, Step(p) PROVE CopyInv'
    <2>1. CASE ReadChar(p) BY <1>9, <1>11, <2>1 DEF ReadChar, Inside
    <2>2. CASE WriteChar(p) BY <1>10, <1>11, <2>2 DEF WriteChar, Inside
    <2>3. CASE Finish(p) BY <1>11, <2>3 DEF Finish, Inside
    <2>4. CASE Store(p) BY <1>11, <2>4 DEF Store, Inside
    <2>5. CASE Lock(p) BY <1>8, <2>5
    <2>6. CASE RejectSize(p) BY <1>7, <2>6
    <2> QED BY <1>12, <2>1, <2>2, <2>3, <2>4, <2>5, <2>6 DEF Step
  <1> QED BY <1>2, <1>5, <1>7, <1>12 DEF Next

(***************************************************************************)
(* The calls happen at one instant: a read or write when it gives the      *)
(* mutex back, with the queue as it was when it was taken.                 *)
(***************************************************************************)
\* What the users see: the queue, and what each asked for or was told.
Seen == IF buffer_lock = NoOne THEN Queue ELSE before
Shown == [p \in Procs |->
            IF proc[p].pc = "idle"
            THEN [op |-> "returned", ret |-> proc[p].ret, data |-> proc[p].data]
            ELSE [op |-> proc[p].op, len |-> proc[p].len]]

LEMMA ShownOp ==
  ASSUME RingInv, NEW p \in Procs
  PROVE  /\ Shown[p].op = "returned" <=> proc[p].pc = "idle"
         /\ proc[p].pc # "idle" => Shown[p].op = proc[p].op /\ Shown[p].len = proc[p].len
  <1>1. ProcOK(proc[p]) BY TypeByProcess DEF RingInv
  <1> QED BY <1>1 DEF Shown, ProcOK

\* A return is shown as one.
LEMMA ReturnShown ==
  ASSUME RingInv, NEW p \in Procs, NEW ret, NEW data, Return(p, ret, data)
  PROVE  /\ Shown' = [Shown EXCEPT ![p] = [op |-> "returned", ret |-> ret, data |-> data]]
         /\ Shown'[p] = [op |-> "returned", ret |-> ret, data |-> data]
  <1>1. proc = [q \in Procs |-> proc[q]] BY TypeByProcess DEF RingInv
  <1>2. /\ proc'[p] = Idle(ret, data) /\ \A q \in Procs \ {p} : proc'[q] = proc[q]
    BY <1>1 DEF Return
  <1>3. Shown'[p] = [op |-> "returned", ret |-> ret, data |-> data]
    BY <1>2 DEF Shown, Idle
  <1>4. \A q \in Procs \ {p} : Shown'[q] = Shown[q] BY <1>2 DEF Shown
  <1>5. Shown = [q \in Procs |-> Shown[q]] /\ Shown' = [q \in Procs |-> Shown'[q]]
    BY DEF Shown
  <1>6. Shown' = [Shown EXCEPT ![p] = [op |-> "returned", ret |-> ret, data |-> data]]
    BY <1>3, <1>4, <1>5
  <1> QED BY <1>3, <1>6

\* The copying of a byte, like the taking of the mutex, is not seen.
LEMMA InsideUnseen ==
  ASSUME RingInv, NEW p \in Procs, NEW r, proc' = [proc EXCEPT ![p] = r],
         proc[p].pc # "idle", r.pc # "idle", r.op = proc[p].op, r.len = proc[p].len
  PROVE  Shown' = Shown
  <1>1. proc = [q \in Procs |-> proc[q]] BY TypeByProcess DEF RingInv
  <1>2. proc'[p] = r /\ \A q \in Procs \ {p} : proc'[q] = proc[q] BY <1>1
  <1>3. \A q \in Procs : Shown'[q] = Shown[q] BY <1>2 DEF Shown
  <1>4. Shown = [q \in Procs |-> Shown[q]] /\ Shown' = [q \in Procs |-> Shown'[q]]
    BY DEF Shown
  <1> QED BY <1>3, <1>4

LEMMA CallsInit == Init => AtomicCalls!Init
  <1> SUFFICES ASSUME Init PROVE AtomicCalls!Init OBVIOUS
  <1>1. Queue = <<>> BY DEF Init, RingInit, Count, Queue
  <1> QED BY <1>1 DEF Init, RingInit, Idle, AtomicCalls!Init

\* A read that ends has taken the first bytes of the queue it found.
LEMMA ReadSeen ==
  ASSUME RingInv, CopyInv, NEW p \in Procs, proc[p].pc = "locked", proc[p].op = "read"
  PROVE  LET n == Len(proc[p].data)
         IN /\ n \in Nat /\ n <= proc[p].len /\ n <= Len(before) /\ Seen = before
            /\ proc[p].len \in Nat /\ Len(before) \in Nat /\ before \in Seq(Bytes)
            /\ proc[p].data = SubSeq(before, 1, n)
            /\ Queue = SubSeq(before, n + 1, Len(before))
  <1>1. ProcOK(proc[p]) /\ buffer_lock = p /\ before \in Seq(Bytes)
    BY TypeByProcess DEF RingInv, MutexOwnedInside
  <1>2. Len(proc[p].data) <= proc[p].len /\ Reading(p) BY DEF CopyInv
  <1>3. proc[p].data \in Seq(Bytes) /\ proc[p].len \in Nat BY <1>1 DEF ProcOK, ProcRec
  <1>4. Len(proc[p].data) \in Nat /\ Len(before) \in Nat BY <1>1, <1>3, LenProperties
  <1>5. Seen = before BY <1>1 DEF Seen
  <1> QED BY <1>1, <1>2, <1>3, <1>4, <1>5 DEF Reading

LEMMA ReadFails ==
  ASSUME RingInv, CopyInv, NEW p \in Procs, Inside(p, "read"), Copied(p) < proc[p].len,
         NEW c, buffer_read_char(c), Unlock(p, -EFAULT)
  PROVE  AtomicCalls!Read(p)
  <1> DEFINE lost == Len(proc[p].data) + 1
  <1>1. proc[p].pc = "locked" /\ proc[p].op = "read" /\ before' = before BY DEF Inside
  <1>2. /\ Len(proc[p].data) \in Nat /\ Len(proc[p].data) < proc[p].len
        /\ proc[p].len \in Nat /\ Len(before) \in Nat /\ before \in Seq(Bytes)
        /\ Len(proc[p].data) <= Len(before) /\ Seen = before
        /\ proc[p].data = SubSeq(before, 1, Len(proc[p].data))
        /\ Queue = SubSeq(before, Len(proc[p].data) + 1, Len(before))
    BY <1>1, ReadSeen DEF Copied
  <1>3. Queue # <<>> /\ Queue' = Tail(Queue) BY ReadOldest DEF RingInv
  <1>4. lost \in 1..Len(before) /\ lost <= proc[p].len /\ lost - 1 = Len(proc[p].data)
    <2>1. Len(proc[p].data) = Len(before) => Queue = <<>>
      <3>1. SubSeq(before, Len(before) + 1, Len(before)) = <<>> BY <1>2, SubSeqEmpty
      <3> QED BY <1>2, <3>1
    <2>2. Len(proc[p].data) # Len(before) BY <1>3, <2>1
    <2> QED BY <1>2, <2>2
  <1>5. Seen' = SubSeq(before, lost + 1, Len(before))
    <2>1. Tail(SubSeq(before, Len(proc[p].data) + 1, Len(before)))
              = SubSeq(before, (Len(proc[p].data) + 1) + 1, Len(before))
      <3>1. Len(proc[p].data) \in Nat /\ Len(proc[p].data) < Len(before) BY <1>2, <1>4
      <3> QED BY <1>2, <3>1, OneMoreTaken
    <2> QED BY <1>2, <1>3, <2>1 DEF Seen, Unlock
  <1> HIDE DEF lost
  <1>6. Shown' = [Shown EXCEPT ![p] =
                     [op |-> "returned", ret |-> -EFAULT, data |-> SubSeq(before, 1, lost - 1)]]
    <2>1. proc[p].data = SubSeq(before, 1, lost - 1) BY <1>2, <1>4
    <2>2. Shown' = [Shown EXCEPT ![p] =
                       [op |-> "returned", ret |-> -EFAULT, data |-> proc[p].data]]
      BY ReturnShown DEF Unlock
    <2> QED BY <2>1, <2>2
  <1>7. Shown[p].op = "read" /\ Shown[p].len = proc[p].len BY <1>1, ShownOp
  <1>8. buffer_size' = buffer_size BY DEF buffer_read_char
  <1>9. lost \in 1..AtomicCalls!Least(Shown[p].len, Len(Seen))
    BY <1>2, <1>4, <1>7 DEF AtomicCalls!Least
  <1> QED BY <1>2, <1>5, <1>6, <1>7, <1>8, <1>9
      DEF AtomicCalls!Read, AtomicCalls!Return, AtomicCalls!First, AtomicCalls!Without,
          AtomicCalls!EFAULT, EFAULT, Shown, Seen

LEMMA ReadEnds ==
  ASSUME RingInv, CopyInv, NEW p \in Procs, Inside(p, "read"), Copied(p) = proc[p].len \/ Empty,
         Unlock(p, Copied(p)), UNCHANGED ringVars
  PROVE  AtomicCalls!Read(p)
  <1> DEFINE n == Len(proc[p].data)
  <1>1. proc[p].pc = "locked" /\ proc[p].op = "read" /\ before' = before BY DEF Inside
  <1>2. /\ n \in Nat /\ n <= proc[p].len /\ proc[p].len \in Nat
        /\ Len(before) \in Nat /\ n <= Len(before) /\ Seen = before /\ before \in Seq(Bytes)
        /\ proc[p].data = SubSeq(before, 1, n)
        /\ Queue = SubSeq(before, n + 1, Len(before))
    BY <1>1, ReadSeen
  <1>3. Seen' = SubSeq(before, n + 1, Len(before)) /\ buffer_size' = buffer_size
    <2>1. Queue' = Queue BY DEF ringVars, Queue, Count, Slot
    <2> QED BY <1>2, <2>1 DEF Seen, Unlock, ringVars
  <1>4. n = proc[p].len \/ n = Len(before)
    <2>1. CASE Empty
      <3>1. Count = 0 BY <2>1 DEF Empty, Count, RingInv, RingOK
      <3>2. Len(Queue) = 0 BY <3>1, QueueType DEF RingInv
      <3>3. n < Len(before) => Len(Queue) # 0 BY <1>2
      <3> QED BY <1>2, <3>2, <3>3
    <2>2. CASE n = proc[p].len BY <2>2
    <2> QED BY <2>1, <2>2 DEF Copied
  <1>5. Shown' = [Shown EXCEPT ![p] = [op |-> "returned", ret |-> n, data |-> proc[p].data]]
    <2>1. Return(p, Copied(p), proc[p].data) BY DEF Unlock
    <2>2. Shown' = [Shown EXCEPT ![p] =
                       [op |-> "returned", ret |-> Copied(p), data |-> proc[p].data]]
      BY <2>1, ReturnShown
    <2> QED BY <2>2 DEF Copied
  <1>6. Shown[p].op = "read" /\ Shown[p].len = proc[p].len BY <1>1, ShownOp
  <1> HIDE DEF n
  <1>7. n = AtomicCalls!Least(Shown[p].len, Len(Seen))
    BY <1>2, <1>4, <1>6 DEF AtomicCalls!Least
  <1> QED BY <1>2, <1>3, <1>5, <1>6, <1>7
      DEF AtomicCalls!Read, AtomicCalls!Return, AtomicCalls!First, AtomicCalls!Without,
          AtomicCalls!EFAULT, EFAULT, Shown, Seen

\* A write that ends has put its bytes, all or those before the bad address.
LEMMA WriteEnds ==
  ASSUME RingInv, CopyInv, NEW p \in Procs, Inside(p, "write"), UNCHANGED ringVars,
         \/ Copied(p) = proc[p].len /\ Unlock(p, Copied(p))
         \/ Copied(p) < proc[p].len /\ Unlock(p, -EFAULT)
  PROVE  AtomicCalls!Write(p)
  <1> DEFINE data == proc[p].data
  <1>1. proc[p].pc = "locked" /\ proc[p].op = "write" BY DEF Inside
  <1>2. ProcOK(proc[p]) /\ buffer_lock = p /\ Seen = before
    BY <1>1, TypeByProcess DEF RingInv, MutexOwnedInside, Seen
  <1>3. data \in Seq(Bytes) BY <1>2 DEF ProcOK, ProcRec
  <1>4. Seen' = Newest(Seen \o data, buffer_size) /\ buffer_size' = buffer_size
    <2>1. Queue' = Queue /\ buffer_size' = buffer_size BY DEF ringVars, Queue, Count, Slot
    <2>2. Queue = Newest(before \o data, buffer_size) BY <1>1 DEF CopyInv, Writing
    <2> QED BY <1>2, <2>1, <2>2 DEF Seen, Unlock
  <1>5. Shown[p].op = "write" /\ Shown[p].len = proc[p].len BY <1>1, ShownOp
  <1>6. /\ Shown'[p].op = "returned" /\ Shown'[p].data = data
        /\ \/ /\ Len(data) = Shown[p].len
              /\ Shown' = [Shown EXCEPT ![p] =
                              [op |-> "returned", ret |-> Shown[p].len, data |-> data]]
           \/ /\ Len(data) < Shown[p].len
              /\ Shown' = [Shown EXCEPT ![p] =
                              [op |-> "returned", ret |-> -EFAULT, data |-> data]]
    <2>1. CASE Copied(p) = proc[p].len /\ Unlock(p, Copied(p))
      <3>1. Return(p, Copied(p), proc[p].data) BY <2>1 DEF Unlock
      <3>2. /\ Shown'[p] = [op |-> "returned", ret |-> Copied(p), data |-> proc[p].data]
            /\ Shown' = [Shown EXCEPT ![p] =
                            [op |-> "returned", ret |-> Copied(p), data |-> proc[p].data]]
        BY <3>1, ReturnShown
      <3>3. Len(data) = Shown[p].len /\ Copied(p) = Shown[p].len BY <1>5, <2>1 DEF Copied
      <3> QED BY <3>2, <3>3
    <2>2. CASE Copied(p) < proc[p].len /\ Unlock(p, -EFAULT)
      <3>1. Return(p, -EFAULT, proc[p].data) BY <2>2 DEF Unlock
      <3>2. /\ Shown'[p] = [op |-> "returned", ret |-> -EFAULT, data |-> proc[p].data]
            /\ Shown' = [Shown EXCEPT ![p] =
                            [op |-> "returned", ret |-> -EFAULT, data |-> proc[p].data]]
        BY <3>1, ReturnShown
      <3>3. Len(data) < Shown[p].len BY <1>5, <2>2 DEF Copied
      <3> QED BY <3>2, <3>3
    <2> QED BY <2>1, <2>2
  <1>7. Len(Seen \o data) \in Nat /\ buffer_size \in Nat
    BY <1>2, <1>3, TypeByProcess, ConcatProperties, LenProperties DEF RingInv, RingOK
  <1>8. Newest(Seen \o data, buffer_size) = AtomicCalls!Last(Seen \o data, buffer_size)
    BY <1>7 DEF Newest, AtomicCalls!Last, AtomicCalls!Without
  <1> HIDE DEF data
  <1> QED BY <1>3, <1>4, <1>5, <1>6, <1>8 
      DEF AtomicCalls!Write, AtomicCalls!Return, AtomicCalls!EFAULT, EFAULT, Shown, Seen

LEMMA Refused ==
  ASSUME RingInv, NEW p \in Procs, proc[p].pc # "idle", Seen' = Seen, buffer_size' = buffer_size,
         NEW e \in {-ERESTARTSYS, -ENOMEM, -EINVAL}, Return(p, e, <<>>)
  PROVE  AtomicCalls!Refuse(p)
  <1>1. Shown[p].op # "returned" BY ShownOp
  <1>2. Shown' = [Shown EXCEPT ![p] = [op |-> "returned", ret |-> e, data |-> <<>>]]
    BY ReturnShown
  <1>3. e \in {-AtomicCalls!ERESTARTSYS, -AtomicCalls!ENOMEM, -AtomicCalls!EINVAL}
    BY DEF AtomicCalls!ERESTARTSYS, AtomicCalls!ENOMEM, AtomicCalls!EINVAL,
           ERESTARTSYS, ENOMEM, EINVAL
  <1>4. \E x \in {-AtomicCalls!ERESTARTSYS, -AtomicCalls!ENOMEM, -AtomicCalls!EINVAL} :
           Shown' = [Shown EXCEPT ![p] = [op |-> "returned", ret |-> x, data |-> <<>>]]
    BY <1>2, <1>3
  <1> QED BY <1>1, <1>4 DEF AtomicCalls!Refuse, AtomicCalls!Return, Shown, Seen

\* A resize empties the queue, or is refused for want of memory.
LEMMA StoreEnds ==
  ASSUME RingInv, CopyInv, NEW p \in Procs, Store(p)
  PROVE  AtomicCalls!Resize(p) \/ AtomicCalls!Refuse(p)
  <1>1. /\ proc[p].pc = "locked" /\ proc[p].op = "store" /\ before' = before
        /\ buffer_lock = p /\ ProcOK(proc[p]) /\ buffer_lock' = NoOne
    BY TypeByProcess DEF RingInv, MutexOwnedInside, Store, Inside, Unlock
  <1>2. proc[p].len \in Sizes BY <1>1 DEF ProcOK
  <1>3. proc[p].data = <<>> /\ Queue = before /\ Seen = before BY <1>1 DEF CopyInv, Storing, Seen
  <1>4. Seen' = Queue' BY <1>1 DEF Seen
  <1>5. CASE Resized(proc[p].len) /\ Unlock(p, Stored)
    <2>1. Queue' = <<>> BY <1>2, <1>5, ResizeEmpties DEF RingInv
    <2>2. buffer_size' = proc[p].len BY <1>5 DEF Resized
    <2>3. Return(p, Stored, <<>>) BY <1>3, <1>5 DEF Unlock
    <2>4. /\ Shown'[p] = [op |-> "returned", ret |-> Stored, data |-> <<>>]
          /\ Shown' = [Shown EXCEPT ![p] = [op |-> "returned", ret |-> Stored, data |-> <<>>]]
      BY <2>3, ReturnShown
    <2>5. Shown[p].op = "store" /\ Shown[p].len = proc[p].len BY <1>1, ShownOp
    <2>6. Shown'[p].op = "returned" /\ Shown'[p].ret = Stored /\ Stored \in Nat
      BY <2>4 DEF Stored
    <2>7. Shown' = [Shown EXCEPT ![p] =
                       [op |-> "returned", ret |-> Shown'[p].ret, data |-> <<>>]]
      BY <2>4, <2>6
    <2>8. AtomicCalls!Resize(p)
      BY <1>2, <1>4, <2>1, <2>2, <2>5, <2>6, <2>7
      DEF AtomicCalls!Resize, AtomicCalls!Return, Shown, Seen
    <2> QED BY <2>8
  <1>6. CASE UNCHANGED ringVars /\ Unlock(p, -ENOMEM)
    <2>1. Queue' = Queue /\ buffer_size' = buffer_size
      BY <1>6 DEF ringVars, Queue, Count, Slot
    <2>2. Return(p, -ENOMEM, <<>>) BY <1>3, <1>6 DEF Unlock
    <2> QED BY <1>1, <1>3, <1>4, <2>1, <2>2, Refused
  <1> QED BY <1>5, <1>6 DEF Store

\* Every step of the device is one of a call, or is not seen.
LEMMA StepCalls == RingInv /\ CopyInv /\ [Next]_vars => [AtomicCalls!Next]_AtomicCalls!vars
  <1> SUFFICES ASSUME RingInv, CopyInv, [Next]_vars
               PROVE  [AtomicCalls!Next]_AtomicCalls!vars
    OBVIOUS
  <1>1. /\ proc = [p \in Procs |-> proc[p]]
        /\ \A p \in Procs : ProcOK(proc[p])
        /\ \A p \in Procs : proc[p].pc = "locked" <=> buffer_lock = p
    BY TypeByProcess DEF RingInv, MutexOwnedInside
  <1>2. ASSUME UNCHANGED ringVars PROVE Queue' = Queue /\ buffer_size' = buffer_size
    BY <1>2 DEF ringVars, Queue, Count, Slot
  <1>3. ASSUME Seen' = Seen, Shown' = Shown, buffer_size' = buffer_size
        PROVE  UNCHANGED AtomicCalls!vars
    BY <1>3 DEF AtomicCalls!vars, Shown, Seen
  <1>4. CASE UNCHANGED vars
    <2>1. Queue' = Queue /\ buffer_size' = buffer_size BY <1>2, <1>4 DEF vars
    <2>2. Seen' = Seen /\ Shown' = Shown BY <1>4, <2>1 DEF vars, Seen, Shown
    <2> QED BY <1>3, <2>1, <2>2
  <1>5. ASSUME NEW p \in Procs, Invoke(p) PROVE AtomicCalls!Invoke(p)
    <2>1. PICK c \in Calls :
             proc' = [proc EXCEPT ![p] = [pc |-> "lock", op |-> c.op, len |-> c.len,
                                          ret |-> 0, data |-> <<>>]]
      BY <1>5 DEF Invoke
    <2>2. proc'[p] = [pc |-> "lock", op |-> c.op, len |-> c.len, ret |-> 0, data |-> <<>>]
          /\ \A q \in Procs \ {p} : proc'[q] = proc[q]
      BY <1>1, <2>1
    <2>3. [op |-> c.op, len |-> c.len] = c BY DEF Calls
    <2>4. Shown'[p] = c BY <2>2, <2>3 DEF Shown
    <2>5. \A q \in Procs \ {p} : Shown'[q] = Shown[q] BY <2>2 DEF Shown
    <2>6. Shown = [q \in Procs |-> Shown[q]] /\ Shown' = [q \in Procs |-> Shown'[q]]
      BY DEF Shown
    <2>7. Shown' = [Shown EXCEPT ![p] = c] BY <2>4, <2>5, <2>6
    <2>8. Seen' = Seen /\ buffer_size' = buffer_size BY <1>2, <1>5 DEF Invoke, Seen
    <2>9. Shown[p].op = "returned" BY <1>5, ShownOp DEF Invoke
    <2> QED BY <2>7, <2>8, <2>9 DEF AtomicCalls!Invoke, Shown, Seen
  <1>6. ASSUME NEW p \in Procs, Show(p) PROVE AtomicCalls!Show(p)
    <2>1. Shown' = [Shown EXCEPT ![p] = [op |-> "returned", ret |-> buffer_size, data |-> <<>>]]
      BY <1>6, ReturnShown DEF Show
    <2>2. Seen' = Seen /\ buffer_size' = buffer_size BY <1>2, <1>6 DEF Show, Seen
    <2>3. Shown[p].op = "returned" BY <1>6, ShownOp DEF Show
    <2> QED BY <2>1, <2>2, <2>3 DEF AtomicCalls!Show, AtomicCalls!Return, Shown, Seen
  <1>7. ASSUME NEW p \in Procs, Interrupted(p) \/ RejectSize(p) PROVE AtomicCalls!Refuse(p)
    <2>1. /\ proc[p].pc # "idle" /\ UNCHANGED <<ringVars, buffer_lock, before>>
          /\ Return(p, -ERESTARTSYS, <<>>) \/ Return(p, -EINVAL, <<>>)
      BY <1>7 DEF Interrupted, RejectSize
    <2>2. Seen' = Seen /\ buffer_size' = buffer_size BY <1>2, <2>1 DEF Seen
    <2> QED BY <2>1, <2>2, Refused
  <1>8. ASSUME NEW p \in Procs, Lock(p) PROVE UNCHANGED AtomicCalls!vars
    <2> DEFINE r == [proc[p] EXCEPT !.pc = "locked"]
    <2>1. /\ proc[p].pc = "lock" /\ buffer_lock = NoOne /\ buffer_lock' = p /\ before' = Queue
          /\ UNCHANGED ringVars /\ ProcOK(proc[p])
      BY <1>1, <1>8 DEF Lock
    <2>2. proc' = [proc EXCEPT ![p] = r] BY <1>1, <1>8 DEF Lock
    <2>3. r.pc = "locked" /\ r.op = proc[p].op /\ r.len = proc[p].len
      BY <2>1 DEF ProcOK, ProcRec
    <2> HIDE DEF r
    <2>4. Shown' = Shown BY <2>1, <2>2, <2>3, InsideUnseen
    <2>5. Seen' = Seen BY <2>1 DEF Seen
    <2> QED BY <1>2, <1>3, <2>1, <2>4, <2>5
  <1>9. ASSUME NEW p \in Procs, proc[p].pc = "locked", NEW c, KeepCopying(p, c),
               before' = before, buffer_size' = buffer_size
        PROVE  UNCHANGED AtomicCalls!vars
    <2> DEFINE r == [proc[p] EXCEPT !.data = Append(@, c)]
    <2>1. proc' = [proc EXCEPT ![p] = r] /\ buffer_lock' = buffer_lock /\ buffer_lock = p
      BY <1>1, <1>9 DEF KeepCopying
    <2>2. r.pc = "locked" /\ r.op = proc[p].op /\ r.len = proc[p].len
      BY <1>1, <1>9 DEF ProcOK, ProcRec
    <2> HIDE DEF r
    <2>3. Shown' = Shown BY <1>9, <2>1, <2>2, InsideUnseen
    <2>4. Seen' = Seen BY <1>9, <2>1 DEF Seen
    <2> QED BY <1>3, <1>9, <2>3, <2>4
  <1>10. ASSUME NEW p \in Procs, ReadChar(p)
         PROVE  AtomicCalls!Read(p) \/ UNCHANGED AtomicCalls!vars
    <2>1. PICK c \in Bytes \cup {Junk} :
             /\ buffer_read_char(c)
             /\ KeepCopying(p, c) \/ Unlock(p, -EFAULT)
      BY <1>10 DEF ReadChar
    <2>2. /\ Inside(p, "read") /\ Copied(p) < proc[p].len /\ proc[p].pc = "locked"
          /\ before' = before /\ buffer_size' = buffer_size
      BY <1>10, <2>1 DEF ReadChar, Inside, buffer_read_char
    <2> QED BY <1>9, <2>1, <2>2, ReadFails
  <1>11. ASSUME NEW p \in Procs, WriteChar(p)
         PROVE  AtomicCalls!Write(p) \/ UNCHANGED AtomicCalls!vars
    <2>1. /\ Inside(p, "write") /\ Copied(p) < proc[p].len /\ proc[p].pc = "locked"
          /\ before' = before
      BY <1>11 DEF WriteChar, Inside
    <2>2. CASE \E c \in Bytes : buffer_write_char(c) /\ KeepCopying(p, c)
      BY <1>9, <2>1, <2>2 DEF buffer_write_char
    <2>3. CASE Unlock(p, -EFAULT) /\ UNCHANGED ringVars
      BY <2>1, <2>3, WriteEnds
    <2> QED BY <1>11, <2>2, <2>3 DEF WriteChar
  <1>12. ASSUME NEW p \in Procs, Finish(p) PROVE AtomicCalls!Read(p) \/ AtomicCalls!Write(p)
    BY <1>12, ReadEnds, WriteEnds DEF Finish
  <1>13. ASSUME NEW p \in Procs, Store(p) PROVE AtomicCalls!Resize(p) \/ AtomicCalls!Refuse(p)
    BY <1>13, StoreEnds
  <1> QED BY <1>4, <1>5, <1>6, <1>7, <1>8, <1>10, <1>11, <1>12, <1>13
      DEF Next, Step, AtomicCalls!Next

\* For any number of processes, any sizes and any lengths every call happens at
\* one instant between its begin and its return: a write's bytes stand
\* together, a read returns the oldest bytes there were when it had the mutex.
THEOREM CallsAreAtomic == Spec => ImplementsCalls
  <1>1. Spec => [](RingInv /\ CopyInv)
    <2>1. Init => RingInv /\ CopyInv BY InitRingInv, CopyInit
    <2>2. (RingInv /\ CopyInv) /\ [Next]_vars => (RingInv /\ CopyInv)'
      BY NextRingInv, CopyStays
    <2> QED BY <2>1, <2>2, PTL DEF Spec
  <1> QED BY <1>1, CallsInit, StepCalls, PTL DEF Spec, ImplementsCalls, AtomicCalls!Spec
=============================================================================
