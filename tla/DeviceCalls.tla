---------------------------- MODULE DeviceCalls ----------------------------
(***************************************************************************)
(* The character device as its users see it: every read, write and resize  *)
(* is one indivisible step between its call and its return.                *)
(***************************************************************************)
EXTENDS Integers, Sequences, Errno

CONSTANTS Bytes, Sizes, Procs, Calls

VARIABLES queue, capacity,
          call    \* of each process: what it asked for, or what it was told

vars == <<queue, capacity, call>>

First(s, n) == SubSeq(s, 1, n)
Without(s, n) == SubSeq(s, n + 1, Len(s))
Last(s, n) == IF Len(s) <= n THEN s ELSE Without(s, Len(s) - n)
Least(a, b) == IF a <= b THEN a ELSE b

Return(p, ret, data) ==
    call' = [call EXCEPT ![p] = [op |-> "returned", ret |-> ret, data |-> data]]

Init == /\ queue = <<>> /\ capacity \in Sizes
        /\ call = [p \in Procs |-> [op |-> "returned", ret |-> 0, data |-> <<>>]]

Invoke(p) == /\ call[p].op = "returned"
             /\ \E c \in Calls : call' = [call EXCEPT ![p] = c]
             /\ UNCHANGED <<queue, capacity>>

\* Nothing was done; the caller may try again.
Refuse(p) == /\ call[p].op # "returned"
             /\ \E e \in {-ERESTARTSYS, -ENOMEM, -EINVAL} : Return(p, e, <<>>)
             /\ UNCHANGED <<queue, capacity>>

\* The oldest bytes in order, as many as asked for and present; with a bad
\* address some are taken from the queue all the same.
Read(p) ==
    LET n == Least(call[p].len, Len(queue)) IN
    /\ call[p].op = "read"
    /\ \/ Return(p, n, First(queue, n)) /\ queue' = Without(queue, n)
       \/ \E lost \in 1..n : /\ Return(p, -EFAULT, First(queue, lost - 1))
                             /\ queue' = Without(queue, lost)
    /\ UNCHANGED capacity

\* All bytes of one call stand together; the oldest make room.
Write(p) ==
    /\ call[p].op = "write" /\ call'[p].op = "returned"
    /\ LET data == call'[p].data IN
       /\ data \in Seq(Bytes)
       /\ \/ Len(data) = call[p].len /\ Return(p, call[p].len, data)
          \/ Len(data) < call[p].len /\ Return(p, -EFAULT, data)
       /\ queue' = Last(queue \o data, capacity)
    /\ UNCHANGED capacity

Resize(p) == /\ call[p].op = "store" /\ call[p].len \in Sizes
             /\ call'[p].op = "returned"
             /\ Return(p, call'[p].ret, <<>>) /\ call'[p].ret \in Nat
             /\ queue' = <<>> /\ capacity' = call[p].len

Show(p) == /\ call[p].op = "returned"
           /\ Return(p, capacity, <<>>) /\ UNCHANGED <<queue, capacity>>

Next == \E p \in Procs : \/ Invoke(p) \/ Refuse(p) \/ Show(p)
                        \/ Read(p) \/ Write(p) \/ Resize(p)

Spec == Init /\ [][Next]_vars
=============================================================================
