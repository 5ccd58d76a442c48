---------------------------- MODULE RingDevice -----------------------------
(***************************************************************************)
(* The character device of hw14_chardevice/ring_buffer.c: processes in     *)
(* dev_read, dev_write, size_store and size_show share the ring buffer     *)
(* under buffer_lock.  A step copies one byte: put_user and get_user may   *)
(* fault at any byte and may sleep, so other processes run in between.     *)
(***************************************************************************)
EXTENDS RingBuffer, Errno

CONSTANTS Procs,     \* the processes that use the device
          NoOne,     \* buffer_lock is free
          MaxLen,    \* bound: bytes in one read or write
          NewSizes   \* bound: numbers written to buf_size

ASSUME ProcAssumption == NoOne \notin Procs
ASSUME CallAssumption == MaxLen \in Nat /\ NewSizes \subseteq Nat
                         /\ NewSizes \ {0} \subseteq Sizes

VARIABLES
    buffer_lock,  \* the owner of the mutex
    proc,         \* the call each process is in, and its locals
    before        \* history: the queue when the mutex was last taken

vars == <<ringVars, buffer_lock, proc, before>>

Calls == [op : {"read", "write"}, len : 0..MaxLen] \cup
         [op : {"store"}, len : NewSizes]

\* size_store returns the length of the text it was given.
Stored == 1

Idle(ret, data) ==
    [pc |-> "idle", op |-> "returned", len |-> 0, ret |-> ret, data |-> data]

Return(p, ret, data) == proc' = [proc EXCEPT ![p] = Idle(ret, data)]

\* (slip) A return without mutex_unlock.
Unlock_Forgotten(p, ret) == UNCHANGED buffer_lock /\ Return(p, ret, proc[p].data)

Unlock(p, ret) == buffer_lock' = NoOne /\ Return(p, ret, proc[p].data)

Copied(p) == Len(proc[p].data)     \* bytes_read, or i of dev_write

Init == /\ RingInit
        /\ buffer_lock = NoOne
        /\ proc = [p \in Procs |-> Idle(0, <<>>)]
        /\ before = <<>>

(***************************************************************************)
(* Entering a call.                                                        *)
(***************************************************************************)
Invoke(p) ==
    /\ proc[p].pc = "idle"
    /\ \E c \in Calls :
          proc' = [proc EXCEPT ![p] = [pc |-> "lock", op |-> c.op, len |-> c.len,
                                       ret |-> 0, data |-> <<>>]]
    /\ UNCHANGED <<ringVars, buffer_lock, before>>

\* size_store refuses 0 before it asks for the mutex.
Invalid(p) == proc[p].op = "store" /\ proc[p].len = 0

RejectSize(p) ==
    /\ proc[p].pc = "lock" /\ Invalid(p)
    /\ Return(p, -EINVAL, <<>>)
    /\ UNCHANGED <<ringVars, buffer_lock, before>>

\* (slip) The copying is not under the mutex.
Lock_Shared(p) ==
    /\ proc[p].pc = "lock" /\ ~Invalid(p)
    /\ buffer_lock' = p /\ before' = Queue
    /\ proc' = [proc EXCEPT ![p].pc = "locked"]
    /\ UNCHANGED ringVars

Lock(p) ==
    /\ proc[p].pc = "lock" /\ ~Invalid(p) /\ buffer_lock = NoOne
    /\ buffer_lock' = p /\ before' = Queue
    /\ proc' = [proc EXCEPT ![p].pc = "locked"]
    /\ UNCHANGED ringVars

\* mutex_lock_interruptible met a signal.
Interrupted(p) ==
    /\ proc[p].pc = "lock" /\ ~Invalid(p)
    /\ Return(p, -ERESTARTSYS, <<>>)
    /\ UNCHANGED <<ringVars, buffer_lock, before>>

(***************************************************************************)
(* dev_read and dev_write.                                                 *)
(***************************************************************************)
Inside(p, op) == proc[p].pc = "locked" /\ proc[p].op = op /\ UNCHANGED before

KeepCopying(p, c) ==
    /\ proc' = [proc EXCEPT ![p].data = Append(@, c)]
    /\ UNCHANGED buffer_lock

ReadChar(p) ==
    /\ Inside(p, "read") /\ Copied(p) < proc[p].len
    /\ \E c \in Bytes \cup {Junk} :
          /\ buffer_read_char(c)
          /\ \/ KeepCopying(p, c)
             \/ Unlock(p, -EFAULT)

WriteChar(p) ==
    /\ Inside(p, "write") /\ Copied(p) < proc[p].len
    /\ \/ \E c \in Bytes : buffer_write_char(c) /\ KeepCopying(p, c)
       \/ Unlock(p, -EFAULT) /\ UNCHANGED ringVars

Finish(p) ==
    /\ \/ Inside(p, "read") /\ (Copied(p) = proc[p].len \/ Empty)
       \/ Inside(p, "write") /\ Copied(p) = proc[p].len
    /\ Unlock(p, Copied(p))
    /\ UNCHANGED ringVars

(***************************************************************************)
(* sysfs.                                                                  *)
(***************************************************************************)
Store(p) ==
    /\ Inside(p, "store")
    /\ \/ Resized(proc[p].len) /\ Unlock(p, Stored)
       \/ UNCHANGED ringVars /\ Unlock(p, -ENOMEM)

\* size_show reads buffer_size without the mutex.
Show(p) == /\ proc[p].pc = "idle"
           /\ Return(p, buffer_size, <<>>)
           /\ UNCHANGED <<ringVars, buffer_lock, before>>

Step(p) == RejectSize(p) \/ Lock(p) \/ ReadChar(p) \/ WriteChar(p)
           \/ Finish(p) \/ Store(p)

Next == \E p \in Procs : Invoke(p) \/ Show(p) \/ Interrupted(p) \/ Step(p)

Spec == Init /\ [][Next]_vars

\* Processes in the driver run, and the mutex is handed to its waiters.
FairSpec == Spec /\ \A p \in Procs : WF_vars(Step(p)) /\ SF_vars(Lock(p))

(***************************************************************************)
(* Properties.                                                             *)
(***************************************************************************)
TypeOK ==
    /\ buffer_lock \in Procs \cup {NoOne}
    /\ proc \in [Procs -> [pc : {"idle", "lock", "locked"},
                           op : {"read", "write", "store", "returned"},
                           len : Nat, ret : Int, data : Seq(Bytes)]]
    /\ \A p \in Procs :
          /\ proc[p].pc = "idle" <=> proc[p].op = "returned"
          /\ proc[p].op = "store" => proc[p].len \in Sizes \cup {0}
          /\ proc[p].pc = "locked" /\ proc[p].op = "store" => proc[p].len # 0
    /\ before \in Seq(Bytes)

\* Every path out of a call gives the mutex back, and no call is in the buffer
\* without it: two processes never copy at the same time.
MutexOwnedInside ==
    \A p \in Procs : proc[p].pc = "locked" <=> buffer_lock = p

RingInv == TypeOK /\ RingOK /\ MutexOwnedInside

\* Byte by byte the device is a queue that drops its oldest byte for room:
\* through wrap-around, overwriting and resizing nothing else is lost,
\* repeated, reordered or read before it was written.
ImplementsFifo == Fifo!Spec

\* Call by call it behaves as if each read, write and resize happened at one
\* instant: the bytes of a write stay together, a read returns a run of the
\* oldest ones, whatever other processes do in between.
AtomicCalls == INSTANCE DeviceCalls WITH
    queue <- IF buffer_lock = NoOne THEN Queue ELSE before,
    capacity <- buffer_size,
    call <- [p \in Procs |->
               IF proc[p].pc = "idle"
               THEN [op |-> "returned", ret |-> proc[p].ret, data |-> proc[p].data]
               ELSE [op |-> proc[p].op, len |-> proc[p].len]]

ImplementsCalls == AtomicCalls!Spec

\* A call that entered the driver returns: no path keeps the mutex.
CallsReturn == \A p \in Procs : proc[p].pc # "idle" ~> proc[p].pc = "idle"
=============================================================================
