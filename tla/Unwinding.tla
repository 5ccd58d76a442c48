------------------------------ MODULE Unwinding ------------------------------
(***************************************************************************)
(* Three programs that acquire one thing after another and on a failure    *)
(* give back what they hold:                                               *)
(*   "buffer"  loading and unloading the module of hw14 (ring_buffer.c:    *)
(*             buffer_init with its cascade of labels, buffer_exit);       *)
(*   "server"  the start of hw12 up to the event loop, and what follows it *)
(*             (main.c: main);                                             *)
(*   "crc32"   the files of hw9 (main.c: main).                            *)
(* A program is a sequence of calls, each with what it acquires and what   *)
(* the code releases, in that order, when it fails.                        *)
(***************************************************************************)
EXTENDS Integers, Sequences, Subsequences

VARIABLES
    job,    \* job.program: the program that runs
    work,   \* [next: the call to make, held: what is held, the latest last,
            \*  plan: the releases that are still to be made]
    status  \* "running", "failed" or "done"

Nothing == ""
Call(name, gets, undo) == [name |-> name, gets |-> gets, undo |-> undo]

\* (slip) The labels err_class and err_cdev are exchanged.
Cascade_Swapped == <<"kobject", "device", "cdev", "class", "memory", "number">>

\* The labels err_kobj to err_num fall through: from the n-th on.
Cascade == <<"kobject", "device", "class", "cdev", "memory", "number">>
From(n) == SubSeq(Cascade, n, Len(Cascade))

buffer_init == <<
    Call("alloc_chrdev_region", "number", <<>>),
    Call("kmalloc", "memory", From(6)),
    Call("cdev_add", "cdev", From(5)),
    Call("class_create", "class", From(4)),
    Call("device_create", "device", From(3)),
    Call("kobject_create_and_add", "kobject", From(2)),
    Call("sysfs_create_file", "attribute", From(1)) >>

buffer_exit == <<"attribute", "kobject", "device", "class", "cdev", "memory", "number">>

server_start == <<
    Call("stat", Nothing, <<>>),
    Call("strrchr, atoi", Nothing, <<>>),
    Call("socket", "listen_fd", <<>>),
    Call("setsockopt", Nothing, <<"listen_fd">>),
    Call("set_nonblocking", Nothing, <<"listen_fd">>),
    Call("inet_pton", Nothing, <<"listen_fd">>),
    Call("bind", Nothing, <<"listen_fd">>),
    Call("listen", Nothing, <<"listen_fd">>),
    Call("epoll_create1", "epoll_fd", <<"listen_fd">>),
    Call("epoll_ctl", Nothing, <<"epoll_fd", "listen_fd">>) >>

server_end == <<"epoll_fd", "listen_fd">>

\* An empty file ends the program where fstat does.
crc32_start == <<
    Call("open", "fd", <<>>),
    Call("fstat", Nothing, <<"fd">>),
    Call("mmap", "mapping", <<"fd">>) >>

crc32_end == <<"mapping", "fd">>

Programs == {"buffer", "server", "crc32"}
IsInput(j) == j.program \in Programs
Calls == CASE job.program = "buffer" -> buffer_init
           [] job.program = "server" -> server_start
           [] job.program = "crc32" -> crc32_start
AtEnd == CASE job.program = "buffer" -> buffer_exit
           [] job.program = "server" -> server_end
           [] job.program = "crc32" -> crc32_end

Start == [next |-> 1, held |-> <<>>, plan |-> <<>>]

Succeed ==
    /\ status = "running" /\ work.next <= Len(Calls)
    /\ LET gets == Calls[work.next].gets
       IN work' = [work EXCEPT !.next = @ + 1,
                               !.held = IF gets = Nothing THEN @ ELSE Append(@, gets)]
    /\ UNCHANGED <<job, status>>

Fail ==
    /\ status = "running" /\ work.next <= Len(Calls)
    /\ work' = [work EXCEPT !.plan = Calls[work.next].undo]
    /\ status' = "failed"
    /\ UNCHANGED job

End ==
    /\ status = "running" /\ work.next > Len(Calls)
    /\ work' = [work EXCEPT !.plan = AtEnd]
    /\ status' = "done"
    /\ UNCHANGED job

\* What is held without e.
Without(e, held) == Chosen({held[i] : i \in DOMAIN held} \ {e}, held)

Release ==
    /\ work.plan # <<>>
    /\ work' = [work EXCEPT !.plan = Tail(@), !.held = Without(Head(work.plan), @)]
    /\ UNCHANGED <<job, status>>

Next == job.program \in Programs /\ (Succeed \/ Fail \/ End \/ Release)

-----------------------------------------------------------------------------
(* Whatever call fails, the program gives back what it holds, the latest   *)
(* first and each once, and ends with nothing; so does its normal end.     *)
Unwound ==
    /\ work.plan # <<>> => work.held # <<>> /\ Head(work.plan) = work.held[Len(work.held)]
    /\ status # "running" /\ work.plan = <<>> => work.held = <<>>
=============================================================================
