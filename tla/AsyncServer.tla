---------------------------- MODULE AsyncServer ----------------------------
(***************************************************************************)
(* hw12_async_server: a single-threaded HTTP server around edge-triggered  *)
(* epoll.  The server is the loop of main.c with handle_event and          *)
(* accept_connections (server.c), the client record (client.c) and the two *)
(* transfer functions of http.c.  The kernel's sockets, the epoll ready    *)
(* list, the served files and the remote clients are external: they are    *)
(* modelled by what the code relies on.                                    *)
(*                                                                         *)
(* One step of the server is one iteration of one of its loops, that is,   *)
(* at most one system call that moves data; everything the environment can *)
(* do may happen between two such steps.  Lengths are counted in abstract  *)
(* units, the position of a unit in the response stands for its value.     *)
(***************************************************************************)
EXTENDS Integers, Sequences, FiniteSets

CONSTANTS
    Conns,       \* the connections the environment may open
    Listener,    \* the event of listen_fd (data.ptr == NULL)
    MaxEvents,   \* MAX_EVENTS
    ReqCap,      \* sizeof(client->request) - 1
    ReqEnds,     \* where the blank line ends in the bytes a client sends
    MaxSend,     \* bound: units one client sends
    Chunk,       \* sizeof(buffer) in write_to_client
    SndCap,      \* capacity of a socket's send buffer
    Outcomes,    \* what handle_request may leave in the client record
    FileSizes,   \* bound: sizes a served file may change to
    MayShrink,   \* whether a served file may shrink while it is sent
    MayGrow      \* whether it may grow

Outcome == [state : {"WRITING", "CLOSING"}, response_len : Nat,
            file : BOOLEAN, file_size : Nat]
IsOutcome(o) ==
    /\ o \in Outcome
    /\ o.state = "WRITING" => o.response_len > 0
    /\ o.state = "CLOSING" => o.response_len = 0 /\ ~o.file
    /\ ~o.file => o.file_size = 0

ASSUME ListenerAssumption == Listener \notin Conns
ASSUME SizeAssumption ==
    /\ MaxEvents \in Nat \ {0} /\ ReqCap \in Nat \ {0} /\ MaxSend \in Nat
    /\ Chunk \in Nat \ {0} /\ SndCap \in Nat \ {0}
    /\ ReqEnds \subseteq Nat \ {0} /\ FileSizes \subseteq Nat
    /\ MayShrink \in BOOLEAN /\ MayGrow \in BOOLEAN
ASSUME OutcomeAssumption == \A o \in Outcomes : IsOutcome(o)

VARIABLES
    keep_running,   \* cleared by handle_sigint
    pc,             \* where the main loop is
    batch,          \* events[] of the last epoll_wait not yet handled
    cur,            \* the client whose file loop is running, else Listener
    remaining,      \* the local of that call
    accept_failed,  \* history: the last accept loop ended by an error
    client,         \* the client_t of each connection
    file,           \* the open file of each client: offset and current length
    why,            \* history: why the server closed a connection
    sock,           \* kernel: each connection's socket and epoll interest
    ready,          \* kernel: the epoll ready list
    wire            \* history: the units the kernel took for the client

loopVars == <<keep_running, pc, batch, cur, remaining, accept_failed>>
vars == <<keep_running, pc, batch, cur, remaining, accept_failed,
          client, file, why, sock, ready, wire>>

Least(a, b) == IF a <= b THEN a ELSE b

(***************************************************************************)
(* Kernel: what makes an event deliverable, and what puts it on the list.  *)
(***************************************************************************)
Readable(s) == s.inq > 0 \/ s.fin \/ s.rst

\* EPOLLOUT needs a third of the buffer free, a write only one unit.
Writable(s) == s.rst \/ 3 * s.sndq <= 2 * SndCap

Signalled(s) == \/ s.rst
                \/ s.interest = "in" /\ Readable(s)
                \/ s.interest = "out" /\ Writable(s)

Deliverable(e) == IF e = Listener
                  THEN \E c \in Conns : sock[c].phase = "backlog"
                  ELSE Signalled(sock[e])

\* An edge: the socket reports a change its registration asks for.
Wake(c, interests) ==
    ready' = IF sock[c].interest \in interests THEN ready \cup {c} ELSE ready

\* write() to a non-blocking socket: how many of n units the kernel takes.
Accepted(s, n) == Least(n, SndCap - s.sndq)

\* EPOLL_CTL_ADD and EPOLL_CTL_MOD report at once what already holds.
Register(c, s, interest) ==
    LET t == [s EXCEPT !.interest = interest] IN
    /\ sock' = [sock EXCEPT ![c] = t]
    /\ ready' = IF Signalled(t) THEN ready \cup {c} ELSE ready \ {c}

(***************************************************************************)
(* The client record.                                                      *)
(***************************************************************************)
NoClient == [state |-> "none", request_len |-> 0, response_len |-> 0,
             response_sent |-> 0, file |-> FALSE, file_size |-> 0,
             file_sent |-> 0]

create_client == [NoClient EXCEPT !.state = "READING"]

Live(c) == client[c].state \notin {"none", "freed"}

\* (slip) The descriptor is closed but its queued event is not taken back.
free_client_NoDel(c, cl, reason) ==
    /\ client' = [client EXCEPT ![c] = [cl EXCEPT !.state = "freed"]]
    /\ sock' = [sock EXCEPT ![c].phase = "closed", ![c].interest = "none"]
    /\ why' = [why EXCEPT ![c] = reason]
    /\ UNCHANGED ready

\* EPOLL_CTL_DEL, close(file_fd), close(fd), free.
free_client(c, cl, reason) ==
    /\ client' = [client EXCEPT ![c] = [cl EXCEPT !.state = "freed"]]
    /\ sock' = [sock EXCEPT ![c].phase = "closed", ![c].interest = "none"]
    /\ ready' = ready \ {c}
    /\ why' = [why EXCEPT ![c] = reason]

\* The handler returned, its locals are gone: the loop over events[] goes on.
NextEvent == pc' = "dispatch" /\ cur' = Listener /\ remaining' = 0

Take(e) == pc = "dispatch" /\ e \in batch /\ batch' = batch \ {e}

(***************************************************************************)
(* main(): the loop.                                                       *)
(***************************************************************************)
\* (slip) while (1).
TestKeepRunning_Never ==
    /\ pc = "check" /\ pc' = "wait"
    /\ UNCHANGED <<keep_running, batch, cur, remaining, accept_failed,
                   client, file, why, sock, ready, wire>>

TestKeepRunning ==
    /\ pc = "check"
    /\ pc' = IF keep_running THEN "wait" ELSE "done"
    /\ UNCHANGED <<keep_running, batch, cur, remaining, accept_failed,
                   client, file, why, sock, ready, wire>>

EpollWait ==
    LET due == {e \in ready : Deliverable(e)} IN
    /\ pc = "wait"
    /\ \E events \in SUBSET due :
          /\ events # {} /\ Cardinality(events) <= MaxEvents
          /\ events = due \/ Cardinality(events) = MaxEvents
          /\ batch' = events
          /\ ready' = ready \ events
    /\ pc' = "dispatch"
    /\ UNCHANGED <<keep_running, cur, remaining, accept_failed,
                   client, file, why, sock, wire>>

EndOfBatch ==
    /\ pc = "dispatch" /\ batch = {}
    /\ pc' = "check"
    /\ UNCHANGED <<keep_running, batch, cur, remaining, accept_failed,
                   client, file, why, sock, ready, wire>>

\* handle_sigint, at any moment.  Only a SIGINT that finds the process
\* already blocked in epoll_wait makes it return with EINTR.
Sigint ==
    /\ keep_running /\ pc # "done"
    /\ keep_running' = FALSE
    /\ \/ UNCHANGED pc
       \/ pc = "wait" /\ pc' = "check"
    /\ UNCHANGED <<batch, cur, remaining, accept_failed,
                   client, file, why, sock, ready, wire>>

(***************************************************************************)
(* accept_connections(): one iteration per step.                           *)
(***************************************************************************)
StartAccept ==
    /\ Take(Listener)
    /\ pc' = "accept"
    /\ UNCHANGED <<keep_running, cur, remaining, accept_failed,
                   client, file, why, sock, ready, wire>>

AcceptOne(c) ==
    /\ pc = "accept" /\ sock[c].phase = "backlog"
    /\ client' = [client EXCEPT ![c] = create_client]
    /\ Register(c, [sock[c] EXCEPT !.phase = "open"], "in")
    /\ UNCHANGED <<loopVars, file, why, wire>>

\* set_nonblocking, create_client or EPOLL_CTL_ADD fails: closed unserved.
AcceptRefused(c) ==
    /\ pc = "accept" /\ sock[c].phase = "backlog"
    /\ sock' = [sock EXCEPT ![c].phase = "closed"]
    /\ why' = [why EXCEPT ![c] = "refused"]
    /\ UNCHANGED <<loopVars, client, file, ready, wire>>

\* (slip) One accept() per event instead of a loop until EAGAIN.
AcceptDrained_AtOnce ==
    /\ pc = "accept"
    /\ accept_failed' = FALSE /\ NextEvent
    /\ UNCHANGED <<keep_running, batch, client, file, why, sock, ready, wire>>

AcceptDrained ==
    /\ pc = "accept" /\ ~Deliverable(Listener)
    /\ accept_failed' = FALSE /\ NextEvent
    /\ UNCHANGED <<keep_running, batch, client, file, why, sock, ready, wire>>

\* accept fails with anything but EAGAIN (EMFILE, ENFILE, ENOMEM).
AcceptError ==
    /\ pc = "accept"
    /\ accept_failed' = TRUE /\ NextEvent
    /\ UNCHANGED <<keep_running, batch, client, file, why, sock, ready, wire>>

(***************************************************************************)
(* handle_event() in STATE_READING: read_from_client, one read().          *)
(***************************************************************************)
Reading(c) == Take(c) /\ client[c].state = "READING" /\ NextEvent
              /\ UNCHANGED <<keep_running, accept_failed, wire>>

\* (slip) No byte left for the terminating NUL.
Room_OffByOne(c) == ReqCap + 1 - client[c].request_len

Room(c) == ReqCap - client[c].request_len

RequestFull(c) ==
    /\ Reading(c) /\ Room(c) = 0
    /\ free_client(c, client[c], "full")
    /\ UNCHANGED file

\* (slip) read() == 0 taken for "nothing yet".
ReadNothing_Keeps(c) ==
    /\ Reading(c) /\ Room(c) > 0 /\ sock[c].inq = 0
    /\ UNCHANGED <<client, why, sock, ready, file>>

\* read() returns 0, an error, or EAGAIN on a stale event.
ReadNothing(c) ==
    /\ Reading(c) /\ Room(c) > 0 /\ sock[c].inq = 0
    /\ IF sock[c].fin \/ sock[c].rst
       THEN free_client(c, client[c], "hangup")
       ELSE UNCHANGED <<client, why, sock, ready>>
    /\ UNCHANGED file

ReadSome(c) ==
    LET n    == Least(Room(c), sock[c].inq)
        cl   == [client[c] EXCEPT !.request_len = @ + n]
        s    == [sock[c] EXCEPT !.inq = @ - n]
    IN
    /\ Reading(c) /\ n > 0
    /\ \/ \* no blank line yet
          /\ cl.request_len < sock[c].reqEnd
          /\ client' = [client EXCEPT ![c] = cl]
          /\ sock' = [sock EXCEPT ![c] = s]
          /\ UNCHANGED <<file, why, ready>>
       \/ \* handle_request
          /\ cl.request_len >= sock[c].reqEnd
          /\ \E o \in Outcomes :
                LET done == [cl EXCEPT !.state = o.state,
                                !.response_len = o.response_len,
                                !.file = o.file, !.file_size = o.file_size] IN
                /\ file' = [file EXCEPT ![c] = [pos |-> 0, len |-> o.file_size]]
                /\ \/ /\ o.state = "WRITING"
                      /\ client' = [client EXCEPT ![c] = done]
                      /\ Register(c, s, "out")
                      /\ UNCHANGED why
                   \/ /\ o.state = "CLOSING"
                      /\ free_client(c, done, "closing")

(***************************************************************************)
(* handle_event() in STATE_WRITING: write_to_client.                       *)
(***************************************************************************)
ResponseUnsent(c) == client[c].response_len - client[c].response_sent
FileUnsent(c) == client[c].file_size - client[c].file_sent

\* The socket and the wire after the kernel took k of n units, the first of
\* which is at position p + 1 of the response.
Sent(s, n, k) == [s EXCEPT !.sndq = @ + k, !.nospace = @ \/ k < n]
Transmit(c, p, k) == wire' = [wire EXCEPT ![c] = @ \o [i \in 1..k |-> p + i]]

Writing(c) == /\ Take(c) /\ client[c].state = "WRITING"
              /\ UNCHANGED <<keep_running, accept_failed, file>>

EnterFileLoop(c) == pc' = "file" /\ cur' = c /\ remaining' = FileUnsent(c)

WriteFailed(c) ==
    /\ Writing(c) /\ ResponseUnsent(c) > 0 /\ sock[c].rst
    /\ free_client(c, client[c], "reset")
    /\ NextEvent /\ UNCHANGED wire

WriteResponse(c) ==
    LET n  == ResponseUnsent(c)
        k  == Accepted(sock[c], n)
        cl == [client[c] EXCEPT !.response_sent = @ + k]
    IN
    /\ Writing(c) /\ n > 0 /\ ~sock[c].rst
    /\ Transmit(c, client[c].response_sent, k)
    /\ \/ \* everything sent and no file: finished
          k = n /\ ~cl.file /\ free_client(c, cl, "done") /\ NextEvent
       \/ \* the file follows in the same call, or the rest after EAGAIN
          /\ k < n \/ cl.file
          /\ client' = [client EXCEPT ![c] = cl]
          /\ sock' = [sock EXCEPT ![c] = Sent(@, n, k)]
          /\ IF k = n THEN EnterFileLoop(c) ELSE NextEvent
          /\ UNCHANGED <<ready, why>>

\* (slip) An event that comes after the header was sent does nothing.
ResumeFile_Skips(c) ==
    /\ Writing(c) /\ ResponseUnsent(c) = 0 /\ NextEvent
    /\ UNCHANGED <<client, why, sock, ready, wire>>

ResumeFile(c) ==
    /\ Writing(c) /\ ResponseUnsent(c) = 0
    /\ IF client[c].file THEN EnterFileLoop(c) ELSE NextEvent
    /\ UNCHANGED <<client, why, sock, ready, wire>>

InFileLoop(c) == /\ pc = "file" /\ cur = c
                 /\ UNCHANGED <<keep_running, batch, accept_failed>>

\* Where the next chunk is read from after lseek(fd, -(n - k), SEEK_CUR).
SeekBack(pos, n, k) == pos + n - (n - k)

SendChunk(c) ==
    LET left == file[c].len - file[c].pos
        n    == Least(Chunk, Least(remaining, left))
        k    == Accepted(sock[c], n)
    IN
    /\ InFileLoop(c) /\ n > 0
    /\ \/ /\ sock[c].rst
          /\ free_client(c, client[c], "reset")
          /\ NextEvent /\ UNCHANGED <<file, wire>>
       \/ /\ ~sock[c].rst
          /\ client' = [client EXCEPT ![c].file_sent = @ + k]
          /\ file' = [file EXCEPT ![c].pos = SeekBack(@, n, k)]
          /\ sock' = [sock EXCEPT ![c] = Sent(@, n, k)]
          /\ Transmit(c, client[c].response_len + file[c].pos, k)
          /\ IF k = n THEN UNCHANGED <<pc, cur, remaining>> ELSE NextEvent
          /\ UNCHANGED <<ready, why>>

\* (slip) The end of the file is taken for the end of the response.
LeaveFileLoop_AtEof(c) ==
    /\ InFileLoop(c)
    /\ remaining <= 0 \/ file[c].pos >= file[c].len
    /\ free_client(c, client[c], "done")
    /\ NextEvent /\ UNCHANGED <<file, wire>>

\* Nothing remained on entry, or read() reached the end of the file: the
\* local "remaining" is not updated by the loop.
LeaveFileLoop(c) ==
    /\ InFileLoop(c)
    /\ remaining <= 0 \/ file[c].pos >= file[c].len
    /\ IF client[c].file_sent >= client[c].file_size
       THEN free_client(c, client[c], "done")
       ELSE UNCHANGED <<client, why, sock, ready>>
    /\ NextEvent /\ UNCHANGED <<file, wire>>

\* (slip) A read error ends the loop like the end of the file.
FileReadFailed_AsDone(c) ==
    /\ InFileLoop(c) /\ remaining > 0
    /\ free_client(c, client[c], "done")
    /\ NextEvent /\ UNCHANGED <<file, wire>>

FileReadFailed(c) ==
    /\ InFileLoop(c) /\ remaining > 0
    /\ free_client(c, client[c], "ioerror")
    /\ NextEvent /\ UNCHANGED <<file, wire>>

(***************************************************************************)
(* The remote clients, the kernel and the file system.                     *)
(***************************************************************************)
Outside == pc # "done" /\ UNCHANGED <<loopVars, client, why, wire>>

Connected(c) == sock[c].phase \in {"backlog", "open"} /\ ~sock[c].rst

Connect(c) ==
    /\ Outside /\ sock[c].phase = "idle"
    /\ \E e \in ReqEnds :
          sock' = [sock EXCEPT ![c].phase = "backlog", ![c].reqEnd = e]
    /\ ready' = ready \cup {Listener}
    /\ UNCHANGED file

SendUnit(c) ==
    /\ Outside /\ Connected(c) /\ ~sock[c].fin /\ sock[c].sent < MaxSend
    /\ sock' = [sock EXCEPT ![c].inq = @ + 1, ![c].sent = @ + 1]
    /\ Wake(c, {"in"}) /\ UNCHANGED file

Hangup(c) ==
    /\ Outside /\ Connected(c) /\ ~sock[c].fin
    /\ sock' = [sock EXCEPT ![c].fin = TRUE]
    /\ Wake(c, {"in", "out"}) /\ UNCHANGED file

Reset(c) ==
    /\ Outside /\ Connected(c)
    /\ sock' = [sock EXCEPT ![c].rst = TRUE, ![c].sndq = 0]
    /\ Wake(c, {"in", "out"}) /\ UNCHANGED file

\* The client acknowledges a unit; the socket reports room only to a writer
\* that was refused some (SOCK_NOSPACE).
Drain(c) ==
    LET s    == [sock[c] EXCEPT !.sndq = @ - 1]
        edge == s.nospace /\ Writable(s)
    IN
    /\ Outside /\ sock[c].phase = "open" /\ sock[c].sndq > 0
    /\ sock' = [sock EXCEPT ![c] = [s EXCEPT !.nospace = @ /\ ~edge]]
    /\ IF edge THEN Wake(c, {"out"}) ELSE UNCHANGED ready
    /\ UNCHANGED file

FileChanges(c) ==
    /\ Outside /\ Live(c) /\ client[c].file
    /\ \E l \in FileSizes :
          /\ (l < file[c].len /\ MayShrink) \/ (l > file[c].len /\ MayGrow)
          /\ file' = [file EXCEPT ![c].len = l]
    /\ UNCHANGED <<sock, ready>>

(***************************************************************************)
(* Specification.                                                          *)
(***************************************************************************)
Init ==
    /\ keep_running = TRUE /\ pc = "check" /\ batch = {}
    /\ cur = Listener /\ remaining = 0 /\ accept_failed = FALSE
    /\ client = [c \in Conns |-> NoClient]
    /\ file = [c \in Conns |-> [pos |-> 0, len |-> 0]]
    /\ why = [c \in Conns |-> "open"]
    /\ sock = [c \in Conns |->
                  [phase |-> "idle", reqEnd |-> 0, sent |-> 0, inq |-> 0,
                   fin |-> FALSE, rst |-> FALSE, sndq |-> 0,
                   nospace |-> FALSE, interest |-> "none"]]
    /\ ready = {}
    /\ wire = [c \in Conns |-> <<>>]

MainLoop == TestKeepRunning \/ EpollWait \/ EndOfBatch \/ StartAccept
            \/ AcceptDrained \/ AcceptError

Handler(c) == \/ AcceptOne(c) \/ AcceptRefused(c)
              \/ RequestFull(c) \/ ReadNothing(c) \/ ReadSome(c)
              \/ WriteFailed(c) \/ WriteResponse(c) \/ ResumeFile(c)
              \/ SendChunk(c) \/ LeaveFileLoop(c) \/ FileReadFailed(c)

Environment(c) == \/ Connect(c) \/ SendUnit(c) \/ Hangup(c) \/ Reset(c)
                  \/ Drain(c) \/ FileChanges(c)

Server == MainLoop \/ \E c \in Conns : Handler(c)

Next == Server \/ Sigint \/ \E c \in Conns : Environment(c)

Spec == Init /\ [][Next]_vars

(***************************************************************************)
(* Properties.                                                             *)
(***************************************************************************)
ClientRec == [state : {"none", "READING", "WRITING", "CLOSING", "freed"},
              request_len : 0..ReqCap, response_len : Nat,
              response_sent : Nat, file : BOOLEAN, file_size : Nat,
              file_sent : Nat]

SockRec == [phase : {"idle", "backlog", "open", "closed"},
            reqEnd : Nat, sent : 0..MaxSend, inq : Nat,
            fin : BOOLEAN, rst : BOOLEAN, sndq : 0..SndCap,
            nospace : BOOLEAN, interest : {"none", "in", "out"}]

Reasons == {"open", "refused", "full", "hangup", "closing", "reset", "done",
            "ioerror"}

TypeOK ==
    /\ keep_running \in BOOLEAN
    /\ pc \in {"check", "wait", "dispatch", "accept", "file", "done"}
    /\ batch \subseteq Conns \cup {Listener}
    /\ cur \in Conns \cup {Listener}
    /\ remaining \in Int
    /\ accept_failed \in BOOLEAN
    /\ client \in [Conns -> ClientRec]
    /\ file \in [Conns -> [pos : Nat, len : Nat]]
    /\ why \in [Conns -> Reasons]
    /\ sock \in [Conns -> SockRec]
    /\ ready \subseteq Conns \cup {Listener}
    /\ wire \in [Conns -> Seq(Nat)]

\* Some event of c is on its way to its handler, or is being handled.
Pending(c) == c \in ready \/ c \in batch \/ (pc = "file" /\ cur = c)

\* handle_event dereferences data.ptr without a check, and one batch may
\* close several clients: no event still queued, in the kernel or in
\* events[], refers to a client that free_client released.
NoEventOfFreedClient ==
    \A c \in Conns : Pending(c) => Live(c)

\* A socket's epoll registration follows the state of its client: a READING
\* client waits for input, a WRITING one for output, nobody else is registered.
InterestFollowsState ==
    \A c \in Conns :
       sock[c].interest = IF client[c].state = "READING" THEN "in"
                          ELSE IF client[c].state = "WRITING" THEN "out"
                          ELSE "none"

\* What reaches the client is the response from its first unit on, in order
\* and without a gap or a repeat, and is exactly what response_sent and
\* file_sent count, through every short write, EAGAIN and rewind.
WireInOrder ==
    \A c \in Conns :
       /\ \A i \in DOMAIN wire[c] : wire[c][i] = i
       /\ Len(wire[c]) = client[c].response_sent + client[c].file_sent

\* write_to_client reports completion (its -1 without an error) only when the
\* whole response and, if there is a file, file_size units of it were taken.
DoneMeansWhole ==
    \A c \in Conns : why[c] = "done" =>
       Len(wire[c]) >= client[c].response_len + client[c].file_size

\* Edge-triggered input: a READING client with bytes left in its socket and
\* no event on the way has a full request buffer; and a hang-up goes
\* unnoticed only if it arrived together with bytes of the request.
InputNotStranded ==
    \A c \in Conns : client[c].state = "READING" /\ ~Pending(c) =>
       /\ sock[c].inq > 0 => client[c].request_len = ReqCap
       /\ sock[c].fin \/ sock[c].rst => client[c].request_len > 0

\* Edge-triggered output: a WRITING client with no event on the way has been
\* refused room in its send buffer, so an edge is due when the client takes
\* some; the one exception is a file that became shorter than announced.
OutputNotStranded ==
    \A c \in Conns : client[c].state = "WRITING" /\ ~Pending(c) =>
       \/ sock[c].nospace /\ ~Writable(sock[c])
       \/ MayShrink /\ client[c].file /\ ResponseUnsent(c) = 0

\* Edge-triggered listener: connections wait in the backlog without an event
\* only after accept() failed with something else than EAGAIN.
BacklogNotStranded ==
    Deliverable(Listener) =>
       Listener \in ready \cup batch \/ pc = "accept" \/ accept_failed

(***************************************************************************)
(* The inductive invariant: the properties above and what they rest on.    *)
(***************************************************************************)
\* A client_t exists exactly while its socket is open, and the server knows
\* why it closed a socket.
Lifecycle ==
    \A c \in Conns :
       /\ client[c].state # "CLOSING"
       /\ Live(c) <=> sock[c].phase = "open"
       /\ sock[c].phase \in {"idle", "backlog"} => client[c].state = "none"
       /\ why[c] = "open" <=> sock[c].phase # "closed"
       /\ why[c] = "done" => client[c].state = "freed"

\* How far a response got: the file after the response buffer, the offset of
\* the descriptor where file_sent says, completion only at the end.
Progress ==
    \A c \in Conns :
       LET cl == client[c] IN
       /\ cl.response_sent <= cl.response_len
       /\ cl.state \in {"none", "READING"} =>
             cl.response_len = 0 /\ ~cl.file /\ sock[c].sndq = 0
       /\ ~cl.file => cl.file_size = 0 /\ cl.file_sent = 0
       /\ cl.file_sent > 0 => cl.response_sent = cl.response_len
       /\ cl.state = "WRITING" /\ ResponseUnsent(c) = 0 => cl.file
       /\ cl.file /\ Live(c) => file[c].pos = cl.file_sent
       /\ ~MayShrink /\ cl.file /\ Live(c) => file[c].len >= cl.file_size
       /\ ~MayGrow /\ cl.file /\ Live(c) => file[c].len <= cl.file_size
       /\ ~MayGrow => cl.file_sent <= cl.file_size
       /\ why[c] = "done" => /\ cl.response_sent = cl.response_len
                             /\ cl.file_sent >= cl.file_size

\* The locals of the loops: no event is left when a batch is over, and inside
\* the file loop it is known whose it is and that "remaining", which the loop
\* does not update, never falls behind.
Locals ==
    /\ pc \in {"check", "wait", "done"} => batch = {}
    /\ pc = "file" =>
          /\ cur \in Conns /\ cur \notin batch
          /\ client[cur].state = "WRITING" /\ client[cur].file
          /\ ResponseUnsent(cur) = 0
          /\ remaining >= FileUnsent(cur)

IInv == /\ TypeOK /\ Lifecycle /\ NoEventOfFreedClient /\ InterestFollowsState
        /\ Progress /\ Locals /\ WireInOrder
        /\ InputNotStranded /\ OutputNotStranded /\ BacklogNotStranded

\* The server implements HttpExchange: each connection gets one response, in
\* order, and is released as complete only when all of it was taken.
ExchangePhase ==
    [c \in Conns |-> IF client[c].state = "READING" THEN "open"
                     ELSE IF client[c].state = "WRITING" THEN "answering"
                     ELSE IF why[c] = "done" THEN "complete"
                     ELSE IF why[c] = "open" THEN "new" ELSE "given up"]

ExchangeTotal ==
    [c \in Conns |-> client[c].response_len + client[c].file_size]

Exchange == INSTANCE HttpExchange WITH
    MayOverrun <- MayGrow, phase <- ExchangePhase, total <- ExchangeTotal,
    got <- wire

ImplementsExchange == Exchange!Spec

\* A READING client that has sent a whole request that fits is eventually
\* released, whatever the split of the request into segments and however
\* slowly it takes the response; unless its file has shrunk, when no event is
\* left that would end the transfer.
FileTooShort(c) == client[c].file /\ file[c].len < client[c].file_size

RequestReleased ==
    \A c \in Conns :
       (/\ client[c].state = "READING" /\ sock[c].reqEnd <= ReqCap
        /\ sock[c].sent >= sock[c].reqEnd)
       ~> (client[c].state = "freed" \/ pc = "done" \/ FileTooShort(c))

\* SIGINT stops the server, unless it lands between the test of keep_running
\* and the block in epoll_wait.
SigintStops == ~keep_running /\ pc # "wait" ~> pc = "done"

\* The server's thread is scheduled, and clients take what they are sent.
FairSpec == Spec /\ WF_vars(Server) /\ \A c \in Conns : WF_vars(Drain(c))
=============================================================================
