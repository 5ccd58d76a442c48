----------------------------- MODULE SizeDaemon -----------------------------
(***************************************************************************)
(* hw8_deamon/main.c: a daemon that tells the size of a file over a UNIX   *)
(* socket.  Each member of Runs is one execution of the program; a restart *)
(* is another member.  All are given the same socket_path.                 *)
(*                                                                         *)
(* signal() of glibc restarts system calls: a signal does not get accept() *)
(* to return.  SIGPIPE keeps its default action.                           *)
(***************************************************************************)
EXTENDS Naturals, Sequences, FiniteSets

CONSTANTS
    Runs, Clients,
    Sizes,          \* sizes the file may have
    Missing,        \* stat fails: no file, or no access to it
    NoAnswer, NoRun, NoClient,
    RelativePath,   \* whether file_path is relative to the working directory
    LongName,       \* whether socket_path is longer than sun_path
    Backlog,        \* listen()
    AcceptFailures  \* bound: how often accept() may fail

Options == [parses : BOOLEAN, file_path : {"absent", "empty", "given"},
            socket_path : {"absent", "empty", "given"}]

ASSUME ConfigAssumption ==
    /\ RelativePath \in BOOLEAN /\ LongName \in BOOLEAN
    /\ Backlog \in Nat /\ AcceptFailures \in Nat
    /\ NoRun \notin Runs /\ NoClient \notin Clients
    /\ {Missing, NoAnswer} \cap Sizes = {} /\ Missing # NoAnswer

VARIABLES
    daemon,     \* each run: pc, working directory, client, answer
    is_running,
    path,       \* the run whose socket the name in the file system refers to
    queue,      \* connections not accepted yet
    held,       \* descriptors of clients that are open in the run
    client,     \* where each client is
    file,       \* the file of each directory that file_path may mean
    seen,       \* what the file was since the client was accepted
    shared,     \* runs that were alive together with another one
    failures

vars == <<daemon, is_running, path, queue, held, client, file, seen,
          shared, failures>>
net == <<queue, held, client, seen>>

Dirs == IF RelativePath THEN {"start", "root"} ELSE {"start"}

Fresh(place) == [pc |-> place, dir |-> "start", client |-> NoClient,
                 answer |-> NoAnswer]

Init ==
    /\ daemon = [p \in Runs |-> Fresh("none")]
    /\ is_running = [p \in Runs |-> TRUE]
    /\ path = NoRun
    /\ queue = [p \in Runs |-> <<>>] /\ held = [p \in Runs |-> {}]
    /\ client = [c \in Clients |-> "idle"]
    /\ file \in [Dirs -> Sizes \cup {Missing}]
    /\ seen = [c \in Clients |-> {}]
    /\ shared = {} /\ failures = 0

At(p, place) == daemon[p].pc = place
GoTo(p, place) == daemon' = [daemon EXCEPT ![p].pc = place]
Ended(p) == daemon[p].pc \in {"stopped", "failed", "killed"}
Serving(p) == daemon[p].pc \in {"test", "accept", "stat", "write", "close"}
InUse == {p \in Runs : ~At(p, "none") /\ ~Ended(p)}

\* The connections a run lets go of when its descriptors are closed.
Release(p) ==
    LET mine == held[p] \cup {queue[p][k] : k \in DOMAIN queue[p]} IN
    /\ queue' = [queue EXCEPT ![p] = <<>>] /\ held' = [held EXCEPT ![p] = {}]
    /\ client' = [c \in Clients |-> IF c \in mine THEN "closed" ELSE client[c]]
    /\ seen' = [c \in Clients |-> IF c \in mine THEN {} ELSE seen[c]]

\* Memory and descriptors go with a run, the socket's name does not.
End(p, how) ==
    /\ daemon' = [daemon EXCEPT ![p] = Fresh(how)] /\ shared' = shared \ {p}
    /\ Release(p)

(***************************************************************************)
(* main, read_config and daemonize.                                        *)
(***************************************************************************)
Start(p) ==
    /\ At(p, "none")
    /\ \/ GoTo(p, "failed") /\ UNCHANGED shared
       \/ /\ GoTo(p, "config")
          /\ shared' = IF InUse = {} THEN shared ELSE shared \cup InUse \cup {p}
    /\ UNCHANGED <<is_running, path, net, file, failures>>

\* strlen of an option the file does not set is strlen(NULL).
Verdict(options) ==
    CASE ~options.parses -> "failed"
      [] options.parses /\ options.file_path # "given" ->
            (IF options.file_path = "absent" THEN "killed" ELSE "failed")
      [] options.parses /\ options.file_path = "given" ->
            (IF options.socket_path = "absent" THEN "killed"
             ELSE IF options.socket_path = "empty" THEN "failed" ELSE "handlers")

read_config(p) ==
    /\ At(p, "config")
    /\ \E options \in Options : GoTo(p, Verdict(options))
    /\ UNCHANGED <<is_running, path, net, file, shared, failures>>

\* signal() twice; then, with -d, two forks that the work goes on after, and
\* the root as working directory, unless chdir fails.
daemonize(p) ==
    /\ At(p, "handlers")
    /\ \E dir \in Dirs : daemon' = [daemon EXCEPT ![p].pc = "remove", ![p].dir = dir]
    /\ UNCHANGED <<is_running, path, net, file, shared, failures>>

(***************************************************************************)
(* run_server: the socket.                                                 *)
(***************************************************************************)
\* What unlink(socket_path) leaves.  bind() is given as much of the name as
\* sun_path holds, unlink() all of it.
Unlinked == IF LongName THEN path ELSE NoRun

RemoveOld(p) ==
    /\ At(p, "remove") /\ GoTo(p, "bind") /\ path' = Unlinked
    /\ UNCHANGED <<is_running, net, file, shared, failures>>

\* (slip) The old name is removed when the new one has been made.
Bind_ThenRemove(p) ==
    /\ At(p, "bind") /\ path = NoRun /\ GoTo(p, "listen")
    /\ UNCHANGED <<is_running, path, net, file, shared, failures>>

Bind(p) ==
    /\ At(p, "bind") /\ path = NoRun
    /\ path' = p /\ GoTo(p, "listen")
    /\ UNCHANGED <<is_running, net, file, shared, failures>>

\* A name that exists is an error, whether or not anybody listens.
AddressInUse(p) == At(p, "bind") /\ path # NoRun

\* socket, bind or listen fails: the run ends and a name it made stays.
SetupFails(p) ==
    /\ daemon[p].pc \in {"bind", "listen"} /\ End(p, "failed")
    /\ UNCHANGED <<is_running, path, file, failures>>

Listen(p) ==
    /\ At(p, "listen") /\ GoTo(p, "test")
    /\ UNCHANGED <<is_running, path, net, file, shared, failures>>

(***************************************************************************)
(* run_server: the loop.                                                   *)
(***************************************************************************)
TestRunning(p) ==
    /\ At(p, "test") /\ GoTo(p, IF is_running[p] THEN "accept" ELSE "shut")
    /\ UNCHANGED <<is_running, path, net, file, shared, failures>>

Accept(p) ==
    LET c == Head(queue[p]) IN
    /\ At(p, "accept") /\ queue[p] # <<>>
    /\ queue' = [queue EXCEPT ![p] = Tail(@)]
    /\ held' = [held EXCEPT ![p] = @ \cup {c}]
    /\ client' = [client EXCEPT ![c] = IF @ = "gone" THEN @ ELSE "accepted"]
    /\ seen' = [seen EXCEPT ![c] = {file["start"]}]
    /\ daemon' = [daemon EXCEPT ![p].pc = "stat", ![p].client = c]
    /\ UNCHANGED <<is_running, path, file, shared, failures>>

AcceptFails(p) ==
    /\ At(p, "accept") /\ failures < AcceptFailures
    /\ failures' = failures + 1 /\ GoTo(p, "test")
    /\ UNCHANGED <<is_running, path, net, file, shared>>

\* The file that file_path means to the run.
Looked(p) == file[IF RelativePath THEN daemon[p].dir ELSE "start"]

\* (slip) The size is asked for once and remembered.
Stat_Once(p) ==
    /\ At(p, "stat")
    /\ daemon' = [daemon EXCEPT ![p].pc = "write",
                                ![p].answer = IF @ = NoAnswer THEN Looked(p) ELSE @]
    /\ UNCHANGED <<is_running, path, net, file, shared, failures>>

\* (slip) After an error nothing is answered and nothing closed.
Stat_ErrorReturns(p) ==
    /\ At(p, "stat")
    /\ daemon' = [daemon EXCEPT ![p].pc = IF Looked(p) = Missing THEN "test" ELSE "write",
                                ![p].answer = Looked(p)]
    /\ UNCHANGED <<is_running, path, net, file, shared, failures>>

\* handle_request: the size, or the error.
Stat(p) ==
    /\ At(p, "stat")
    /\ daemon' = [daemon EXCEPT ![p].pc = "write", ![p].answer = Looked(p)]
    /\ UNCHANGED <<is_running, path, net, file, shared, failures>>

Write(p) ==
    /\ At(p, "write")
    /\ \/ client[daemon[p].client] = "gone" /\ End(p, "killed")
       \/ /\ client[daemon[p].client] # "gone" /\ GoTo(p, "close")
          /\ UNCHANGED <<net, shared>>
    /\ UNCHANGED <<is_running, path, file, failures>>

Close(p) ==
    LET c == daemon[p].client IN
    /\ At(p, "close")
    /\ daemon' = [daemon EXCEPT ![p].pc = "test", ![p].client = NoClient]
    /\ held' = [held EXCEPT ![p] = @ \ {c}] /\ client' = [client EXCEPT ![c] = "closed"]
    /\ seen' = [seen EXCEPT ![c] = {}]
    /\ UNCHANGED <<is_running, path, queue, file, shared, failures>>

\* close(server_fd)
Shut(p) ==
    /\ At(p, "shut") /\ GoTo(p, "unlink") /\ Release(p)
    /\ UNCHANGED <<is_running, path, file, shared, failures>>

RemoveName(p) ==
    /\ At(p, "unlink") /\ End(p, "stopped") /\ path' = Unlinked
    /\ UNCHANGED <<is_running, file, failures>>

(***************************************************************************)
(* Everybody else.                                                         *)
(***************************************************************************)
\* SIGTERM or SIGINT; before signal() was called it ends the run.
Signal(p) ==
    /\ p \in InUse /\ is_running[p]
    /\ \/ /\ At(p, "config") /\ End(p, "killed") /\ UNCHANGED is_running
       \/ /\ ~At(p, "config") /\ is_running' = [is_running EXCEPT ![p] = FALSE]
          /\ UNCHANGED <<daemon, net, shared>>
    /\ UNCHANGED <<path, file, failures>>

\* The machine or an operator ends the run.
Kill(p) ==
    /\ p \in InUse /\ End(p, "killed")
    /\ UNCHANGED <<is_running, path, file, failures>>

Connect(c) ==
    /\ client[c] = "idle" /\ path # NoRun
    /\ IF Serving(path)
       THEN /\ Len(queue[path]) <= Backlog
            /\ queue' = [queue EXCEPT ![path] = Append(@, c)]
            /\ client' = [client EXCEPT ![c] = "queued"]
       ELSE client' = [client EXCEPT ![c] = "closed"] /\ UNCHANGED queue
    /\ UNCHANGED <<daemon, is_running, path, held, file, seen, shared, failures>>

HangUp(c) ==
    /\ client[c] \in {"queued", "accepted"}
    /\ client' = [client EXCEPT ![c] = "gone"]
    /\ UNCHANGED <<daemon, is_running, path, queue, held, file, seen, shared, failures>>

FileChanges(dir) ==
    /\ \E size \in (Sizes \cup {Missing}) \ {file[dir]} :
          /\ file' = [file EXCEPT ![dir] = size]
          /\ seen' = [c \in Clients |->
                        IF dir = "start" /\ \E p \in Runs : c \in held[p]
                        THEN seen[c] \cup {size} ELSE seen[c]]
    /\ UNCHANGED <<daemon, is_running, path, queue, held, client, shared, failures>>

(***************************************************************************)
(* Specification.                                                          *)
(***************************************************************************)
Serve(p) == TestRunning(p) \/ Accept(p) \/ AcceptFails(p) \/ Stat(p) \/ Write(p) \/ Close(p)

Run(p) == \/ read_config(p) \/ daemonize(p) \/ RemoveOld(p) \/ Bind(p) \/ SetupFails(p)
          \/ Listen(p) \/ Serve(p) \/ Shut(p) \/ RemoveName(p)

Environment == \/ \E p \in Runs : Start(p) \/ Signal(p) \/ Kill(p)
               \/ \E c \in Clients : Connect(c) \/ HangUp(c)
               \/ \E dir \in Dirs : FileChanges(dir)

Next == Environment \/ \E p \in Runs : Run(p)

Spec == Init /\ [][Next]_vars

\* A run is scheduled; nothing else has to happen.
FairSpec == Spec /\ \A p \in Runs : WF_vars(Run(p))

(***************************************************************************)
(* Properties.                                                             *)
(***************************************************************************)
\* README.md: the daemon tells the size before and after the file changed.  What
\* a client is going to be told was true of the file while it was served.
\* With a relative file_path, as the one in my_daemon.conf, and -d it fails.
AnswerIsCurrent ==
    \A p \in Runs : At(p, "write") => daemon[p].answer \in seen[daemon[p].client]

\* As long as a run serves, the socket's name leads to it, whatever the run
\* before it left behind and however it ended, unless two are alive at once.
NameServed == \A p \in Runs : Serving(p) /\ p \notin shared => path = p

\* README.md: the connection is broken at once.  A client that is connected is
\* let go, also when other clients, signals and failures interfere.
LetGo ==
    \A c \in Clients :
       client[c] \in {"queued", "accepted"} ~> client[c] \notin {"queued", "accepted"}
=============================================================================
