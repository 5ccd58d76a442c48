# Verification of otus_c_hw

The repository holds seventeen independent C exercises.  This directory models
in TLA+ nearly all of them that keep state or can fail: a server around
edge-triggered epoll, a character device shared by processes, a log reader with
a pool of threads, a logging library, a daemon behind a named socket, a game
that keeps records, and nine small programs.  The modules translate the code,
the configurations are small instances that TLC checks, and the theorems are
proved by TLAPS for every value of the constants.

`PROJECT.json` is the index: which definition models which lines, what each run
checks, a plausible mistake in the code that breaks each property (the
definitions marked *(slip)* in the modules), and the hazards each property is
there for.

    tlc -workers 2 -config AsyncServerOne.cfg AsyncServerMC.tla
    tlapm AsyncServerProofs.tla

## Inventory

### hw12_async_server: an HTTP server

*State.* One `client_t` per connection (state READING, WRITING or CLOSING, the
request buffer, the response buffer with what of it was sent, an open file with
what of it was sent), `keep_running`, `events[]`.  In the kernel: sockets with
their buffers and the epoll instance with its ready list.

*Operations.* `accept_connections` until EAGAIN; `handle_event`, which reads
(`read_from_client`, one `read` per event) or writes (`write_to_client`) and
then changes the registration or frees the client; `handle_request`, which
parses, looks the path up (`stat`, `access`, `open`, `opendir`) and fills the
response; `handle_sigint`.

*Interaction.* One thread.  Remote clients, the kernel and other processes that
change the served files act between any two of its system calls.

*Hard.* Edge triggering: an event that is not fully used does not come back.
Events of one batch refer to clients by pointer.  Short reads and writes at
every place.  A file that changes while it is sent.  Buffers at their limit.

*Correct when* no event outlives its client, the wire carries header and file
in order and nothing else, "done" is true, no connection waits for an event
that never comes, requests are released, and the status of an answer is one that
README.md promises for the files as they were at one of the moments the code looked.

### hw14_chardevice: a ring buffer device

*State.* `buffer`, `buffer_size`, `head`, `tail`, `is_full`, `buffer_lock`.
*Operations.* `my_read`, `my_write`, `size_store`, `size_show`, each by any
number of processes; the first three interruptibly lock the mutex.  Byte by
byte, `ring_buffer_write` and `ring_buffer_read`.
*Hard.* `head == tail` means empty or full; overwriting; resizing to a smaller
buffer; five error returns under the mutex; faults in the middle of a copy.
*Correct when* the device is a queue that loses only its oldest bytes, each call
is atomic, and every path gives the mutex back.

### hw10_logs_stats: totals of web server logs

*State.* The queue of files, `threads[]` with `active_threads`, one `Stats` with
its mutex.  *Operations.* `main` lists the directory, starts a thread per file
while a slot is free, otherwise polls `pthread_tryjoin_np` and closes the gap
in `threads[]`, joins the rest, prints.  A thread locks, looks a key up, inserts
or adds, unlocks, for each line.
*Hard.* Threads that end in any order, a thread that cannot be created,
interleaved updates, wrap-around of the totals.
*Correct when* each thread is joined once, nothing is read by `main` before all
have gone, no addition is lost, and `main` ends.

### hw8_deamon: a daemon that tells a file's size

*State.* `is_running`, the socket and its name in the file system, the working
directory.  *Operations.* `read_config`, `daemonize`, `handle_signal`,
`run_server` (unlink, socket, bind, chmod, listen, the accept loop, unlink),
`handle_request` (stat, write, close).
*Interaction.* Clients, signals, kills, other processes that change the file,
and other runs of the daemon, which share the socket's name.
*Hard.* What a killed run leaves; a signal between the test and `accept`; errors
on the way to an answer; a client that leaves.
*Correct when* the name leads to the run that serves, answers are current, and
every client is let go.

### hw17_game: 2048

*State.* The screen, board and score, the name being typed, the table of records
and `records.dat`.  *Operations.* The keys of each screen.
*Hard.* Allocations that fail in the middle of a move; the same merge run over
four index maps; the end of a game decided by other code than the moves; the end
of the name buffer; a kill while the table is written.
*Correct when* tiles and score balance, the game ends exactly when no key moves,
and the table holds the best in order.

### hw7: a logging library

*State.* A `logger_t`: the file's name, a line-buffered stream opened for
appending, a mutex.  *Operations.* `logger_init` (four acquisitions),
`logger_log` (under the mutex: the prints of a line and, for errors, a title
and the backtrace, which is written to the descriptor past the stream),
`logger_close`.
*Interaction.* Threads share a logger; loggers may share a file.
*Hard.* One entry is several prints and writes; what is in the stream's buffer
when the descriptor is written; a failure in the middle of `logger_init`.
*Correct when* entries are whole, in the order of the calls and in the file when
the call has returned, and what fails is undone without losing `errno`.

### The small programs

Each is one thread that runs once over its input.

| program | state and operations | what makes it hard |
|---|---|---|
| hw1 encoding | a table; one pass over a file, through a buffered output | every row of three tables; bytes without a character; reads, writes and closes that fail |
| hw1 archive in a picture | a file searched backwards for a zip's end record, then its directory | the first match from the end, offsets computed backwards, names read by their own length |
| hw2 weather | the answer as it grows, the parsed document, a struct | an answer in parts, memory that runs out, texts that are too long, missing or none |
| hw3 lists (`main.c`, `main_ref.c`) | a linked list; map, filter, clear | two programs, one of which frees |
| hw6_1 file explorer | a list of paths, sorted, made a tree | the comparison must put each directory before what is in it |
| hw9 CRC32 | an open and mapped file | what each failure gives back |
| hw11 figlet client | one socket, one buffer used for banner and answer | short reads, the timeout, a full buffer, what the banner left in it |
| hw12 start, hw14 loading | what has been set up so far | a cascade of failures |
| hw15 statistics of a column | connection, statement, result | clean-up labels; the arithmetic of SQL and of doubles; a text in the column |

### Not modelled

| part | why |
|---|---|
| hw2 `cJSON.c` | a vendored library; external to `Weather` |
| hw3 `main.asm`, `main_ref.asm` | the lists of hw3 once more, as instructions of a machine |
| hw4, hw5 | a build script; a patch of sources that are not there |
| hw9's sum | a table of 32-bit values, beyond TLC's integers |
| hw6_1's window, hw16, hw17 `ui.c` | draw and keep nothing the program reads again |
| hw13 | a straight line of system calls, written to be traced |

## Modules

| module | models | extends or instantiates |
|---|---|---|
| `UrlDecode` | `url_decode` of hw10, with which printed URLs are decoded | |
| `HttpHandler` | `handle_request` with the listing and the error answers, as functions of the request and the file system's answers | |
| `HttpRequest`, `HttpRequestMC` | one request answered, with what README.md promises | `HttpHandler` |
| `HttpExchange` | abstract: one request, one response, in order, complete or given up | |
| `AsyncServer`, `AsyncServerMC` | `main.c`, `server.c`, `client.c` and the transfers of `http.c`, with sockets and epoll | `HttpExchange`; the MC module computes the outcomes of requests with `HttpHandler` |
| `AsyncServerProofs` | theorems, those about `HttpRequest` and the refinement of `HttpExchange` last | `AsyncServer`, `HttpRequest`, `Induction` |
| `RingBuffer` | the ring, operation by operation | |
| `RingDevice`, `RingDeviceMC` | the device's calls by several processes | `RingBuffer`, `Errno` |
| `LossyFifo`, `DeviceCalls` | abstract: a queue that drops its oldest byte; atomic calls | |
| `RingDeviceProofs` | theorems | `RingDevice` |
| `LogStats`, `LogStatsMC` | `main` and `process_file` of hw10 | `UrlDecode` |
| `LogStatsProofs` | theorems | `LogStats`, `Induction` |
| `SizeDaemon` | hw8, several runs | |
| `SizeDaemonProofs` | theorems | `SizeDaemon` |
| `Game2048`, `Records`, `GameApp`, `GameAppMC` | hw17: the moves, the table, the screens | |
| `GameAppProofs` | theorems | `GameApp`, `Induction` |
| `Logger`, `LoggerMC` | hw7: threads that log through loggers of one file | |
| `LoggerProofs` | theorems | `Logger`, `Induction` |
| `Induction` | induction over numbers, finite sets and sequences; sums, folds and concatenations of the community modules | |
| `Unwinding` | loading and unloading hw14, starting hw12, the files of hw9, as sequences of calls with what each failure releases | |
| `Encoding`, `ArchiveSearch` | hw1: the converter with its tables, the search for an archive | |
| `Weather` | hw2 | |
| `ListPrograms` | hw3: `main.c` and `main_ref.c` | |
| `FileTree` | hw6_1: `scan_dir`, `sort_files`, `fill_tree_store` | |
| `FigletClient` | hw11, with a server that pauses and closes as it likes | |
| `ColumnStats` | hw15: SQLite and PostgreSQL | |
| `Subsequences` | what `SelectSeq` does, as a recursive function the prover can follow | |
| `Exercises`, `ExercisesMC` | the eight modules above side by side | instantiates them |
| `ExercisesProofs` | theorems about each of the eight | `Exercises`, `Induction` |

State variables carry the names of the C variables they stand for; each action
has the name of its function or says in its comment which part of one it is.
The small programs are written over three variables, `job` (the input), `work`
(what the program keeps) and `status` (where it is); `Exercises` picks a job and
runs it to its end, alone, so one run checks them all.
What has no counterpart in the code is marked *history* (`wire`, `why`, `seen`,
`spawned`, `entered`, ...) and is never read by a guard.

### Grain of the steps

* `AsyncServer`: one step is one iteration of a loop, at most one system call
  that moves data.  Clients, files and signals act between any two.  Lengths are
  abstract units; the position of a unit in the response stands for its value.
* `RingDevice`: one step is one byte copied, or one lock or unlock.  `put_user`
  and `get_user` may sleep, so other processes act between the bytes.
  `size_show` reads without the mutex in one step of its own.
* `LogStats`: one step is what a thread does between two points where another
  thread can notice: lock, lookup, update, unlock, exit, join.
* `SizeDaemon`: one step is one system call.
* `GameApp`: one step is one event of the queue; the events are handled by one
  thread.  The file operation inside Enter has its own outcomes (written,
  refused, cut short, the program killed in it).
* `Logger`: one step is one print into the stream, one write, one lock or unlock.
  A line is a head, pieces of text and an end; the buffer holds pieces.
  `logger_init` and `logger_close` are one step: nobody else may use the logger
  then.
* The small programs: one step is one call that may fail, or one item (a byte, a
  directory entry, a header, a part of an answer).  Nobody else takes part but
  the server of `FigletClient`.

### Kernel and libraries

They are modelled by what the code relies on and marked external: epoll
reports an edge when a registered condition becomes true and on ADD and MOD when
it is already; EPOLLOUT needs a third of the send buffer free; `close` and DEL
take a connection off the ready list; a reset makes every call fail; `krealloc`,
`calloc`, `pthread_create` and `accept` may fail; a restarted `accept` does not
notice a signal; SIGPIPE ends a process without a handler; a stream with
`_IOLBF` is written at each line end and when its buffer is full; `"/"` of two
integers is an integer in SQLite; `cJSON_GetObjectItem` of nothing is nothing.

## Runs

| run | instance | shows |
|---|---|---|
| `one_connection` | 1 connection, a batch of 2, request buffer 2, chunks of 2, send buffer 2, files up to 5 that shrink and grow, fair server and client | the server implements `HttpExchange`: the wire is in order; "done" is true, input is not stranded, whole requests are released, SIGINT stops the loop with the next event |
| `two_connections` | 2 connections sharing a batch, buffers of 1 and 2 | no event of a freed client, neither output nor backlog is stranded |
| `requests` | all paths of up to 5 characters, all answers of the file calls that may change in between, listings of up to 4 names | answers fit; the status is promised for the file system of one of the two looks |
| `long_listing` | as `requests` | *violated*: a listing that is too long is announced without its body, or not answered |
| `ring_device` | 2 processes, 2 byte values, rings of 1 and 2, calls of up to 2 bytes | indices stay in the ring, `LossyFifo` and `DeviceCalls` are implemented, calls return |
| `log_totals` | 4 files, 3 slots, one URL written in two ways, a word of 16 | threads joined once, totals exact, `main` prints when all have gone, and ends |
| `logger` | 2 threads, 2 loggers of one file, a buffer of 2 pieces, messages of 0 and 1 pieces, one frame, 2 calls, one failing write | entries are whole, in order and written when the call returns; short lines of two loggers do not mix; a failed init keeps nothing; calls return |
| `size_daemon` | 2 runs, 2 clients, one failing `accept` | the name leads to the run that serves, answers are current, clients are let go |
| `relative_path` | 1 run started with `-d` and a relative `file_path` | *violated*: another file is looked at |
| `game` | board 2 x 2, table of 2, names of 2 letters, 3 starts, scores to 8 | tiles and score balance, games end when stuck, the table is the best in order |
| `exercises` | every byte of every charset and short texts; trees of up to 5 entries; archives of up to 2 members behind pictures and comments; columns of up to 3 cells, with sums that are exact and sums that are not; banners and answers around a buffer of 4 cells; lists of up to 4 numbers; weather in up to 3 parts with one odd field or section; every call failing | what was acquired is given back; the output is UTF-8 of the text, or of a beginning of it; the tree mirrors the directory; lists are printed whole and in order; statistics are those of the column, but for the two kinds `StatsRight` names; answers are printed; every program ends |
| `integer_variance` | columns of up to 3 integers | *violated*: SQLite divides integers |

**Why the bounds are enough.**  Two of everything that competes (connections in
a batch, processes at the mutex, runs at the name) is where each interleaving
hazard first occurs.  Buffers are smaller than what passes through them by more
than one unit, so each loop runs zero, one and several times and ends both at
and before the limit: requests of 3 units through a buffer of 2, files of 5
through chunks and send buffers of 2.  The ring sizes 1 and 2 contain the full
ring, the wrap-around and the shrink; the 4 files over 3 slots contain the gap
closed in front, in the middle and at the end.  In the game a board of 2 x 2 has
all four directions and dead ends after a few moves; that one line merges as the
rule says is checked for all lines of four with tiles up to 8
(`LinesFollowTheRule`).  In the logger's buffer of two pieces a line of a message
without text fits and one with text does not.  The trees contain names that
differ in case only, names with a character that sorts before the slash, and a
name that is another's prefix; a tree of five entries is three levels deep.  For the properties that are proved the bounds do not
matter at all.

`VIEW Shown` of the game identifies states that differ in a board or a dialogue
no screen shows: both are set anew before they are used.  `SYMMETRY` is used
where only safety is checked.

`CHECK_DEADLOCK FALSE` everywhere, because each of the programs may stop: the
server after SIGINT, the log reader and the small programs when they are done, a
device or a logger nobody calls, runs and starts that are used up.

### Fairness

* `AsyncServer!FairSpec`: the server's thread is scheduled (weakly fair as a
  whole, since it is one thread), and each client's TCP stack acknowledges what
  it was sent.  Nothing is assumed of requests, resets, files or SIGINT.
* `RingDevice!FairSpec`: each process goes on, and a mutex that is free again
  and again is obtained: the kernel's mutex queues its waiters.
* `LogStats!FairSpec`: each thread is scheduled.  The mutex needs no strong
  fairness, since a thread takes it finitely often.
* `SizeDaemon!FairSpec`: each run is scheduled; nothing else has to happen.
* `Logger!Spec`: a thread inside `logger_log` is scheduled.  That it calls, or
  that anybody closes, is not assumed.
* `Exercises!Spec`: the program that runs goes on.  In `FigletClient` a `recv`
  returns after `SO_RCVTIMEO` at the latest, so a silent server does not stop it;
  libcurl's transfer is taken to end, well or not.

## What is proved

| theorem | says |
|---|---|
| `AsyncServerProofs!TypeCorrect` | types; the request buffer and the send buffers do not overflow |
| `NoUseAfterFree` | no event, on the ready list or in the batch, refers to a freed client |
| `InterestCorrect` | epoll waits for what the client's state needs |
| `WireOrdered`, `CompletionIsTrue` | what is sent is a prefix of header and file; "done" means all of it |
| `InputSafe`, `OutputSafe`, `BacklogSafe` | when edge triggering may leave input, output or connections without an event due, and only then |
| `Refinement` | the server implements `HttpExchange` |
| `AnswerFitsBuffer` | no answer is longer than the buffer, whatever the path and the directory |
| `StatusIsPromised` | the status is the one README.md promises for the files as they were at one of the two looks of `handle_request`, but for two changes that no moment explains |
| `OutcomeAsAssumed` | what `handle_request` leaves in the client's record is what `AsyncServer` assumes of it |
| `RingDeviceProofs!RingSafe`, `MutexSafe` | indices in the buffer of the moment; the mutex belongs to the process that copies |
| `RingIsFifo` | the ring implements `LossyFifo`, byte by byte |
| `CallsAreAtomic` | the device implements `DeviceCalls`: each call happens at one instant |
| `LogStatsProofs!TypeCorrect`, `JoinedOnce`, `PrintsWhenReady` | slots in range and each thread joined once; `main` reads when all have gone |
| `NothingLostOrCountedTwice` | total and tables are exactly those of the lines passed |
| `LoggerProofs!Kept`, `Excluded` | a failed init keeps nothing and tells why; two threads are never inside one logger's mutex |
| `WholeAndInOrder` | of each logger the file holds the entries whole, in the order of the mutex |
| `Written`, `LinesWhole` | the entry of a call that has returned is in the file; a line that fits the buffer is not broken by another logger |
| `SizeDaemonProofs!TypeCorrect`, `NameLeadsToServer` | types; the socket's name leads to the run that serves |
| `AnswerCurrent` | with a path that does not depend on the directory, an answer was true while the client was served |
| `GameAppProofs!TypeCorrect` | types, with the NUL that ends the name |
| `TilesStay`, `ScoreIsEarned` | no key and no failed allocation loses or makes a tile; the score is what the tiles took to be joined |
| `OverInTime` | the game ends exactly when no key moves |
| `LinesAreRuled` | the loops of `process_line` make of any line what the rule of the game says |
| `TableHoldsTheBest` | the table is in order and holds the best of what was loaded and entered |
| `ExercisesProofs!EverythingReleased` | whatever fails, what a program acquired is given back, and at its end nothing is held but the two things `ResourcesReleased` names |
| `TextsRecoverable` | the converter's file is UTF-8 of a beginning of the text, of all of it when nothing failed |
| `ViewMirrorsTree` | the view has one row for each entry that could be read, under the row of its directory |
| `ListsInOrder` | the members of an archive, up to a name the buffer does not hold, and the lists of hw3 are printed whole and in order |
| `ColumnsAreRight` | the statistics are those of the column, but for the two kinds of columns the code does not provide for |
| `AnswersPrinted` | the figlet client prints the answer from its second line on, the weather program each field the document has |

They hold for any number of connections, processes, files, threads, loggers,
runs and games, for texts, trees, archives, columns, lists and answers of any
length, and for any sizes, from the ASSUMEs of the modules: sizes are
positive, the special values are none of the ordinary ones, and

* of `handle_request` as `AsyncServer` sees it only that an answer to be written
  is not empty and a closed connection has none;
* `CaseAssumption`: requests and answers of the file calls are sequences and
  booleans where the code has strings and return codes;
* `LogStats!FilesAssumption`: a directory holds finitely many files;
* `GameApp!FilesAssumption`: a `records.dat` found at the first start was written
  by this program, wholly or in part.  The code does not look at what it loads,
  so of other files nothing could be promised.

* `JobAssumption` of `Exercises`: inputs have the shape the programs are given by
  their users, `IsInput` of each module; an archive is behind its picture whole,
  and texts, columns and paths are sequences of what they are made of;
* arithmetic of doubles: up to `MAX_EXACT` integers are exact.  Above that, and
  for quotients that have no end, a number is `Rounded` and nothing is said of it:
  how far rounding, or cancellation in `SUM(x*x) - SUM(x)*SUM(x)/n`, takes a
  variance from the truth is not modelled.

TLC evaluates all of these on every run.  `InterestCorrect`, `WireOrdered`,
`MutexSafe`, `Excluded` and the types of `LogStats` and `SizeDaemon` are proved
only: no run repeats them, since the properties the runs check break with them.

### Arguments

**Server.**  The safety properties are not inductive.  `IInv` adds per connection
what they rest on: which states go with which socket phases (`Lifecycle`), how
far response and file have been sent and where the file stands (`Progress`), and
that the two loops' locals fit (`Locals`).  The step that matters is an edge: a
connection that is not pending has either nothing to read, a full request buffer,
or a send buffer that refused something and is not yet writable.
`IInvByConnection` splits the invariant so that each handler is checked for the
one connection it touches and the others keep theirs by `Frame`.  For the
refinement every action maps to one step of one connection (`MoveIsStep`) or to
a stutter.

**Requests.**  There is one step, so the work is in the operators.
`StatusAsPromised` needs no file system at rest: `Moments` are the file systems
that stay as one of the two looks found them, and the answer is right for one of
them.  That fails for two changes only, which the property names: the index page
disappears, or what was a file becomes a directory, between the looks.
`Decision` turns the ordered table of `handle_request` into nested conditions, once;
`OffsetType` follows the offset of the listing from entry to entry, by the fold
that computes it, and never finds it behind the buffer's end.

**Device.**  Three facts on indices under `%` (`NextIndex`, `WriteWithRoom`,
`WriteOverOldest`) say that the queue read off `head`, `tail` and `is_full` is
changed by each operation as the lossy queue is; every step of the device is one
ring operation or leaves the ring alone.  For whole calls `CopyInv` says what the
process inside has done since the lock: a reader has taken a first part of the
queue that was there, a writer has put its bytes behind it and pushed out the
oldest.  The calls see that queue until the unlock (`Seen`), which is where each
of them happens.  The mapping of a refused call needs no lock: it changes nothing.

**Log reader.**  `IInv` says that the slots up to `active_threads` are distinct
threads, exactly those created and not joined, and that queue, slots and joined
threads share the files out between them.  `CountInv` is the half-way state of
the tables: the total already has the line of the thread under the mutex from
"found" on, the table of URLs from "added" on, the referers when it has passed.
`BytesAdded`, `UrlAdded` and `RefererAdded` say what one line more makes of sums
and tables, under the wrap-around of the word.

**Logger.**  `Kept` rests on `FailureUndone`: the n-th acquisition of
`logger_init` releases what the n - 1 before it got, and sets `errno` again
wherever a release may have changed it.  `Excluded` needs `MutexOwned`: who is
inside is the owner.  For the file the properties say too little of a call under
way, and `EntriesWhole`, which is about the calls that lost nothing, says too
little of a single one.  `InOrder` is about any set of finished calls: chosen from the
file, their pieces are their entries in the order of the mutex, and behind them,
file before buffer, comes what has been printed of the call that is inside.  With
all finished calls as the set it gives `EntriesWhole`, with one of them
`ReturnedIsWritten`, which also needs that a call is entered once
(`EnteredOnce`).  `ShortInBuffer` keeps a line that fits in the buffer until its
end is printed, and one write then puts it into the file.

**Daemon.**  `NameInv`: runs that are alive together are known to be, and one that
has made its name and was alone since has it.  `AnswerInv`: a connection belongs
to one run and is there once (`Apart`), what a client may be told includes what
the file is now (`Served`), and an answer not yet written is among it.

**Game.**  A move is followed cell by cell with two measures of a tile, its face
and the points it took, of which the first is kept by a merge and the second
grows by what is scored (`Measures`, `LineMoved`); `BulkMoved` adds the lines of
a board up, over each of the four index maps.  `StuckIsDead` and `MovableIsAlive`
say that `can_move` tells what the moves do.  For the table the property counts,
for each score, the results that are as good: `RecordsInv` has it for all scores,
and `Added` counts what an insertion in order does.

**Lines of the game.**  `RuleExists` gives the rule as a function of how many
tiles are left; `RuledOn` follows the loop that joins: behind the k-th pair, what
is in front of it and what the rule makes of the rest is the rule of the whole.

**Small programs.**  One invariant per program says what has been done of the
input at each place.  *Release*: what is held is what the calls up to this one
acquired, and what is left of the plan is the same backwards (`Unwinding`); the
handles of the databases go by the place in the program (`ColumnInv`).  *Converter*:
`CharTellsByte` says that no character is twice in a table, `CharDecoded` that
the bytes of a row decode to its character behind anything whole, and
`DecodedPrefix` that the first bytes of what is valid are valid and decode to the
first of its characters: so for any part of the output the stream has passed on.
*Explorer*: `sort_files` orders entries (`EntryLessOrders`), so the sorted list
has each directory before its content (`SortedIs`), and each row finds the row of
its directory.  *Archive*: `SearchStart` comes to the end record first, and the
position after n headers is what their lengths add up to.  *Column*: the places
of the query, and `AnswerIsTruth`, which compares the two computations of the
variance.  *Lists, answers*: the printed part is a first part of what the input
asks for.

**Induction over data.**  The library states induction for an operator, which
none of the installed provers can instantiate.  `Induction` states it for sets (a set of
numbers with 0 and every successor has them all; finite sets and sequences likewise)
and derives from it what `MapThenFoldSet`, `FoldLeft`, `FlattenSeq` and recursive
functions compute.
The folds, sums and choices of the models are proved about through these lemmas.

## Only model-checked

* Liveness (`RequestReleased`, `SigintStops`, the two `CallsReturn`, `Finishes`,
  `LetGo`, `EveryProgramEnds`): the fairness of the specifications is stated with
  ENABLED, which the prover does not expand.
* The runs marked *violated*: a counterexample is one behaviour.
* What the modules' operators compute beyond what the theorems use.

## Where code and documents disagree

The three runs marked *violated* above.  Each quotes its document in
`PROJECT.json` "findings":

* `send_response` drops a body that does not fit behind the header though the
  Content-Length announces it, and `send_dir_listing` closes the connection when
  the footer does not fit, though README.md promises the list;
* `daemonize` changes to `/` before `file_path`, in the shipped configuration a
  relative name, is used;
* hw15's query for SQLite computes the variance of an integer column with integer
  division, though README.md promises correct statistics.

Observed while modelling, without a run of their own:

* hw12: `write_to_client` reads on to the end of the file, so a file that grows
  while it is sent is sent beyond its Content-Length; a request that fills the buffer without a blank line is closed without an
  answer; a file in a directory that may not be searched is 404, not 403.
* hw10: URLs are counted as written and decoded when printed, so a list may name
  one URL twice.
* hw8: a client that leaves before it is answered ends the daemon (SIGPIPE) with
  the name in place; of two daemons the first to stop removes the name of the
  second; with a `socket_path` longer than `sun_path` the name is never removed
  (`LongName`); an option missing from the file is passed to `strlen` as NULL.
* hw7: `logger_log` opens the file again when the stream is gone (lines 114-123),
  but nothing takes the stream away and leaves the logger; a write that fails
  goes unnoticed.
* hw1: the converter takes an input that cannot be read for one that ends
  (main.c:47) and does not look whether `fclose` could write the rest (line 75),
  so it may report success over a part of the text, where README.md:24 promises
  that errors of access are handled; `TextRecoverable` says what such a file
  still is.  It empties the output before it looks at the charset; names in
  an archive are read by their own length into an array of 256 bytes, which holds
  those of 1 to 255 (main.c:102-108; the model ends at any other); an archive without members is reported without
  closing the file, and a directory that ends before its count is read on with
  the signature that was read last.
* hw2: `error_code` of the struct that is filled is never set (main.c:103) and
  decides whether anything is printed (line 169); a text as long as its field is
  not terminated (line 120); a number where a text is expected is copied from
  NULL; an empty answer is parsed from memory that was not written.
* hw6_1: the list is freed from the node that was its head before it was sorted;
  the keys and iterators of `path_hash` are never freed; links to directories are
  followed, also upwards.
* hw11: a socket whose `connect` fails stays open; an answer without a line end
  makes a pointer out of no result (line 96).
* hw15: the check of the type looks at the first row only (main.c:47-61), so SQLite
  counts a text in a later one as 0 and its statistics are printed, where
  README.md:24 and 40 promise that what is not numeric is handled (`StatsRight`
  names the case, and without it the `exercises` run would fail; PostgreSQL's
  cast refuses such a column); the way out of PostgreSQL without data skips `PQclear`; when the first
  `sqlite3_step` fails the type is not looked at.
* hw3: `main_ref.asm` calls with a stack that is not aligned.
* hw17: `"wb"` empties `records.dat` before it is written, so a kill in between
  loses the table (the model has it, and the table loaded then is still
  ordered); Escape in the dialogue drops the result and leaves the blink timer
  running; a name typed behind a gap counts as no name; the test for `'_'` never
  holds, since no key types it.

## Left out

Where a path leads: hw12 appends the path to its root as it was written, and the
model knows only whether it holds two dots in a row and what the calls answer.
The width of hw10's counters of referers (`gint`; that of the byte totals is
modelled); torn rows of hw17's `records.dat`; rounding beyond `Rounded`; whether
`free` keeps `errno`, which `logger_init` relies on when `strdup` fails.

Logging, wording and formats; MIME types; parsing of options beyond their
presence; memory sizes in bytes; drawing.  64-bit file offsets are taken not to
overflow.  `chmod` of the daemon's socket happens in the same step as `bind`.
Where a small program reads what was never written or follows a pointer that is
none, its model ends in the status "undefined".

## Plan

Done: every component that keeps state or can fail is modelled but for the parts
listed above, and each safety property and each refinement a run checks is
proved.

Possible extensions: the instructions of `main.asm` as a machine that refines
`ListPrograms`; hw9's sum over 8-bit halves.
