------------------------------ MODULE LogStats ------------------------------
(***************************************************************************)
(* hw10_logs_stats/main.c: main hands the log files of a directory to at   *)
(* most num_threads threads, which add what they read to one Stats under   *)
(* its mutex, joins the threads and prints the totals.                     *)
(*                                                                         *)
(* A thread is named by its file: each file is given to at most one        *)
(* thread.  A line is what fgets returns; one the parser skips is Skipped. *)
(***************************************************************************)
EXTENDS Integers, Sequences, SequencesExt, FiniteSetsExt, UrlDecode

CONSTANTS
    Files,        \* the regular files readdir finds
    Content,      \* the lines of each
    Skipped,      \* a line without the fields of the combined format
    NoReferer,    \* the referer "-"
    NoThread,     \* a slot of threads[] nobody has written
    num_threads,
    limit,        \* rows of a printed list
    Word          \* 2^64: guint64 and strtoull

Line == [url : Seq(Nat), bytes : Nat, referer : Seq(Nat) \cup {NoReferer}]

ASSUME ContentAssumption ==
    \A f \in Files : /\ Content[f] \in Seq(Line \cup {Skipped})
                     /\ NoThread # f /\ Skipped \notin Line
ASSUME FilesAssumption == IsFiniteSet(Files)
ASSUME ThreadsAssumption == num_threads \in Nat \ {0} /\ Word \in Nat \ {0}

VARIABLES
    pc,               \* where main is
    files,            \* GQueue of names
    threads,          \* threads[], here from 1
    active_threads,
    i,                \* index of the loop that joins
    worker,           \* each thread: where it is, its next line, hit of lookup
    lock,             \* owner of stats.lock
    total_bytes, url_traffic, referer_counts,
    printed           \* the two lists

mainVars == <<pc, files, threads, active_threads, i, printed>>
stats == <<total_bytes, url_traffic, referer_counts>>
vars == <<mainVars, worker, lock, stats>>

Empty == [k \in {} |-> 0]

Init ==
    /\ pc = "scan" /\ files = <<>>
    /\ threads = [s \in 1..num_threads |-> NoThread]
    /\ active_threads = 0 /\ i = 1
    /\ worker = [f \in Files |-> [pc |-> "none", next |-> 1, hit |-> FALSE]]
    /\ lock = NoThread
    /\ total_bytes = 0 /\ url_traffic = Empty /\ referer_counts = Empty
    /\ printed = <<>>

MoveTo(f, place) == worker' = [worker EXCEPT ![f].pc = place]

(***************************************************************************)
(* main: the directory.                                                    *)
(***************************************************************************)
ScanEntry(f) ==
    /\ pc = "scan" /\ \A k \in DOMAIN files : files[k] # f
    /\ files' = Append(files, f)
    /\ UNCHANGED <<pc, threads, active_threads, i, printed, worker, lock, stats>>

EndScan ==
    /\ pc = "scan" /\ \A f \in Files : \E k \in DOMAIN files : files[k] = f
    /\ pc' = IF files = <<>> THEN "done" ELSE "next"
    /\ UNCHANGED <<files, threads, active_threads, i, printed, worker, lock, stats>>

(***************************************************************************)
(* main: starting threads and making room for more.                        *)
(***************************************************************************)
SlotFree == active_threads < num_threads

StartThread ==
    /\ pc = "next" /\ files # <<>> /\ SlotFree
    /\ MoveTo(Head(files), "created")
    /\ threads' = [threads EXCEPT ![active_threads + 1] = Head(files)]
    /\ active_threads' = active_threads + 1
    /\ files' = Tail(files)
    /\ UNCHANGED <<pc, i, printed, lock, stats>>

\* pthread_create fails: the file is reported and forgotten.
StartFails ==
    /\ pc = "next" /\ files # <<>> /\ SlotFree
    /\ MoveTo(Head(files), "dropped")
    /\ files' = Tail(files)
    /\ UNCHANGED <<pc, threads, active_threads, i, printed, lock, stats>>

AllBusy ==
    /\ pc = "next" /\ files # <<>> /\ ~SlotFree
    /\ pc' = "reap" /\ i' = 1
    /\ UNCHANGED <<files, threads, active_threads, printed, worker, lock, stats>>

\* (slip) The slots behind the free one stay where they are.
CloseGap_Not(gap) == threads

\* threads[] without slot gap: those behind it move up.
CloseGap(gap) ==
    [s \in DOMAIN threads |-> IF s >= gap /\ s < active_threads THEN threads[s + 1]
                              ELSE threads[s]]

TryJoin ==
    /\ pc = "reap" /\ i <= active_threads
    /\ \/ /\ worker[threads[i]].pc = "exited"
          /\ MoveTo(threads[i], "joined")
          /\ threads' = CloseGap(i) /\ active_threads' = active_threads - 1
          /\ pc' = "next" /\ UNCHANGED i
       \/ /\ worker[threads[i]].pc # "exited" /\ i' = i + 1
          /\ UNCHANGED <<pc, threads, active_threads, worker>>
    /\ UNCHANGED <<files, printed, lock, stats>>

NoneFinished ==
    /\ pc = "reap" /\ i > active_threads /\ pc' = "next"
    /\ UNCHANGED <<files, threads, active_threads, i, printed, worker, lock, stats>>

(***************************************************************************)
(* main: the end.                                                          *)
(***************************************************************************)
NoMoreFiles ==
    /\ pc = "next" /\ files = <<>> /\ pc' = "join" /\ i' = 1
    /\ UNCHANGED <<files, threads, active_threads, printed, worker, lock, stats>>

JoinNext ==
    /\ pc = "join" /\ i <= active_threads
    /\ worker[threads[i]].pc = "exited"
    /\ MoveTo(threads[i], "joined") /\ i' = i + 1
    /\ UNCHANGED <<pc, files, threads, active_threads, printed, lock, stats>>

\* (slip) The last slot is not waited for.
EndJoin_TooEarly ==
    /\ pc = "join" /\ i >= active_threads /\ pc' = "print"
    /\ UNCHANGED <<files, threads, active_threads, i, printed, worker, lock, stats>>

EndJoin ==
    /\ pc = "join" /\ i > active_threads /\ pc' = "print"
    /\ UNCHANGED <<files, threads, active_threads, i, printed, worker, lock, stats>>

compare_entries(a, b) == IF a < b THEN 1 ELSE IF a > b THEN -1 ELSE 0

\* The lists that may be printed of a table: its keys in an order the sort
\* allows (the hash table gives them in any), decoded, the first "limit".
print_top(table) ==
    LET keys   == DOMAIN table
        n      == Cardinality(keys)
        sorted == {o \in [1..n -> keys] :
                     /\ \A a, b \in 1..n : a # b => o[a] # o[b]
                     /\ \A a \in 1..n - 1 :
                           compare_entries(table[o[a]], table[o[a + 1]]) <= 0}
    IN {[a \in 1..Min({n, limit}) |-> [name |-> urldecode(o[a]), value |-> table[o[a]]]] :
        o \in sorted}

PrintLists ==
    /\ pc = "print" /\ pc' = "done"
    /\ \E us \in print_top(url_traffic), rs \in print_top(referer_counts) :
          printed' = <<us, rs>>
    /\ UNCHANGED <<files, threads, active_threads, i, worker, lock, stats>>

(***************************************************************************)
(* thread_func and process_log_file.                                       *)
(***************************************************************************)
CurrentLine(f) == Content[f][worker[f].next]

\* strtoull saturates.
strtoull(digits) == IF digits < Word THEN digits ELSE Word - 1

OpenFile(f) ==
    /\ worker[f].pc = "created"
    /\ \E place \in {"reading", "exited"} : MoveTo(f, place)
    /\ UNCHANGED <<mainVars, lock, stats>>

EndOfFile(f) ==
    /\ worker[f].pc = "reading" /\ worker[f].next > Len(Content[f])
    /\ MoveTo(f, "exited")
    /\ UNCHANGED <<mainVars, lock, stats>>

ReadLine(f) ==
    /\ worker[f].pc = "reading" /\ worker[f].next <= Len(Content[f])
    /\ IF CurrentLine(f) = Skipped
       THEN worker' = [worker EXCEPT ![f].next = @ + 1]
       ELSE MoveTo(f, "parsed")
    /\ UNCHANGED <<mainVars, lock, stats>>

\* (slip) No mutex.
Lock_Shared(f) ==
    /\ worker[f].pc = "parsed"
    /\ lock' = f /\ MoveTo(f, "locked")
    /\ UNCHANGED <<mainVars, stats>>

Lock(f) ==
    /\ worker[f].pc = "parsed" /\ lock = NoThread
    /\ lock' = f /\ MoveTo(f, "locked")
    /\ UNCHANGED <<mainVars, stats>>

\* The total is added to and the url looked up.
FindUrl(f) ==
    /\ worker[f].pc = "locked"
    /\ total_bytes' = (total_bytes + strtoull(CurrentLine(f).bytes)) % Word
    /\ worker' = [worker EXCEPT ![f].pc = "found",
                                ![f].hit = CurrentLine(f).url \in DOMAIN url_traffic]
    /\ UNCHANGED <<mainVars, lock, url_traffic, referer_counts>>

Put(table, key, value) ==
    [k \in DOMAIN table \cup {key} |-> IF k = key THEN value ELSE table[k]]

AddUrl(f) ==
    LET line == CurrentLine(f) IN
    /\ worker[f].pc = "found" /\ MoveTo(f, "added")
    /\ url_traffic' = Put(url_traffic, line.url,
                          IF worker[f].hit
                          THEN (url_traffic[line.url] + strtoull(line.bytes)) % Word
                          ELSE strtoull(line.bytes))
    /\ UNCHANGED <<mainVars, lock, total_bytes, referer_counts>>

\* The referer, unless it is "-", and the end of the critical section.
NextLine(f) == worker' = [worker EXCEPT ![f].pc = "reading", ![f].next = @ + 1]

Counted(table, key) == Put(table, key, IF key \in DOMAIN table THEN table[key] + 1 ELSE 1)

\* (slip) A line without a referer goes on to the next one at once.
AddReferer_KeepsLock(f) ==
    LET referer == CurrentLine(f).referer IN
    /\ worker[f].pc = "added" /\ NextLine(f)
    /\ \/ /\ referer = NoReferer
          /\ UNCHANGED <<referer_counts, lock>>
       \/ /\ referer # NoReferer /\ lock' = NoThread
          /\ referer_counts' = Counted(referer_counts, referer)
    /\ UNCHANGED <<mainVars, total_bytes, url_traffic>>

AddReferer(f) ==
    LET referer == CurrentLine(f).referer IN
    /\ worker[f].pc = "added" /\ NextLine(f) /\ lock' = NoThread
    /\ \/ referer = NoReferer /\ UNCHANGED referer_counts
       \/ /\ referer # NoReferer
          /\ referer_counts' = Counted(referer_counts, referer)
    /\ UNCHANGED <<mainVars, total_bytes, url_traffic>>

(***************************************************************************)
(* Specification.                                                          *)
(***************************************************************************)
Main == \/ \E f \in Files : ScanEntry(f)
        \/ EndScan \/ StartThread \/ StartFails \/ AllBusy \/ TryJoin
        \/ NoneFinished \/ NoMoreFiles \/ JoinNext \/ EndJoin \/ PrintLists

Worker(f) == OpenFile(f) \/ EndOfFile(f) \/ ReadLine(f) \/ Lock(f)
             \/ FindUrl(f) \/ AddUrl(f) \/ AddReferer(f)

Next == Main \/ \E f \in Files : Worker(f)

Spec == Init /\ [][Next]_vars

\* main and every thread are scheduled.
FairSpec == Spec /\ WF_vars(Main) /\ \A f \in Files : WF_vars(Worker(f))

(***************************************************************************)
(* Properties.                                                             *)
(***************************************************************************)
InBooks == {"locked", "found", "added"}
Places == {"none", "created", "reading", "parsed", "exited", "joined", "dropped"}
          \cup InBooks

TypeOK ==
    /\ pc \in {"scan", "next", "reap", "join", "print", "done"}
    /\ files \in Seq(Files)
    /\ threads \in [1..num_threads -> Files \cup {NoThread}]
    /\ active_threads \in 0..num_threads
    /\ i \in 1..num_threads + 1
    /\ worker \in [Files -> [pc : Places, next : Nat \ {0}, hit : BOOLEAN]]
    /\ lock \in Files \cup {NoThread}
    /\ total_bytes \in 0..Word - 1

\* A thread that was created and not joined yet.
Unjoined(f) == worker[f].pc \notin {"none", "dropped", "joined"}

\* The slots of threads[] that are still to be joined.
OpenSlots == (IF pc \in {"join", "print", "done"} THEN i ELSE 1)..active_threads

\* threads[0..active_threads) holds every thread that was created and not yet
\* joined, and each once, although slots are closed up out of order: no thread
\* is joined twice (which is undefined), none is forgotten.
SlotsHoldUnjoined ==
    /\ \A f \in Files : Unjoined(f) <=> \E s \in OpenSlots : threads[s] = f
    /\ \A s, t \in OpenSlots : threads[s] = threads[t] => s = t

\* When the totals are printed and the tables destroyed, every file was handed
\* to a thread that is gone, or was reported because no thread could be made.
ReadyToPrint ==
    pc \in {"print", "done"} =>
       \A f \in Files : worker[f].pc \in {"joined", "dropped"}

\* What these two rest on: a file waits in the queue exactly until a thread is
\* wanted for it, and once; the joining loop ends behind the last slot; what
\* the parser hands on is a line of the file.
Bookkeeping ==
    /\ pc = "scan" => /\ active_threads = 0 /\ i = 1
                      /\ \A f \in Files : worker[f].pc = "none"
    /\ \A j, k \in DOMAIN files : files[j] = files[k] => j = k
    /\ pc # "scan" => \A f \in Files :
          worker[f].pc = "none" <=> \E k \in DOMAIN files : files[k] = f
    /\ pc \in {"join", "print", "done"} => files = <<>>
    /\ pc \in {"reap", "join"} => i <= active_threads + 1
    /\ pc \in {"print", "done"} => i > active_threads
    /\ \A s \in 1..active_threads : threads[s] \in Files
    /\ \A f \in Files : worker[f].pc \in {"parsed"} \cup InBooks =>
          worker[f].next <= Len(Content[f]) /\ CurrentLine(f) # Skipped

IInv == TypeOK /\ SlotsHoldUnjoined /\ ReadyToPrint /\ Bookkeeping

\* The lines behind all threads, as pairs of a file and an index.
Passed == {l \in {<<f, k>> : f \in Files, k \in 1..Max({Len(Content[g]) : g \in Files} \cup {0})} :
             /\ l[2] < worker[l[1]].next /\ l[2] <= Len(Content[l[1]])
             /\ Content[l[1]][l[2]] # Skipped}

BytesOf(lines) ==
    LET bytes == [l \in lines |-> strtoull(Content[l[1]][l[2]].bytes)]
    IN MapThenSumSet(LAMBDA l : bytes[l], lines) % Word

\* Whenever the mutex is free the statistics are exactly those of the lines
\* that were passed: no update is lost or made twice, whatever the threads do
\* in between, and the three of them agree.
CountedExactly ==
    LET url(l)     == Content[l[1]][l[2]].url
        referer(l) == Content[l[1]][l[2]].referer
    IN lock = NoThread =>
       /\ total_bytes = BytesOf(Passed)
       /\ url_traffic = [u \in {url(l) : l \in Passed} |->
                            BytesOf({l \in Passed : url(l) = u})]
       /\ referer_counts = [r \in {referer(l) : l \in Passed} \ {NoReferer} |->
                               Cardinality({l \in Passed : referer(l) = r})]

\* main gets to its end: it does not spin for ever over threads that never
\* finish, nor do they wait for a mutex that is not given back.
Finishes == <>(pc = "done")
=============================================================================
