------------------------------- MODULE Logger -------------------------------
(***************************************************************************)
(* The logging library of hw7 (logger.c): loggers that several threads     *)
(* call, each with a mutex and a line-buffered stream opened for           *)
(* appending.  All the loggers of the model write to one file, as two      *)
(* logger_init of one name do.                                             *)
(*                                                                         *)
(* A line of the log is cut into pieces: its head (time, level, place),    *)
(* some pieces of message, and its end.  The buffer of a stream holds      *)
(* BufferSize pieces.  An entry of level ERROR goes on with the title of   *)
(* the backtrace, a line of its own, and frames that are written to the    *)
(* descriptor without passing through the buffer.                          *)
(***************************************************************************)
EXTENDS Integers, SequencesExt, Subsequences

CONSTANTS Threads, Loggers,
          None,         \* NULL: no logger, and nobody's mutex
          BufferSize,   \* pieces the buffer of a stream holds
          Texts,        \* pieces a message may have
          Frames,       \* frames a backtrace may have
          MaxCalls,     \* bound on the calls of all threads
          MaxFaults     \* bound on the writes that fail

ASSUME LoggerAssumption ==
    /\ None \notin Threads \cup Loggers
    /\ BufferSize \in Nat \ {0}
    /\ Texts \cup Frames \cup {MaxCalls, MaxFaults} \subseteq Nat

VARIABLES
    resources,  \* resources[l]: what l holds: its struct, name, stream and mutex
    status,     \* status[l]: "new", "ready" (logger_init returned it), "failed" or "closed"
    errno,      \* until the next call: the acquisition a failed logger_init tells of
    owner,      \* owner[l]: the thread inside l's mutex, or None
    buffer,     \* buffer[l]: the pieces in the stream's buffer
    disk,       \* the file: the pieces in it
    pc,         \* pc[t]: where in logger_log thread t is, and the pieces left there
    call,       \* call[t]: the call t is in, or the last it made
    made,       \* calls of logger_log so far
    faults,     \* writes that failed
    \* Observations, which the code does not keep:
    entered,    \* entered[l]: the calls that took l's mutex, in that order
    returned,   \* the calls that returned
    damaged     \* the calls that lost pieces to a failed write

streams == <<owner, buffer, disk, faults, damaged>>
history == <<entered, returned>>
objects == <<resources, status, errno>>
vars == <<objects, streams, pc, call, made, history>>

Acquired == <<"logger", "filename", "file", "mutex">>
Idle == <<"idle", 0>>
NoCall == [thread |-> None, number |-> 0, logger |-> None, level |-> "INFO",
           text |-> 0, frames |-> 0]

Init ==
    /\ resources = [l \in Loggers |-> {}]
    /\ status = [l \in Loggers |-> "new"]
    /\ errno = "none"
    /\ owner = [l \in Loggers |-> None]
    /\ buffer = [l \in Loggers |-> <<>>]
    /\ disk = <<>>
    /\ pc = [t \in Threads |-> Idle]
    /\ call = [t \in Threads |-> NoCall]
    /\ made = 0
    /\ faults = 0
    /\ entered = [l \in Loggers |-> <<>>]
    /\ returned = {}
    /\ damaged = {}

-----------------------------------------------------------------------------
(* logger_init and logger_close *)

\* (slip) The name is forgotten when the file cannot be opened.
Released_Forgets == <<{}, {"logger"}, {"logger"}, {"file", "filename", "logger"}>>

\* What each failure of logger_init gives back, by the acquisition that failed.
Released == <<{}, {"logger"}, {"filename", "logger"}, {"file", "filename", "logger"}>>

\* errno is set again after the releases for these; of the releases only
\* fclose may have changed it.
Restored == {"logger", "file", "mutex"}

InitFails(l, n) ==
    /\ status[l] = "new"
    /\ resources' = [resources EXCEPT ![l] = {Acquired[i] : i \in 1..n - 1} \ Released[n]]
    /\ errno' \in {Acquired[n]} \cup
                 IF Acquired[n] \in Restored \/ "file" \notin Released[n] THEN {} ELSE {"unknown"}
    /\ status' = [status EXCEPT ![l] = "failed"]
    /\ UNCHANGED <<streams, pc, call, made, history>>

InitSucceeds(l) ==
    /\ status[l] = "new"
    /\ resources' = [resources EXCEPT ![l] = ToSet(Acquired)]
    /\ status' = [status EXCEPT ![l] = "ready"]
    /\ UNCHANGED <<errno, streams, pc, call, made, history>>

logger_init(l) == InitSucceeds(l) \/ \E n \in 1..Len(Acquired) : InitFails(l, n)

\* Everything is freed, so the caller must know that nobody is in a call.
logger_close(l) ==
    /\ status[l] = "ready" /\ \A t \in Threads : pc[t] = Idle \/ call[t].logger # l
    /\ disk' = disk \o buffer[l]
    /\ buffer' = [buffer EXCEPT ![l] = <<>>]
    /\ resources' = [resources EXCEPT ![l] = {}]
    /\ status' = [status EXCEPT ![l] = "closed"]
    /\ UNCHANGED <<errno, owner, faults, damaged, pc, call, made, history>>

-----------------------------------------------------------------------------
(* The stream *)

Piece(t, kind) ==
    [thread |-> t, number |-> call[t].number, kind |-> kind]
CallOf(p) == <<p.thread, p.number>>

\* write(2) of the pieces, or of some of them: nobody looks at the error.
Write(pieces) ==
    \/ /\ disk' = disk \o pieces
       /\ UNCHANGED <<faults, damaged>>
    \/ /\ faults < MaxFaults /\ pieces # <<>>
       /\ \E n \in 0..Len(pieces) - 1 :
            /\ disk' = disk \o SubSeq(pieces, 1, n)
            /\ damaged' = damaged \cup {CallOf(pieces[i]) : i \in n + 1..Len(pieces)}
       /\ faults' = faults + 1

\* (slip) The title stays in the buffer when the frames are written.
FlushesLine_NotTitle == {"end"}

\* (slip) Without setvbuf only a full buffer is written.
FlushesLine_Never == {}

\* setvbuf(_IOLBF): the end of a line empties the buffer.
FlushesLine == {"end", "title"}

\* (slip) The stream is not buffered.
fprintf_Unbuffered(l, piece) == Write(<<piece>>) /\ UNCHANGED buffer

\* One piece of an fprintf to l's stream, which has room for it.
fprintf(l, piece) ==
    /\ Len(buffer[l]) < BufferSize
    /\ IF piece.kind \in FlushesLine
       THEN /\ Write(Append(buffer[l], piece))
            /\ buffer' = [buffer EXCEPT ![l] = <<>>]
       ELSE /\ buffer' = [buffer EXCEPT ![l] = Append(@, piece)]
            /\ UNCHANGED <<disk, faults, damaged>>

-----------------------------------------------------------------------------
(* logger_log *)

MoveTo(t, place, left) == pc' = [pc EXCEPT ![t] = <<place, left>>]

\* logger_log of NULL, which logger_init may have returned.
CallNull(t) ==
    /\ pc[t] = Idle /\ made < MaxCalls
    /\ \E l \in Loggers : status[l] = "failed"
    /\ made' = made + 1
    /\ UNCHANGED <<objects, streams, pc, call, history>>

Call(t, l) ==
    /\ pc[t] = Idle /\ made < MaxCalls
    /\ status[l] = "ready" /\ \A m \in Loggers : status[m] # "new"
    /\ \E text \in Texts, kind \in {<<"INFO", 0>>} \cup {<<"ERROR", n>> : n \in Frames} :
        call' = [call EXCEPT ![t] =
            [thread |-> t, number |-> made + 1, logger |-> l, level |-> kind[1],
             text |-> text, frames |-> kind[2]]]
    /\ MoveTo(t, "lock", 0)
    /\ made' = made + 1
    /\ errno' = "none"
    /\ UNCHANGED <<resources, status, streams, history>>

Lock(t) ==
    LET l == call[t].logger
    IN /\ pc[t] = <<"lock", 0>> /\ owner[l] = None
       /\ owner' = [owner EXCEPT ![l] = t]
       /\ entered' = [entered EXCEPT ![l] = Append(@, call[t])]
       /\ MoveTo(t, "head", 0)
       /\ UNCHANGED <<objects, buffer, disk, faults, damaged, call, made, returned>>

\* The buffer is full and there is more of the line to print.
MakeRoom(t) ==
    LET l == call[t].logger
    IN /\ pc[t][1] \in {"head", "text", "title"} /\ Len(buffer[l]) = BufferSize
       /\ Write(buffer[l])
       /\ buffer' = [buffer EXCEPT ![l] = <<>>]
       /\ UNCHANGED <<objects, owner, pc, call, made, history>>

PrintHead(t) ==
    /\ pc[t] = <<"head", 0>>
    /\ fprintf(call[t].logger, Piece(t, "head"))
    /\ MoveTo(t, "text", call[t].text)
    /\ UNCHANGED <<objects, owner, call, made, history>>

PrintText(t) ==
    /\ pc[t][1] = "text" /\ pc[t][2] > 0
    /\ fprintf(call[t].logger, Piece(t, "text"))
    /\ MoveTo(t, "text", pc[t][2] - 1)
    /\ UNCHANGED <<objects, owner, call, made, history>>

AfterLine(t) == IF call[t].level = "ERROR" THEN "title" ELSE "unlock"

PrintEnd(t) ==
    /\ pc[t] = <<"text", 0>>
    /\ fprintf(call[t].logger, Piece(t, "end"))
    /\ MoveTo(t, AfterLine(t), 0)
    /\ UNCHANGED <<objects, owner, call, made, history>>

PrintTitle(t) ==
    /\ pc[t] = <<"title", 0>>
    /\ fprintf(call[t].logger, Piece(t, "title"))
    /\ MoveTo(t, "frames", call[t].frames)
    /\ UNCHANGED <<objects, owner, call, made, history>>

WriteFrame(t) ==
    /\ pc[t][1] = "frames" /\ pc[t][2] > 0
    /\ Write(<<Piece(t, "frame")>>)
    /\ MoveTo(t, "frames", pc[t][2] - 1)
    /\ UNCHANGED <<objects, owner, buffer, call, made, history>>

\* (slip) A path out of logger_log without pthread_mutex_unlock.
Unlock_Forgets(t) ==
    /\ pc[t] \in {<<"unlock", 0>>, <<"frames", 0>>}
    /\ returned' = returned \cup {call[t]}
    /\ MoveTo(t, "idle", 0)
    /\ UNCHANGED <<objects, streams, call, made, entered>>

Unlock(t) ==
    /\ pc[t] \in {<<"unlock", 0>>, <<"frames", 0>>}
    /\ owner' = [owner EXCEPT ![call[t].logger] = None]
    /\ returned' = returned \cup {call[t]}
    /\ MoveTo(t, "idle", 0)
    /\ UNCHANGED <<objects, buffer, disk, faults, damaged, call, made, entered>>

logger_log(t) ==
    \/ Lock(t) \/ MakeRoom(t) \/ PrintHead(t) \/ PrintText(t)
    \/ PrintEnd(t) \/ PrintTitle(t) \/ WriteFrame(t) \/ Unlock(t)

Next ==
    \/ \E l \in Loggers : logger_init(l) \/ logger_close(l)
    \/ \E t \in Threads : CallNull(t) \/ logger_log(t) \/ \E l \in Loggers : Call(t, l)

\* A thread inside the library goes on: nothing in it waits but for a mutex.
Spec == Init /\ [][Next]_vars /\ \A t \in Threads : WF_vars(logger_log(t))

-----------------------------------------------------------------------------
(* What the library promises *)

Kinds(c) ==
    <<"head">> \o [i \in 1..c.text |-> "text"] \o <<"end">> \o
    IF c.level = "ERROR" THEN <<"title">> \o [i \in 1..c.frames |-> "frame"] ELSE <<>>

Entry(c) == [i \in DOMAIN Kinds(c) |->
                [thread |-> c.thread, number |-> c.number, kind |-> Kinds(c)[i]]]
Entries(calls) == FlattenSeq([i \in DOMAIN calls |-> Entry(calls[i])])

Intact(c) == <<c.thread, c.number>> \notin damaged
IntactCalls(l) == Chosen({c \in ToSet(entered[l]) : Intact(c)}, entered[l])
PiecesOf(calls, pieces) ==
    Chosen({p \in ToSet(pieces) : \E c \in calls : CallOf(p) = <<c.thread, c.number>>}, pieces)

(* Of every logger the file holds whole entries, each with its backtrace   *)
(* behind its line, in the order in which the calls took the mutex; only   *)
(* the last of them may be unfinished, and a part of it in the buffer.     *)
EntriesWhole ==
    \A l \in Loggers :
        LET calls == IntactCalls(l)
            written == PiecesOf(ToSet(calls), disk \o buffer[l])
        IN /\ IsPrefix(written, Entries(calls))
           /\ calls # <<>> => IsPrefix(Entries(Front(calls)), written)

(* An entry whose call has returned is in the file, all of it: killing the *)
(* program at any later moment does not lose it.                           *)
ReturnedIsWritten ==
    \A c \in returned : Intact(c) => PiecesOf({c}, disk) = Entry(c)

(* Loggers that share a file do not break each other's lines, when a line  *)
(* fits the buffer.                                                        *)
ShortLinesWhole ==
    \A i \in DOMAIN disk, l \in Loggers : \A c \in ToSet(entered[l]) :
        LET last == i + c.text + 1
        IN /\ disk[i].kind = "head" /\ CallOf(disk[i]) = <<c.thread, c.number>>
           /\ Intact(c) /\ c.text + 2 <= BufferSize
           => last <= Len(disk) /\ PiecesOf({c}, SubSeq(disk, i, last)) = SubSeq(disk, i, last)

(* logger_init that fails keeps nothing and tells which call failed; a     *)
(* logger that may be used has all its parts, and a closed one none.       *)
AllOrNothing ==
    /\ \A l \in Loggers : resources[l] = IF status[l] = "ready" THEN ToSet(Acquired) ELSE {}
    /\ errno # "unknown"

(* No call waits for ever: every path of logger_log gives the mutex back.  *)
CallsReturn == \A t \in Threads : pc[t] # Idle ~> pc[t] = Idle
=============================================================================
