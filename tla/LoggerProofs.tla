---------------------------- MODULE LoggerProofs ----------------------------
(***************************************************************************)
(* For any number of loggers, threads, calls and failed writes, and any    *)
(* size of the buffer: what logger_init and logger_close keep, that a      *)
(* logger's mutex excludes, and what the file holds, which is              *)
(*     what any chosen finished calls print, in the order of the mutex,    *)
(*     and behind it what has been printed of the call that is not         *)
(*     finished                                                            *)
(* (InOrder).  The first parts are about sequences, then come the calls    *)
(* (CInv), then the pieces they print (WInv).                              *)
(***************************************************************************)
EXTENDS Logger, Induction, SequenceTheorems

\* AllOrNothing with the domains of the functions that are assigned to.
IInv ==
    /\ resources = [l \in Loggers |-> resources[l]]
    /\ status = [l \in Loggers |-> status[l]]
    /\ AllOrNothing

(* What a failed logger_init releases is what it holds, and errno is then  *)
(* that of the acquisition that failed.                                    *)
LEMMA FailureUndone ==
    ASSUME NEW n \in 1..Len(Acquired)
    PROVE  /\ {Acquired[i] : i \in 1..n - 1} \ Released[n] = {}
           /\ Acquired[n] \in Restored \/ "file" \notin Released[n]
           /\ Acquired[n] # "unknown"
<1>1. n = 1 \/ n = 2 \/ n = 3 \/ n = 4
  BY DEF Acquired
<1>2. CASE n = 1
  BY <1>2 DEF Acquired, Released, Restored
<1>3. CASE n = 2
  <2>1. \A i \in 1..n - 1 : i = 1
    BY <1>3
  <2>. QED
    BY <2>1, <1>3 DEF Acquired, Released, Restored
<1>4. CASE n = 3
  <2>1. \A i \in 1..n - 1 : i = 1 \/ i = 2
    BY <1>4
  <2>. QED
    BY <2>1, <1>4 DEF Acquired, Released, Restored
<1>5. CASE n = 4
  <2>1. \A i \in 1..n - 1 : i = 1 \/ i = 2 \/ i = 3
    BY <1>5
  <2>. QED
    BY <2>1, <1>5 DEF Acquired, Released, Restored
<1>. QED
  BY <1>1, <1>2, <1>3, <1>4, <1>5

LEMMA InitKept == Init => IInv
BY DEF Init, IInv, AllOrNothing

LEMMA StepKeeps == IInv /\ [Next]_vars => IInv'
<1> SUFFICES ASSUME IInv, [Next]_vars PROVE IInv'
  OBVIOUS
<1>1. ASSUME NEW l \in Loggers, NEW n \in 1..Len(Acquired), InitFails(l, n) PROVE IInv'
  <2>1. resources' = [resources EXCEPT ![l] = {}]
    BY <1>1, FailureUndone DEF InitFails
  <2>2. errno' # "unknown"
    BY <1>1, FailureUndone DEF InitFails
  <2>. QED
    BY <2>1, <2>2, <1>1 DEF InitFails, IInv, AllOrNothing
<1>2. ASSUME NEW l \in Loggers, InitSucceeds(l) PROVE IInv'
  BY <1>2 DEF InitSucceeds, IInv, AllOrNothing
<1>3. ASSUME NEW l \in Loggers, logger_close(l) PROVE IInv'
  BY <1>3 DEF logger_close, IInv, AllOrNothing
<1>4. ASSUME NEW t \in Threads, CallNull(t) \/ logger_log(t) \/ \E l \in Loggers : Call(t, l)
      PROVE IInv'
  <2>1. resources' = resources /\ status' = status /\ errno' \in {errno, "none"}
    BY <1>4 DEF CallNull, Call, logger_log, Lock, MakeRoom, PrintHead, PrintText, PrintEnd,
                PrintTitle, WriteFrame, Unlock, objects
  <2>. QED
    BY <2>1 DEF IInv, AllOrNothing
<1>5. CASE UNCHANGED vars
  BY <1>5 DEF vars, objects, IInv, AllOrNothing
<1>. QED
  BY <1>1, <1>2, <1>3, <1>4, <1>5 DEF Next, logger_init

(* A logger that may be used has all its parts; one that could not be made *)
(* or was closed keeps nothing, and the caller of a logger_init that       *)
(* failed can read in errno which call it was.                             *)
THEOREM Kept == Spec => []AllOrNothing
<1>1. IInv => AllOrNothing
  BY DEF IInv
<1>. QED
  BY <1>1, InitKept, StepKeeps, PTL DEF Spec

-----------------------------------------------------------------------------
\* Thread t is between the lock and the unlock.
Inside(t) == pc[t][1] \notin {"idle", "lock"}

\* Who is inside owns the mutex of the logger it was called with, so there is
\* one thread at most inside of each.
MutexOwned == \A t \in Threads : Inside(t) => owner[call[t].logger] = t

\* MutexOwned with the domains, and that a call is of a logger.
LInv ==
    /\ owner = [l \in Loggers |-> owner[l]]
    /\ pc = [t \in Threads |-> pc[t]]
    /\ call = [t \in Threads |-> call[t]]
    /\ \A t \in Threads : pc[t][1] # "idle" => call[t].logger \in Loggers
    /\ MutexOwned

LEMMA MutexFree == Init => LInv
BY DEF Init, LInv, MutexOwned, Inside, Idle

LEMMA MutexKept == LInv /\ [Next]_vars => LInv'
<1> SUFFICES ASSUME LInv, [Next]_vars PROVE LInv'
  OBVIOUS
<1>1. ASSUME NEW l \in Loggers, logger_init(l) \/ logger_close(l) PROVE LInv'
  <2>1. UNCHANGED <<owner, pc, call>>
    BY <1>1 DEF logger_init, InitFails, InitSucceeds, logger_close, streams
  <2>. QED
    BY <2>1 DEF LInv, MutexOwned, Inside
<1>2. ASSUME NEW t \in Threads, CallNull(t) PROVE LInv'
  BY <1>2 DEF CallNull, streams, LInv, MutexOwned, Inside
<1>3. ASSUME NEW t \in Threads, NEW l \in Loggers, Call(t, l) PROVE LInv'
  <2>1. PICK text \in Texts, kind \in {<<"INFO", 0>>} \cup {<<"ERROR", n>> : n \in Frames} :
            call' = [call EXCEPT ![t] =
                [thread |-> t, number |-> made + 1, logger |-> l, level |-> kind[1],
                 text |-> text, frames |-> kind[2]]]
    BY <1>3 DEF Call
  <2>2. pc' = [pc EXCEPT ![t] = <<"lock", 0>>] /\ owner' = owner
    BY <1>3 DEF Call, MoveTo, streams
  <2>3. call'[t].logger = l /\ pc'[t][1] = "lock"
    BY <2>1, <2>2 DEF LInv
  <2>4. \A u \in Threads \ {t} : call'[u] = call[u] /\ pc'[u] = pc[u]
    BY <2>1, <2>2 DEF LInv
  <2>. QED
    BY <2>1, <2>2, <2>3, <2>4 DEF LInv, MutexOwned, Inside
<1>4. ASSUME NEW t \in Threads, Lock(t) PROVE LInv'
  <2>1. /\ owner[call[t].logger] = None
        /\ owner' = [owner EXCEPT ![call[t].logger] = t]
        /\ pc' = [pc EXCEPT ![t] = <<"head", 0>>]
        /\ call' = call
        /\ pc[t][1] = "lock"
    BY <1>4 DEF Lock, MoveTo
  <2>2. None \notin Threads
    BY LoggerAssumption
  <2>3. owner'[call[t].logger] = t
    BY <2>1 DEF LInv
  <2>4. ASSUME NEW u \in Threads \ {t}, Inside(u)' PROVE owner'[call'[u].logger] = u
    <3>1. Inside(u)
      BY <2>1, <2>4 DEF LInv, Inside
    <3>2. owner[call[u].logger] = u /\ call[u].logger \in Loggers
      BY <3>1 DEF LInv, MutexOwned, Inside
    <3>3. call[u].logger # call[t].logger
      BY <2>1, <2>2, <3>2
    <3>. QED
      BY <2>1, <3>2, <3>3 DEF LInv
  <2>. QED
    BY <2>1, <2>3, <2>4 DEF LInv, MutexOwned, Inside
<1>5. ASSUME NEW t \in Threads, MakeRoom(t) PROVE LInv'
  BY <1>5 DEF MakeRoom, LInv, MutexOwned, Inside
<1>6. ASSUME NEW t \in Threads,
             PrintHead(t) \/ PrintText(t) \/ PrintEnd(t) \/ PrintTitle(t) \/ WriteFrame(t)
      PROVE LInv'
  <2>1. /\ UNCHANGED <<owner, call>>
        /\ Inside(t)
        /\ \E place \in {"text", "title", "unlock", "frames"} : \E left :
                pc' = [pc EXCEPT ![t] = <<place, left>>]
    BY <1>6 DEF PrintHead, PrintText, PrintEnd, PrintTitle, WriteFrame, MoveTo, AfterLine, Inside
  <2>. QED
    BY <2>1 DEF LInv, MutexOwned, Inside
<1>7. ASSUME NEW t \in Threads, Unlock(t) PROVE LInv'
  <2>1. /\ owner' = [owner EXCEPT ![call[t].logger] = None]
        /\ pc' = [pc EXCEPT ![t] = <<"idle", 0>>]
        /\ call' = call
        /\ Inside(t)
    BY <1>7 DEF Unlock, MoveTo, Inside
  <2>2. ASSUME NEW u \in Threads, Inside(u)' PROVE owner'[call'[u].logger] = u
    <3>1. u # t /\ Inside(u)
      BY <2>1, <2>2 DEF LInv, Inside
    <3>2. owner[call[u].logger] = u /\ owner[call[t].logger] = t
      BY <3>1, <2>1 DEF LInv, MutexOwned
    <3>3. call[u].logger # call[t].logger
      BY <3>1, <3>2
    <3>. QED
      BY <2>1, <3>2, <3>3 DEF LInv
  <2>. QED
    BY <2>1, <2>2 DEF LInv, MutexOwned, Inside
<1>8. CASE UNCHANGED vars
  BY <1>8 DEF vars, streams, LInv, MutexOwned, Inside
<1>. QED
  BY <1>1, <1>2, <1>3, <1>4, <1>5, <1>6, <1>7, <1>8 DEF Next, logger_log

(* Between the lock and the unlock of logger_log, MakeRoom and the writes  *)
(* of the backtrace included, a thread owns its logger's mutex: two        *)
(* threads are never inside with one logger.                               *)
THEOREM Excluded ==
    Spec => [](\A t, u \in Threads :
                  Inside(t) /\ Inside(u) /\ call[t].logger = call[u].logger => t = u)
<1> DEFINE Alone == \A t, u \in Threads :
                  Inside(t) /\ Inside(u) /\ call[t].logger = call[u].logger => t = u
<1>1. LInv => Alone
  BY DEF LInv, MutexOwned
<1> HIDE DEF Alone
<1>2. Spec => []Alone
  BY <1>1, MutexFree, MutexKept, PTL DEF Spec
<1>. QED
  BY <1>2 DEF Alone

-----------------------------------------------------------------------------
(* The calls *)

Pieces == [thread : Threads, number : Nat, kind : {"head", "text", "end", "title", "frame"}]
Calls == [thread : Threads, number : Nat, logger : Loggers, level : {"INFO", "ERROR"},
          text : Nat, frames : Nat]

\* The pieces that calls of D print.
Of(D) == {p \in Pieces : \E c \in D : CallOf(p) = <<c.thread, c.number>>}

\* Where a thread may be in the call it makes.
Placed(t) ==
    \/ pc[t] \in {Idle, <<"lock", 0>>, <<"head", 0>>}
    \/ \E k \in 0..call[t].text : pc[t] = <<"text", k>>
    \/ pc[t] = <<"title", 0>> /\ call[t].level = "ERROR"
    \/ call[t].level = "ERROR" /\ \E k \in 0..call[t].frames : pc[t] = <<"frames", k>>
    \/ pc[t] = <<"unlock", 0>> /\ call[t].level = "INFO"

\* The pieces it has printed there.
Done(t) == CASE pc[t][1] = "text" -> 1 + call[t].text - pc[t][2]
             [] pc[t][1] \in {"title", "unlock"} -> call[t].text + 2
             [] pc[t][1] = "frames" -> call[t].text + 3 + call[t].frames - pc[t][2]
             [] OTHER -> 0

\* A thread is printing call c.
Busy(c) == \E t \in Threads : Inside(t) /\ call[t] = c

EnteredAre ==
    \A l \in Loggers : /\ entered[l] \in Seq(Calls)
                       /\ \A c \in ToSet(entered[l]) : c.logger = l /\ c.number <= made

CallsAre ==
    \A t \in Threads : /\ Placed(t)
                       /\ pc[t][1] # "idle" => /\ call[t] \in Calls
                                               /\ call[t].thread = t /\ call[t].number <= made

\* No two calls have one number.
NumbersDiffer ==
    /\ \A l, m \in Loggers : \A c \in ToSet(entered[l]), d \in ToSet(entered[m]) :
           c.number = d.number => c = d
    /\ \A t \in Threads : pc[t][1] = "lock" =>
           \A l \in Loggers : \A c \in ToSet(entered[l]) : c.number # call[t].number
    /\ \A t, u \in Threads : pc[t][1] # "idle" /\ pc[u][1] # "idle" /\ t # u =>
           call[t].number # call[u].number

\* The call that is printed is the last that took the mutex.
BusyIsLast ==
    \A t \in Threads : Inside(t) =>
        \E first \in Seq(Calls) : /\ entered[call[t].logger] = Append(first, call[t])
                                  /\ call[t] \notin ToSet(first)

ReturnedAre ==
    \A c \in returned : (\E l \in Loggers : c \in ToSet(entered[l])) /\ ~Busy(c)

CInv ==
    /\ LInv
    /\ made \in Nat
    /\ entered = [l \in Loggers |-> entered[l]]
    /\ EnteredAre
    /\ CallsAre
    /\ NumbersDiffer
    /\ BusyIsLast
    /\ ReturnedAre

-----------------------------------------------------------------------------
(* The pieces *)

\* What is in a buffer belongs to the line that is being printed.
BuffersAre ==
    \A l \in Loggers :
        /\ buffer[l] \in Seq(Pieces)
        /\ buffer[l] # <<>> => \E t \in Threads : pc[t][1] = "text" /\ call[t].logger = l
        /\ \A t \in Threads : Inside(t) /\ call[t].logger = l =>
               \A i \in 1..Len(buffer[l]) : buffer[l][i] \in Of({call[t]})

DiskIs ==
    /\ disk \in Seq(Pieces)
    /\ \A i \in 1..Len(disk) : \E l \in Loggers : \E c \in ToSet(entered[l]) : disk[i] \in Of({c})

Finished(l) == {c \in ToSet(entered[l]) : Intact(c) /\ ~Busy(c)}

\* Of any finished calls the file holds the entries, one behind the other, and
\* behind them what has been printed of the call that is not finished.
InOrder ==
    \A l \in Loggers : \A D \in SUBSET Finished(l) :
        /\ Chosen(Of(D), disk) = Entries(Chosen(D, entered[l]))
        /\ \A t \in Threads : Inside(t) /\ call[t].logger = l /\ Intact(call[t]) =>
               Chosen(Of(D \cup {call[t]}), disk) \o buffer[l]
                   = Entries(Chosen(D, entered[l])) \o SubSeq(Entry(call[t]), 1, Done(t))

Short(c) == c.text + 2 <= BufferSize

\* A short line is all in the buffer until its end is printed.
ShortInBuffer ==
    \A t \in Threads : pc[t][1] \in {"head", "text"} /\ Short(call[t]) =>
        /\ Len(buffer[call[t].logger]) = Done(t)
        /\ \A i \in 1..Len(disk) : disk[i] \notin Of({call[t]})

WInv ==
    /\ CInv
    /\ buffer = [l \in Loggers |-> buffer[l]]
    /\ BuffersAre
    /\ DiskIs
    /\ InOrder
    /\ ShortInBuffer
    /\ ShortLinesWhole

-----------------------------------------------------------------------------
(* What a call prints *)

\* The length of the entry, and the kind of each of its pieces.
Size(c) == c.text + 2 + (IF c.level = "ERROR" THEN 1 + c.frames ELSE 0)
KindAt(c, i) == CASE i = 1 -> "head"
                  [] i \in 2..c.text + 1 -> "text"
                  [] i = c.text + 2 -> "end"
                  [] i = c.text + 3 -> "title"
                  [] OTHER -> "frame"

\* n copies of one element.
LEMMA Repeated ==
    ASSUME NEW n \in Nat, NEW T, NEW k \in T
    PROVE  [i \in 1..n |-> k] \in Seq(T) /\ Len([i \in 1..n |-> k]) = n
OBVIOUS

LEMMA KindsAre ==
    ASSUME NEW c \in Calls
    PROVE  /\ DOMAIN Kinds(c) = 1..Size(c) /\ Size(c) \in Nat
           /\ \A i \in 1..Size(c) : Kinds(c)[i] = KindAt(c, i)
<1> DEFINE T == {"head", "text", "end", "title", "frame"}
           m == c.text
           n == c.frames
           texts == [i \in 1..m |-> "text"]
           frames == [i \in 1..n |-> "frame"]
           line == <<"head">> \o texts \o <<"end">>
           trace == IF c.level = "ERROR" THEN <<"title">> \o frames ELSE <<>>
<1>1. m \in Nat /\ n \in Nat
  BY DEF Calls
<1>2. texts \in Seq(T) /\ Len(texts) = m /\ \A i \in 1..m : texts[i] = "text"
  BY <1>1
<1>3. frames \in Seq(T) /\ Len(frames) = n /\ \A i \in 1..n : frames[i] = "frame"
  BY <1>1
<1>4. /\ <<"head">> \in Seq(T) /\ Len(<<"head">>) = 1 /\ <<"head">>[1] = "head"
      /\ <<"end">> \in Seq(T) /\ Len(<<"end">>) = 1 /\ <<"end">>[1] = "end"
      /\ <<"title">> \in Seq(T) /\ Len(<<"title">>) = 1 /\ <<"title">>[1] = "title"
  OBVIOUS
<1>5. Kinds(c) = line \o trace
  BY DEF Kinds
<1> HIDE DEF texts, frames
<1>6. /\ <<"head">> \o texts \in Seq(T) /\ Len(<<"head">> \o texts) = 1 + m
      /\ \A i \in 1..1 + m : (<<"head">> \o texts)[i] = IF i = 1 THEN "head" ELSE "text"
  BY <1>1, <1>2, <1>4, ConcatProperties
<1>7. /\ line \in Seq(T) /\ Len(line) = m + 2
      /\ \A i \in 1..m + 2 : line[i] = IF i = 1 THEN "head" ELSE IF i = m + 2 THEN "end" ELSE "text"
  <2> DEFINE r == <<"head">> \o texts
  <2>1. /\ r \in Seq(T) /\ Len(r) = 1 + m
        /\ \A i \in 1..1 + m : r[i] = IF i = 1 THEN "head" ELSE "text"
    BY <1>6
  <2>2. line = r \o <<"end">>
    OBVIOUS
  <2> HIDE DEF r, line
  <2>3. /\ line \in Seq(T) /\ Len(line) = Len(r) + 1
        /\ \A i \in 1..Len(r) + 1 : line[i] = IF i <= Len(r) THEN r[i] ELSE <<"end">>[i - Len(r)]
    BY <1>4, <2>1, <2>2, ConcatProperties
  <2>4. \A i \in 1..Len(r) + 1 : i <= Len(r) \/ i - Len(r) = 1
    BY <1>1, <2>1
  <2>5. \A i \in 1..Len(r) + 1 : line[i] = IF i <= Len(r) THEN r[i] ELSE "end"
    BY <2>3, <2>4
  <2>6. Len(r) = 1 + m /\ m \in Nat /\ line \in Seq(T) /\ Len(line) = Len(r) + 1
    BY <1>1, <2>1, <2>3
  <2> HIDE DEF m
  <2>. QED
    BY <2>1, <2>5, <2>6
<1> HIDE DEF line
<1>8. CASE c.level = "ERROR"
  <2> DEFINE r == <<"title">> \o frames
  <2>1. /\ r \in Seq(T) /\ Len(r) = 1 + n
        /\ \A i \in 1..1 + n : r[i] = IF i = 1 THEN "title" ELSE "frame"
    BY <1>1, <1>3, <1>4, ConcatProperties
  <2>2. Kinds(c) = line \o r
    BY <1>5, <1>8
  <2> HIDE DEF r
  <2>3. /\ Kinds(c) \in Seq(T) /\ Len(Kinds(c)) = Len(line) + Len(r)
        /\ \A i \in 1..Len(line) + Len(r) :
              Kinds(c)[i] = IF i <= Len(line) THEN line[i] ELSE r[i - Len(line)]
    <3> HIDE DEF T, m, n
    <3>1. line \in Seq(T) /\ r \in Seq(T)
      BY <1>7, <2>1
    <3>. QED
      BY <3>1, <2>2, ConcatProperties, Zenon
  <2>4. Size(c) = m + 2 + (1 + n)
    BY <1>8 DEF Size
  <2> HIDE DEF m, n
  <2>5. \A i \in 1..m + 2 + (1 + n) :
            Kinds(c)[i] = IF i = 1 THEN "head" ELSE IF i < m + 2 THEN "text"
                          ELSE IF i = m + 2 THEN "end" ELSE IF i = m + 3 THEN "title" ELSE "frame"
    BY <1>1, <1>7, <2>1, <2>3
  <2>6. \A i \in 1..m + 2 + (1 + n) : Kinds(c)[i] = KindAt(c, i)
    BY <1>1, <2>5 DEF KindAt, m
  <2>7. DOMAIN Kinds(c) = 1..m + 2 + (1 + n)
    BY <1>1, <1>7, <2>1, <2>3, LenProperties
  <2>. QED
    BY <1>1, <2>4, <2>6, <2>7
<1>9. CASE c.level # "ERROR"
  <2>1. Kinds(c) = line
    BY <1>5, <1>7, <1>9, ConcatEmptySeq
  <2>2. Size(c) = m + 2
    BY <1>1, <1>9 DEF Size
  <2> HIDE DEF m, n
  <2>3. \A i \in 1..m + 2 : Kinds(c)[i] = KindAt(c, i)
    BY <1>1, <1>7, <2>1 DEF KindAt, m
  <2>4. DOMAIN Kinds(c) = 1..m + 2
    BY <1>7, <2>1, LenProperties
  <2>. QED
    BY <1>1, <2>2, <2>3, <2>4
<1>. QED
  BY <1>8, <1>9

LEMMA EntryIs ==
    ASSUME NEW c \in Calls
    PROVE  /\ Entry(c) \in Seq(Pieces) /\ Len(Entry(c)) = Size(c) /\ Size(c) \in Nat
           /\ \A i \in 1..Size(c) :
                 /\ Entry(c)[i] = [thread |-> c.thread, number |-> c.number, kind |-> KindAt(c, i)]
                 /\ Entry(c)[i] \in Of({c})
<1>1. /\ DOMAIN Kinds(c) = 1..Size(c) /\ Size(c) \in Nat
      /\ \A i \in 1..Size(c) : Kinds(c)[i] = KindAt(c, i)
  BY KindsAre
<1>2. \A i \in 1..Size(c) : KindAt(c, i) \in {"head", "text", "end", "title", "frame"}
  <2>1. c.text \in Nat
    BY DEF Calls
  <2>. QED
    BY <2>1 DEF KindAt
<1>3. c.thread \in Threads /\ c.number \in Nat
  BY DEF Calls
<1> DEFINE p(i) == [thread |-> c.thread, number |-> c.number, kind |-> Kinds(c)[i]]
<1>4. Entry(c) = [i \in 1..Size(c) |-> p(i)]
  BY <1>1 DEF Entry
<1>5. \A i \in 1..Size(c) : p(i) \in Pieces /\ p(i) \in Of({c})
  BY <1>1, <1>2, <1>3 DEF Pieces, Of, CallOf
<1>6. \A i \in 1..Size(c) :
         p(i) = [thread |-> c.thread, number |-> c.number, kind |-> KindAt(c, i)]
  BY <1>1
<1> HIDE DEF p
<1>7. Entry(c) \in Seq(Pieces) /\ Len(Entry(c)) = Size(c)
  BY <1>1, <1>4, <1>5
<1>. QED
  BY <1>1, <1>4, <1>5, <1>6, <1>7

\* One piece more.
LEMMA EntryGrows ==
    ASSUME NEW c \in Calls, NEW n \in Nat, n + 1 <= Size(c)
    PROVE  SubSeq(Entry(c), 1, n + 1)
               = SubSeq(Entry(c), 1, n)
                 \o <<[thread |-> c.thread, number |-> c.number, kind |-> KindAt(c, n + 1)]>>
<1>1. /\ Entry(c) \in Seq(Pieces) /\ Len(Entry(c)) = Size(c) /\ Size(c) \in Nat
      /\ Entry(c)[n + 1] = [thread |-> c.thread, number |-> c.number, kind |-> KindAt(c, n + 1)]
  <2>1. Size(c) \in Nat
    BY EntryIs
  <2>2. n + 1 \in 1..Size(c)
    BY <2>1
  <2>. QED
    BY <2>2, EntryIs
<1>2. SubSeq(Entry(c), 1, n + 1) = SubSeq(Entry(c), 1, (n + 1) - 1) \o <<Entry(c)[n + 1]>>
  BY <1>1, SubSeqRecursiveSecond
<1>. QED
  BY <1>1, <1>2

LEMMA EntriesAppend ==
    ASSUME NEW calls \in Seq(Calls), NEW c \in Calls
    PROVE  /\ Entries(calls) \in Seq(Pieces)
           /\ Entries(Append(calls, c)) = Entries(calls) \o Entry(c)
<1> DEFINE more == Append(calls, c)
           ss == [i \in DOMAIN calls |-> Entry(calls[i])]
<1>1. /\ DOMAIN calls = 1..Len(calls) /\ Len(calls) \in Nat
      /\ \A i \in 1..Len(calls) : calls[i] \in Calls /\ more[i] = calls[i]
      /\ DOMAIN more = 1..Len(calls) + 1 /\ more[Len(calls) + 1] = c
  BY AppendProperties, LenProperties, ElementOfSeq
<1>2. \A d \in Calls : Entry(d) \in Seq(Pieces)
  BY EntryIs
<1>3. ss \in Seq(Seq(Pieces)) /\ Len(ss) = Len(calls)
  BY <1>1, <1>2
<1>4. [i \in DOMAIN more |-> Entry(more[i])] = Append(ss, Entry(c))
  <2>1. [i \in DOMAIN more |-> Entry(more[i])] = [i \in 1..Len(calls) + 1 |-> Entry(more[i])]
    BY <1>1
  <2>2. /\ DOMAIN Append(ss, Entry(c)) = 1..Len(calls) + 1
        /\ Append(ss, Entry(c)) = [i \in 1..Len(calls) + 1 |-> Append(ss, Entry(c))[i]]
        /\ Append(ss, Entry(c))[Len(calls) + 1] = Entry(c)
        /\ \A i \in 1..Len(calls) : Append(ss, Entry(c))[i] = ss[i]
    <3>1. Append(ss, Entry(c)) \in Seq(Seq(Pieces)) /\ Len(Append(ss, Entry(c))) = Len(calls) + 1
      BY <1>2, <1>3, AppendProperties
    <3>2. /\ Append(ss, Entry(c))[Len(calls) + 1] = Entry(c)
          /\ \A i \in 1..Len(calls) : Append(ss, Entry(c))[i] = ss[i]
      BY <1>2, <1>3, AppendProperties
    <3>. QED
      BY <3>1, <3>2, LenProperties
  <2>3. \A i \in 1..Len(calls) + 1 : Entry(more[i]) = Append(ss, Entry(c))[i]
    <3>1. \A i \in 1..Len(calls) + 1 : i \in 1..Len(calls) \/ i = Len(calls) + 1
      BY <1>1
    <3>. QED
      BY <1>1, <2>2, <3>1
  <2> HIDE DEF ss, more
  <2>. QED
    BY <2>1, <2>2, <2>3
<1> HIDE DEF ss
<1>5. /\ FlattenSeq(ss) \in Seq(Pieces)
      /\ FlattenSeq(Append(ss, Entry(c))) = FlattenSeq(ss) \o Entry(c)
  BY <1>2, <1>3, FlattenAppend
<1>. QED
  BY <1>4, <1>5 DEF Entries, ss

LEMMA EntriesEmpty == Entries(<<>>) = <<>>
<1>1. [i \in DOMAIN <<>> |-> Entry(<<>>[i])] = <<>>
  OBVIOUS
<1>. QED
  BY <1>1, FlattenEmpty DEF Entries

-----------------------------------------------------------------------------
(* The calls, step by step *)

\* A step inside of a call leaves everything about the calls as it is but the
\* place of its thread.
Progresses(t) ==
    /\ Inside(t) /\ Inside(t)' /\ Placed(t)'
    /\ UNCHANGED <<owner, call, made, entered, returned>>
    /\ \A u \in Threads \ {t} : pc'[u] = pc[u]
    /\ pc[t][1] \in {"head", "text", "title", "frames"}

LEMMA InsideIs ==
    ASSUME CInv, NEW t \in Threads, Inside(t)
    PROVE  /\ call[t] \in Calls /\ call[t].thread = t /\ call[t].logger \in Loggers
           /\ call[t].text \in Nat /\ call[t].frames \in Nat /\ Placed(t)
           /\ pc = [u \in Threads |-> pc[u]]
BY DEF CInv, CallsAre, Inside, Calls, LInv

LEMMA StepProgresses ==
    ASSUME CInv, NEW t \in Threads,
           \/ MakeRoom(t) \/ PrintHead(t) \/ PrintText(t)
           \/ PrintEnd(t) \/ PrintTitle(t) \/ WriteFrame(t)
    PROVE  Progresses(t)
<1>0. Inside(t)
  BY DEF MakeRoom, PrintHead, PrintText, PrintEnd, PrintTitle, WriteFrame, Inside
<1>1. /\ call[t] \in Calls /\ call[t].text \in Nat /\ call[t].frames \in Nat /\ Placed(t)
      /\ pc = [u \in Threads |-> pc[u]]
  BY <1>0, InsideIs
<1>2. CASE MakeRoom(t)
  BY <1>0, <1>1, <1>2 DEF MakeRoom, Progresses, Inside, Placed, history
<1>3. CASE PrintHead(t)
  <2>1. pc' = [pc EXCEPT ![t] = <<"text", call[t].text>>] /\ UNCHANGED <<owner, call, made, history>>
        /\ pc[t] = <<"head", 0>>
    BY <1>3 DEF PrintHead, MoveTo
  <2>2. pc'[t] = <<"text", call[t].text>> /\ call[t].text \in 0..call[t].text
    BY <1>1, <2>1
  <2>. QED
    BY <1>0, <1>1, <2>1, <2>2 DEF Progresses, Inside, Placed, history
<1>4. CASE PrintText(t)
  <2>1. pc' = [pc EXCEPT ![t] = <<"text", pc[t][2] - 1>>] /\ UNCHANGED <<owner, call, made, history>>
        /\ pc[t][1] = "text" /\ pc[t][2] > 0
    BY <1>4 DEF PrintText, MoveTo
  <2>2. PICK k \in 0..call[t].text : pc[t] = <<"text", k>>
    BY <1>1, <2>1 DEF Placed, Idle
  <2>3. pc'[t] = <<"text", k - 1>> /\ k - 1 \in 0..call[t].text
    BY <1>1, <2>1, <2>2
  <2>. QED
    BY <1>0, <1>1, <2>1, <2>3 DEF Progresses, Inside, Placed, history
<1>5. CASE PrintEnd(t)
  <2>1. pc' = [pc EXCEPT ![t] = <<AfterLine(t), 0>>] /\ UNCHANGED <<owner, call, made, history>>
        /\ pc[t] = <<"text", 0>>
    BY <1>5 DEF PrintEnd, MoveTo
  <2>2. \/ pc'[t] = <<"title", 0>> /\ call[t].level = "ERROR"
        \/ pc'[t] = <<"unlock", 0>> /\ call[t].level = "INFO"
    BY <1>1, <2>1 DEF AfterLine, Calls
  <2>. QED
    BY <1>0, <1>1, <2>1, <2>2 DEF Progresses, Inside, Placed, history
<1>6. CASE PrintTitle(t)
  <2>1. pc' = [pc EXCEPT ![t] = <<"frames", call[t].frames>>] /\ UNCHANGED <<owner, call, made, history>>
        /\ pc[t] = <<"title", 0>>
    BY <1>6 DEF PrintTitle, MoveTo
  <2>2. pc'[t] = <<"frames", call[t].frames>> /\ call[t].frames \in 0..call[t].frames
    BY <1>1, <2>1
  <2>3. call[t].level = "ERROR"
    BY <1>1, <2>1 DEF Placed, Idle
  <2>. QED
    BY <1>0, <1>1, <2>1, <2>2, <2>3 DEF Progresses, Inside, Placed, history
<1>7. CASE WriteFrame(t)
  <2>1. pc' = [pc EXCEPT ![t] = <<"frames", pc[t][2] - 1>>] /\ UNCHANGED <<owner, call, made, history>>
        /\ pc[t][1] = "frames" /\ pc[t][2] > 0
    BY <1>7 DEF WriteFrame, MoveTo
  <2>2. PICK k \in 0..call[t].frames : pc[t] = <<"frames", k>> /\ call[t].level = "ERROR"
    BY <1>1, <2>1 DEF Placed, Idle
  <2>3. pc'[t] = <<"frames", k - 1>> /\ k - 1 \in 0..call[t].frames
    BY <1>1, <2>1, <2>2
  <2>. QED
    BY <1>0, <1>1, <2>1, <2>2, <2>3 DEF Progresses, Inside, Placed, history
<1>. QED
  BY <1>2, <1>3, <1>4, <1>5, <1>6, <1>7

LEMMA CInit == Init => CInv
<1> SUFFICES ASSUME Init PROVE CInv
  OBVIOUS
<1>1. LInv /\ made \in Nat /\ entered = [l \in Loggers |-> entered[l]]
  BY MutexFree DEF Init
<1>2. \A l \in Loggers : entered[l] = <<>> /\ ToSet(entered[l]) = {}
  BY DEF Init, ToSet
<1>3. \A t \in Threads : pc[t] = Idle /\ pc[t][1] = "idle" /\ ~Inside(t)
  BY DEF Init, Idle, Inside
<1>4. returned = {}
  BY DEF Init
<1>5. EnteredAre
  BY <1>2, EmptySeq DEF EnteredAre
<1>6. CallsAre /\ BusyIsLast
  BY <1>3 DEF CallsAre, Placed, BusyIsLast
<1>7. NumbersDiffer
  BY <1>2, <1>3 DEF NumbersDiffer
<1>. QED
  BY <1>1, <1>4, <1>5, <1>6, <1>7 DEF CInv, ReturnedAre

\* What the calls' part of the invariant is about.
callVars == <<owner, pc, call, made, entered, returned>>

LEMMA CallsStay == ASSUME CInv, UNCHANGED callVars PROVE CInv'
<1>1. LInv'
  BY DEF callVars, CInv, LInv, MutexOwned, Inside
<1>2. UNCHANGED <<EnteredAre, CallsAre, NumbersDiffer, BusyIsLast, ReturnedAre>>
  BY DEF callVars, EnteredAre, CallsAre, Placed, NumbersDiffer, BusyIsLast, Inside, ReturnedAre, Busy
<1>. QED
  BY <1>1, <1>2 DEF CInv, callVars

LEMMA EnteredKept ==
    ASSUME CInv, UNCHANGED entered, made' \in {made, made + 1} PROVE EnteredAre'
<1>1. ASSUME NEW l \in Loggers, NEW c \in ToSet(entered[l]) PROVE c.logger = l /\ c.number <= made'
  <2>1. c.logger = l /\ c.number <= made /\ made \in Nat /\ entered[l] \in Seq(Calls)
    BY DEF CInv, EnteredAre
  <2>2. c \in Calls
    BY <2>1, ToSetElements
  <2>. QED
    BY <2>1, <2>2 DEF Calls
<1>. QED
  BY <1>1 DEF CInv, EnteredAre

LEMMA CallNullKeepsCalls == ASSUME CInv, NEW t \in Threads, CallNull(t) PROVE CInv'
<1>1. UNCHANGED <<owner, pc, call, entered, returned>> /\ made' = made + 1
  BY DEF CallNull, streams, history
<1>2. LInv'
  BY <1>1 DEF CInv, LInv, MutexOwned, Inside
<1>3. made' \in Nat
  BY <1>1 DEF CInv
<1>4. EnteredAre'
  BY <1>1, EnteredKept
<1>5. CallsAre'
  BY <1>1 DEF CInv, CallsAre, Placed, Calls
<1>6. UNCHANGED <<NumbersDiffer, BusyIsLast, ReturnedAre>>
  BY <1>1 DEF NumbersDiffer, BusyIsLast, Inside, ReturnedAre, Busy
<1>. QED
  BY <1>1, <1>2, <1>3, <1>4, <1>5, <1>6 DEF CInv

LEMMA EnteredIs ==
    ASSUME CInv, NEW l \in Loggers, NEW c \in ToSet(entered[l])
    PROVE  c \in Calls /\ c.logger = l /\ c.number \in Nat /\ c.number <= made /\ made \in Nat
<1>1. c.logger = l /\ c.number <= made /\ made \in Nat /\ entered[l] \in Seq(Calls)
  BY DEF CInv, EnteredAre
<1>2. c \in Calls
  BY <1>1, ToSetElements
<1>. QED
  BY <1>1, <1>2 DEF Calls

LEMMA BusyIsEntered ==
    ASSUME CInv, NEW t \in Threads, Inside(t)
    PROVE  call[t] \in ToSet(entered[call[t].logger])
<1>1. call[t] \in Calls /\ call[t].logger \in Loggers
  BY InsideIs
<1>2. PICK first \in Seq(Calls) : entered[call[t].logger] = Append(first, call[t])
  BY DEF CInv, BusyIsLast
<1>. QED
  BY <1>1, <1>2, ToSetAppend

LEMMA CallKeepsCalls ==
    ASSUME CInv, NEW t \in Threads, NEW l \in Loggers, Call(t, l) PROVE CInv'
<1>1. PICK text \in Texts, kind \in {<<"INFO", 0>>} \cup {<<"ERROR", n>> : n \in Frames} :
          call' = [call EXCEPT ![t] =
              [thread |-> t, number |-> made + 1, logger |-> l, level |-> kind[1],
               text |-> text, frames |-> kind[2]]]
  BY DEF Call
<1> DEFINE c == [thread |-> t, number |-> made + 1, logger |-> l, level |-> kind[1],
                 text |-> text, frames |-> kind[2]]
<1>2. pc' = [pc EXCEPT ![t] = <<"lock", 0>>] /\ UNCHANGED <<owner, entered, returned>>
      /\ made' = made + 1 /\ pc[t] = <<"idle", 0>>
  BY DEF Call, MoveTo, streams, history, Idle
<1>3. LInv'
  <2>1. LInv /\ [Next]_vars
    BY DEF CInv, Next
  <2>. QED
    BY <2>1, MutexKept
<1>4. made \in Nat /\ made' \in Nat
  BY <1>2 DEF CInv
<1>5. c \in Calls /\ c.thread = t /\ c.number = made + 1
  BY <1>4, LoggerAssumption DEF Calls
<1>6. /\ call'[t] = c /\ pc'[t] = <<"lock", 0>>
      /\ \A u \in Threads \ {t} : call'[u] = call[u] /\ pc'[u] = pc[u]
  BY <1>1, <1>2 DEF CInv, LInv
<1> HIDE DEF c
<1>7. EnteredAre'
  BY <1>2, EnteredKept
<1>8. CallsAre'
  <2>1. ASSUME NEW u \in Threads
        PROVE  /\ Placed(u)'
               /\ pc'[u][1] # "idle" => call'[u] \in Calls /\ call'[u].thread = u /\ call'[u].number <= made'
    <3>1. CASE u = t
      BY <1>2, <1>4, <1>5, <1>6, <3>1 DEF Placed
    <3>2. CASE u # t
      <4>1. /\ Placed(u)
            /\ pc[u][1] # "idle" => call[u] \in Calls /\ call[u].thread = u /\ call[u].number <= made
        BY DEF CInv, CallsAre
      <4>2. Placed(u)'
        BY <1>6, <3>2, <4>1 DEF Placed
      <4>3. call[u] \in Calls => call[u].number \in Nat
        BY DEF Calls
      <4>. QED
        BY <1>2, <1>4, <1>6, <3>2, <4>1, <4>2, <4>3
    <3>. QED
      BY <3>1, <3>2
  <2>. QED
    BY <2>1 DEF CallsAre
<1>9. \A u \in Threads : Inside(u)' => u # t /\ Inside(u) /\ call'[u] = call[u]
  BY <1>6 DEF Inside
<1>10. NumbersDiffer'
  <2>1. \A m, n \in Loggers : \A d \in ToSet(entered'[m]), e \in ToSet(entered'[n]) :
            d.number = e.number => d = e
    BY <1>2 DEF CInv, NumbersDiffer
  <2>2. ASSUME NEW u \in Threads, pc'[u][1] = "lock", NEW m \in Loggers, NEW d \in ToSet(entered'[m])
        PROVE  d.number # call'[u].number
    <3>1. CASE u = t
      <4>1. d.number \in Nat /\ d.number <= made
        BY <1>2, EnteredIs
      <4>. QED
        BY <1>4, <1>5, <1>6, <3>1, <4>1
    <3>2. CASE u # t
      BY <1>2, <1>6, <2>2, <3>2 DEF CInv, NumbersDiffer
    <3>. QED
      BY <3>1, <3>2
  <2>3. \A u \in Threads \ {t} : pc[u][1] # "idle" => call[u].number \in Nat /\ call[u].number <= made
    BY DEF CInv, CallsAre, Calls
  <2>4. \A u, v \in Threads : pc'[u][1] # "idle" /\ pc'[v][1] # "idle" /\ u # v =>
            call'[u].number # call'[v].number
    <3>1. ASSUME NEW u \in Threads, u # t, pc'[u][1] # "idle" PROVE call'[u].number # call'[t].number
      <4>1. call[u].number \in Nat /\ call[u].number <= made /\ call'[u] = call[u]
        BY <1>6, <2>3, <3>1
      <4>. QED
        BY <1>4, <1>5, <1>6, <4>1
    <3>2. \A u, v \in Threads : u # t /\ v # t /\ pc[u][1] # "idle" /\ pc[v][1] # "idle" /\ u # v =>
            call[u].number # call[v].number
      BY DEF CInv, NumbersDiffer
    <3>. QED
      BY <1>6, <3>1, <3>2
  <2>. QED
    BY <2>1, <2>2, <2>4 DEF NumbersDiffer
<1>11. BusyIsLast'
  BY <1>2, <1>9 DEF CInv, BusyIsLast
<1>12. ReturnedAre'
  BY <1>2, <1>9 DEF CInv, ReturnedAre, Busy
<1>13. (entered = [k \in Loggers |-> entered[k]])'
  BY <1>2 DEF CInv
<1>. QED
  BY <1>3, <1>4, <1>7, <1>8, <1>10, <1>11, <1>12, <1>13 DEF CInv

LEMMA LockKeepsCalls ==
    ASSUME CInv, NEW t \in Threads, Lock(t) PROVE CInv'
<1> DEFINE l == call[t].logger
           c == call[t]
<1>1. /\ pc[t] = <<"lock", 0>> /\ owner[l] = None
      /\ entered' = [entered EXCEPT ![l] = Append(@, c)]
      /\ pc' = [pc EXCEPT ![t] = <<"head", 0>>]
      /\ UNCHANGED <<call, made, returned>>
  BY DEF Lock, MoveTo
<1>2. LInv'
  <2>1. LInv /\ [Next]_vars
    BY DEF CInv, Next, logger_log
  <2>. QED
    BY <2>1, MutexKept
<1>3. c \in Calls /\ c.thread = t /\ c.number \in Nat /\ c.number <= made /\ l \in Loggers /\ c.logger = l
  BY <1>1 DEF CInv, CallsAre, Calls
<1>4. pc'[t] = <<"head", 0>> /\ \A u \in Threads \ {t} : pc'[u] = pc[u]
  BY <1>1 DEF CInv, LInv
<1>5. entered[l] \in Seq(Calls) /\ entered'[l] = Append(entered[l], c)
      /\ \A m \in Loggers \ {l} : entered'[m] = entered[m]
  BY <1>1, <1>3 DEF CInv, EnteredAre
<1>6. ToSet(entered'[l]) = ToSet(entered[l]) \cup {c} /\ entered'[l] \in Seq(Calls)
  BY <1>3, <1>5, ToSetAppend, AppendProperties
<1>7. \A m \in Loggers : \A d \in ToSet(entered[m]) : d.number # c.number
  BY <1>1 DEF CInv, NumbersDiffer
<1>8. \A m \in Loggers : \A d \in ToSet(entered'[m]) : d \in ToSet(entered[m]) \/ d = c
  BY <1>5, <1>6
<1>9. \A u \in Threads \ {t} : Inside(u) => call[u].logger \in Loggers /\ call[u].logger # l
  <2>1. ASSUME NEW u \in Threads \ {t}, Inside(u) PROVE call[u].logger \in Loggers /\ call[u].logger # l
    <3>1. owner[call[u].logger] = u /\ u # None
      BY <2>1, LoggerAssumption DEF CInv, LInv, MutexOwned
    <3>. QED
      BY <1>1, <2>1, <3>1, InsideIs
  <2>. QED
    BY <2>1
<1> HIDE DEF l, c
<1>10. EnteredAre'
  <2>1. ASSUME NEW m \in Loggers
        PROVE  entered'[m] \in Seq(Calls) /\ \A d \in ToSet(entered'[m]) : d.logger = m /\ d.number <= made'
    <3>1. CASE m = l
      BY <1>1, <1>3, <1>6, <3>1 DEF CInv, EnteredAre
    <3>2. CASE m # l
      BY <1>1, <1>5, <3>2 DEF CInv, EnteredAre
    <3>. QED
      BY <3>1, <3>2
  <2>. QED
    BY <2>1 DEF EnteredAre
<1>11. CallsAre'
  <2>1. ASSUME NEW u \in Threads
        PROVE  /\ Placed(u)'
               /\ pc'[u][1] # "idle" => call'[u] \in Calls /\ call'[u].thread = u /\ call'[u].number <= made'
    <3>1. CASE u = t
      BY <1>1, <1>3, <1>4, <3>1 DEF Placed, c
    <3>2. CASE u # t
      BY <1>1, <1>4, <3>2 DEF CInv, CallsAre, Placed
    <3>. QED
      BY <3>1, <3>2
  <2>. QED
    BY <2>1 DEF CallsAre
<1>12. NumbersDiffer'
  <2>1. ASSUME NEW m \in Loggers, NEW n \in Loggers, NEW d \in ToSet(entered'[m]),
               NEW e \in ToSet(entered'[n]), d.number = e.number
        PROVE  d = e
    <3>1. (d \in ToSet(entered[m]) \/ d = c) /\ (e \in ToSet(entered[n]) \/ e = c)
      BY <1>8
    <3>. QED
      BY <1>7, <2>1, <3>1 DEF CInv, NumbersDiffer
  <2>2. ASSUME NEW u \in Threads, pc'[u][1] = "lock", NEW m \in Loggers, NEW d \in ToSet(entered'[m])
        PROVE  d.number # call'[u].number
    <3>1. u # t /\ pc[u][1] = "lock"
      BY <1>4, <2>2
    <3>2. call[u].number # c.number
      BY <1>1, <3>1 DEF CInv, NumbersDiffer, c
    <3>. QED
      BY <1>1, <1>8, <3>1, <3>2 DEF CInv, NumbersDiffer
  <2>3. \A u, v \in Threads : pc'[u][1] # "idle" /\ pc'[v][1] # "idle" /\ u # v =>
            call'[u].number # call'[v].number
    <3>1. \A u \in Threads : pc'[u][1] # "idle" => pc[u][1] # "idle"
      BY <1>1, <1>4
    <3>. QED
      BY <1>1, <3>1 DEF CInv, NumbersDiffer
  <2>. QED
    BY <2>1, <2>2, <2>3 DEF NumbersDiffer
<1>13. BusyIsLast'
  <2>1. ASSUME NEW u \in Threads, Inside(u)'
        PROVE  \E first \in Seq(Calls) : /\ entered'[call'[u].logger] = Append(first, call'[u])
                                         /\ call'[u] \notin ToSet(first)
    <3>1. CASE u = t
      BY <1>1, <1>3, <1>5, <1>7, <3>1 DEF c, l
    <3>2. CASE u # t
      <4>1. Inside(u) /\ call'[u] = call[u]
        BY <1>1, <1>4, <2>1, <3>2 DEF Inside
      <4>2. entered'[call'[u].logger] = entered[call[u].logger]
        BY <1>5, <1>9, <3>2, <4>1
      <4>. QED
        BY <4>1, <4>2 DEF CInv, BusyIsLast
    <3>. QED
      BY <3>1, <3>2
  <2>. QED
    BY <2>1 DEF BusyIsLast
<1>14. ReturnedAre'
  <2>1. ASSUME NEW d \in returned' PROVE (\E m \in Loggers : d \in ToSet(entered'[m])) /\ ~Busy(d)'
    <3>1. PICK m \in Loggers : d \in ToSet(entered[m])
      BY <1>1, <2>1 DEF CInv, ReturnedAre
    <3>2. ~Busy(d) /\ d # c
      BY <1>1, <1>7, <2>1, <3>1 DEF CInv, ReturnedAre
    <3>3. d \in ToSet(entered'[m])
      BY <1>5, <1>6, <3>1
    <3>4. \A u \in Threads : Inside(u)' => u = t \/ Inside(u)
      BY <1>4 DEF Inside
    <3>5. ~Busy(d)'
      BY <1>1, <3>2, <3>4 DEF Busy, c
    <3>. QED
      BY <3>3, <3>5
  <2>. QED
    BY <2>1 DEF ReturnedAre
<1>15. (entered = [k \in Loggers |-> entered[k]])'
  BY <1>1 DEF CInv
<1>. QED
  BY <1>1, <1>2, <1>10, <1>11, <1>12, <1>13, <1>14, <1>15 DEF CInv

LEMMA ProgressKeepsCalls ==
    ASSUME CInv, [Next]_vars, NEW t \in Threads, Progresses(t) PROVE CInv'
<1>1. LInv'
  BY MutexKept DEF CInv
<1>2. /\ UNCHANGED <<call, made, entered, returned>>
      /\ \A u \in Threads : Inside(u)' <=> Inside(u)
      /\ \A u \in Threads : pc'[u][1] = "lock" => pc[u][1] = "lock"
      /\ \A u \in Threads : pc'[u][1] # "idle" => pc[u][1] # "idle"
  BY DEF Progresses, Inside
<1>3. EnteredAre'
  BY <1>2, EnteredKept
<1>4. CallsAre'
  <2>1. ASSUME NEW u \in Threads PROVE Placed(u)'
    <3>1. CASE u = t
      BY <3>1 DEF Progresses
    <3>2. CASE u # t
      BY <3>2 DEF Progresses, CInv, CallsAre, Placed
    <3>. QED
      BY <3>1, <3>2
  <2>. QED
    BY <1>2, <2>1 DEF CInv, CallsAre
<1>5. NumbersDiffer'
  BY <1>2 DEF CInv, NumbersDiffer
<1>6. BusyIsLast' /\ ReturnedAre'
  BY <1>2 DEF CInv, BusyIsLast, ReturnedAre, Busy
<1>. QED
  BY <1>1, <1>2, <1>3, <1>4, <1>5, <1>6 DEF CInv

LEMMA UnlockKeepsCalls ==
    ASSUME CInv, NEW t \in Threads, Unlock(t) PROVE CInv'
<1>1. /\ pc' = [pc EXCEPT ![t] = <<"idle", 0>>] /\ Inside(t)
      /\ returned' = returned \cup {call[t]} /\ UNCHANGED <<call, made, entered>>
  BY DEF Unlock, MoveTo, Inside
<1>2. LInv'
  <2>1. LInv /\ [Next]_vars
    BY DEF CInv, Next, logger_log
  <2>. QED
    BY <2>1, MutexKept
<1>3. pc'[t] = <<"idle", 0>> /\ \A u \in Threads \ {t} : pc'[u] = pc[u]
  BY <1>1 DEF CInv, LInv
<1>4. /\ \A u \in Threads : Inside(u)' <=> Inside(u) /\ u # t
      /\ \A u \in Threads : pc'[u][1] = "lock" => pc[u][1] = "lock"
      /\ \A u \in Threads : pc'[u][1] # "idle" => pc[u][1] # "idle" /\ u # t
  BY <1>3 DEF Inside
<1>5. EnteredAre'
  BY <1>1, EnteredKept
<1>6. CallsAre'
  <2>1. ASSUME NEW u \in Threads PROVE Placed(u)'
    <3>1. CASE u = t
      BY <1>3, <3>1 DEF Placed, Idle
    <3>2. CASE u # t
      BY <1>1, <1>3, <3>2 DEF CInv, CallsAre, Placed
    <3>. QED
      BY <3>1, <3>2
  <2>. QED
    BY <1>1, <1>3, <1>4, <2>1 DEF CInv, CallsAre
<1>7. NumbersDiffer'
  BY <1>1, <1>4 DEF CInv, NumbersDiffer
<1>8. BusyIsLast'
  BY <1>1, <1>4 DEF CInv, BusyIsLast
<1>9. ReturnedAre'
  <2>1. ~Busy(call[t])'
    <3>1. ASSUME NEW u \in Threads, u # t, Inside(u) PROVE call[u] # call[t]
      BY <1>1, <3>1 DEF CInv, NumbersDiffer, Inside
    <3>. QED
      BY <1>1, <1>4, <3>1 DEF Busy
  <2>2. call[t].logger \in Loggers /\ call[t] \in ToSet(entered[call[t].logger])
    BY <1>1, BusyIsEntered, InsideIs
  <2>. QED
    BY <1>1, <1>4, <2>1, <2>2 DEF CInv, ReturnedAre, Busy
<1>. QED
  BY <1>1, <1>2, <1>5, <1>6, <1>7, <1>8, <1>9 DEF CInv

\* The step, by what it does to the calls and to the pieces.
LEMMA CInvKept == CInv /\ [Next]_vars => CInv'
<1> SUFFICES ASSUME CInv, [Next]_vars PROVE CInv'
  OBVIOUS
<1>1. ASSUME NEW l \in Loggers, logger_init(l) \/ logger_close(l) PROVE CInv'
  <2>1. UNCHANGED callVars
    BY <1>1 DEF logger_init, InitFails, InitSucceeds, logger_close, streams, history, callVars
  <2>. QED
    BY <2>1, CallsStay
<1>2. ASSUME NEW t \in Threads,
             \/ MakeRoom(t) \/ PrintHead(t) \/ PrintText(t)
             \/ PrintEnd(t) \/ PrintTitle(t) \/ WriteFrame(t)
      PROVE  CInv'
  BY <1>2, StepProgresses, ProgressKeepsCalls
<1>3. CASE UNCHANGED vars
  BY <1>3, CallsStay DEF vars, streams, history, callVars
<1>. QED
  BY <1>1, <1>2, <1>3, CallNullKeepsCalls, CallKeepsCalls, LockKeepsCalls, UnlockKeepsCalls
     DEF Next, logger_log

-----------------------------------------------------------------------------
(* The pieces, step by step *)

\* All of them are c's.
AllOf(c, pieces) == pieces \in Seq(Pieces) /\ \A i \in 1..Len(pieces) : pieces[i] \in Of({c})

LEMMA AllOfAppend ==
    ASSUME NEW c, NEW s, AllOf(c, s), NEW p \in Of({c})
    PROVE  AllOf(c, Append(s, p)) /\ AllOf(c, <<p>>) /\ AllOf(c, <<>>)
<1>1. p \in Pieces /\ s \in Seq(Pieces) /\ Len(s) \in Nat
  BY LenProperties DEF Of, AllOf
<1>2. /\ Append(s, p) \in Seq(Pieces) /\ Len(Append(s, p)) = Len(s) + 1
      /\ Append(s, p)[Len(s) + 1] = p /\ \A i \in 1..Len(s) : Append(s, p)[i] = s[i]
  BY <1>1, AppendProperties
<1>3. \A i \in 1..Len(s) + 1 : i \in 1..Len(s) \/ i = Len(s) + 1
  BY <1>1
<1>4. AllOf(c, Append(s, p))
  BY <1>2, <1>3 DEF AllOf
<1>5. AllOf(c, <<p>>)
  <2>1. <<p>> \in Seq(Pieces) /\ Len(<<p>>) = 1 /\ <<p>>[1] = p
    BY <1>1
  <2> HIDE DEF Of
  <2>. QED
    BY <2>1 DEF AllOf
<1>6. AllOf(c, <<>>)
  BY EmptySeq DEF AllOf
<1>. QED
  BY <1>4, <1>5, <1>6

\* A write, as the calls see it: the pieces are in the file, or their call is damaged.
LEMMA WriteIs ==
    ASSUME NEW c \in Calls, NEW pieces, AllOf(c, pieces), Write(pieces)
    PROVE  \E q : /\ AllOf(c, q) /\ disk' = disk \o q
                  /\ \/ q = pieces /\ damaged' = damaged
                     \/ damaged' = damaged \cup {<<c.thread, c.number>>}
<1>1. CASE disk' = disk \o pieces /\ UNCHANGED <<faults, damaged>>
  BY <1>1
<1>2. CASE /\ pieces # <<>>
           /\ \E n \in 0..Len(pieces) - 1 :
                /\ disk' = disk \o SubSeq(pieces, 1, n)
                /\ damaged' = damaged \cup {CallOf(pieces[i]) : i \in n + 1..Len(pieces)}
  <2>1. PICK n \in 0..Len(pieces) - 1 :
                /\ disk' = disk \o SubSeq(pieces, 1, n)
                /\ damaged' = damaged \cup {CallOf(pieces[i]) : i \in n + 1..Len(pieces)}
    BY <1>2
  <2>2. Len(pieces) \in Nat /\ n \in Nat /\ n + 1 <= Len(pieces) /\ pieces \in Seq(Pieces)
    BY LenProperties DEF AllOf
  <2>3. \A i \in n + 1..Len(pieces) : CallOf(pieces[i]) = <<c.thread, c.number>>
    BY <2>2 DEF AllOf, Of
  <2>4. {CallOf(pieces[i]) : i \in n + 1..Len(pieces)} = {<<c.thread, c.number>>}
    <3>1. n + 1 \in n + 1..Len(pieces)
      BY <2>2
    <3>. QED
      BY <2>3, <3>1
  <2>5. AllOf(c, SubSeq(pieces, 1, n))
    <3>1. \A i \in 1..n : i \in 1..Len(pieces) /\ pieces[i] \in Pieces
      BY <2>2, ElementOfSeq
    <3>2. /\ SubSeq(pieces, 1, n) \in Seq(Pieces)
          /\ Len(SubSeq(pieces, 1, n)) = n /\ \A i \in 1..n : SubSeq(pieces, 1, n)[i] = pieces[i]
      BY <2>2, <3>1
    <3>. QED
      BY <3>1, <3>2 DEF AllOf
  <2>. QED
    BY <2>1, <2>4, <2>5
<1>. QED
  BY <1>1, <1>2 DEF Write

\* A step of t prints what comes next of its entry, into the file or the
\* buffer, or damages it.
Adds(t, q, b, new) ==
    /\ AllOf(call[t], q) /\ AllOf(call[t], b) /\ AllOf(call[t], new)
    /\ disk' = disk \o q
    /\ buffer' = [buffer EXCEPT ![call[t].logger] = b]
    /\ b # <<>> => pc'[t][1] = "text"
    /\ \/ /\ damaged' = damaged
          /\ q \o b = buffer[call[t].logger] \o new
          /\ SubSeq(Entry(call[t]), 1, Done(t)') = SubSeq(Entry(call[t]), 1, Done(t)) \o new
       \/ damaged' = damaged \cup {<<call[t].thread, call[t].number>>}

\* What the steps of a thread need to know of the pieces.
BufferOf(t) ==
    /\ AllOf(call[t], buffer[call[t].logger])
    /\ buffer = [l \in Loggers |-> buffer[l]]
    /\ pc[t][1] # "text" => buffer[call[t].logger] = <<>>
    /\ disk \in Seq(Pieces)

LEMMA BufferIs ==
    ASSUME WInv, NEW t \in Threads, Inside(t)
    PROVE  BufferOf(t) /\ CInv
<1>1. CInv /\ BuffersAre /\ buffer = [l \in Loggers |-> buffer[l]] /\ disk \in Seq(Pieces)
  BY DEF WInv, DiskIs
<1> DEFINE l == call[t].logger
<1>2. l \in Loggers
  BY <1>1, InsideIs
<1>3. AllOf(call[t], buffer[l])
  BY <1>1, <1>2 DEF BuffersAre, AllOf
<1>4. ASSUME buffer[l] # <<>> PROVE pc[t][1] = "text"
  <2>1. PICK u \in Threads : pc[u][1] = "text" /\ call[u].logger = l
    BY <1>1, <1>2, <1>4 DEF BuffersAre
  <2>2. Inside(u)
    BY <2>1 DEF Inside
  <2>3. owner[l] = u /\ owner[l] = t
    BY <1>1, <2>1, <2>2 DEF CInv, LInv, MutexOwned
  <2>. QED
    BY <2>1, <2>3
<1>. QED
  BY <1>1, <1>3, <1>4 DEF BufferOf

LEMMA PieceIs ==
    ASSUME CInv, NEW t \in Threads, Inside(t),
           NEW kind \in {"head", "text", "end", "title", "frame"}
    PROVE  /\ Piece(t, kind) \in Of({call[t]})
           /\ Piece(t, kind) = [thread |-> call[t].thread, number |-> call[t].number, kind |-> kind]
<1>1. call[t] \in Calls /\ call[t].thread = t
  BY InsideIs
<1>. QED
  BY <1>1 DEF Piece, Of, CallOf, Pieces, Calls

\* A piece printed to the stream: n pieces were printed before, n + 1 are now.
LEMMA FprintfAdds ==
    ASSUME CInv, NEW t \in Threads, Inside(t), BufferOf(t),
           NEW kind \in {"head", "text", "end", "title", "frame"},
           fprintf(call[t].logger, Piece(t, kind)),
           Done(t) \in Nat, Done(t)' = Done(t) + 1, Done(t) + 1 <= Size(call[t]),
           KindAt(call[t], Done(t) + 1) = kind,
           kind \in {"end", "title"} \/ pc'[t][1] = "text"
    PROVE  \E q, b, new : Adds(t, q, b, new)
<1> DEFINE c == call[t]
           s == buffer[c.logger]
           p == Piece(t, kind)
           n == Done(t)
<1>1. /\ c \in Calls /\ c.logger \in Loggers /\ p \in Of({c})
      /\ p = [thread |-> c.thread, number |-> c.number, kind |-> kind]
  BY InsideIs, PieceIs
<1>2. p \in Pieces /\ p.kind = kind /\ AllOf(c, s) /\ s \in Seq(Pieces)
  BY <1>1 DEF BufferOf, AllOf, Of
<1>3. SubSeq(Entry(c), 1, Done(t)') = SubSeq(Entry(c), 1, Done(t)) \o <<p>>
  <2>1. n \in Nat /\ n + 1 <= Size(c) /\ KindAt(c, n + 1) = kind /\ Done(t)' = n + 1
    OBVIOUS
  <2> HIDE DEF c, p, n
  <2>2. SubSeq(Entry(c), 1, n + 1) = SubSeq(Entry(c), 1, n) \o <<p>>
    BY <1>1, <2>1, EntryGrows
  <2>. QED
    BY <2>1, <2>2 DEF n
<1>4. AllOf(c, Append(s, p)) /\ AllOf(c, <<p>>) /\ AllOf(c, <<>>)
  BY <1>1, <1>2, AllOfAppend
<1>5. Append(s, p) = s \o <<p>> /\ Append(s, p) \in Seq(Pieces)
  BY <1>2, AppendIsConcat, AppendProperties
<1>6. CASE p.kind \in FlushesLine
  <2>1. Write(Append(s, p)) /\ buffer' = [buffer EXCEPT ![c.logger] = <<>>]
    BY <1>6 DEF fprintf
  <2> HIDE DEF c, s, p, n
  <2>2. PICK q : /\ AllOf(c, q) /\ disk' = disk \o q
                 /\ \/ q = Append(s, p) /\ damaged' = damaged
                    \/ damaged' = damaged \cup {<<c.thread, c.number>>}
    BY <1>1, <1>4, <2>1, WriteIs
  <2>3. Append(s, p) \o <<>> = s \o <<p>>
    BY <1>5, ConcatEmptySeq
  <2>4. Adds(t, q, <<>>, <<p>>)
    BY <1>3, <1>4, <2>1, <2>2, <2>3 DEF Adds, c, s
  <2>. QED
    BY <2>4
<1>7. CASE p.kind \notin FlushesLine
  <2>1. /\ buffer' = [buffer EXCEPT ![c.logger] = Append(s, p)]
        /\ UNCHANGED <<disk, faults, damaged>>
    BY <1>1, <1>7 DEF fprintf, BufferOf
  <2>2. pc'[t][1] = "text"
    BY <1>2, <1>7 DEF FlushesLine
  <2> HIDE DEF c, s, p, n
  <2>3. <<>> \o Append(s, p) = s \o <<p>>
    BY <1>5, ConcatEmptySeq
  <2>4. disk' = disk \o <<>>
    <3>1. disk \in Seq(Pieces)
      BY DEF BufferOf
    <3>. QED
      BY <2>1, <3>1, ConcatEmptySeq
  <2>5. Adds(t, <<>>, Append(s, p), <<p>>)
    BY <1>3, <1>4, <2>1, <2>2, <2>3, <2>4 DEF Adds, c, s
  <2>. QED
    BY <2>5
<1>. QED
  BY <1>6, <1>7

LEMMA PrintsAdds ==
    ASSUME CInv, NEW t \in Threads, Inside(t), BufferOf(t),
           PrintHead(t) \/ PrintText(t) \/ PrintEnd(t) \/ PrintTitle(t)
    PROVE  \E q, b, new : Adds(t, q, b, new)
<1> DEFINE c == call[t]
           m == call[t].text
           n == call[t].frames
<1>1. /\ c \in Calls /\ m \in Nat /\ n \in Nat /\ Placed(t) /\ pc = [u \in Threads |-> pc[u]]
      /\ c.level \in {"INFO", "ERROR"}
  BY InsideIs DEF Calls
<1>2. CASE PrintHead(t)
  <2>1. /\ pc[t] = <<"head", 0>> /\ pc'[t] = <<"text", m>> /\ call' = call
        /\ fprintf(c.logger, Piece(t, "head"))
    BY <1>1, <1>2 DEF PrintHead, MoveTo
  <2>2. Done(t) = 0 /\ Done(t)' = 1
    <3>1. Done(t) = 0
      BY <2>1 DEF Done
    <3>2. Done(t)' = 1 + m - m
      BY <2>1 DEF Done
    <3>. QED
      BY <1>1, <3>1, <3>2
  <2>3. KindAt(c, 1) = "head"
    <3>1. 1 \notin 2..m + 1 /\ 1 # m + 2 /\ 1 # m + 3
      BY <1>1
    <3>. QED
      BY <3>1 DEF KindAt
  <2>4. 1 <= Size(c)
    BY <1>1 DEF Size
  <2> HIDE DEF m, n
  <2>5. Done(t) \in Nat /\ Done(t)' = Done(t) + 1 /\ Done(t) + 1 <= Size(c)
        /\ KindAt(c, Done(t) + 1) = "head" /\ pc'[t][1] = "text"
    BY <2>1, <2>2, <2>3, <2>4
  <2>. QED
    BY <2>1, <2>5, FprintfAdds
<1>3. CASE PrintText(t)
  <2>1. /\ pc[t][1] = "text" /\ pc[t][2] > 0 /\ pc'[t] = <<"text", pc[t][2] - 1>> /\ call' = call
        /\ fprintf(c.logger, Piece(t, "text"))
    BY <1>1, <1>3 DEF PrintText, MoveTo
  <2>2. PICK k \in 0..m : pc[t] = <<"text", k>>
    BY <1>1, <2>1 DEF Placed, Idle
  <2>3. Done(t) = 1 + m - k /\ Done(t)' = 1 + m - (k - 1) /\ k > 0
    BY <2>1, <2>2 DEF Done
  <2>4. KindAt(c, (1 + m - k) + 1) = "text"
    <3>1. /\ (1 + m - k) + 1 \in 2..m + 1 /\ (1 + m - k) + 1 # 1
          /\ (1 + m - k) + 1 # m + 2 /\ (1 + m - k) + 1 # m + 3
      BY <1>1, <2>3
    <3>. QED
      BY <3>1 DEF KindAt
  <2>5. (1 + m - k) + 1 <= Size(c)
    BY <1>1 DEF Size
  <2> HIDE DEF m, n
  <2>6. Done(t) \in Nat /\ Done(t)' = Done(t) + 1
    BY <1>1, <2>3
  <2>7. Done(t) + 1 <= Size(c) /\ KindAt(c, Done(t) + 1) = "text" /\ pc'[t][1] = "text"
    BY <2>1, <2>3, <2>4, <2>5
  <2>. QED
    BY <2>1, <2>6, <2>7, FprintfAdds
<1>4. CASE PrintEnd(t)
  <2>1. /\ pc[t] = <<"text", 0>> /\ pc'[t] = <<AfterLine(t), 0>> /\ call' = call
        /\ fprintf(c.logger, Piece(t, "end"))
    BY <1>1, <1>4 DEF PrintEnd, MoveTo
  <2>2. pc'[t][1] \in {"title", "unlock"}
    BY <2>1 DEF AfterLine
  <2>3. Done(t) = 1 + m - 0 /\ Done(t)' = m + 2
    BY <2>1, <2>2 DEF Done
  <2>4. KindAt(c, (1 + m - 0) + 1) = "end"
    <3>1. (1 + m - 0) + 1 = m + 2 /\ m + 2 # 1 /\ m + 2 \notin 2..m + 1 /\ m + 2 # m + 3
      BY <1>1
    <3>. QED
      BY <3>1 DEF KindAt
  <2>5. (1 + m - 0) + 1 <= Size(c)
    BY <1>1 DEF Size
  <2> HIDE DEF m, n
  <2>6. Done(t) \in Nat /\ Done(t)' = Done(t) + 1
    BY <1>1, <2>3
  <2>7. Done(t) + 1 <= Size(c) /\ KindAt(c, Done(t) + 1) = "end"
    BY <2>3, <2>4, <2>5
  <2>. QED
    BY <2>1, <2>6, <2>7, FprintfAdds
<1>5. CASE PrintTitle(t)
  <2>1. /\ pc[t] = <<"title", 0>> /\ pc'[t] = <<"frames", n>> /\ call' = call
        /\ fprintf(c.logger, Piece(t, "title"))
    BY <1>1, <1>5 DEF PrintTitle, MoveTo
  <2>2. c.level = "ERROR"
    BY <1>1, <2>1 DEF Placed, Idle
  <2>3. Done(t) = m + 2 /\ Done(t)' = m + 3 + n - n
    BY <2>1 DEF Done
  <2>4. KindAt(c, m + 3) = "title"
    <3>1. m + 3 # 1 /\ m + 3 \notin 2..m + 1 /\ m + 3 # m + 2
      BY <1>1
    <3>. QED
      BY <3>1 DEF KindAt
  <2>5. m + 3 <= Size(c)
    BY <1>1, <2>2 DEF Size
  <2> HIDE DEF m, n
  <2>6. Done(t) \in Nat /\ Done(t)' = Done(t) + 1 /\ Done(t) + 1 = m + 3
    BY <1>1, <2>3
  <2>7. Done(t) + 1 <= Size(c) /\ KindAt(c, Done(t) + 1) = "title"
    BY <2>4, <2>5, <2>6
  <2>. QED
    BY <2>1, <2>6, <2>7, FprintfAdds
<1>. QED
  BY <1>2, <1>3, <1>4, <1>5

LEMMA FrameAdds ==
    ASSUME CInv, NEW t \in Threads, Inside(t), BufferOf(t), WriteFrame(t)
    PROVE  \E q, b, new : Adds(t, q, b, new)
<1> DEFINE c == call[t]
           m == call[t].text
           n == call[t].frames
           p == Piece(t, "frame")
           j == Done(t)
<1>1. /\ c \in Calls /\ m \in Nat /\ n \in Nat /\ Placed(t) /\ pc = [u \in Threads |-> pc[u]]
      /\ c.logger \in Loggers
  BY InsideIs
<1>2. /\ p \in Of({c})
      /\ p = [thread |-> c.thread, number |-> c.number, kind |-> "frame"]
  BY PieceIs
<1>3. /\ pc[t][1] = "frames" /\ pc[t][2] > 0 /\ pc'[t] = <<"frames", pc[t][2] - 1>> /\ call' = call
      /\ Write(<<p>>) /\ buffer' = buffer
  BY <1>1 DEF WriteFrame, MoveTo
<1>4. PICK k \in 0..n : pc[t] = <<"frames", k>> /\ c.level = "ERROR"
  BY <1>1, <1>3 DEF Placed, Idle
<1>5. Done(t) = m + 3 + n - k /\ Done(t)' = m + 3 + n - (k - 1) /\ k > 0
  BY <1>3, <1>4 DEF Done
<1>6. KindAt(c, (m + 3 + n - k) + 1) = "frame"
  <2>1. /\ (m + 3 + n - k) + 1 # 1 /\ (m + 3 + n - k) + 1 \notin 2..m + 1
        /\ (m + 3 + n - k) + 1 # m + 2 /\ (m + 3 + n - k) + 1 # m + 3
    BY <1>1
  <2>. QED
    BY <2>1 DEF KindAt
<1>7. (m + 3 + n - k) + 1 <= Size(c)
  BY <1>1, <1>4, <1>5 DEF Size
<1>8. buffer[c.logger] = <<>> /\ AllOf(c, <<>>) /\ AllOf(c, <<p>>)
  BY <1>2, <1>3, AllOfAppend DEF BufferOf
<1>9. buffer' = [buffer EXCEPT ![c.logger] = <<>>]
  BY <1>1, <1>3, <1>8 DEF BufferOf
<1> HIDE DEF m, n, p
<1>10. j \in Nat /\ Done(t)' = j + 1
  BY <1>1, <1>5
<1>11. j + 1 <= Size(c) /\ KindAt(c, j + 1) = "frame"
  BY <1>5, <1>6, <1>7
<1> HIDE DEF c, j
<1>12. SubSeq(Entry(c), 1, Done(t)') = SubSeq(Entry(c), 1, j) \o <<p>>
  BY <1>1, <1>2, <1>10, <1>11, EntryGrows
<1>13. PICK q : /\ AllOf(c, q) /\ disk' = disk \o q
                /\ \/ q = <<p>> /\ damaged' = damaged
                   \/ damaged' = damaged \cup {<<c.thread, c.number>>}
  BY <1>1, <1>3, <1>8, WriteIs
<1>14. <<p>> \o <<>> = <<>> \o <<p>>
  <2>1. <<p>> \in Seq(Pieces)
    BY <1>8 DEF AllOf
  <2>. QED
    BY <2>1, ConcatEmptySeq
<1>15. Adds(t, q, <<>>, <<p>>)
  BY <1>8, <1>9, <1>12, <1>13, <1>14 DEF Adds, c, j
<1>. QED
  BY <1>15

LEMMA RoomAdds ==
    ASSUME CInv, NEW t \in Threads, Inside(t), BufferOf(t), MakeRoom(t)
    PROVE  \E q, b, new : Adds(t, q, b, new)
<1> DEFINE c == call[t]
           s == buffer[c.logger]
<1>1. c \in Calls /\ AllOf(c, s) /\ s \in Seq(Pieces)
  BY InsideIs DEF BufferOf, AllOf
<1>2. Write(s) /\ buffer' = [buffer EXCEPT ![c.logger] = <<>>] /\ UNCHANGED <<pc, call>>
  BY DEF MakeRoom
<1>3. Done(t)' = Done(t)
  BY <1>2 DEF Done
<1>4. AllOf(c, <<>>)
  BY EmptySeq DEF AllOf
<1>5. SubSeq(Entry(c), 1, Done(t)) \o <<>> = SubSeq(Entry(c), 1, Done(t))
  <2>1. Placed(t) /\ c.text \in Nat /\ c.frames \in Nat
    BY InsideIs
  <2>2. Done(t) \in 0..Size(c)
    <3>1. CASE pc[t] \in {<<"head", 0>>, <<"title", 0>>, <<"unlock", 0>>, <<"lock", 0>>, <<"idle", 0>>}
      BY <2>1, <3>1 DEF Done, Size
    <3>2. CASE \E k \in 0..c.text : pc[t] = <<"text", k>>
      BY <2>1, <3>2 DEF Done, Size
    <3>3. CASE c.level = "ERROR" /\ \E k \in 0..c.frames : pc[t] = <<"frames", k>>
      BY <2>1, <3>3 DEF Done, Size
    <3>. QED
      BY <2>1, <3>1, <3>2, <3>3 DEF Placed, Idle
  <2>3. Entry(c) \in Seq(Pieces) /\ Len(Entry(c)) = Size(c) /\ Size(c) \in Nat
    BY <1>1, EntryIs
  <2>4. SubSeq(Entry(c), 1, Done(t)) \in Seq(Pieces)
    <3> DEFINE d == Done(t)
    <3>1. d \in Int /\ \A i \in 1..d : Entry(c)[i] \in Pieces
      BY <2>2, <2>3, ElementOfSeq
    <3> HIDE DEF d
    <3>2. SubSeq(Entry(c), 1, d) \in Seq(Pieces)
      BY <3>1, SubSeqProperties
    <3>. QED
      BY <3>2 DEF d
  <2>. QED
    BY <2>4, ConcatEmptySeq
<1> HIDE DEF c, s
<1>6. PICK q : /\ AllOf(c, q) /\ disk' = disk \o q
               /\ \/ q = s /\ damaged' = damaged
                  \/ damaged' = damaged \cup {<<c.thread, c.number>>}
  BY <1>1, <1>2, WriteIs
<1>7. Adds(t, q, <<>>, <<>>)
  BY <1>2, <1>3, <1>4, <1>5, <1>6 DEF Adds, c, s
<1>. QED
  BY <1>7

LEMMA StepAdds ==
    ASSUME WInv, NEW t \in Threads,
           \/ MakeRoom(t) \/ PrintHead(t) \/ PrintText(t)
           \/ PrintEnd(t) \/ PrintTitle(t) \/ WriteFrame(t)
    PROVE  Inside(t) /\ Progresses(t) /\ \E q, b, new : Adds(t, q, b, new)
<1>1. CInv
  BY DEF WInv
<1>2. Progresses(t)
  BY <1>1, StepProgresses
<1>3. Inside(t)
  BY <1>2 DEF Progresses
<1>4. BufferOf(t)
  BY <1>3, BufferIs
<1>. QED
  BY <1>1, <1>2, <1>3, <1>4, PrintsAdds, FrameAdds, RoomAdds

LEMMA OthersPieces ==
    ASSUME NEW c, NEW D, \A d \in D : d.number # c.number, NEW p \in Of({c})
    PROVE  p \notin Of(D)
BY DEF Of, CallOf

LEMMA OfMember ==
    ASSUME NEW c, NEW D, c \in D, NEW p \in Of({c})
    PROVE  p \in Of(D)
BY DEF Of

\* Whoever is printed, or finished, has a number of its own.
LEMMA BusyDiffers ==
    ASSUME CInv, NEW t \in Threads, Inside(t), NEW l \in Loggers, NEW d \in ToSet(entered[l]),
           d # call[t]
    PROVE  d.number # call[t].number
<1>1. call[t] \in ToSet(entered[call[t].logger]) /\ call[t].logger \in Loggers
  BY BusyIsEntered, InsideIs
<1>. QED
  BY <1>1 DEF CInv, NumbersDiffer

LEMMA FinishedAre ==
    ASSUME CInv, NEW l \in Loggers, NEW D \in SUBSET Finished(l)
    PROVE  /\ D \subseteq Calls /\ D \subseteq ToSet(entered[l]) /\ entered[l] \in Seq(Calls)
           /\ \A d \in D : Intact(d) /\ ~Busy(d) /\ d.logger = l
           /\ Chosen(D, entered[l]) \in Seq(Calls)
           /\ Entries(Chosen(D, entered[l])) \in Seq(Pieces)
<1>1. D \subseteq ToSet(entered[l]) /\ \A d \in D : Intact(d) /\ ~Busy(d)
  BY DEF Finished
<1>2. \A d \in D : d \in Calls /\ d.logger = l
  BY <1>1, EnteredIs
<1>3. entered[l] \in Seq(Calls)
  BY DEF CInv, EnteredAre
<1>4. Chosen(D, entered[l]) \in Seq(Calls)
  BY <1>3, ChosenType
<1>5. Entries(Chosen(D, entered[l])) \in Seq(Pieces)
  <2> DEFINE s == Chosen(D, entered[l])
  <2>1. CASE s = <<>>
    BY <2>1, EntriesEmpty, EmptySeq
  <2>2. CASE s # <<>>
    <3> HIDE DEF s
    <3>1. PICK r \in Seq(Calls), d \in Calls : s = Append(r, d)
      BY <1>4, <2>2, SequenceEmptyOrAppend DEF s
    <3>2. s[1] \in Calls
      <4>1. s \in Seq(Calls) /\ Len(s) \in Nat \ {0}
        BY <1>4, <2>2, EmptySeq DEF s
      <4>. QED
        BY <4>1, ElementOfSeq
    <3>3. Entries(s) \in Seq(Pieces)
      BY <1>4, <3>2, EntriesAppend DEF s
    <3>. QED
      BY <3>3 DEF s
  <2>. QED
    BY <2>1, <2>2
<1>. QED
  BY <1>1, <1>2, <1>3, <1>4, <1>5

LEMMA DoneIs ==
    ASSUME CInv, NEW t \in Threads, Inside(t)
    PROVE  /\ Done(t) \in Nat /\ Size(call[t]) \in Nat /\ Done(t) <= Size(call[t])
           /\ pc[t][1] \notin {"head", "text"} => Done(t) >= call[t].text + 2
           /\ pc[t][1] \in {"head", "text"} => Done(t) <= call[t].text + 1
<1> DEFINE c == call[t]
<1>1. Placed(t) /\ c.text \in Nat /\ c.frames \in Nat
  BY InsideIs
<1>2. pc[t] \notin {<<"idle", 0>>, <<"lock", 0>>}
  BY DEF Inside
<1>3. CASE pc[t] \in {<<"head", 0>>, <<"title", 0>>, <<"unlock", 0>>}
  BY <1>1, <1>3 DEF Done, Size, Placed, Idle
<1>4. CASE \E k \in 0..c.text : pc[t] = <<"text", k>>
  BY <1>1, <1>4 DEF Done, Size
<1>5. CASE c.level = "ERROR" /\ \E k \in 0..c.frames : pc[t] = <<"frames", k>>
  BY <1>1, <1>5 DEF Done, Size
<1>. QED
  BY <1>1, <1>2, <1>3, <1>4, <1>5 DEF Placed, Idle

LEMMA FirstPieces ==
    ASSUME NEW c \in Calls, NEW n \in Nat, n <= Size(c)
    PROVE  /\ SubSeq(Entry(c), 1, n) \in Seq(Pieces) /\ Len(SubSeq(Entry(c), 1, n)) = n
           /\ \A i \in 1..n : SubSeq(Entry(c), 1, n)[i] = Entry(c)[i]
<1>1. Entry(c) \in Seq(Pieces) /\ Len(Entry(c)) = Size(c) /\ Size(c) \in Nat
  BY EntryIs
<1>2. \A i \in 1..n : Entry(c)[i] \in Pieces
  BY <1>1, ElementOfSeq
<1>. QED
  BY <1>2, SubSeqProperties

\* Pieces of another call change nothing for the calls of D.
LEMMA OthersAdd ==
    ASSUME NEW c, NEW D, \A d \in D : d.number # c.number,
           NEW s \in Seq(Pieces), NEW q, AllOf(c, q)
    PROVE  Chosen(Of(D), s \o q) = Chosen(Of(D), s)
<1>1. q \in Seq(Pieces) /\ \A i \in 1..Len(q) : q[i] \notin Of(D)
  BY OthersPieces DEF AllOf
<1>2. Chosen(Of(D), q) = <<>>
  BY <1>1, ChosenNone
<1>3. Chosen(Of(D), s) \in Seq(Pieces)
  BY ChosenType
<1> DEFINE X == Of(D)
<1> HIDE DEF X
<1>4. Chosen(X, s \o q) = Chosen(X, s) \o Chosen(X, q)
  BY <1>1, ChosenConcat
<1>5. Chosen(X, s) \o <<>> = Chosen(X, s)
  BY <1>3, ConcatEmptySeq DEF X
<1>. QED
  BY <1>2, <1>4, <1>5 DEF X

\* What is behind w goes on with new, in the file or in the buffer.
Regroup(w, q, b, r, new, e, s) ==
    q \o b = r \o new /\ w \o r = e \o s => (w \o q) \o b = e \o (s \o new)

LEMMA Regrouped ==
    ASSUME NEW T, NEW w \in Seq(T), NEW q \in Seq(T), NEW b \in Seq(T), NEW r \in Seq(T),
           NEW new \in Seq(T), NEW e \in Seq(T), NEW s \in Seq(T)
    PROVE  Regroup(w, q, b, r, new, e, s)
<1>. USE DEF Regroup
<1>1. (w \o q) \o b = w \o (q \o b)
  OBVIOUS
<1>2. (w \o r) \o new = w \o (r \o new)
  OBVIOUS
<1>3. (e \o s) \o new = e \o (s \o new)
  OBVIOUS
<1>. QED
  BY <1>1, <1>2, <1>3

\* Intact after the step.
StaysIntact(c) == <<c.thread, c.number>> \notin damaged'

LEMMA AddsKeepsOrder ==
    ASSUME WInv, CInv', NEW t \in Threads, Progresses(t), NEW q, NEW b, NEW new, Adds(t, q, b, new)
    PROVE  InOrder'
<1> DEFINE c == call[t]
           l == call[t].logger
<1>1. CInv /\ Inside(t) /\ disk \in Seq(Pieces) /\ buffer = [k \in Loggers |-> buffer[k]] /\ InOrder
  BY DEF WInv, DiskIs, Progresses
<1>2. c \in Calls /\ l \in Loggers /\ Busy(c)
  BY <1>1, InsideIs DEF Busy
<1>3. /\ UNCHANGED <<owner, call, made, entered>>
      /\ \A u \in Threads : Inside(u)' <=> Inside(u)
      /\ \A u \in Threads \ {t} : Inside(u) => call[u].logger # l /\ Done(u)' = Done(u)
  <2>1. UNCHANGED <<owner, call, made, entered>> /\ \A u \in Threads \ {t} : pc'[u] = pc[u]
    BY DEF Progresses
  <2>2. \A u \in Threads : Inside(u)' <=> Inside(u)
    BY <2>1 DEF Progresses, Inside
  <2>3. \A u \in Threads \ {t} : Done(u)' = Done(u)
    BY <2>1 DEF Done
  <2>4. \A u \in Threads : Inside(u) /\ call[u].logger = l => u = t
    BY <1>1 DEF CInv, LInv, MutexOwned
  <2>. QED
    BY <2>1, <2>2, <2>3, <2>4
<1>4. /\ disk' = disk \o q /\ AllOf(c, q) /\ AllOf(c, b) /\ AllOf(c, new)
      /\ buffer'[l] = b /\ \A m \in Loggers \ {l} : buffer'[m] = buffer[m]
  BY <1>1, <1>2 DEF Adds
<1>5. \A d : StaysIntact(d) => Intact(d)
  BY DEF Adds, Intact, StaysIntact
<1>6. \A d : Busy(d)' <=> Busy(d)
  BY <1>3 DEF Busy
<1> HIDE DEF c, l
<1>7. ASSUME NEW m \in Loggers, NEW D \in SUBSET Finished(m)' PROVE D \in SUBSET Finished(m)
  BY <1>3, <1>5, <1>6, <1>7 DEF Finished, Intact, StaysIntact
<1>8. ASSUME NEW m \in Loggers, NEW D \in SUBSET Finished(m)
      PROVE  Chosen(Of(D), disk') = Entries(Chosen(D, entered[m])) /\ \A d \in D : d.number # c.number
  <2>1. D \subseteq ToSet(entered[m]) /\ \A d \in D : ~Busy(d)
    BY <1>1, <1>8, FinishedAre
  <2>2. \A d \in D : d.number # c.number
    <3>1. ASSUME NEW d \in D PROVE d.number # c.number
      <4>1. d \in ToSet(entered[m]) /\ d # call[t]
        BY <1>1, <2>1 DEF Busy
      <4>. QED
        BY <1>1, <4>1, BusyDiffers DEF c
    <3>. QED
      BY <3>1
  <2>3. Chosen(Of(D), disk \o q) = Chosen(Of(D), disk)
    BY <1>1, <1>4, <2>2, OthersAdd
  <2>. QED
    BY <1>1, <1>4, <1>8, <2>2, <2>3 DEF InOrder
<1>9. ASSUME NEW m \in Loggers, NEW D \in SUBSET Finished(m), NEW u \in Threads, u # t,
             Inside(u), call[u].logger = m, StaysIntact(call[u])
      PROVE  Chosen(Of(D \cup {call[u]}), disk') \o buffer'[m]
                 = Entries(Chosen(D, entered[m])) \o SubSeq(Entry(call[u]), 1, Done(u)')
  <2>1. m # l /\ Done(u)' = Done(u) /\ buffer'[m] = buffer[m]
    BY <1>3, <1>4, <1>9
  <2>2. call[u].number # c.number
    BY <1>1, <1>9 DEF CInv, NumbersDiffer, Inside, c
  <2>3. \A d \in D \cup {call[u]} : d.number # c.number
    BY <1>8, <2>2
  <2>4. Chosen(Of(D \cup {call[u]}), disk \o q) = Chosen(Of(D \cup {call[u]}), disk)
    <3> DEFINE E == D \cup {call[u]}
    <3>1. \A d \in E : d.number # c.number
      BY <2>3
    <3> HIDE DEF E
    <3>2. Chosen(Of(E), disk \o q) = Chosen(Of(E), disk)
      BY <1>1, <1>4, <3>1, OthersAdd
    <3>. QED
      BY <3>2 DEF E
  <2>5. Chosen(Of(D \cup {call[u]}), disk) \o buffer[m]
            = Entries(Chosen(D, entered[m])) \o SubSeq(Entry(call[u]), 1, Done(u))
    <3>1. Intact(call[u])
      BY <1>5, <1>9
    <3>. QED
      BY <1>1, <1>9, <3>1 DEF InOrder
  <2>. QED
    BY <1>4, <2>1, <2>4, <2>5
<1>10. ASSUME NEW D \in SUBSET Finished(l), StaysIntact(c)
       PROVE  Chosen(Of(D \cup {c}), disk') \o b
                  = Entries(Chosen(D, entered[l])) \o SubSeq(Entry(c), 1, Done(t)')
  <2> DEFINE X == Of(D \cup {c})
             w == Chosen(X, disk)
             e == Entries(Chosen(D, entered[l]))
             s == SubSeq(Entry(c), 1, Done(t))
  <2>1. q \o b = buffer[l] \o new /\ SubSeq(Entry(c), 1, Done(t)') = s \o new
    BY <1>10 DEF Adds, StaysIntact, c, l
  <2>2. w \o buffer[l] = e \o s
    <3>1. Intact(c)
      BY <1>5, <1>10
    <3>2. Chosen(Of(D \cup {call[t]}), disk) \o buffer[l]
              = Entries(Chosen(D, entered[l])) \o SubSeq(Entry(call[t]), 1, Done(t))
      BY <1>1, <1>2, <1>10, <3>1 DEF InOrder, c, l
    <3>. QED
      BY <3>2 DEF c
  <2>3. w \in Seq(Pieces) /\ e \in Seq(Pieces) /\ s \in Seq(Pieces) /\ buffer[l] \in Seq(Pieces)
    <3>1. w \in Seq(Pieces)
      BY <1>1, ChosenType
    <3>2. e \in Seq(Pieces)
      BY <1>1, <1>2, <1>10, FinishedAre
    <3>3. s \in Seq(Pieces)
      <4> DEFINE n == Done(t)
      <4>1. n \in Nat /\ n <= Size(c)
        BY <1>1, DoneIs DEF c
      <4> HIDE DEF n
      <4>2. SubSeq(Entry(c), 1, n) \in Seq(Pieces)
        BY <1>2, <4>1, FirstPieces
      <4>. QED
        BY <4>2 DEF n
    <3>4. buffer[l] \in Seq(Pieces)
      BY <1>2 DEF WInv, BuffersAre
    <3>. QED
      BY <3>1, <3>2, <3>3, <3>4
  <2>4. q \in Seq(Pieces) /\ b \in Seq(Pieces) /\ new \in Seq(Pieces)
        /\ \A i \in 1..Len(q) : q[i] \in X
    <3>1. \A p \in Of({c}) : p \in X
      BY OfMember
    <3>. QED
      BY <1>4, <3>1 DEF AllOf
  <2> HIDE DEF X
  <2>5. Chosen(X, disk \o q) = w \o q
    <3>1. Chosen(X, q) = q
      BY <2>4, ChosenAll
    <3>2. Chosen(X, disk \o q) = Chosen(X, disk) \o Chosen(X, q)
      BY <1>1, <2>4, ChosenConcat
    <3>. QED
      BY <3>1, <3>2
  <2> HIDE DEF w, e, s
  <2>6. (w \o q) \o b = e \o (s \o new)
    <3> DEFINE r == buffer[l]
    <3>1. r \in Seq(Pieces) /\ q \o b = r \o new /\ w \o r = e \o s
      BY <2>1, <2>2, <2>3
    <3> HIDE DEF r
    <3>2. Regroup(w, q, b, r, new, e, s)
      BY <2>3, <2>4, <3>1, Regrouped
    <3>. QED
      BY <3>1, <3>2, Zenon DEF Regroup
  <2>. QED
    BY <1>4, <2>1, <2>5, <2>6 DEF X, e
<1>11. ASSUME NEW m \in Loggers, NEW D \in SUBSET Finished(m)'
       PROVE  /\ Chosen(Of(D), disk') = Entries(Chosen(D, entered'[m]))
              /\ \A u \in Threads : Inside(u)' /\ call'[u].logger = m /\ StaysIntact(call'[u]) =>
                     Chosen(Of(D \cup {call'[u]}), disk') \o buffer'[m]
                         = Entries(Chosen(D, entered'[m])) \o SubSeq(Entry(call'[u]), 1, Done(u)')
  <2>1. D \in SUBSET Finished(m)
    BY <1>7
  <2>2. ASSUME NEW u \in Threads, Inside(u)', call'[u].logger = m, StaysIntact(call'[u])
        PROVE  Chosen(Of(D \cup {call'[u]}), disk') \o buffer'[m]
                   = Entries(Chosen(D, entered'[m])) \o SubSeq(Entry(call'[u]), 1, Done(u)')
    <3>1. Inside(u) /\ call[u].logger = m /\ StaysIntact(call[u]) /\ call'[u] = call[u] /\ entered'[m] = entered[m]
      BY <1>3, <2>2
    <3>2. CASE u = t
      <4>1. m = l /\ call[u] = c /\ buffer'[m] = b
        BY <1>4, <3>1, <3>2 DEF c, l
      <4>. QED
        BY <1>10, <2>1, <3>1, <3>2, <4>1
    <3>3. CASE u # t
      BY <1>9, <2>1, <3>1, <3>3
    <3>. QED
      BY <3>2, <3>3
  <2>3. Chosen(Of(D), disk') = Entries(Chosen(D, entered'[m]))
    BY <1>3, <1>8, <2>1
  <2>. QED
    BY <2>2, <2>3
<1>. QED
  BY <1>11 DEF InOrder, Intact, StaysIntact

LEMMA AddsKeepsBuffers ==
    ASSUME WInv, CInv', NEW t \in Threads, Progresses(t), NEW q, NEW b, NEW new, Adds(t, q, b, new)
    PROVE  BuffersAre' /\ DiskIs' /\ (buffer = [l \in Loggers |-> buffer[l]])'
<1> DEFINE c == call[t]
           l == call[t].logger
<1>1. /\ CInv /\ Inside(t) /\ disk \in Seq(Pieces) /\ buffer = [k \in Loggers |-> buffer[k]]
      /\ BuffersAre /\ DiskIs
  BY DEF WInv, DiskIs, Progresses
<1>2. c \in Calls /\ l \in Loggers /\ c \in ToSet(entered[l])
  BY <1>1, InsideIs, BusyIsEntered
<1>3. /\ UNCHANGED <<call, entered>>
      /\ \A u \in Threads : Inside(u)' <=> Inside(u)
      /\ \A u \in Threads \ {t} : pc'[u] = pc[u]
      /\ \A u \in Threads : Inside(u) /\ call[u].logger = l => u = t
  <2>1. UNCHANGED <<call, entered>> /\ \A u \in Threads \ {t} : pc'[u] = pc[u]
    BY DEF Progresses
  <2>2. \A u \in Threads : Inside(u)' <=> Inside(u)
    BY <2>1 DEF Progresses, Inside
  <2>3. \A u \in Threads : Inside(u) /\ call[u].logger = l => u = t
    BY <1>1 DEF CInv, LInv, MutexOwned
  <2>. QED
    BY <2>1, <2>2, <2>3
<1>4. /\ disk' = disk \o q /\ AllOf(c, q) /\ AllOf(c, b)
      /\ buffer' = [buffer EXCEPT ![l] = b]
      /\ b # <<>> => pc'[t][1] = "text"
      /\ buffer'[l] = b /\ \A m \in Loggers \ {l} : buffer'[m] = buffer[m]
  BY <1>1, <1>2 DEF Adds
<1>5. call'[t] = c /\ call'[t].logger = l
  BY <1>3
<1> HIDE DEF c, l
<1>6. ASSUME NEW m \in Loggers
      PROVE  /\ buffer'[m] \in Seq(Pieces)
             /\ buffer'[m] # <<>> => \E u \in Threads : pc'[u][1] = "text" /\ call'[u].logger = m
             /\ \A u \in Threads : Inside(u)' /\ call'[u].logger = m =>
                   \A i \in 1..Len(buffer'[m]) : buffer'[m][i] \in Of({call'[u]})
  <2>1. CASE m = l
    <3>1. ASSUME NEW u \in Threads, Inside(u)', call'[u].logger = m PROVE call'[u] = c
      BY <1>3, <1>5, <2>1, <3>1
    <3>2. buffer'[m] = b /\ b \in Seq(Pieces) /\ \A i \in 1..Len(b) : b[i] \in Of({c})
      BY <1>4, <2>1 DEF AllOf
    <3>3. b # <<>> => \E u \in Threads : pc'[u][1] = "text" /\ call'[u].logger = m
      BY <1>4, <1>5, <2>1
    <3> HIDE DEF Of
    <3>. QED
      BY <3>1, <3>2, <3>3
  <2>2. CASE m # l
    <3>1. buffer'[m] = buffer[m]
      BY <1>4, <2>2
    <3>2. ASSUME buffer[m] # <<>> PROVE \E u \in Threads : pc'[u][1] = "text" /\ call'[u].logger = m
      <4>1. PICK u \in Threads : pc[u][1] = "text" /\ call[u].logger = m
        BY <1>1, <3>2 DEF BuffersAre
      <4>2. u # t
        BY <2>2, <4>1 DEF l
      <4>. QED
        BY <1>3, <4>1, <4>2
    <3>3. ASSUME NEW u \in Threads, Inside(u)', call'[u].logger = m
          PROVE  \A i \in 1..Len(buffer[m]) : buffer[m][i] \in Of({call'[u]})
      BY <1>1, <1>3, <3>3 DEF BuffersAre
    <3>4. buffer[m] \in Seq(Pieces)
      BY <1>1 DEF BuffersAre
    <3>. QED
      BY <3>1, <3>2, <3>3, <3>4
  <2>. QED
    BY <2>1, <2>2
<1>7. BuffersAre'
  BY <1>6 DEF BuffersAre
<1>8. DiskIs'
  <2>1. q \in Seq(Pieces) /\ Len(q) \in Nat /\ Len(disk) \in Nat
    BY <1>1, <1>4, LenProperties DEF AllOf
  <2>2. /\ disk \o q \in Seq(Pieces) /\ Len(disk \o q) = Len(disk) + Len(q)
        /\ \A i \in 1..Len(disk) + Len(q) :
              (disk \o q)[i] = IF i <= Len(disk) THEN disk[i] ELSE q[i - Len(disk)]
    BY <1>1, <2>1, ConcatProperties
  <2>3. ASSUME NEW i \in 1..Len(disk')
        PROVE  \E m \in Loggers : \E d \in ToSet(entered[m]) : disk'[i] \in Of({d})
    <3>1. CASE i <= Len(disk)
      <4>1. i \in 1..Len(disk) /\ disk'[i] = disk[i]
        BY <1>4, <2>1, <2>2, <3>1
      <4>. QED
        BY <1>1, <4>1 DEF DiskIs
    <3>2. CASE i > Len(disk)
      <4>1. i - Len(disk) \in 1..Len(q) /\ disk'[i] = q[i - Len(disk)]
        BY <1>4, <2>1, <2>2, <3>2
      <4>. QED
        BY <1>2, <1>4, <4>1 DEF AllOf
    <3>3. i <= Len(disk) \/ i > Len(disk)
      <4>1. Len(disk') = Len(disk) + Len(q)
        BY <1>4, <2>2
      <4>. QED
        BY <2>1, <4>1
    <3>. QED
      BY <3>1, <3>2, <3>3, Zenon
  <2>4. disk' \in Seq(Pieces)
    BY <1>4, <2>2
  <2>. QED
    BY <1>3, <2>3, <2>4 DEF DiskIs
<1>9. buffer' = [k \in Loggers |-> buffer'[k]]
  <2>1. buffer = [k \in Loggers |-> buffer[k]] /\ buffer' = [buffer EXCEPT ![l] = b]
    BY <1>1, <1>4
  <2>. QED
    BY <2>1
<1>. QED
  BY <1>7, <1>8, <1>9

-----------------------------------------------------------------------------
(* Short lines, step by step *)

LEMMA KindHead ==
    ASSUME NEW c \in Calls, NEW i \in Nat \ {0}, KindAt(c, i) = "head" PROVE i = 1
<1>1. c.text \in Nat
  BY DEF Calls
<1>2. ASSUME i # 1 PROVE KindAt(c, i) # "head"
  <2>1. CASE i \in 2..c.text + 1
    <3>1. i # c.text + 2 /\ i # c.text + 3
      BY <1>1, <2>1
    <3>. QED
      BY <1>2, <2>1, <3>1 DEF KindAt
  <2>2. CASE i = c.text + 2
    <3>1. i \notin 2..c.text + 1 /\ i # c.text + 3
      BY <1>1, <2>2
    <3>. QED
      BY <1>2, <2>2, <3>1 DEF KindAt
  <2>3. CASE i = c.text + 3
    <3>1. i \notin 2..c.text + 1 /\ i # c.text + 2
      BY <1>1, <2>3
    <3>. QED
      BY <1>2, <2>3, <3>1 DEF KindAt
  <2>4. CASE i \notin 2..c.text + 1 /\ i # c.text + 2 /\ i # c.text + 3
    BY <1>2, <2>4 DEF KindAt
  <2>. QED
    BY <2>1, <2>2, <2>3, <2>4
<1>. QED
  BY <1>2

Step(t) == \/ MakeRoom(t) \/ PrintHead(t) \/ PrintText(t)
           \/ PrintEnd(t) \/ PrintTitle(t) \/ WriteFrame(t)

\* Before its end a short line stays in the buffer.
LEMMA ShortStep ==
    ASSUME WInv, NEW t \in Threads, Step(t), Short(call[t]), pc'[t][1] \in {"head", "text"}
    PROVE  disk' = disk /\ Len(buffer'[call[t].logger]) = Done(t)'
<1> DEFINE c == call[t]
           l == call[t].logger
<1>1. Inside(t) /\ CInv /\ BufferOf(t)
  BY StepAdds, BufferIs DEF Step
<1>2. /\ c \in Calls /\ c.text \in Nat /\ l \in Loggers /\ Placed(t)
      /\ pc = [u \in Threads |-> pc[u]] /\ buffer = [k \in Loggers |-> buffer[k]]
      /\ buffer[l] \in Seq(Pieces) /\ Len(buffer[l]) \in Nat
  BY <1>1, InsideIs, LenProperties DEF BufferOf, AllOf
<1>3. BufferSize \in Nat
  BY LoggerAssumption
<1>4. pc[t][1] \in {"head", "text"} => Len(buffer[l]) = Done(t) /\ Done(t) <= c.text + 1
  BY <1>1, DoneIs DEF WInv, ShortInBuffer
<1>5. ASSUME NEW kind \in {"head", "text"}, fprintf(l, Piece(t, kind))
      PROVE  disk' = disk /\ Len(buffer'[l]) = Len(buffer[l]) + 1
  <2>1. Piece(t, kind) \in Pieces /\ Piece(t, kind).kind = kind
    BY <1>1, PieceIs DEF Of
  <2>2. disk' = disk /\ buffer' = [buffer EXCEPT ![l] = Append(@, Piece(t, kind))]
    BY <1>5, <2>1 DEF fprintf, FlushesLine
  <2>3. buffer'[l] = Append(buffer[l], Piece(t, kind))
    BY <1>2, <2>2
  <2>. QED
    BY <1>2, <2>1, <2>2, <2>3, AppendProperties
<1>6. CASE MakeRoom(t)
  <2>1. pc' = pc /\ Len(buffer[l]) = BufferSize
    BY <1>6 DEF MakeRoom
  <2>. QED
    BY <1>2, <1>3, <1>4, <2>1, DoneIs, <1>1 DEF Short
<1>7. CASE PrintHead(t)
  <2>1. /\ pc[t] = <<"head", 0>> /\ pc'[t] = <<"text", c.text>> /\ call' = call
        /\ fprintf(l, Piece(t, "head"))
    BY <1>2, <1>7 DEF PrintHead, MoveTo
  <2>2. Done(t) = 0 /\ Done(t)' = 1 + c.text - c.text
    BY <2>1 DEF Done
  <2>3. disk' = disk /\ Len(buffer'[l]) = Len(buffer[l]) + 1
    BY <1>5, <2>1
  <2>4. Len(buffer[l]) = Done(t)
    BY <1>4, <2>1
  <2>. QED
    BY <1>2, <2>2, <2>3, <2>4
<1>8. CASE PrintText(t)
  <2>1. /\ pc[t][1] = "text" /\ pc'[t] = <<"text", pc[t][2] - 1>> /\ call' = call
        /\ fprintf(l, Piece(t, "text"))
    BY <1>2, <1>8 DEF PrintText, MoveTo
  <2>2. PICK k \in 0..c.text : pc[t] = <<"text", k>>
    BY <1>2, <2>1 DEF Placed, Idle
  <2>3. Done(t) = 1 + c.text - k /\ Done(t)' = 1 + c.text - (k - 1)
    BY <2>1, <2>2 DEF Done
  <2>4. disk' = disk /\ Len(buffer'[l]) = Len(buffer[l]) + 1
    BY <1>5, <2>1
  <2>5. Len(buffer[l]) = Done(t)
    BY <1>4, <2>1
  <2>. QED
    BY <1>2, <2>3, <2>4, <2>5
<1>9. CASE PrintEnd(t) \/ PrintTitle(t) \/ WriteFrame(t)
  <2>1. pc'[t][1] \notin {"head", "text"}
    BY <1>2, <1>9 DEF PrintEnd, PrintTitle, WriteFrame, MoveTo, AfterLine
  <2>. QED
    BY <2>1
<1>. QED
  BY <1>6, <1>7, <1>8, <1>9 DEF Step

DoneFine == \A t \in Threads :
    CInv /\ Inside(t) => Done(t) \in Nat /\ Done(t) <= Size(call[t])

LEMMA DoneAlways == DoneFine
BY DoneIs DEF DoneFine

\* When the head of a short line gets to the file, the line does with it.
LEMMA HeadBringsLine ==
    ASSUME WInv, CInv', NEW t \in Threads, Step(t), Short(call[t]), StaysIntact(call[t]),
           NEW q, NEW b, NEW new, Adds(t, q, b, new), NEW j \in 1..Len(q), q[j].kind = "head"
    PROVE  j = 1 /\ Len(q) = call[t].text + 2
<1> DEFINE c == call[t]
           l == call[t].logger
           n == Done(t)
           n2 == Done(t)'
           old == SubSeq(Entry(c), 1, n)
           line == SubSeq(Entry(c), 1, n2)
<1>1. Inside(t) /\ Progresses(t) /\ CInv /\ BufferOf(t)
  BY StepAdds, BufferIs DEF Step
<1>2. c \in Calls /\ l \in Loggers /\ c.text \in Nat /\ call'[t] = c
  BY <1>1, InsideIs DEF Progresses
<1>3. /\ disk' = disk \o q
      /\ b # <<>> => pc'[t][1] = "text"
      /\ q \in Seq(Pieces) /\ b \in Seq(Pieces) /\ new \in Seq(Pieces) /\ buffer[l] \in Seq(Pieces)
      /\ q \o b = buffer[l] \o new /\ line = old \o new
  BY <1>1 DEF Adds, StaysIntact, AllOf, BufferOf
<1>4. /\ Len(q) \in Nat /\ Len(b) \in Nat /\ Len(new) \in Nat /\ q # <<>>
      /\ Len(q \o b) = Len(q) + Len(b) /\ (q \o b)[j] = q[j]
  <2>1. Len(q) \in Nat /\ Len(b) \in Nat /\ Len(new) \in Nat
    BY <1>3, LenProperties
  <2>2. q # <<>>
    BY <2>1
  <2>3. /\ Len(q \o b) = Len(q) + Len(b)
        /\ \A i \in 1..Len(q) + Len(b) : (q \o b)[i] = IF i <= Len(q) THEN q[i] ELSE b[i - Len(q)]
    BY <1>3, ConcatProperties
  <2>. QED
    BY <2>1, <2>2, <2>3
<1>5. n \in Nat /\ n <= Size(c) /\ n2 \in Nat /\ n2 <= Size(c)
  <2>1. n \in Nat /\ n <= Size(c)
    BY <1>1, DoneIs
  <2>2. DoneFine'
    BY DoneAlways, PTL
  <2>3. Inside(t)'
    BY <1>1 DEF Progresses
  <2>. QED
    BY <1>2, <2>1, <2>2, <2>3 DEF DoneFine
<1> HIDE DEF n, n2
<1>6. /\ old \in Seq(Pieces) /\ Len(old) = n
      /\ line \in Seq(Pieces) /\ Len(line) = n2 /\ \A i \in 1..n2 : line[i] = Entry(c)[i]
  BY <1>2, <1>5, FirstPieces
<1>7. \A i \in 1..n2 : line[i].kind = "head" => i = 1
  <2>1. ASSUME NEW i \in 1..n2, line[i].kind = "head" PROVE i = 1
    <3>0. Size(c) \in Nat
      BY <1>2, EntryIs
    <3>1. i \in 1..Size(c) /\ i \in Nat \ {0}
      BY <1>5, <3>0
    <3> HIDE DEF c
    <3>2. Entry(c)[i] = [thread |-> c.thread, number |-> c.number, kind |-> KindAt(c, i)]
      BY <1>2, <3>1, EntryIs
    <3>3. Entry(c)[i].kind = KindAt(c, i)
      BY <3>2
    <3>. QED
      BY <1>2, <1>6, <2>1, <3>1, <3>3, KindHead
  <2>. QED
    BY <2>1
<1>8. CASE pc[t][1] \in {"head", "text"}
  <2>1. buffer[l] = old
    <3>1. Intact(c)
      BY DEF Adds, Intact, StaysIntact
    <3>2. {} \in SUBSET Finished(l) /\ InOrder
      BY DEF WInv
    <3>3. Chosen(Of({} \cup {c}), disk) \o buffer[l] = Entries(Chosen({}, entered[l])) \o old
      BY <1>1, <1>2, <3>1, <3>2 DEF InOrder, n
    <3>4. Chosen({}, entered[l]) = <<>>
      BY <1>1, <1>2, ChosenNone DEF CInv, EnteredAre
    <3>5. Chosen(Of({c}), disk) = <<>>
      <4>1. disk \in Seq(Pieces) /\ \A i \in 1..Len(disk) : disk[i] \notin Of({c})
        BY <1>8 DEF WInv, DiskIs, ShortInBuffer
      <4>. QED
        BY <4>1, ChosenNone
    <3>6. {} \cup {c} = {c}
      OBVIOUS
    <3>7. <<>> \o buffer[l] = buffer[l] /\ <<>> \o old = old
      BY <1>3, <1>6, ConcatEmptySeq
    <3> HIDE DEF old, l, c
    <3>. QED
      BY <3>3, <3>4, <3>5, <3>6, <3>7, EntriesEmpty
  <2>2. q \o b = line
    BY <1>3, <2>1
  <2>3. j = 1
    <3>1. j \in 1..n2 /\ line[j] = q[j]
      BY <1>4, <1>6, <2>2
    <3>. QED
      BY <1>7, <3>1
  <2>4. pc'[t][1] \notin {"head", "text"}
    <3>1. ASSUME pc'[t][1] \in {"head", "text"} PROVE FALSE
      <4>0. disk' = disk /\ disk \in Seq(Pieces)
        BY <3>1, ShortStep DEF WInv, DiskIs
      <4>1. disk \o q = disk /\ disk \in Seq(Pieces)
        BY <1>3, <4>0
      <4>2. q = <<>>
        BY <1>3, <4>1, ConcatEqualIffEmpty
      <4>. QED
        BY <1>4, <4>2
    <3>. QED
      BY <3>1
  <2>5. n2 = c.text + 2
    <3>1. pc = [u \in Threads |-> pc[u]]
      BY <1>1, InsideIs
    <3>2. PrintEnd(t)
      BY <1>8, <2>4, <3>1 DEF Step, MakeRoom, PrintHead, PrintText, PrintTitle, WriteFrame, MoveTo
    <3>3. pc'[t][1] \in {"title", "unlock"} /\ call' = call
      BY <3>1, <3>2 DEF PrintEnd, MoveTo, AfterLine
    <3>. QED
      BY <3>3 DEF Done, n2
  <2>6. b = <<>>
    <3>1. b # <<>> => pc'[t][1] = "text"
      BY <1>3
    <3>. QED
      BY <2>4, <3>1
  <2>7. Len(b) = 0
    BY <2>6
  <2>8. Len(q) = n2
    BY <1>4, <1>6, <2>2, <2>7
  <2>. QED
    BY <2>3, <2>5, <2>8
<1>9. CASE pc[t][1] \notin {"head", "text"}
  <2>1. buffer[l] = <<>> /\ n >= c.text + 2
    BY <1>1, <1>9, DoneIs DEF BufferOf, n
  <2>2. q \o b = new
    BY <1>3, <2>1, ConcatEmptySeq
  <2>3. Len(line) = n + Len(new) /\ \A i \in 1..Len(new) : line[n + i] = new[i]
    <3> HIDE DEF line, old
    <3>1. /\ Len(old \o new) = Len(old) + Len(new)
          /\ \A i \in 1..Len(old) + Len(new) :
                (old \o new)[i] = IF i <= Len(old) THEN old[i] ELSE new[i - Len(old)]
      BY <1>3, <1>6, ConcatProperties
    <3>2. \A i \in 1..Len(new) : /\ n + i \in 1..Len(old) + Len(new) /\ ~(n + i <= Len(old))
                                 /\ (n + i) - Len(old) = i
      BY <1>4, <1>5, <1>6
    <3>. QED
      BY <1>3, <1>6, <3>1, <3>2
  <2>4. j \in 1..Len(new) /\ new[j] = q[j]
    BY <1>4, <2>2
  <2>5. n + j \in 1..n2 /\ line[n + j].kind = "head"
    <3> HIDE DEF line, old
    <3>. QED
      BY <1>4, <1>5, <1>6, <2>3, <2>4
  <2>6. n + j = 1
    BY <1>7, <2>5
  <2>. QED
    BY <1>2, <1>5, <2>1, <2>4, <2>6
<1>. QED
  BY <1>8, <1>9

LEMMA StepKeepsShort ==
    ASSUME WInv, NEW t \in Threads, Step(t) PROVE ShortInBuffer'
<1> DEFINE c == call[t]
           l == call[t].logger
<1>1. Inside(t) /\ Progresses(t) /\ CInv
  BY StepAdds, BufferIs DEF Step
<1>2. PICK q, b, new : Adds(t, q, b, new)
  BY StepAdds DEF Step
<1>3. l \in Loggers /\ disk \in Seq(Pieces) /\ buffer = [k \in Loggers |-> buffer[k]] /\ ShortInBuffer
  BY <1>1, InsideIs DEF WInv, DiskIs
<1>4. /\ call' = call /\ \A u \in Threads \ {t} : pc'[u] = pc[u]
      /\ \A u \in Threads : Inside(u) /\ call[u].logger = l => u = t
  BY <1>1 DEF Progresses, CInv, LInv, MutexOwned
<1>5. disk' = disk \o q /\ AllOf(c, q) /\ \A m \in Loggers \ {l} : buffer'[m] = buffer[m]
  BY <1>3, <1>2 DEF Adds
<1> HIDE DEF c, l
<1>6. ASSUME NEW u \in Threads, pc'[u][1] \in {"head", "text"}, Short(call'[u])
      PROVE  /\ Len(buffer'[call'[u].logger]) = Done(u)'
             /\ \A i \in 1..Len(disk') : disk'[i] \notin Of({call'[u]})
  <2>1. CASE u = t
    <3>1. disk' = disk /\ Len(buffer'[call[t].logger]) = Done(t)'
      BY <1>4, <1>6, <2>1, ShortStep
    <3>2. pc[t][1] \in {"head", "text"}
      <4>1. pc = [v \in Threads |-> pc[v]]
        BY <1>1, InsideIs
      <4>. QED
        BY <1>6, <2>1, <4>1 DEF Step, MakeRoom, PrintHead, PrintText, PrintEnd, PrintTitle,
                               WriteFrame, MoveTo
    <3>3. \A i \in 1..Len(disk) : disk[i] \notin Of({call[t]})
      BY <1>3, <1>4, <1>6, <2>1, <3>2 DEF ShortInBuffer
    <3>. QED
      BY <1>4, <2>1, <3>1, <3>3
  <2>2. CASE u # t
    <3>1. /\ pc'[u] = pc[u] /\ call'[u] = call[u] /\ Inside(u) /\ Short(call[u])
          /\ pc[u][1] \in {"head", "text"}
      BY <1>4, <1>6, <2>2 DEF Inside
    <3>2. call[u].logger \in Loggers /\ call[u].logger # l
      BY <1>1, <1>4, <2>2, <3>1, InsideIs
    <3>3. Done(u)' = Done(u) /\ buffer'[call'[u].logger] = buffer[call[u].logger]
      BY <1>5, <3>1, <3>2 DEF Done
    <3>4. Len(buffer[call[u].logger]) = Done(u) /\ \A i \in 1..Len(disk) : disk[i] \notin Of({call[u]})
      BY <1>3, <3>1 DEF ShortInBuffer
    <3>5. call[u].number # c.number
      BY <1>1, <2>2, <3>1 DEF CInv, NumbersDiffer, Inside, c
    <3>6. \A i \in 1..Len(q) : q[i] \notin Of({call[u]})
      <4>1. \A d \in {call[u]} : d.number # c.number
        BY <3>5
      <4>. QED
        BY <1>5, <4>1, OthersPieces DEF AllOf
    <3>7. \A i \in 1..Len(disk \o q) : (disk \o q)[i] \notin Of({call[u]})
      <4> DEFINE X == Of({call[u]})
      <4>1. q \in Seq(Pieces) /\ Len(q) \in Nat /\ Len(disk) \in Nat
        BY <1>3, <1>5, LenProperties DEF AllOf
      <4>2. /\ Len(disk \o q) = Len(disk) + Len(q)
            /\ \A i \in 1..Len(disk) + Len(q) :
                  (disk \o q)[i] = IF i <= Len(disk) THEN disk[i] ELSE q[i - Len(disk)]
        BY <1>3, <4>1, ConcatProperties
      <4>3. (\A i \in 1..Len(disk) : disk[i] \notin X) /\ \A i \in 1..Len(q) : q[i] \notin X
        BY <3>4, <3>6
      <4> HIDE DEF X
      <4>4. \A i \in 1..Len(disk) + Len(q) : i \in 1..Len(disk) \/ i - Len(disk) \in 1..Len(q)
        BY <4>1
      <4>5. \A i \in 1..Len(disk \o q) : (disk \o q)[i] \notin X
        BY <4>1, <4>2, <4>3, <4>4
      <4>. QED
        BY <4>5 DEF X
    <3>. QED
      BY <1>5, <3>1, <3>3, <3>4, <3>7
  <2>. QED
    BY <2>1, <2>2
<1>. QED
  BY <1>6 DEF ShortInBuffer

\* The set that PiecesOf chooses is the one of all pieces of the calls.
LEMMA PiecesAre ==
    ASSUME NEW D, NEW s \in Seq(Pieces) PROVE PiecesOf(D, s) = Chosen(Of(D), s)
<1> DEFINE X == {p \in ToSet(s) : \E c \in D : CallOf(p) = <<c.thread, c.number>>}
<1>1. \A i \in 1..Len(s) : s[i] \in ToSet(s) /\ s[i] \in Pieces
  BY ToSetElements, ElementOfSeq
<1>2. \A i \in 1..Len(s) : s[i] \in X <=> s[i] \in Of(D)
  BY <1>1 DEF Of
<1> HIDE DEF X
<1>3. Chosen(X, s) = Chosen(Of(D), s)
  <2> DEFINE Y == Of(D)
  <2>1. \A i \in 1..Len(s) : s[i] \in X <=> s[i] \in Y
    BY <1>2
  <2> HIDE DEF Y
  <2>2. Chosen(X, s) = Chosen(Y, s)
    BY <2>1, ChosenSame
  <2>. QED
    BY <2>2 DEF Y
<1>. QED
  BY <1>3 DEF PiecesOf, X

\* The line of c is whole at i.
LineAt(c, s, i) ==
    LET last == i + c.text + 1
    IN last <= Len(s) /\ PiecesOf({c}, SubSeq(s, i, last)) = SubSeq(s, i, last)

LEMMA StepKeepsLines ==
    ASSUME WInv, CInv', NEW t \in Threads, Step(t) PROVE ShortLinesWhole'
<1> DEFINE c == call[t]
<1>1. Inside(t) /\ Progresses(t) /\ CInv
  BY StepAdds, BufferIs DEF Step
<1>2. PICK q, b, new : Adds(t, q, b, new)
  BY StepAdds DEF Step
<1>3. c \in Calls /\ disk \in Seq(Pieces) /\ ShortLinesWhole
  BY <1>1, InsideIs DEF WInv, DiskIs
<1>4. entered' = entered /\ disk' = disk \o q /\ q \in Seq(Pieces) /\ AllOf(c, q)
  BY <1>1, <1>2 DEF Progresses, Adds, AllOf
<1>5. /\ Len(disk) \in Nat /\ Len(q) \in Nat /\ DOMAIN disk = 1..Len(disk)
      /\ disk' \in Seq(Pieces) /\ Len(disk') = Len(disk) + Len(q) /\ DOMAIN disk' = 1..Len(disk')
      /\ \A i \in 1..Len(disk) : disk'[i] = disk[i]
      /\ \A i \in 1..Len(q) : disk'[Len(disk) + i] = q[i]
  <2>1. Len(disk) \in Nat /\ Len(q) \in Nat /\ DOMAIN disk = 1..Len(disk)
    BY <1>3, <1>4, LenProperties
  <2>2. /\ disk' \in Seq(Pieces) /\ Len(disk') = Len(disk) + Len(q)
        /\ \A i \in 1..Len(disk) + Len(q) :
              disk'[i] = IF i <= Len(disk) THEN disk[i] ELSE q[i - Len(disk)]
    BY <1>3, <1>4, ConcatProperties
  <2>3. DOMAIN disk' = 1..Len(disk')
    BY <2>2, LenProperties
  <2>4. \A i \in 1..Len(q) : /\ Len(disk) + i \in 1..Len(disk) + Len(q)
                            /\ ~(Len(disk) + i <= Len(disk)) /\ (Len(disk) + i) - Len(disk) = i
    BY <2>1
  <2>5. \A i \in 1..Len(disk) : i \in 1..Len(disk) + Len(q) /\ i <= Len(disk)
    BY <2>1
  <2>. QED
    BY <2>1, <2>2, <2>3, <2>4, <2>5
<1>6. ASSUME NEW i \in DOMAIN disk', NEW m \in Loggers, NEW d \in ToSet(entered[m]),
             disk'[i].kind = "head", CallOf(disk'[i]) = <<d.thread, d.number>>,
             StaysIntact(d), d.text + 2 <= BufferSize
      PROVE  LineAt(d, disk', i)
  <2>0. d.text \in Nat
    BY <1>1, EnteredIs DEF Calls
  <2>1. CASE i \in 1..Len(disk)
    <3>1. i + d.text + 1 <= Len(disk)
          /\ PiecesOf({d}, SubSeq(disk, i, i + d.text + 1)) = SubSeq(disk, i, i + d.text + 1)
      <4>1. Intact(d)
        BY <1>2, <1>6 DEF Adds, Intact, StaysIntact
      <4>2. i \in DOMAIN disk /\ disk[i] = disk'[i]
        BY <1>5, <2>1
      <4>. QED
        BY <1>3, <1>6, <4>1, <4>2 DEF ShortLinesWhole
    <3>2. SubSeq(disk \o q, i, i + d.text + 1) = SubSeq(disk, i, i + d.text + 1)
      <4> DEFINE j == i + d.text + 1
      <4>1. i \in 1..Len(disk) /\ j \in 1..Len(disk)
        BY <1>5, <2>0, <2>1, <3>1
      <4> HIDE DEF j
      <4>2. SubSeq(disk \o q, i, j) = SubSeq(disk, i, j)
        BY <1>3, <1>4, <4>1, SubSeqOfConcat1
      <4>. QED
        BY <4>2 DEF j
    <3>3. i + d.text + 1 <= Len(disk')
      BY <1>5, <2>0, <2>1, <3>1
    <3>. QED
      BY <1>4, <3>1, <3>2, <3>3 DEF LineAt
  <2>2. CASE i \notin 1..Len(disk)
    <3> DEFINE j == i - Len(disk)
    <3>1. j \in 1..Len(q) /\ i = Len(disk) + j /\ disk'[i] = q[j]
      BY <1>5, <2>2
    <3> HIDE DEF j
    <3>2. q[j] \in Of({c})
      BY <1>4, <3>1 DEF AllOf
    <3>3. d = c
      <4>1. d.number = c.number
        BY <1>6, <3>1, <3>2 DEF Of, CallOf
      <4>. QED
        BY <1>1, <4>1, BusyDiffers
    <3>4. j = 1 /\ Len(q) = c.text + 2
      BY <1>2, <1>6, <3>1, <3>3, HeadBringsLine DEF Short
    <3>5. i = Len(disk) + 1 /\ i + d.text + 1 = Len(disk) + Len(q)
          /\ 1 <= Len(q) /\ Len(disk) \in Nat /\ Len(q) \in Nat
      <4> DEFINE k == d.text
      <4>1. Len(q) = k + 2
        BY <3>3, <3>4
      <4>2. k \in Nat /\ i = Len(disk) + 1
        BY <2>0, <3>1, <3>4
      <4> HIDE DEF k
      <4>3. i + k + 1 = Len(disk) + Len(q) /\ 1 <= Len(q)
        BY <1>5, <4>1, <4>2
      <4>. QED
        BY <1>5, <4>2, <4>3 DEF k
    <3>6. SubSeq(disk \o q, Len(disk) + 1, Len(disk) + Len(q)) = q
      <4>1. /\ Len(disk) + 1 \in Len(disk) + 1..Len(disk) + Len(q)
            /\ Len(disk) + Len(q) \in Len(disk) + 1..Len(disk) + Len(q)
            /\ (Len(disk) + 1) - Len(disk) = 1 /\ (Len(disk) + Len(q)) - Len(disk) = Len(q)
        BY <3>5
      <4>2. SubSeq(disk \o q, Len(disk) + 1, Len(disk) + Len(q))
                = SubSeq(q, (Len(disk) + 1) - Len(disk), (Len(disk) + Len(q)) - Len(disk))
        BY <1>3, <1>4, <4>1, SubSeqOfConcat2
      <4>3. SubSeq(q, 1, Len(q)) = q
        BY <1>4, SubSeqFull
      <4>. QED
        BY <4>1, <4>2, <4>3
    <3>7. PiecesOf({c}, q) = q
      <4>1. Chosen(Of({c}), q) = q
        BY <1>4, ChosenAll DEF AllOf
      <4>. QED
        BY <1>4, <4>1, PiecesAre
    <3> HIDE DEF c
    <3>8. SubSeq(disk', i, i + d.text + 1) = q /\ PiecesOf({d}, q) = q
      BY <1>4, <3>3, <3>5, <3>6, <3>7
    <3>9. i + d.text + 1 <= Len(disk')
      BY <1>5, <3>5
    <3>. QED
      BY <3>8, <3>9 DEF LineAt
  <2>. QED
    BY <2>1, <2>2
<1>. QED
  BY <1>4, <1>6 DEF ShortLinesWhole, LineAt, Intact, StaysIntact

LEMMA StepKeepsAll ==
    ASSUME WInv, [Next]_vars, NEW t \in Threads, Step(t) PROVE WInv'
<1>1. CInv'
  BY CInvKept DEF WInv
<1>2. PICK q, b, new : Progresses(t) /\ Adds(t, q, b, new)
  BY StepAdds DEF Step
<1>3. BuffersAre' /\ DiskIs' /\ (buffer = [l \in Loggers |-> buffer[l]])'
  BY <1>1, <1>2, AddsKeepsBuffers
<1>4. InOrder'
  BY <1>1, <1>2, AddsKeepsOrder
<1>5. ShortInBuffer' /\ ShortLinesWhole'
  BY <1>1, StepKeepsShort, StepKeepsLines
<1>. QED
  BY <1>1, <1>3, <1>4, <1>5 DEF WInv

-----------------------------------------------------------------------------
(* The other steps, and the theorems *)

\* What the pieces' part of the invariant is about, for whoever prints.
Quiet ==
    /\ UNCHANGED <<disk, buffer, damaged, entered>>
    /\ \A t \in Threads : Inside(t)' <=> Inside(t)
    /\ \A t \in Threads : Inside(t) => pc'[t] = pc[t] /\ call'[t] = call[t]

LEMMA QuietKeeps ==
    ASSUME WInv, CInv', Quiet PROVE WInv'
<1>0. WInv /\ \A t \in Threads : pc[t][1] \in {"head", "text"} => Inside(t)
  BY DEF Inside
<1>1. /\ \A t \in Threads : Inside(t) => Done(t)' = Done(t)
      /\ \A t \in Threads : pc'[t][1] \in {"head", "text"} => Inside(t)'
      /\ \A c : Busy(c)' <=> Busy(c)
      /\ \A c : Intact(c)' <=> StaysIntact(c)
      /\ \A c : StaysIntact(c) <=> Intact(c)
  BY DEF Quiet, Done, Inside, Busy, Intact, StaysIntact
<1>2. BuffersAre'
  <2>1. ASSUME NEW l \in Loggers, buffer[l] # <<>>
        PROVE  \E t \in Threads : pc'[t][1] = "text" /\ call'[t].logger = l
    <3>1. PICK t \in Threads : pc[t][1] = "text" /\ call[t].logger = l
      BY <2>1 DEF WInv, BuffersAre
    <3>. QED
      BY <1>0, <3>1 DEF Quiet
  <2>2. \A l \in Loggers : /\ buffer[l] \in Seq(Pieces)
                           /\ \A t \in Threads : Inside(t)' /\ call'[t].logger = l =>
                                 \A i \in 1..Len(buffer[l]) : buffer[l][i] \in Of({call'[t]})
    BY DEF WInv, BuffersAre, Quiet
  <2>. QED
    BY <2>1, <2>2 DEF BuffersAre, Quiet
<1>3. DiskIs'
  BY DEF WInv, DiskIs, Quiet
<1>4. InOrder'
  <2>1. ASSUME NEW l \in Loggers, NEW D \in SUBSET Finished(l)' PROVE D \in SUBSET Finished(l)
    BY <1>1, <2>1 DEF Finished, Quiet, Intact
  <2>2. ASSUME NEW l \in Loggers, NEW D \in SUBSET Finished(l), NEW t \in Threads,
               Inside(t)', call'[t].logger = l, StaysIntact(call'[t])
        PROVE  Chosen(Of(D \cup {call'[t]}), disk) \o buffer[l]
                   = Entries(Chosen(D, entered[l])) \o SubSeq(Entry(call'[t]), 1, Done(t)')
    <3>1. Inside(t) /\ call'[t] = call[t] /\ Done(t)' = Done(t) /\ Intact(call[t])
      BY <1>1, <2>2 DEF Quiet
    <3>2. Chosen(Of(D \cup {call[t]}), disk) \o buffer[l]
              = Entries(Chosen(D, entered[l])) \o SubSeq(Entry(call[t]), 1, Done(t))
      BY <2>2, <3>1 DEF WInv, InOrder
    <3>. QED
      BY <3>1, <3>2
  <2>3. \A l \in Loggers : \A D \in SUBSET Finished(l) :
            Chosen(Of(D), disk) = Entries(Chosen(D, entered[l]))
    BY DEF WInv, InOrder
  <2>. QED
    BY <2>1, <2>2, <2>3 DEF InOrder, Quiet, Intact, StaysIntact
<1>5. ShortInBuffer'
  BY <1>1 DEF WInv, ShortInBuffer, Quiet
<1>6. ShortLinesWhole'
  BY DEF WInv, ShortLinesWhole, Quiet, Intact
<1>. QED
  BY <1>2, <1>3, <1>4, <1>5, <1>6 DEF WInv, Quiet

\* Nobody has printed anything of a call that is about to take the mutex.
LEMMA LockFindsNothing ==
    ASSUME WInv, NEW t \in Threads, Lock(t)
    PROVE  /\ buffer[call[t].logger] = <<>>
           /\ \A i \in 1..Len(disk) : disk[i] \notin Of({call[t]})
<1>1. /\ pc[t] = <<"lock", 0>> /\ owner[call[t].logger] = None /\ CInv
  BY DEF Lock, WInv
<1>2. call[t].logger \in Loggers
  BY <1>1 DEF CInv, LInv
<1>3. \A u \in Threads : Inside(u) => call[u].logger # call[t].logger
  <2>1. ASSUME NEW u \in Threads, Inside(u) PROVE call[u].logger # call[t].logger
    <3>1. owner[call[u].logger] = u /\ u # None
      BY <1>1, <2>1, LoggerAssumption DEF CInv, LInv, MutexOwned
    <3>. QED
      BY <1>1, <3>1
  <2>. QED
    BY <2>1
<1>4. buffer[call[t].logger] = <<>>
  BY <1>2, <1>3 DEF WInv, BuffersAre, Inside
<1>5. ASSUME NEW i \in 1..Len(disk), disk[i] \in Of({call[t]}) PROVE FALSE
  <2>1. PICK m \in Loggers : \E d \in ToSet(entered[m]) : disk[i] \in Of({d})
    BY DEF WInv, DiskIs
  <2>2. PICK d \in ToSet(entered[m]) : disk[i] \in Of({d})
    BY <2>1
  <2>3. d.number = call[t].number
    BY <1>5, <2>2 DEF Of, CallOf
  <2>. QED
    BY <1>1, <2>1, <2>2, <2>3 DEF CInv, NumbersDiffer
<1>. QED
  BY <1>4, <1>5

LEMMA LockKeepsAll ==
    ASSUME WInv, CInv', NEW t \in Threads, Lock(t) PROVE WInv'
<1> DEFINE c == call[t]
           l == call[t].logger
<1>1. /\ pc[t] = <<"lock", 0>> /\ entered' = [entered EXCEPT ![l] = Append(@, c)]
      /\ pc' = [pc EXCEPT ![t] = <<"head", 0>>]
      /\ UNCHANGED <<call, disk, buffer, damaged>>
  BY DEF Lock, MoveTo
<1>2. CInv /\ disk \in Seq(Pieces) /\ InOrder /\ buffer = [k \in Loggers |-> buffer[k]]
  BY DEF WInv, DiskIs
<1>3. c \in Calls /\ l \in Loggers /\ c.logger = l
  BY <1>1, <1>2 DEF CInv, CallsAre, Calls
<1>4. pc'[t] = <<"head", 0>> /\ \A u \in Threads \ {t} : pc'[u] = pc[u]
  BY <1>1, <1>2 DEF CInv, LInv
<1>5. entered[l] \in Seq(Calls) /\ entered'[l] = Append(entered[l], c)
      /\ \A m \in Loggers \ {l} : entered'[m] = entered[m]
  BY <1>1, <1>2, <1>3 DEF CInv, EnteredAre
<1>6. ToSet(entered'[l]) = ToSet(entered[l]) \cup {c}
  BY <1>3, <1>5, ToSetAppend
<1>7. buffer[l] = <<>> /\ \A i \in 1..Len(disk) : disk[i] \notin Of({c})
  BY LockFindsNothing
<1>8. Inside(t)' /\ ~Inside(t) /\ \A u \in Threads \ {t} : Inside(u)' <=> Inside(u)
  BY <1>1, <1>4 DEF Inside
<1>9. /\ Done(t)' = 0 /\ \A u \in Threads \ {t} : Done(u)' = Done(u)
      /\ \A d : Busy(d)' <=> Busy(d) \/ d = c
      /\ \A d : StaysIntact(d) <=> Intact(d)
  BY <1>1, <1>4, <1>8 DEF Done, Busy, Intact, StaysIntact
<1>10. \A u \in Threads \ {t} : Inside(u) => call[u].logger # l
  <2>1. \A u, v \in Threads : Inside(u)' /\ Inside(v)' /\ call'[u].logger = call'[v].logger => u = v
    BY DEF CInv, LInv, MutexOwned
  <2>. QED
    BY <1>1, <1>8, <2>1
<1> HIDE DEF c, l
<1>11. BuffersAre'
  <2>1. ASSUME NEW m \in Loggers
        PROVE  /\ buffer[m] \in Seq(Pieces)
               /\ buffer[m] # <<>> => \E u \in Threads : pc'[u][1] = "text" /\ call[u].logger = m
               /\ \A u \in Threads : Inside(u)' /\ call[u].logger = m =>
                     \A i \in 1..Len(buffer[m]) : buffer[m][i] \in Of({call[u]})
    <3>1. /\ buffer[m] \in Seq(Pieces)
          /\ buffer[m] # <<>> => \E u \in Threads : pc[u][1] = "text" /\ call[u].logger = m
          /\ \A u \in Threads : Inside(u) /\ call[u].logger = m =>
                \A i \in 1..Len(buffer[m]) : buffer[m][i] \in Of({call[u]})
      BY DEF WInv, BuffersAre
    <3>2. buffer[m] # <<>> => \E u \in Threads : pc'[u][1] = "text" /\ call[u].logger = m
      BY <1>1, <1>4, <3>1
    <3>3. ASSUME NEW u \in Threads, Inside(u)', call[u].logger = m
          PROVE  \A i \in 1..Len(buffer[m]) : buffer[m][i] \in Of({call[u]})
      <4>1. CASE u = t
        BY <1>7, <3>3, <4>1 DEF l
      <4>2. CASE u # t
        BY <1>8, <3>1, <3>3, <4>2
      <4>. QED
        BY <4>1, <4>2
    <3>. QED
      BY <3>1, <3>2, <3>3
  <2>. QED
    BY <1>1, <2>1 DEF BuffersAre
<1>12. DiskIs'
  <2>1. \A i \in 1..Len(disk) : \E m \in Loggers : \E d \in ToSet(entered'[m]) : disk[i] \in Of({d})
    <3>1. \A m \in Loggers : ToSet(entered[m]) \subseteq ToSet(entered'[m])
      BY <1>5, <1>6
    <3>. QED
      BY <3>1 DEF WInv, DiskIs
  <2>. QED
    BY <1>1, <1>2, <2>1 DEF DiskIs
<1>13. ASSUME NEW m \in Loggers, NEW D \in SUBSET Finished(m)'
       PROVE  D \in SUBSET Finished(m) /\ c \notin D /\ Chosen(D, entered'[m]) = Chosen(D, entered[m])
  <2>1. c \notin D
    BY <1>9, <1>13 DEF Finished
  <2>2. D \in SUBSET Finished(m)
    BY <1>1, <1>5, <1>6, <1>9, <1>13, <2>1 DEF Finished, Intact
  <2>3. Chosen(D, entered'[m]) = Chosen(D, entered[m])
    <3>1. CASE m = l
      <4>1. Chosen(D, Append(entered[m], c)) = Chosen(D, entered[m])
        BY <1>3, <1>5, <2>1, <3>1, ChosenAppend
      <4>. QED
        BY <1>5, <3>1, <4>1
    <3>2. CASE m # l
      BY <1>5, <3>2
    <3>. QED
      BY <3>1, <3>2
  <2>. QED
    BY <2>1, <2>2, <2>3
<1>14. ASSUME NEW m \in Loggers, NEW D \in SUBSET Finished(m), NEW u \in Threads, Inside(u)',
              call[u].logger = m, StaysIntact(call[u])
       PROVE  Chosen(Of(D \cup {call[u]}), disk) \o buffer[m]
                  = Entries(Chosen(D, entered[m])) \o SubSeq(Entry(call[u]), 1, Done(u)')
  <2>1. CASE u = t
    <3>1. m = l /\ call[u] = c /\ buffer[m] = <<>>
      BY <1>7, <1>14, <2>1 DEF c, l
    <3>2. Chosen(Of(D \cup {c}), disk) = Chosen(Of(D), disk)
      <4> DEFINE X == Of(D \cup {c})
                 Y == Of(D)
      <4>1. \A p : p \in X <=> p \in Y \/ p \in Of({c})
        BY DEF Of
      <4>2. \A i \in 1..Len(disk) : disk[i] \in X <=> disk[i] \in Y
        BY <1>7, <4>1
      <4> HIDE DEF X, Y
      <4>3. Chosen(X, disk) = Chosen(Y, disk)
        BY <1>2, <4>2, ChosenSame
      <4>. QED
        BY <4>3 DEF X, Y
    <3>3. Chosen(Of(D), disk) = Entries(Chosen(D, entered[m]))
      BY <1>2, <1>14 DEF InOrder
    <3>4. SubSeq(Entry(c), 1, Done(u)') = <<>>
      BY <1>9, <2>1, SubSeqEmpty
    <3>. QED
      BY <3>1, <3>2, <3>3, <3>4
  <2>2. CASE u # t
    <3>1. Inside(u) /\ Done(u)' = Done(u) /\ Intact(call[u])
      BY <1>8, <1>9, <1>14, <2>2
    <3>2. Chosen(Of(D \cup {call[u]}), disk) \o buffer[m]
              = Entries(Chosen(D, entered[m])) \o SubSeq(Entry(call[u]), 1, Done(u))
      BY <1>2, <1>14, <3>1 DEF InOrder
    <3>. QED
      BY <3>1, <3>2
  <2>. QED
    BY <2>1, <2>2
<1>15. InOrder'
  <2>1. ASSUME NEW m \in Loggers, NEW D \in SUBSET Finished(m)'
        PROVE  /\ Chosen(Of(D), disk') = Entries(Chosen(D, entered'[m]))
               /\ \A u \in Threads : Inside(u)' /\ call'[u].logger = m /\ StaysIntact(call'[u]) =>
                      Chosen(Of(D \cup {call'[u]}), disk') \o buffer'[m]
                          = Entries(Chosen(D, entered'[m])) \o SubSeq(Entry(call'[u]), 1, Done(u)')
    <3>1. D \in SUBSET Finished(m) /\ Chosen(D, entered'[m]) = Chosen(D, entered[m])
      BY <1>13
    <3>2. Chosen(Of(D), disk) = Entries(Chosen(D, entered[m]))
      BY <1>2, <3>1 DEF InOrder
    <3>3. ASSUME NEW u \in Threads, Inside(u)', call'[u].logger = m, StaysIntact(call'[u])
          PROVE  Chosen(Of(D \cup {call[u]}), disk) \o buffer[m]
                     = Entries(Chosen(D, entered[m])) \o SubSeq(Entry(call[u]), 1, Done(u)')
      <4>1. call[u].logger = m /\ StaysIntact(call[u])
        BY <1>1, <3>3
      <4>. QED
        BY <1>14, <3>1, <3>3, <4>1
    <3>. QED
      BY <1>1, <3>1, <3>2, <3>3
  <2>. QED
    BY <1>1, <2>1 DEF InOrder, Intact, StaysIntact
<1>16. ShortInBuffer'
  <2>1. ASSUME NEW u \in Threads, pc'[u][1] \in {"head", "text"}, Short(call[u])
        PROVE  /\ Len(buffer[call[u].logger]) = Done(u)'
               /\ \A i \in 1..Len(disk) : disk[i] \notin Of({call[u]})
    <3>1. CASE u = t
      BY <1>7, <1>9, <3>1 DEF c, l
    <3>2. CASE u # t
      BY <1>4, <1>9, <2>1, <3>2 DEF WInv, ShortInBuffer
    <3>. QED
      BY <3>1, <3>2
  <2>. QED
    BY <1>1, <2>1 DEF ShortInBuffer
<1>17. ShortLinesWhole'
  <2>1. ASSUME NEW i \in DOMAIN disk, NEW m \in Loggers, NEW d \in ToSet(entered'[m]),
               disk[i].kind = "head", CallOf(disk[i]) = <<d.thread, d.number>>,
               Intact(d), d.text + 2 <= BufferSize
        PROVE  LineAt(d, disk, i)
    <3>1. d # c
      <4>1. i \in 1..Len(disk) /\ disk[i] \in Pieces
        BY <1>2, LenProperties, ElementOfSeq
      <4>. QED
        BY <1>7, <2>1, <4>1 DEF Of
    <3>2. d \in ToSet(entered[m])
      BY <1>5, <1>6, <2>1, <3>1
    <3>. QED
      BY <2>1, <3>2 DEF WInv, ShortLinesWhole, LineAt
  <2>. QED
    BY <1>1, <2>1 DEF ShortLinesWhole, LineAt, Intact
<1>18. (buffer = [k \in Loggers |-> buffer[k]])'
  BY <1>1, <1>2
<1>. QED
  BY <1>11, <1>12, <1>15, <1>16, <1>17, <1>18 DEF WInv

LEMMA UnlockKeepsAll ==
    ASSUME WInv, CInv', NEW t \in Threads, Unlock(t) PROVE WInv'
<1> DEFINE c == call[t]
           l == call[t].logger
<1>1. /\ pc[t] \in {<<"unlock", 0>>, <<"frames", 0>>} /\ Inside(t)
      /\ pc' = [pc EXCEPT ![t] = <<"idle", 0>>]
      /\ UNCHANGED <<call, disk, buffer, damaged, entered>>
  BY DEF Unlock, MoveTo, Inside
<1>2. CInv /\ disk \in Seq(Pieces) /\ InOrder /\ buffer = [k \in Loggers |-> buffer[k]]
  BY DEF WInv, DiskIs
<1>3. c \in Calls /\ l \in Loggers /\ c.logger = l /\ Placed(t) /\ c.text \in Nat /\ c.frames \in Nat
  BY <1>1, <1>2, InsideIs
<1>4. pc'[t] = <<"idle", 0>> /\ \A u \in Threads \ {t} : pc'[u] = pc[u]
  BY <1>1, <1>2 DEF CInv, LInv
<1>5. /\ \A u \in Threads : Inside(u)' <=> Inside(u) /\ u # t
      /\ \A u \in Threads \ {t} : Done(u)' = Done(u)
  BY <1>1, <1>4 DEF Inside, Done
<1>6. \A u \in Threads \ {t} : Inside(u) => call[u] # c /\ call[u].logger # l
  BY <1>1, <1>2 DEF CInv, LInv, MutexOwned
<1>7. buffer[l] = <<>>
  BY <1>1, BufferIs DEF BufferOf
<1>8. SubSeq(Entry(c), 1, Done(t)) = Entry(c) /\ Entry(c) \in Seq(Pieces)
  <2>1. Done(t) = Size(c)
    BY <1>1, <1>3 DEF Done, Size, Placed, Idle
  <2>2. Entry(c) \in Seq(Pieces) /\ Len(Entry(c)) = Size(c)
    BY <1>3, EntryIs
  <2>. QED
    BY <2>1, <2>2, SubSeqFull
<1>9. PICK first \in Seq(Calls) : entered[l] = Append(first, c) /\ c \notin ToSet(first)
  BY <1>1, <1>2 DEF CInv, BusyIsLast
<1> HIDE DEF c, l
<1>10. \A d : Busy(d)' <=> Busy(d) /\ d # c
  BY <1>1, <1>5, <1>6 DEF Busy, c
<1>11. BuffersAre'
  <2>1. \A m \in Loggers : buffer[m] # <<>> =>
            \E u \in Threads : pc'[u][1] = "text" /\ call[u].logger = m
    BY <1>1, <1>4 DEF WInv, BuffersAre
  <2>2. \A m \in Loggers : /\ buffer[m] \in Seq(Pieces)
                           /\ \A u \in Threads : Inside(u)' /\ call[u].logger = m =>
                                 \A i \in 1..Len(buffer[m]) : buffer[m][i] \in Of({call[u]})
    BY <1>5 DEF WInv, BuffersAre
  <2>. QED
    BY <1>1, <2>1, <2>2 DEF BuffersAre
<1>12. DiskIs'
  BY <1>1 DEF WInv, DiskIs
<1>13. ASSUME NEW m \in Loggers, m = l, NEW D \in SUBSET Finished(m)', c \in D
       PROVE  Chosen(Of(D), disk) = Entries(Chosen(D, entered[m]))
  <2> DEFINE E == D \ {c}
  <2>1. Intact(c) /\ E \in SUBSET Finished(l) /\ E \cup {c} = D
    <3>1. \A d \in D : d \in ToSet(entered[m]) /\ Intact(d) /\ ~Busy(d)'
      BY <1>1 DEF Finished, Intact
    <3>2. \A d \in E : d \in ToSet(entered[m]) /\ Intact(d) /\ ~Busy(d)
      BY <1>10, <3>1
    <3>. QED
      BY <1>13, <3>1, <3>2 DEF Finished
  <2>2. /\ c \in Calls /\ c \notin E
        /\ \A i \in 1..Len(first) : first[i] \in D <=> first[i] \in E
    BY <1>3, <1>9, ToSetElements
  <2> HIDE DEF E
  <2>3. Chosen(Of(E \cup {c}), disk) \o buffer[l]
            = Entries(Chosen(E, entered[l])) \o SubSeq(Entry(c), 1, Done(t))
    BY <1>1, <1>2, <1>3, <2>1 DEF InOrder, c, l
  <2>4. Chosen(Of(D), disk) = Entries(Chosen(E, entered[l])) \o Entry(c)
    <3>1. Chosen(Of(D), disk) \o <<>> = Entries(Chosen(E, entered[l])) \o Entry(c)
      BY <1>7, <1>8, <2>1, <2>3
    <3> DEFINE X == Of(D)
    <3> HIDE DEF X
    <3>2. Chosen(X, disk) \in Seq(Pieces)
      BY <1>2, ChosenType
    <3>3. Chosen(X, disk) \o <<>> = Chosen(X, disk)
      BY <3>2, ConcatEmptySeq
    <3>. QED
      BY <3>1, <3>3 DEF X
  <2>5. Chosen(E, entered[l]) = Chosen(E, first) /\ Chosen(E, first) \in Seq(Calls)
    BY <1>9, <2>2, ChosenAppend, ChosenType
  <2>6. Chosen(D, first) = Chosen(E, first)
    BY <2>2, ChosenSame
  <2>7. Chosen(D, entered[l]) = Append(Chosen(E, first), c)
    BY <1>9, <1>13, <2>2, <2>6, ChosenAppend
  <2>8. Entries(Append(Chosen(E, first), c)) = Entries(Chosen(E, first)) \o Entry(c)
    BY <2>2, <2>5, EntriesAppend
  <2>. QED
    BY <1>13, <2>4, <2>5, <2>7, <2>8
<1>14. InOrder'
  <2>1. ASSUME NEW m \in Loggers, NEW D \in SUBSET Finished(m)'
        PROVE  /\ Chosen(Of(D), disk) = Entries(Chosen(D, entered[m]))
               /\ \A u \in Threads : Inside(u)' /\ call[u].logger = m /\ StaysIntact(call[u]) =>
                      Chosen(Of(D \cup {call[u]}), disk) \o buffer[m]
                          = Entries(Chosen(D, entered[m])) \o SubSeq(Entry(call[u]), 1, Done(u)')
    <3>1. CASE c \in D
      <4>1. m = l
        <5>1. c \in ToSet(entered[m])
          BY <1>1, <3>1 DEF Finished
        <5>. QED
          BY <1>2, <1>3, <5>1, EnteredIs
      <4>2. \A u \in Threads : Inside(u)' => call[u].logger # m
        BY <1>5, <1>6, <4>1
      <4>3. Chosen(Of(D), disk) = Entries(Chosen(D, entered[m]))
        BY <1>13, <3>1, <4>1
      <4>. QED
        BY <4>2, <4>3
    <3>2. CASE c \notin D
      <4>1. D \in SUBSET Finished(m)
        BY <1>1, <1>10, <3>2 DEF Finished, Intact
      <4>2. \A u \in Threads : Inside(u)' /\ StaysIntact(call[u]) =>
                Inside(u) /\ Intact(call[u]) /\ Done(u)' = Done(u)
        BY <1>1, <1>5 DEF Intact, StaysIntact
      <4>3. Chosen(Of(D), disk) = Entries(Chosen(D, entered[m]))
        BY <1>2, <4>1 DEF InOrder
      <4>4. ASSUME NEW u \in Threads, Inside(u)', call[u].logger = m, StaysIntact(call[u])
            PROVE  Chosen(Of(D \cup {call[u]}), disk) \o buffer[m]
                       = Entries(Chosen(D, entered[m])) \o SubSeq(Entry(call[u]), 1, Done(u)')
        <5>1. Inside(u) /\ Intact(call[u]) /\ Done(u)' = Done(u)
          BY <4>2, <4>4
        <5>2. Chosen(Of(D \cup {call[u]}), disk) \o buffer[m]
                  = Entries(Chosen(D, entered[m])) \o SubSeq(Entry(call[u]), 1, Done(u))
          BY <1>2, <4>1, <4>4, <5>1 DEF InOrder
        <5>. QED
          BY <5>1, <5>2
      <4>. QED
        BY <4>3, <4>4
    <3>. QED
      BY <3>1, <3>2
  <2>. QED
    BY <1>1, <2>1 DEF InOrder, Intact, StaysIntact
<1>15. ShortInBuffer'
  <2>1. \A u \in Threads : pc'[u][1] \in {"head", "text"} => pc'[u] = pc[u] /\ Done(u)' = Done(u)
    BY <1>4, <1>5
  <2>. QED
    BY <1>1, <2>1 DEF WInv, ShortInBuffer
<1>16. ShortLinesWhole'
  BY <1>1 DEF WInv, ShortLinesWhole, Intact
<1>17. (buffer = [k \in Loggers |-> buffer[k]])'
  BY <1>1, <1>2
<1>. QED
  BY <1>11, <1>12, <1>14, <1>15, <1>16, <1>17 DEF WInv

\* When nobody is inside of a logger its buffer is empty.
LEMMA CloseIsQuiet ==
    ASSUME WInv, NEW l \in Loggers, logger_close(l) PROVE Quiet
<1>1. \A t \in Threads : Inside(t) => call[t].logger # l
  BY DEF logger_close, Inside, Idle
<1>2. buffer[l] = <<>>
  <2>1. \A t \in Threads : pc[t][1] = "text" => call[t].logger # l
    BY <1>1 DEF Inside
  <2>. QED
    BY <2>1 DEF WInv, BuffersAre
<1>3. disk \o <<>> = disk
  BY ConcatEmptySeq DEF WInv, DiskIs
<1>4. buffer' = buffer
  <2>1. buffer' = [buffer EXCEPT ![l] = <<>>] /\ buffer = [m \in Loggers |-> buffer[m]]
    BY DEF logger_close, WInv
  <2>. QED
    BY <1>2, <2>1
<1>5. disk' = disk
  BY <1>2, <1>3 DEF logger_close
<1>6. pc' = pc /\ call' = call /\ damaged' = damaged /\ entered' = entered
  BY DEF logger_close, history
<1>. QED
  BY <1>4, <1>5, <1>6 DEF Quiet, Inside

LEMMA WInit == Init => WInv
<1> SUFFICES ASSUME Init PROVE WInv
  OBVIOUS
<1>1. CInv
  BY CInit
<1>2. \A t \in Threads : ~Inside(t) /\ pc[t][1] = "idle"
  BY DEF Init, Idle, Inside
<1>3. BuffersAre /\ buffer = [l \in Loggers |-> buffer[l]]
  BY <1>2 DEF Init, BuffersAre
<1>4. DiskIs
  BY DEF Init, DiskIs
<1>5. InOrder
  <2>1. ASSUME NEW l \in Loggers, NEW D \in SUBSET Finished(l)
        PROVE  Chosen(Of(D), disk) = Entries(Chosen(D, entered[l]))
    <3>1. disk = <<>> /\ entered[l] = <<>>
      BY DEF Init
    <3>2. Chosen(Of(D), <<>>) = <<>> /\ Chosen(D, <<>>) = <<>>
      BY ChosenEmpty
    <3>. QED
      BY <3>1, <3>2, EntriesEmpty
  <2>. QED
    BY <1>2, <2>1 DEF InOrder
<1>6. ShortInBuffer
  BY <1>2 DEF ShortInBuffer
<1>7. ShortLinesWhole
  BY DEF Init, ShortLinesWhole
<1>. QED
  BY <1>1, <1>3, <1>4, <1>5, <1>6, <1>7 DEF WInv

LEMMA WInvKept == WInv /\ [Next]_vars => WInv'
<1> SUFFICES ASSUME WInv, [Next]_vars PROVE WInv'
  OBVIOUS
<1>0. CInv'
  BY CInvKept DEF WInv
<1>1. CASE UNCHANGED vars
  <2>1. Quiet
    BY <1>1 DEF vars, streams, history, Quiet, Inside
  <2>. QED
    BY <1>0, <2>1, QuietKeeps
<1>2. ASSUME NEW l \in Loggers, logger_init(l) PROVE WInv'
  <2>1. Quiet
    BY <1>2 DEF logger_init, InitSucceeds, InitFails, streams, history, Quiet, Inside
  <2>. QED
    BY <1>0, <2>1, QuietKeeps
<1>3. ASSUME NEW l \in Loggers, logger_close(l) PROVE WInv'
  BY <1>0, <1>3, CloseIsQuiet, QuietKeeps
<1>4. ASSUME NEW t \in Threads, CallNull(t) PROVE WInv'
  <2>1. Quiet
    BY <1>4 DEF CallNull, streams, history, Quiet, Inside
  <2>. QED
    BY <1>0, <2>1, QuietKeeps
<1>5. ASSUME NEW t \in Threads, NEW l \in Loggers, Call(t, l) PROVE WInv'
  <2>1. Quiet
    <3>1. /\ pc[t] = <<"idle", 0>> /\ pc' = [pc EXCEPT ![t] = <<"lock", 0>>]
          /\ pc = [u \in Threads |-> pc[u]] /\ call = [u \in Threads |-> call[u]]
      BY <1>5 DEF Call, MoveTo, Idle, WInv, CInv, LInv
    <3>2. \A u \in Threads \ {t} : call'[u] = call[u]
      BY <1>5, <3>1 DEF Call
    <3>3. pc'[t] = <<"lock", 0>> /\ \A u \in Threads \ {t} : pc'[u] = pc[u]
      BY <3>1
    <3>4. ~Inside(t) /\ ~Inside(t)'
      BY <3>1, <3>3 DEF Inside
    <3>5. UNCHANGED <<disk, buffer, damaged, entered>>
      BY <1>5 DEF Call, streams, history
    <3>. QED
      BY <3>2, <3>3, <3>4, <3>5 DEF Quiet, Inside
  <2>. QED
    BY <1>0, <2>1, QuietKeeps
<1>6. ASSUME NEW t \in Threads, logger_log(t) PROVE WInv'
  <2>1. CASE Lock(t)
    BY <1>0, <2>1, LockKeepsAll
  <2>2. CASE Unlock(t)
    BY <1>0, <2>2, UnlockKeepsAll
  <2>3. CASE Step(t)
    BY <2>3, StepKeepsAll
  <2>. QED
    BY <1>6, <2>1, <2>2, <2>3 DEF logger_log, Step
<1>. QED
  BY <1>1, <1>2, <1>3, <1>4, <1>5, <1>6 DEF Next

-----------------------------------------------------------------------------
(* What the file holds *)

\* A call is entered once.
EnteredOnce ==
    \A l \in Loggers : \A c \in ToSet(entered[l]) : Chosen({c}, entered[l]) = <<c>>

LEMMA OnceInit == Init => EnteredOnce
BY DEF Init, EnteredOnce, ToSet

LEMMA OnceKept ==
    ASSUME CInv, EnteredOnce, [Next]_vars PROVE EnteredOnce'
<1>1. CASE UNCHANGED entered
  BY <1>1 DEF EnteredOnce
<1>2. CASE \E t \in Threads : Lock(t)
  <2>1. PICK t \in Threads : Lock(t)
    BY <1>2
  <2> DEFINE c == call[t]
             l == call[t].logger
  <2>2. pc[t] = <<"lock", 0>> /\ entered' = [entered EXCEPT ![l] = Append(@, c)]
    BY <2>1 DEF Lock
  <2>3. c \in Calls /\ l \in Loggers
    BY <2>2 DEF CInv, CallsAre, Calls
  <2>4. entered[l] \in Seq(Calls) /\ entered'[l] = Append(entered[l], c)
        /\ \A m \in Loggers \ {l} : entered'[m] = entered[m]
    BY <2>2, <2>3 DEF CInv, EnteredAre
  <2>5. c \notin ToSet(entered[l])
    BY <2>2, <2>3 DEF CInv, NumbersDiffer
  <2> HIDE DEF c, l
  <2>6. ASSUME NEW d \in ToSet(Append(entered[l], c)) PROVE Chosen({d}, Append(entered[l], c)) = <<d>>
    <3>1. d \in ToSet(entered[l]) \/ d = c
      BY <2>3, <2>4, ToSetAppend
    <3>2. CASE d = c
      <4>1. \A i \in 1..Len(entered[l]) : entered[l][i] \notin {c}
        BY <2>4, <2>5, ToSetElements
      <4>2. Chosen({c}, entered[l]) = <<>>
        BY <2>4, <4>1, ChosenNone
      <4>3. c \in {c} /\ Append(<<>>, c) = <<c>>
        OBVIOUS
      <4>4. Chosen({c}, Append(entered[l], c)) = Append(Chosen({c}, entered[l]), c)
        BY <2>3, <2>4, <4>3, ChosenAppend
      <4>. QED
        BY <3>2, <4>2, <4>3, <4>4
    <3>3. CASE d # c
      <4>1. Chosen({d}, entered[l]) = <<d>>
        BY <2>3, <3>1, <3>3 DEF EnteredOnce
      <4>. QED
        BY <2>3, <2>4, <3>3, <4>1, ChosenAppend
    <3>. QED
      BY <3>2, <3>3
  <2>7. ASSUME NEW m \in Loggers, NEW d \in ToSet(entered'[m]) PROVE Chosen({d}, entered'[m]) = <<d>>
    <3>1. CASE m = l
      <4>1. entered'[m] = Append(entered[l], c)
        BY <2>4, <3>1
      <4>. QED
        BY <2>6, <2>7, <4>1
    <3>2. CASE m # l
      <4>1. entered'[m] = entered[m]
        BY <2>4, <3>2
      <4>. QED
        BY <2>7, <4>1 DEF EnteredOnce
    <3>. QED
      BY <3>1, <3>2
  <2>. QED
    BY <2>7 DEF EnteredOnce
<1>. QED
  BY <1>1, <1>2 DEF Next, vars, history, logger_init, InitSucceeds, InitFails, logger_close,
     CallNull, Call, logger_log, MakeRoom, PrintHead, PrintText, PrintEnd, PrintTitle, WriteFrame,
     Unlock

FileInv == WInv /\ EnteredOnce

LEMMA FileInvAlways == Spec => []FileInv
<1>1. Init => FileInv
  BY WInit, OnceInit DEF FileInv
<1>2. FileInv /\ [Next]_vars => FileInv'
  BY WInvKept, OnceKept DEF FileInv, WInv
<1>. QED
  BY <1>1, <1>2, PTL DEF Spec

(* A short line is never broken by another logger of the same file.        *)
THEOREM LinesWhole == Spec => []ShortLinesWhole
<1>1. FileInv => ShortLinesWhole
  BY DEF FileInv, WInv
<1>. QED
  BY <1>1, FileInvAlways, PTL

LEMMA WrittenWhenReturned == FileInv => ReturnedIsWritten
<1> SUFFICES ASSUME FileInv, NEW c \in returned, Intact(c) PROVE PiecesOf({c}, disk) = Entry(c)
  BY DEF ReturnedIsWritten
<1>0. WInv /\ CInv /\ InOrder /\ disk \in Seq(Pieces)
  BY DEF FileInv, WInv, DiskIs
<1>1. PICK l \in Loggers : c \in ToSet(entered[l])
  BY <1>0 DEF CInv, ReturnedAre
<1>2. ~Busy(c) /\ c \in Calls
  BY <1>0, <1>1, EnteredIs DEF CInv, ReturnedAre
<1>3. {c} \in SUBSET Finished(l)
  BY <1>1, <1>2 DEF Finished
<1>4. Chosen(Of({c}), disk) = Entries(Chosen({c}, entered[l]))
  BY <1>0, <1>3 DEF InOrder
<1>5. Chosen({c}, entered[l]) = <<c>>
  BY <1>1 DEF FileInv, EnteredOnce
<1>6. Entries(<<c>>) = Entry(c)
  <2>0. Entry(c) \in Seq(Pieces)
    BY <1>2, EntryIs
  <2>1. <<>> \in Seq(Calls) /\ <<c>> = Append(<<>>, c)
    OBVIOUS
  <2>2. Entries(<<c>>) = Entries(<<>>) \o Entry(c)
    BY <1>2, <2>1, EntriesAppend
  <2>. QED
    BY <2>0, <2>1, <2>2, EntriesEmpty, ConcatEmptySeq
<1>7. PiecesOf({c}, disk) = Chosen(Of({c}), disk)
  BY <1>0, PiecesAre
<1>. QED
  BY <1>4, <1>5, <1>6, <1>7

(* The entry of a call that has returned is in the file, unless a write    *)
(* failed.                                                                 *)
THEOREM Written == Spec => []ReturnedIsWritten
BY WrittenWhenReturned, FileInvAlways, PTL

\* The calls of l that lost nothing, while none of them is printed.
LEMMA WholeWhenIdle ==
    ASSUME WInv, NEW l \in Loggers, \A c \in ToSet(entered[l]) : Intact(c) => ~Busy(c)
    PROVE  PiecesOf(ToSet(IntactCalls(l)), disk \o buffer[l]) = Entries(IntactCalls(l))
<1> DEFINE D == {c \in ToSet(entered[l]) : Intact(c)}
<1>1. CInv /\ InOrder /\ disk \in Seq(Pieces) /\ buffer[l] \in Seq(Pieces)
  BY DEF WInv, DiskIs, BuffersAre
<1>2. entered[l] \in Seq(Calls)
  BY <1>1 DEF CInv, EnteredAre
<1>3. D \in SUBSET Finished(l) /\ IntactCalls(l) = Chosen(D, entered[l])
  BY DEF Finished, IntactCalls
<1>4. \A i \in 1..Len(buffer[l]) : buffer[l][i] \notin Of(D)
  <2>1. CASE buffer[l] = <<>>
    BY <2>1
  <2>2. CASE buffer[l] # <<>>
    <3>1. PICK t \in Threads : pc[t][1] = "text" /\ call[t].logger = l
      BY <2>2 DEF WInv, BuffersAre
    <3>2. Inside(t)
      BY <3>1 DEF Inside
    <3>3. \A i \in 1..Len(buffer[l]) : buffer[l][i] \in Of({call[t]})
      BY <3>1, <3>2 DEF WInv, BuffersAre
    <3>4. \A d \in D : d # call[t]
      BY <3>2 DEF Busy
    <3>5. \A d \in D : d.number # call[t].number
      BY <1>1, <3>2, <3>4, BusyDiffers
    <3>. QED
      BY <3>3, <3>5, OthersPieces
  <2>. QED
    BY <2>1, <2>2
<1> HIDE DEF D
<1>5. ToSet(IntactCalls(l)) = D
  BY <1>2, <1>3, ChosenElements DEF D
<1>6. PiecesOf(D, disk \o buffer[l]) = Chosen(Of(D), disk) \o Chosen(Of(D), buffer[l])
  <2> DEFINE X == Of(D)
  <2>1. PiecesOf(D, disk \o buffer[l]) = Chosen(X, disk \o buffer[l])
    BY <1>1, PiecesAre, ConcatProperties
  <2> HIDE DEF X
  <2>2. Chosen(X, disk \o buffer[l]) = Chosen(X, disk) \o Chosen(X, buffer[l])
    BY <1>1, ChosenConcat
  <2>. QED
    BY <2>1, <2>2 DEF X
<1>7. Chosen(Of(D), buffer[l]) = <<>> /\ Chosen(Of(D), disk) \in Seq(Pieces)
  <2> DEFINE X == Of(D)
  <2>1. \A i \in 1..Len(buffer[l]) : buffer[l][i] \notin X
    BY <1>4 DEF D
  <2> HIDE DEF X
  <2>2. Chosen(X, buffer[l]) = <<>> /\ Chosen(X, disk) \in Seq(Pieces)
    BY <1>1, <2>1, ChosenNone, ChosenType
  <2>. QED
    BY <2>2 DEF X
<1>8. Chosen(Of(D), disk) = Entries(Chosen(D, entered[l]))
  BY <1>1, <1>3 DEF InOrder
<1>9. Chosen(Of(D), disk) \o <<>> = Chosen(Of(D), disk)
  BY <1>7, ConcatEmptySeq
<1>. QED
  BY <1>3, <1>5, <1>6, <1>7, <1>8, <1>9

\* Prefixes.
LEMMA PrefixOfConcat ==
    ASSUME NEW T, NEW s \in Seq(T), NEW r \in Seq(T) PROVE IsPrefix(s, s \o r)
<1>1. /\ Len(s) \in Nat /\ Len(r) \in Nat /\ Len(s \o r) = Len(s) + Len(r) /\ s \o r \in Seq(T)
      /\ \A i \in 1..Len(s) : (s \o r)[i] = s[i]
  BY ConcatProperties, LenProperties
<1>2. SubSeq(s, 1, Len(s)) = SubSeq(s \o r, 1, Len(s))
  BY <1>1
<1>. QED
  BY <1>1, <1>2 DEF IsPrefix

LEMMA PrefixOfMore ==
    ASSUME NEW T, NEW s \in Seq(T), NEW a \in Seq(T), NEW b \in Seq(T)
    PROVE  IsPrefix(s \o a, s \o (a \o b))
<1>1. (s \o a) \o b = s \o (a \o b)
  OBVIOUS
<1>2. s \o a \in Seq(T)
  OBVIOUS
<1>3. IsPrefix(s \o a, (s \o a) \o b)
  BY <1>2, PrefixOfConcat
<1>. QED
  BY <1>1, <1>3

LEMMA PrefixOfPart ==
    ASSUME NEW T, NEW s \in Seq(T), NEW e \in Seq(T), NEW n \in Nat, n <= Len(e)
    PROVE  IsPrefix(s \o SubSeq(e, 1, n), s \o e)
<1> DEFINE a == SubSeq(e, 1, n)
           b == SubSeq(e, n + 1, Len(e))
<1>1. a \in Seq(T) /\ b \in Seq(T) /\ a \o b = e
  <2>1. Len(e) \in Nat /\ \A i \in 1..Len(e) : e[i] \in T
    BY LenProperties, ElementOfSeq
  <2>2. a \in Seq(T) /\ b \in Seq(T)
    BY <2>1, SubSeqProperties
  <2>3. a \o b = SubSeq(e, 1, Len(e))
    <3>1. 1 \in 1..Len(e) + 1 /\ n \in 1 - 1..Len(e) /\ Len(e) \in n..Len(e)
      BY <2>1
    <3>. QED
      BY <3>1, ConcatAdjacentSubSeq
  <2>4. SubSeq(e, 1, Len(e)) = e
    BY SubSeqFull
  <2>. QED
    BY <2>2, <2>3, <2>4
<1> HIDE DEF a, b
<1>2. IsPrefix(s \o a, s \o (a \o b))
  BY <1>1, PrefixOfMore
<1>. QED
  BY <1>1, <1>2 DEF a

LEMMA FrontOfAppend ==
    ASSUME NEW T, NEW s \in Seq(T), NEW x \in T
    PROVE  Front(Append(s, x)) = s
<1>1. /\ Len(s) \in Nat /\ Append(s, x) \in Seq(T) /\ Len(Append(s, x)) = Len(s) + 1
      /\ \A i \in 1..Len(s) : Append(s, x)[i] = s[i]
  BY AppendProperties, LenProperties
<1>. QED
  BY <1>1 DEF Front

\* The calls of l that lost nothing, while the last of them is printed.
LEMMA WholeWhenBusy ==
    ASSUME WInv, NEW t \in Threads, Inside(t), Intact(call[t]), NEW l, l = call[t].logger
    PROVE  \E most \in Seq(Calls) :
              /\ IntactCalls(l) = Append(most, call[t])
              /\ PiecesOf(ToSet(IntactCalls(l)), disk \o buffer[l])
                     = Entries(most) \o SubSeq(Entry(call[t]), 1, Done(t))
<1> DEFINE c == call[t]
           D == {d \in ToSet(entered[l]) : Intact(d)}
           E == D \ {c}
<1>1. CInv /\ InOrder /\ disk \in Seq(Pieces)
  BY DEF WInv, DiskIs
<1>2. c \in Calls /\ l \in Loggers /\ c.logger = l /\ c \in ToSet(entered[l])
  BY <1>1, InsideIs, BusyIsEntered
<1>3. entered[l] \in Seq(Calls) /\ buffer[l] \in Seq(Pieces)
      /\ \A i \in 1..Len(buffer[l]) : buffer[l][i] \in Of({c})
  BY <1>1, <1>2 DEF CInv, EnteredAre, WInv, BuffersAre
<1>4. PICK first \in Seq(Calls) : entered[l] = Append(first, c) /\ c \notin ToSet(first)
  BY <1>1 DEF CInv, BusyIsLast
<1>5. E \in SUBSET Finished(l)
  <2>1. ASSUME NEW d \in E PROVE ~Busy(d)
    <3>1. ASSUME NEW u \in Threads, Inside(u), call[u] = d PROVE FALSE
      <4>1. d.logger = l /\ d # c
        BY <1>1, <1>2, EnteredIs
      <4>2. u = t
        BY <1>1, <3>1, <4>1 DEF CInv, LInv, MutexOwned
      <4>. QED
        BY <3>1, <4>1, <4>2
    <3>. QED
      BY <3>1 DEF Busy
  <2>. QED
    BY <2>1 DEF Finished
<1>6. /\ IntactCalls(l) = Chosen(D, entered[l]) /\ E \cup {c} = D /\ c \in D /\ c \notin E
      /\ \A i \in 1..Len(first) : first[i] \in D <=> first[i] \in E
  BY <1>2, <1>4, ToSetElements DEF IntactCalls
<1>7. c = call[t]
  OBVIOUS
<1> HIDE DEF c, D, E
<1>8. Chosen(Of(D), disk) \o buffer[l]
          = Entries(Chosen(E, entered[l])) \o SubSeq(Entry(c), 1, Done(t))
  <2>1. Chosen(Of(E \cup {c}), disk) \o buffer[l]
            = Entries(Chosen(E, entered[l])) \o SubSeq(Entry(c), 1, Done(t))
    BY <1>1, <1>2, <1>5, <1>7 DEF InOrder
  <2>. QED
    BY <1>6, <2>1
<1>9. Chosen(E, entered[l]) = Chosen(E, first) /\ Chosen(E, first) \in Seq(Calls)
  BY <1>2, <1>4, <1>6, ChosenAppend, ChosenType
<1>10. Chosen(D, entered[l]) = Append(Chosen(E, first), c)
  <2>1. Chosen(D, first) = Chosen(E, first)
    BY <1>6, ChosenSame
  <2>. QED
    BY <1>2, <1>4, <1>6, <2>1, ChosenAppend
<1>11. ToSet(IntactCalls(l)) = D
  BY <1>3, <1>6, ChosenElements DEF D
<1>12. PiecesOf(D, disk \o buffer[l]) = Chosen(Of(D), disk) \o buffer[l]
  <2> DEFINE X == Of(D)
  <2>1. PiecesOf(D, disk \o buffer[l]) = Chosen(X, disk \o buffer[l])
    BY <1>1, <1>3, PiecesAre, ConcatProperties
  <2>2. \A i \in 1..Len(buffer[l]) : buffer[l][i] \in X
    BY <1>3, <1>6, OfMember
  <2> HIDE DEF X
  <2>3. Chosen(X, disk \o buffer[l]) = Chosen(X, disk) \o Chosen(X, buffer[l])
    <3>1. disk \in Seq(Pieces) /\ buffer[l] \in Seq(Pieces)
      BY <1>1, <1>3
    <3>. QED
      BY <3>1, ChosenConcat
  <2>4. Chosen(X, buffer[l]) = buffer[l]
    BY <1>3, <2>2, ChosenAll
  <2>. QED
    BY <2>1, <2>3, <2>4 DEF X
<1>. QED
  BY <1>6, <1>7, <1>8, <1>9, <1>10, <1>11, <1>12

LEMMA WholeEntries == WInv => EntriesWhole
<1> SUFFICES ASSUME WInv PROVE EntriesWhole
  OBVIOUS
<1>1. ASSUME NEW l \in Loggers
      PROVE  LET calls == IntactCalls(l)
                 written == PiecesOf(ToSet(calls), disk \o buffer[l])
             IN /\ IsPrefix(written, Entries(calls))
                /\ calls # <<>> => IsPrefix(Entries(Front(calls)), written)
  <2> DEFINE calls == IntactCalls(l)
             written == PiecesOf(ToSet(calls), disk \o buffer[l])
  <2>1. calls \in Seq(Calls)
    BY ChosenType DEF WInv, CInv, EnteredAre, IntactCalls
  <2>2. CASE \A c \in ToSet(entered[l]) : Intact(c) => ~Busy(c)
    <3>1. written = Entries(calls)
      BY <2>2, WholeWhenIdle
    <3> HIDE DEF calls, written
    <3>2. CASE calls = <<>>
      <4>1. IsPrefix(<<>>, <<>> \o <<>>)
        BY PrefixOfConcat, EmptySeq
      <4>2. <<>> \o <<>> = <<>>
        OBVIOUS
      <4>. QED
        BY <3>1, <3>2, <4>1, <4>2, EntriesEmpty DEF calls, written
    <3>3. CASE calls # <<>>
      <4>1. PICK most \in Seq(Calls), c \in Calls : calls = Append(most, c)
        BY <2>1, <3>3, SequenceEmptyOrAppend
      <4>2. /\ Entries(calls) = Entries(most) \o Entry(c) /\ Front(calls) = most
            /\ Entries(most) \in Seq(Pieces) /\ Entry(c) \in Seq(Pieces)
        BY <4>1, EntriesAppend, EntryIs, FrontOfAppend
      <4>3. IsPrefix(Entries(most), Entries(most) \o Entry(c))
        BY <4>2, PrefixOfConcat
      <4>4. IsPrefix(Entries(calls), Entries(calls) \o <<>>) /\ Entries(calls) \o <<>> = Entries(calls)
        <5>1. Entries(calls) \in Seq(Pieces)
          BY <4>2, ConcatProperties
        <5>. QED
          BY <5>1, PrefixOfConcat, ConcatEmptySeq, EmptySeq
      <4>. QED
        BY <3>1, <4>2, <4>3, <4>4 DEF calls, written
    <3>. QED
      BY <3>2, <3>3
  <2>3. CASE \E c \in ToSet(entered[l]) : Intact(c) /\ Busy(c)
    <3>1. PICK t \in Threads : Inside(t) /\ call[t] \in ToSet(entered[l]) /\ Intact(call[t])
      BY <2>3 DEF Busy
    <3>2. CInv /\ l = call[t].logger /\ call[t] \in Calls
      BY <3>1, EnteredIs DEF WInv
    <3>3. PICK most \in Seq(Calls) : /\ calls = Append(most, call[t])
                                     /\ written = Entries(most) \o SubSeq(Entry(call[t]), 1, Done(t))
      BY <3>1, <3>2, WholeWhenBusy
    <3> HIDE DEF calls, written
    <3>4. /\ Entries(calls) = Entries(most) \o Entry(call[t]) /\ Front(calls) = most
          /\ Entries(most) \in Seq(Pieces)
      BY <3>2, <3>3, EntriesAppend, FrontOfAppend
    <3>5. /\ Entry(call[t]) \in Seq(Pieces) /\ Done(t) \in Nat /\ Done(t) <= Len(Entry(call[t]))
          /\ SubSeq(Entry(call[t]), 1, Done(t)) \in Seq(Pieces)
      BY <3>1, <3>2, DoneIs, EntryIs, FirstPieces
    <3>6. IsPrefix(written, Entries(calls))
      BY <3>3, <3>4, <3>5, PrefixOfPart
    <3>7. IsPrefix(Entries(Front(calls)), written)
      BY <3>3, <3>4, <3>5, PrefixOfConcat
    <3>. QED
      BY <3>6, <3>7 DEF calls, written
  <2>. QED
    BY <2>2, <2>3
<1>. QED
  BY <1>1 DEF EntriesWhole

(* The file holds whole entries of each logger, in the order in which the  *)
(* calls took the mutex, and of the call that is printed a first part.     *)
THEOREM WholeAndInOrder == Spec => []EntriesWhole
<1>1. FileInv => EntriesWhole
  BY WholeEntries DEF FileInv
<1>. QED
  BY <1>1, FileInvAlways, PTL
=============================================================================
