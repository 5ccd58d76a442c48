--------------------------- MODULE LogStatsProofs ---------------------------
(***************************************************************************)
(* main of hw10_logs_stats joins every thread it created exactly once and  *)
(* prints only when all are gone, and its threads lose no update of the    *)
(* statistics and make none twice, for any number of files and slots.      *)
(***************************************************************************)
EXTENDS LogStats, Induction, SequenceTheorems

USE ContentAssumption, ThreadsAssumption

\* main enters the scan of the directory in a state of the invariant.
LEMMA InitIInv == Init => IInv
  <1> SUFFICES ASSUME Init PROVE IInv OBVIOUS
  <1>1. TypeOK BY DEF Init, TypeOK, Places, InBooks
  <1>2. SlotsHoldUnjoined /\ ReadyToPrint
    BY DEF Init, SlotsHoldUnjoined, ReadyToPrint, OpenSlots, Unjoined
  <1>3. Bookkeeping BY DEF Init, Bookkeeping, InBooks
  <1> QED BY <1>1, <1>2, <1>3 DEF IInv

\* A thread that moves inside thread_func stays unjoined, and nothing that
\* main keeps about the threads changes.
LEMMA ThreadMoves ==
  ASSUME IInv, NEW f \in Files, Unjoined(f), NEW w,
         worker' = [worker EXCEPT ![f] = w],
         w \in [pc : Places \ {"none", "dropped", "joined"},
                next : Nat \ {0}, hit : BOOLEAN],
         w.pc \in {"parsed"} \cup InBooks =>
            w.next <= Len(Content[f]) /\ Content[f][w.next] # Skipped,
         UNCHANGED mainVars, lock' \in Files \cup {NoThread},
         total_bytes' \in 0..Word - 1
  PROVE  IInv'
  <1>1. TypeOK' BY DEF IInv, TypeOK, mainVars
  <1>2. /\ worker'[f] = w /\ \A g \in Files \ {f} : worker'[g] = worker[g]
    BY DEF IInv, TypeOK
  <1>3. \A g \in Files : Unjoined(g)' <=> Unjoined(g)
    BY <1>2 DEF Unjoined
  <1>4. SlotsHoldUnjoined'
    BY <1>3 DEF IInv, SlotsHoldUnjoined, OpenSlots, mainVars
  <1>5. ReadyToPrint' BY <1>2 DEF IInv, ReadyToPrint, Unjoined, mainVars
  <1>6. \A g \in Files : worker'[g].pc = "none" <=> worker[g].pc = "none"
    BY <1>2 DEF Unjoined
  <1>7. \A g \in Files : worker'[g].pc \in {"parsed"} \cup InBooks =>
           worker'[g].next <= Len(Content[g])
           /\ Content[g][worker'[g].next] # Skipped
    BY <1>2 DEF IInv, Bookkeeping, CurrentLine
  <1>8. Bookkeeping'
    BY <1>6, <1>7, Zenon DEF IInv, Bookkeeping, mainVars, CurrentLine
  <1> QED BY <1>1, <1>4, <1>5, <1>8 DEF IInv

\* Every step of a thread is such a move.
LEMMA WorkerIInv == ASSUME IInv, NEW f \in Files, Worker(f) PROVE IInv'
  <1>1. /\ worker[f] \in [pc : Places, next : Nat \ {0}, hit : BOOLEAN]
        /\ worker \in [Files -> [pc : Places, next : Nat \ {0}, hit : BOOLEAN]]
        /\ lock \in Files \cup {NoThread} /\ total_bytes \in 0..Word - 1
    BY DEF IInv, TypeOK
  <1>2. worker[f].pc \in {"parsed"} \cup InBooks =>
           worker[f].next <= Len(Content[f])
           /\ Content[f][worker[f].next] # Skipped
    BY DEF IInv, Bookkeeping, CurrentLine
  <1>3. CASE OpenFile(f)
    <2>1. PICK place \in {"reading", "exited"} : MoveTo(f, place)
      BY <1>3 DEF OpenFile
    <2> DEFINE w == [worker[f] EXCEPT !.pc = place]
    <2>2. worker' = [worker EXCEPT ![f] = w] BY <2>1 DEF MoveTo
    <2>3. /\ w \in [pc : Places \ {"none", "dropped", "joined"},
                    next : Nat \ {0}, hit : BOOLEAN]
          /\ w.pc \notin {"parsed"} \cup InBooks
      BY <1>1, <2>1 DEF Places, InBooks
    <2>4. Unjoined(f) BY <1>3 DEF OpenFile, Unjoined
    <2> HIDE DEF w
    <2> QED BY <1>1, <1>3, <2>2, <2>3, <2>4, ThreadMoves DEF OpenFile, stats
  <1>4. CASE EndOfFile(f)
    <2> DEFINE w == [worker[f] EXCEPT !.pc = "exited"]
    <2>1. worker' = [worker EXCEPT ![f] = w] BY <1>4 DEF MoveTo, EndOfFile
    <2>2. /\ w \in [pc : Places \ {"none", "dropped", "joined"},
                    next : Nat \ {0}, hit : BOOLEAN]
          /\ w.pc \notin {"parsed"} \cup InBooks
      BY <1>1 DEF Places, InBooks
    <2>3. Unjoined(f) BY <1>4 DEF EndOfFile, Unjoined
    <2> HIDE DEF w
    <2> QED BY <1>1, <1>4, <2>1, <2>2, <2>3, ThreadMoves DEF EndOfFile, stats
  <1>5. CASE ReadLine(f)
    <2>1. Unjoined(f) BY <1>5 DEF ReadLine, Unjoined
    <2>2. CASE CurrentLine(f) = Skipped
      <3> DEFINE w == [worker[f] EXCEPT !.next = @ + 1]
      <3>1. worker' = [worker EXCEPT ![f] = w] BY <1>5, <2>2 DEF ReadLine
      <3>2. /\ w \in [pc : Places \ {"none", "dropped", "joined"},
                      next : Nat \ {0}, hit : BOOLEAN]
            /\ w.pc \notin {"parsed"} \cup InBooks
        BY <1>1, <1>5 DEF Places, InBooks, ReadLine
      <3> HIDE DEF w
      <3> QED BY <1>1, <1>5, <2>1, <3>1, <3>2, ThreadMoves DEF ReadLine, stats
    <2>3. CASE CurrentLine(f) # Skipped
      <3> DEFINE w == [worker[f] EXCEPT !.pc = "parsed"]
      <3>1. worker' = [worker EXCEPT ![f] = w]
        BY <1>5, <2>3 DEF ReadLine, MoveTo
      <3>2. /\ w \in [pc : Places \ {"none", "dropped", "joined"},
                      next : Nat \ {0}, hit : BOOLEAN]
            /\ w.next <= Len(Content[f]) /\ Content[f][w.next] # Skipped
        BY <1>1, <1>5, <2>3 DEF Places, InBooks, ReadLine, CurrentLine
      <3> HIDE DEF w
      <3> QED BY <1>1, <1>5, <2>1, <3>1, <3>2, ThreadMoves DEF ReadLine, stats
    <2> QED BY <2>2, <2>3
  <1>6. CASE Lock(f)
    <2> DEFINE w == [worker[f] EXCEPT !.pc = "locked"]
    <2>1. worker' = [worker EXCEPT ![f] = w] BY <1>6 DEF MoveTo, Lock
    <2>2. /\ w \in [pc : Places \ {"none", "dropped", "joined"},
                    next : Nat \ {0}, hit : BOOLEAN]
          /\ w.next <= Len(Content[f]) /\ Content[f][w.next] # Skipped
      BY <1>1, <1>2, <1>6 DEF Places, InBooks, Lock
    <2>3. Unjoined(f) BY <1>6 DEF Lock, Unjoined
    <2> HIDE DEF w
    <2> QED BY <1>1, <1>6, <2>1, <2>2, <2>3, ThreadMoves DEF Lock, stats
  <1>7. CASE FindUrl(f)
    <2> DEFINE h == CurrentLine(f).url \in DOMAIN url_traffic
               w == [worker[f] EXCEPT !.pc = "found", !.hit = h]
    <2>0. h \in BOOLEAN OBVIOUS
    <2>1. worker' = [worker EXCEPT ![f] = w] BY <1>1, <1>7 DEF FindUrl
    <2> HIDE DEF h
    <2>2. /\ w \in [pc : Places \ {"none", "dropped", "joined"},
                    next : Nat \ {0}, hit : BOOLEAN]
          /\ w.next <= Len(Content[f]) /\ Content[f][w.next] # Skipped
      BY <1>1, <1>2, <1>7, <2>0 DEF Places, InBooks, FindUrl
    <2>3. Unjoined(f) BY <1>7 DEF FindUrl, Unjoined
    <2>4. total_bytes' \in 0..Word - 1
      <3>1. Content[f] \in Seq(Line \cup {Skipped}) OBVIOUS
      <3>2. CurrentLine(f) \in Line \cup {Skipped} /\ CurrentLine(f) # Skipped
        BY <1>1, <1>2, <1>7, <3>1, ElementOfSeq DEF CurrentLine, FindUrl, InBooks
      <3>3. strtoull(CurrentLine(f).bytes) \in Nat
        BY <3>2 DEF Line, strtoull
      <3> QED BY <1>1, <1>7, <3>3 DEF FindUrl
    <2> HIDE DEF w
    <2>5. UNCHANGED mainVars /\ lock' \in Files \cup {NoThread}
      BY <1>1, <1>7 DEF FindUrl
    <2> QED BY <2>1, <2>2, <2>3, <2>4, <2>5, ThreadMoves
  <1>8. CASE AddUrl(f)
    <2> DEFINE w == [worker[f] EXCEPT !.pc = "added"]
    <2>1. worker' = [worker EXCEPT ![f] = w] BY <1>8 DEF MoveTo, AddUrl
    <2>2. /\ w \in [pc : Places \ {"none", "dropped", "joined"},
                    next : Nat \ {0}, hit : BOOLEAN]
          /\ w.next <= Len(Content[f]) /\ Content[f][w.next] # Skipped
      BY <1>1, <1>2, <1>8 DEF Places, InBooks, AddUrl
    <2>3. Unjoined(f) BY <1>8 DEF AddUrl, Unjoined
    <2> HIDE DEF w
    <2> QED BY <1>1, <1>8, <2>1, <2>2, <2>3, ThreadMoves DEF AddUrl
  <1>9. CASE AddReferer(f)
    <2> DEFINE n == worker[f].next + 1
               w == [worker[f] EXCEPT !.pc = "reading", !.next = n]
    <2>0. n \in Nat \ {0} BY <1>1
    <2>1. worker' = [worker EXCEPT ![f] = w] BY <1>1, <1>9 DEF NextLine, AddReferer
    <2> HIDE DEF n
    <2>2. /\ w \in [pc : Places \ {"none", "dropped", "joined"},
                    next : Nat \ {0}, hit : BOOLEAN]
          /\ w.pc \notin {"parsed"} \cup InBooks
      BY <1>1, <2>0 DEF Places, InBooks
    <2>3. Unjoined(f) BY <1>9 DEF AddReferer, Unjoined
    <2> HIDE DEF w
    <2> QED BY <1>1, <1>9, <2>1, <2>2, <2>3, ThreadMoves DEF AddReferer
  <1> QED BY <1>3, <1>4, <1>5, <1>6, <1>7, <1>8, <1>9 DEF Worker

(***************************************************************************)
(* main.                                                                   *)
(***************************************************************************)
\* What the head and the tail of the queue say about its elements.
LEMMA QueueHead ==
  ASSUME IInv, pc = "next", files # <<>>
  PROVE  LET f == Head(files) IN
         /\ f \in Files /\ worker[f].pc = "none" /\ Tail(files) \in Seq(Files)
         /\ \A j, k \in DOMAIN Tail(files) :
               Tail(files)[j] = Tail(files)[k] => j = k
         /\ \A g \in Files \ {f} : (\E k \in DOMAIN files : files[k] = g)
                                   <=> \E k \in DOMAIN Tail(files) : Tail(files)[k] = g
         /\ \A k \in DOMAIN Tail(files) : Tail(files)[k] # f
  <1>1. files \in Seq(Files) BY DEF IInv, TypeOK
  <1>2. /\ Len(files) \in Nat \ {0} /\ DOMAIN files = 1..Len(files)
        /\ Head(files) = files[1] /\ Tail(files) \in Seq(Files)
        /\ Len(Tail(files)) = Len(files) - 1
        /\ DOMAIN Tail(files) = 1..Len(files) - 1
        /\ \A k \in 1..Len(files) - 1 : Tail(files)[k] = files[k + 1]
    BY <1>1, HeadTailProperties, EmptySeq
  <1>3. \A k \in 1..Len(files) : files[k] \in Files BY <1>1, ElementOfSeq
  <1>4. /\ \A j, k \in 1..Len(files) : files[j] = files[k] => j = k
        /\ \A f \in Files : worker[f].pc = "none" <=>
                            \E k \in 1..Len(files) : files[k] = f
    BY <1>2 DEF IInv, Bookkeeping
  <1> DEFINE f == Head(files)
  <1>5. f \in Files /\ worker[f].pc = "none" BY <1>2, <1>3, <1>4
  <1>6. ASSUME NEW j \in 1..Len(files) - 1, NEW k \in 1..Len(files) - 1,
               Tail(files)[j] = Tail(files)[k]
        PROVE  j = k
    <2>1. j + 1 \in 1..Len(files) /\ k + 1 \in 1..Len(files) BY <1>2
    <2>2. j + 1 = k + 1 BY <1>2, <1>4, <1>6, <2>1
    <2> QED BY <2>2
  <1>7. ASSUME NEW k \in 1..Len(files) - 1 PROVE Tail(files)[k] # f
    <2>1. k + 1 \in 1..Len(files) /\ 1 \in 1..Len(files) /\ k + 1 # 1 BY <1>2
    <2> QED BY <1>2, <1>4, <2>1
  <1>8. ASSUME NEW g \in Files \ {f}
        PROVE  (\E k \in 1..Len(files) : files[k] = g)
               <=> \E k \in 1..Len(files) - 1 : Tail(files)[k] = g
    <2>1. ASSUME NEW k \in 1..Len(files), files[k] = g
          PROVE  \E m \in 1..Len(files) - 1 : Tail(files)[m] = g
      <3>1. k # 1 BY <1>2, <2>1
      <3>2. k - 1 \in 1..Len(files) - 1 /\ (k - 1) + 1 = k BY <1>2, <3>1
      <3> QED BY <1>2, <2>1, <3>2
    <2>2. ASSUME NEW k \in 1..Len(files) - 1, Tail(files)[k] = g
          PROVE  \E m \in 1..Len(files) : files[m] = g
      <3>1. k + 1 \in 1..Len(files) BY <1>2
      <3> QED BY <1>2, <2>2, <3>1
    <2> QED BY <2>1, <2>2
  <1> QED BY <1>2, <1>5, <1>6, <1>7, <1>8

\* A step that leaves the threads and the slots alone keeps the types of them.
LEMMA SameSlots ==
  ASSUME IInv, UNCHANGED <<worker, threads, active_threads>>, OpenSlots' = OpenSlots
  PROVE  SlotsHoldUnjoined'
  BY DEF IInv, SlotsHoldUnjoined, Unjoined

\* readdir and the end of the directory.
LEMMA ScanIInv ==
  ASSUME IInv, (\E f \in Files : ScanEntry(f)) \/ EndScan PROVE IInv'
  <1>1. files \in Seq(Files) BY DEF IInv, TypeOK
  <1>2. ASSUME NEW f \in Files, ScanEntry(f) PROVE IInv'
    <2>1. /\ files' \in Seq(Files) /\ Len(files) \in Nat
          /\ DOMAIN files = 1..Len(files) /\ DOMAIN files' = 1..Len(files) + 1
          /\ files'[Len(files) + 1] = f
          /\ \A k \in 1..Len(files) : files'[k] = files[k]
      BY <1>1, <1>2, AppendProperties DEF ScanEntry
    <2>2. \A j, k \in DOMAIN files' : files'[j] = files'[k] => j = k
      <3>1. \A k \in 1..Len(files) : files[k] # f BY <1>2, <2>1 DEF ScanEntry
      <3>2. \A j, k \in 1..Len(files) : files[j] = files[k] => j = k
        BY <2>1 DEF IInv, Bookkeeping
      <3> QED BY <2>1, <3>1, <3>2
    <2>3. TypeOK' BY <1>2, <2>1 DEF IInv, TypeOK, ScanEntry, stats
    <2>4. SlotsHoldUnjoined'
      BY <1>2, SameSlots DEF ScanEntry, OpenSlots
    <2>5. ReadyToPrint' BY <1>2 DEF ReadyToPrint, ScanEntry
    <2>6. Bookkeeping' BY <1>2, <2>2 DEF IInv, Bookkeeping, ScanEntry, CurrentLine
    <2> QED BY <2>3, <2>4, <2>5, <2>6 DEF IInv
  <1>3. CASE EndScan
    <2>1. TypeOK' BY <1>3 DEF IInv, TypeOK, EndScan, stats
    <2>2. active_threads = 0 /\ i = 1 /\ \A f \in Files : worker[f].pc = "none"
      BY <1>3 DEF IInv, Bookkeeping, EndScan
    <2>3. SlotsHoldUnjoined'
      <3>1. OpenSlots = {} /\ OpenSlots' = {}
        BY <1>3, <2>2 DEF OpenSlots, EndScan
      <3> QED BY <1>3, <3>1, SameSlots DEF EndScan
    <2>4. files = <<>> => Files = {} BY <1>3 DEF EndScan
    <2>5. ReadyToPrint' BY <1>3, <2>4 DEF ReadyToPrint, EndScan
    <2>6. \A f \in Files : \E k \in DOMAIN files : files[k] = f
      BY <1>3 DEF EndScan
    <2>7. Bookkeeping'
      BY <1>3, <2>2, <2>6 DEF IInv, Bookkeeping, EndScan, CurrentLine, InBooks
    <2> QED BY <2>1, <2>3, <2>5, <2>7 DEF IInv
  <1> QED BY <1>2, <1>3

\* pthread_create, whether it makes a thread or fails.
LEMMA StartIInv == ASSUME IInv, StartThread \/ StartFails PROVE IInv'
  <1> DEFINE f == Head(files)
             A == active_threads
  <1>1. /\ pc = "next" /\ files # <<>> /\ A < num_threads /\ files' = Tail(files)
        /\ pc' = pc /\ i' = i /\ lock' = lock /\ total_bytes' = total_bytes
    BY DEF StartThread, StartFails, SlotFree, stats
  <1>2. /\ f \in Files /\ worker[f].pc = "none" /\ files' \in Seq(Files)
        /\ \A j, k \in DOMAIN files' : files'[j] = files'[k] => j = k
        /\ \A g \in Files \ {f} : (\E k \in DOMAIN files : files[k] = g)
                                  <=> \E k \in DOMAIN files' : files'[k] = g
        /\ \A k \in DOMAIN files' : files'[k] # f
    BY <1>1, QueueHead
  <1>3. /\ worker \in [Files -> [pc : Places, next : Nat \ {0}, hit : BOOLEAN]]
        /\ threads \in [1..num_threads -> Files \cup {NoThread}]
        /\ A \in Nat /\ A + 1 \in 1..num_threads
    BY <1>1 DEF IInv, TypeOK
  <1> HIDE DEF f
  <1>4. ASSUME NEW place \in {"created", "dropped"}, MoveTo(f, place),
               \A s \in 1..active_threads' : threads'[s] \in Files
        PROVE  /\ worker' \in [Files -> [pc : Places, next : Nat \ {0}, hit : BOOLEAN]]
               /\ worker'[f].pc = place
               /\ \A g \in Files \ {f} : worker'[g] = worker[g]
               /\ Bookkeeping'
    <2>0. /\ worker[f] \in [pc : Places, next : Nat \ {0}, hit : BOOLEAN]
          /\ place \in Places
      BY <1>2, <1>3, <1>4 DEF Places
    <2>1. /\ [worker[f] EXCEPT !.pc = place] \in
                [pc : Places, next : Nat \ {0}, hit : BOOLEAN]
          /\ [worker[f] EXCEPT !.pc = place].pc = place
      BY <2>0
    <2>2. worker' = [worker EXCEPT ![f] = [worker[f] EXCEPT !.pc = place]]
      BY <1>4 DEF MoveTo
    <2>3. /\ worker' \in [Files -> [pc : Places, next : Nat \ {0}, hit : BOOLEAN]]
          /\ worker'[f].pc = place
          /\ \A g \in Files \ {f} : worker'[g] = worker[g]
      BY <1>2, <1>3, <2>1, <2>2
    <2>4. ASSUME NEW g \in Files
          PROVE  worker'[g].pc = "none" <=> \E k \in DOMAIN files' : files'[k] = g
      <3>1. CASE g = f
        BY <1>2, <1>4, <2>3, <3>1
      <3>2. CASE g # f
        <4>1. worker[g].pc = "none" <=> \E k \in DOMAIN files : files[k] = g
          BY <1>1 DEF IInv, Bookkeeping
        <4> QED BY <1>2, <2>3, <3>2, <4>1
      <3> QED BY <3>1, <3>2
    <2>5. \A g \in Files : worker'[g].pc \in {"parsed"} \cup InBooks =>
             worker'[g].next <= Len(Content[g])
             /\ Content[g][worker'[g].next] # Skipped
      BY <1>1, <2>3 DEF IInv, Bookkeeping, CurrentLine, InBooks
    <2>6. Bookkeeping'
      BY <1>1, <1>2, <1>4, <2>4, <2>5 DEF Bookkeeping, CurrentLine
    <2> QED BY <2>3, <2>6
  <1>5. ReadyToPrint' BY <1>1 DEF ReadyToPrint
  <1>6. /\ OpenSlots = 1..A
        /\ \A g \in Files : Unjoined(g) <=> \E s \in 1..A : threads[s] = g
        /\ \A s, t \in 1..A : threads[s] = threads[t] => s = t
    BY <1>1 DEF IInv, SlotsHoldUnjoined, OpenSlots
  <1>7. ~Unjoined(f) /\ \A s \in 1..A : threads[s] # f
    BY <1>2, <1>6 DEF Unjoined
  <1>8. CASE StartThread
    <2>1. /\ MoveTo(f, "created") /\ active_threads' = A + 1
          /\ threads' = [threads EXCEPT ![A + 1] = f]
      BY <1>8 DEF StartThread, f
    <2>2. /\ threads'[A + 1] = f /\ \A s \in 1..A : threads'[s] = threads[s]
          /\ threads' \in [1..num_threads -> Files \cup {NoThread}]
      BY <1>2, <1>3, <2>1
    <2>0. \A s \in 1..active_threads' : threads'[s] \in Files
      <3>1. \A s \in 1..A : threads[s] \in Files BY DEF IInv, Bookkeeping
      <3> QED BY <1>2, <1>3, <2>1, <2>2, <3>1
    <2>3. TypeOK' BY <1>1, <1>2, <1>3, <1>4, <2>0, <2>1, <2>2 DEF IInv, TypeOK
    <2>4. /\ \A g \in Files \ {f} : Unjoined(g)' <=> Unjoined(g)
          /\ \A g \in Files : g = f => Unjoined(g)'
      <3>1. /\ worker'[f].pc = "created"
            /\ \A g \in Files \ {f} : worker'[g] = worker[g]
        BY <1>4, <2>0, <2>1
      <3> QED BY <3>1 DEF Unjoined
    <2>5. OpenSlots' = 1..A + 1 BY <1>1, <2>1 DEF OpenSlots
    <2>6. \A s \in 1..A + 1 : s = A + 1 \/ s \in 1..A BY <1>3
    <2>7. \A s \in 1..A : s \in 1..A + 1 /\ s # A + 1 BY <1>3
    <2>8. A + 1 \in 1..A + 1 BY <1>3
    <2>9. ASSUME NEW g \in Files
          PROVE  Unjoined(g)' <=> \E s \in 1..A + 1 : threads'[s] = g
      <3>1. CASE g = f BY <2>2, <2>4, <2>8, <3>1
      <3>2. CASE g # f
        <4>1. (\E s \in 1..A + 1 : threads'[s] = g) <=> \E s \in 1..A : threads[s] = g
          BY <2>2, <2>6, <2>7, <3>2
        <4> QED BY <1>6, <2>4, <3>2, <4>1
      <3> QED BY <3>1, <3>2
    <2>10. \A s, t \in 1..A + 1 : threads'[s] = threads'[t] => s = t
      BY <1>6, <1>7, <2>2, <2>6
    <2>11. SlotsHoldUnjoined' BY <2>5, <2>9, <2>10 DEF SlotsHoldUnjoined
    <2> QED BY <1>4, <1>5, <2>0, <2>1, <2>3, <2>11 DEF IInv
  <1>9. CASE StartFails
    <2>1. /\ MoveTo(f, "dropped") /\ UNCHANGED <<threads, active_threads>>
      BY <1>9 DEF StartFails, f
    <2>0. \A s \in 1..active_threads' : threads'[s] \in Files
      BY <2>1 DEF IInv, Bookkeeping
    <2>2. TypeOK' BY <1>1, <1>2, <1>3, <1>4, <2>0, <2>1 DEF IInv, TypeOK
    <2>3. \A g \in Files : Unjoined(g)' <=> Unjoined(g)
      BY <1>2, <1>4, <2>0, <2>1 DEF Unjoined
    <2>4. SlotsHoldUnjoined'
      BY <1>1, <1>6, <2>1, <2>3 DEF SlotsHoldUnjoined, OpenSlots
    <2> QED BY <1>4, <1>5, <2>0, <2>1, <2>2, <2>4 DEF IInv
  <1> QED BY <1>8, <1>9
(***************************************************************************)
(* Joining.                                                                *)
(***************************************************************************)
\* main moves on between two places where it waits for nothing.
LEMMA MovesIInv ==
  ASSUME IInv, AllBusy \/ NoneFinished \/ NoMoreFiles \/ EndJoin \/ PrintLists
  PROVE  IInv'
  <1>1. TypeOK'
    BY DEF IInv, TypeOK, AllBusy, NoneFinished, NoMoreFiles, EndJoin, PrintLists, stats
  <1>2. OpenSlots' = OpenSlots
    BY DEF IInv, TypeOK, OpenSlots, AllBusy, NoneFinished, NoMoreFiles, EndJoin, PrintLists
  <1>3. SlotsHoldUnjoined'
    BY <1>2, SameSlots DEF AllBusy, NoneFinished, NoMoreFiles, EndJoin, PrintLists
  <1>4. Bookkeeping'
    BY DEF IInv, TypeOK, Bookkeeping, CurrentLine, SlotFree,
           AllBusy, NoneFinished, NoMoreFiles, EndJoin, PrintLists
  <1>5. ReadyToPrint'
    <2>1. CASE EndJoin
      <3>1. /\ OpenSlots = i..active_threads /\ i > active_threads /\ files = <<>>
            /\ pc = "join" /\ worker' = worker
            /\ i \in Nat /\ active_threads \in Nat
        BY <2>1 DEF IInv, TypeOK, Bookkeeping, EndJoin, OpenSlots
      <3>2. \A f \in Files : ~Unjoined(f)
        BY <3>1 DEF IInv, SlotsHoldUnjoined
      <3>3. \A f \in Files : worker[f].pc # "none"
        BY <3>1 DEF IInv, Bookkeeping
      <3> QED BY <3>1, <3>2, <3>3 DEF ReadyToPrint, Unjoined
    <2>2. CASE PrintLists BY <2>2 DEF IInv, ReadyToPrint, PrintLists
    <2> QED BY <2>1, <2>2 DEF ReadyToPrint, AllBusy, NoneFinished, NoMoreFiles
  <1> QED BY <1>1, <1>3, <1>4, <1>5 DEF IInv

\* What a join changes of the threads: the joined one only.
LEMMA Joined ==
  ASSUME IInv, NEW f \in Files, worker[f].pc = "exited", MoveTo(f, "joined")
  PROVE  /\ worker' \in [Files -> [pc : Places, next : Nat \ {0}, hit : BOOLEAN]]
         /\ worker'[f].pc = "joined"
         /\ \A g \in Files \ {f} : worker'[g] = worker[g]
         /\ \A g \in Files : worker'[g].pc = "none" <=> worker[g].pc = "none"
         /\ \A g \in Files : worker'[g].pc \in {"parsed"} \cup InBooks =>
               worker'[g].next <= Len(Content[g])
               /\ Content[g][worker'[g].next] # Skipped
  <1>1. /\ worker \in [Files -> [pc : Places, next : Nat \ {0}, hit : BOOLEAN]]
        /\ worker' = [worker EXCEPT ![f] = [worker[f] EXCEPT !.pc = "joined"]]
    BY DEF IInv, TypeOK, MoveTo
  <1>2. /\ [worker[f] EXCEPT !.pc = "joined"] \in
              [pc : Places, next : Nat \ {0}, hit : BOOLEAN]
        /\ [worker[f] EXCEPT !.pc = "joined"].pc = "joined"
    BY <1>1 DEF Places
  <1>3. /\ worker' \in [Files -> [pc : Places, next : Nat \ {0}, hit : BOOLEAN]]
        /\ worker'[f].pc = "joined"
        /\ \A g \in Files \ {f} : worker'[g] = worker[g]
    BY <1>1, <1>2
  <1>5. \A g \in Files : worker'[g].pc = "none" <=> worker[g].pc = "none"
    BY <1>3
  <1>6. \A g \in Files : worker'[g].pc \in {"parsed"} \cup InBooks =>
           worker'[g].next <= Len(Content[g])
           /\ Content[g][worker'[g].next] # Skipped
    BY <1>3 DEF IInv, Bookkeeping, CurrentLine, InBooks
  <1> QED BY <1>3, <1>5, <1>6

\* pthread_tryjoin_np succeeds and the slots behind close up.
LEMMA ReapIInv ==
  ASSUME IInv, TryJoin, worker[threads[i]].pc = "exited" PROVE IInv'
  <1> DEFINE A == active_threads
  <1>1. /\ pc = "reap" /\ pc' = "next" /\ i' = i /\ i <= A
        /\ threads' = CloseGap(i) /\ active_threads' = A - 1
        /\ files' = files /\ lock' = lock /\ total_bytes' = total_bytes
        /\ MoveTo(threads[i], "joined")
    BY DEF TryJoin, stats
  <1>2. /\ i \in Nat \ {0} /\ A \in Nat /\ A <= num_threads /\ i \in 1..A
        /\ threads \in [1..num_threads -> Files \cup {NoThread}]
        /\ OpenSlots = 1..A /\ OpenSlots' = 1..A - 1
    BY <1>1 DEF IInv, TypeOK, OpenSlots
  <1>3. /\ \A g \in Files : Unjoined(g) <=> \E s \in 1..A : threads[s] = g
        /\ \A s, t \in 1..A : threads[s] = threads[t] => s = t
    BY <1>2 DEF IInv, SlotsHoldUnjoined
  <1>4. \A s \in 1..A : threads[s] \in Files
    BY <1>1, <1>2 DEF IInv, Bookkeeping
  <1>5. PICK f \in Files : f = threads[i] BY <1>2, <1>4
  <1>6. worker[f].pc = "exited" /\ MoveTo(f, "joined") BY <1>1, <1>5
  <1>7. /\ threads' \in [1..num_threads -> Files \cup {NoThread}]
        /\ \A s \in 1..A - 1 : threads'[s] = IF s >= i THEN threads[s + 1]
                                               ELSE threads[s]
    BY <1>1, <1>2 DEF CloseGap
  <1>8. TypeOK'
    <2>1. worker' \in [Files -> [pc : Places, next : Nat \ {0}, hit : BOOLEAN]]
      BY <1>6, Joined
    <2> QED BY <1>1, <1>2, <1>7, <2>1 DEF IInv, TypeOK
  <1>9. \A s, t \in 1..A - 1 : threads'[s] = threads'[t] => s = t
    <2>1. \A s \in 1..A - 1 : s \in 1..A /\ s + 1 \in 1..A BY <1>2
    <2> QED BY <1>2, <1>3, <1>7, <2>1
  <1>10. ASSUME NEW g \in Files
         PROVE  Unjoined(g)' <=> \E s \in 1..A - 1 : threads'[s] = g
    <2>1. ASSUME NEW s \in 1..A - 1, threads'[s] = g PROVE g # f /\ Unjoined(g)
      <3>1. PICK t \in 1..A : t # i /\ threads[t] = g
        BY <1>2, <1>7, <2>1
      <3> QED BY <1>2, <1>3, <1>5, <3>1
    <2>2. ASSUME g # f, Unjoined(g) PROVE \E s \in 1..A - 1 : threads'[s] = g
      <3>1. PICK t \in 1..A : threads[t] = g /\ t # i BY <1>3, <1>5, <2>2
      <3>2. CASE t < i BY <1>2, <1>7, <3>1, <3>2
      <3>3. CASE t > i
        <4>1. t - 1 \in 1..A - 1 /\ t - 1 >= i /\ (t - 1) + 1 = t BY <1>2, <3>3
        <4> QED BY <1>7, <3>1, <4>1
      <3> QED BY <1>2, <3>1, <3>2, <3>3
    <2>3. Unjoined(g)' <=> g # f /\ Unjoined(g)
      <3>1. CASE g = f BY <1>6, <3>1, Joined DEF Unjoined
      <3>2. CASE g # f
        <4>1. worker'[g] = worker[g] BY <1>6, <3>2, Joined
        <4> QED BY <3>2, <4>1 DEF Unjoined
      <3> QED BY <3>1, <3>2
    <2> QED BY <2>1, <2>2, <2>3
  <1>11. SlotsHoldUnjoined' BY <1>2, <1>9, <1>10 DEF SlotsHoldUnjoined
  <1>12. ReadyToPrint' BY <1>1 DEF ReadyToPrint
  <1>13. Bookkeeping'
    <2>1. /\ \A g \in Files : worker'[g].pc = "none" <=> worker[g].pc = "none"
          /\ \A g \in Files : worker'[g].pc \in {"parsed"} \cup InBooks =>
                worker'[g].next <= Len(Content[g])
                /\ Content[g][worker'[g].next] # Skipped
      BY <1>6, Joined
    <2>2. \A s \in 1..A - 1 : threads'[s] \in Files
      <3>1. \A s \in 1..A - 1 : s \in 1..A /\ s + 1 \in 1..A BY <1>2
      <3> QED BY <1>4, <1>7, <3>1
    <2> QED BY <1>1, <2>1, <2>2 DEF IInv, Bookkeeping, CurrentLine
  <1> QED BY <1>8, <1>11, <1>12, <1>13 DEF IInv

\* pthread_join at the end.
LEMMA JoinIInv == ASSUME IInv, JoinNext PROVE IInv'
  <1> DEFINE A == active_threads
  <1>1. /\ pc = "join" /\ pc' = pc /\ i' = i + 1 /\ i <= A /\ threads' = threads
        /\ active_threads' = A /\ files' = files /\ lock' = lock
        /\ total_bytes' = total_bytes /\ worker[threads[i]].pc = "exited"
        /\ MoveTo(threads[i], "joined")
    BY DEF JoinNext, stats
  <1>2. /\ i \in Nat \ {0} /\ A \in Nat /\ A <= num_threads /\ i \in i..A
        /\ OpenSlots = i..A /\ OpenSlots' = i + 1..A
        /\ \A s \in i..A : s = i \/ s \in i + 1..A
        /\ \A s \in i + 1..A : s # i /\ s \in i..A
    BY <1>1 DEF IInv, TypeOK, OpenSlots
  <1>3. /\ \A g \in Files : Unjoined(g) <=> \E s \in i..A : threads[s] = g
        /\ \A s, t \in i..A : threads[s] = threads[t] => s = t
    BY <1>2 DEF IInv, SlotsHoldUnjoined
  <1>4. PICK f \in Files : f = threads[i]
    BY <1>1, <1>2 DEF IInv, Bookkeeping
  <1>5. worker[f].pc = "exited" /\ MoveTo(f, "joined") BY <1>1, <1>4
  <1>6. TypeOK'
    <2>1. worker' \in [Files -> [pc : Places, next : Nat \ {0}, hit : BOOLEAN]]
      BY <1>5, Joined
    <2> QED BY <1>1, <1>2, <2>1 DEF IInv, TypeOK
  <1>7. ASSUME NEW g \in Files
        PROVE  Unjoined(g)' <=> \E s \in i + 1..A : threads[s] = g
    <2>1. Unjoined(g)' <=> g # f /\ Unjoined(g)
      <3>1. CASE g = f BY <1>5, <3>1, Joined DEF Unjoined
      <3>2. CASE g # f
        <4>1. worker'[g] = worker[g] BY <1>5, <3>2, Joined
        <4> QED BY <3>2, <4>1 DEF Unjoined
      <3> QED BY <3>1, <3>2
    <2>2. CASE g = f BY <1>2, <1>3, <1>4, <2>1, <2>2
    <2>3. CASE g # f BY <1>2, <1>3, <1>4, <2>1, <2>3
    <2> QED BY <2>2, <2>3
  <1>8. SlotsHoldUnjoined' BY <1>1, <1>2, <1>3, <1>7 DEF SlotsHoldUnjoined
  <1>9. ReadyToPrint' BY <1>1 DEF ReadyToPrint
  <1>10. Bookkeeping'
    <2>1. /\ \A g \in Files : worker'[g].pc = "none" <=> worker[g].pc = "none"
          /\ \A g \in Files : worker'[g].pc \in {"parsed"} \cup InBooks =>
                worker'[g].next <= Len(Content[g])
                /\ Content[g][worker'[g].next] # Skipped
      BY <1>5, Joined
    <2> QED BY <1>1, <1>2, <2>1 DEF IInv, Bookkeeping, CurrentLine
  <1> QED BY <1>6, <1>8, <1>9, <1>10 DEF IInv

(***************************************************************************)
(* The theorems.                                                           *)
(***************************************************************************)
\* Every step of main or of a thread preserves the invariant.
LEMMA NextIInv == IInv /\ [Next]_vars => IInv'
  <1> SUFFICES ASSUME IInv, [Next]_vars PROVE IInv' OBVIOUS
  <1>1. CASE UNCHANGED vars
    BY <1>1 DEF IInv, TypeOK, SlotsHoldUnjoined, ReadyToPrint, Bookkeeping,
                OpenSlots, Unjoined, CurrentLine, vars, mainVars, stats
  <1>2. CASE \E f \in Files : Worker(f) BY <1>2, WorkerIInv
  <1>3. CASE (\E f \in Files : ScanEntry(f)) \/ EndScan BY <1>3, ScanIInv
  <1>4. CASE StartThread \/ StartFails BY <1>4, StartIInv
  <1>5. CASE AllBusy \/ NoneFinished \/ NoMoreFiles \/ EndJoin \/ PrintLists
    BY <1>5, MovesIInv
  <1>6. CASE JoinNext BY <1>6, JoinIInv
  <1>7. CASE TryJoin
    <2>1. CASE worker[threads[i]].pc = "exited" BY <1>7, <2>1, ReapIInv
    <2>2. CASE worker[threads[i]].pc # "exited"
      <3>1. /\ i' = i + 1 /\ pc = "reap" /\ i <= active_threads
            /\ UNCHANGED <<pc, files, threads, active_threads, worker, lock, total_bytes>>
        BY <1>7, <2>2 DEF TryJoin, stats
      <3>2. TypeOK' /\ Bookkeeping'
        BY <3>1 DEF IInv, TypeOK, Bookkeeping, CurrentLine
      <3>3. OpenSlots' = OpenSlots BY <3>1 DEF OpenSlots
      <3>4. SlotsHoldUnjoined' BY <3>1, <3>3, SameSlots
      <3>5. ReadyToPrint' BY <3>1 DEF ReadyToPrint
      <3> QED BY <3>2, <3>4, <3>5 DEF IInv
    <2> QED BY <2>1, <2>2
  <1> QED BY <1>1, <1>2, <1>3, <1>4, <1>5, <1>6, <1>7 DEF Next, Main

\* The invariant holds of every execution, for any files, any lines in them and
\* any number of slots.
THEOREM InvariantHolds == Spec => []IInv
  BY InitIInv, NextIInv, PTL DEF Spec

\* Every variable keeps its type: no slot beyond num_threads is used, and the
\* total stays below Word.
THEOREM TypeCorrect == Spec => []TypeOK
  <1>1. IInv => TypeOK BY DEF IInv
  <1> QED BY <1>1, InvariantHolds, PTL

\* threads[0..active_threads) is at all times exactly the set of threads still
\* to be joined, so none is joined twice and none forgotten.
THEOREM JoinedOnce == Spec => []SlotsHoldUnjoined
  <1>1. IInv => SlotsHoldUnjoined BY DEF IInv
  <1> QED BY <1>1, InvariantHolds, PTL

\* The tables are printed and destroyed only when no thread is left to touch
\* them and none of the files was lost.
THEOREM PrintsWhenReady == Spec => []ReadyToPrint
  <1>1. IInv => ReadyToPrint BY DEF IInv
  <1> QED BY <1>1, InvariantHolds, PTL

-----------------------------------------------------------------------------
(* Arithmetic *)

\* A remainder is the only number below the divisor that differs from the
\* dividend by a multiple of it.
LEMMA RemainderIs ==
    ASSUME NEW x \in Nat, NEW k \in Nat, NEW r \in 0..Word - 1, x = Word * k + r
    PROVE  x % Word = r
<1> DEFINE q == x \div Word
           m == x % Word
<1>1. q \in Int /\ m \in 0..Word - 1 /\ x = Word * q + m
  OBVIOUS
<1> HIDE DEF q, m
<1>2. Word \in Nat \ {0}
  OBVIOUS
<1>3. Word * (q - k) = r - m
  BY <1>1, <1>2
<1>4. q - k < 1
  <2>1. SUFFICES ASSUME q - k >= 1 PROVE FALSE
    BY <1>1
  <2>2. Word * (q - k) >= Word
    BY <1>1, <1>2, <2>1
  <2>. QED
    BY <1>1, <1>2, <1>3, <2>2
<1>5. q - k > -1
  <2>1. SUFFICES ASSUME q - k <= -1 PROVE FALSE
    BY <1>1
  <2>2. Word * (q - k) <= -Word
    BY <1>1, <1>2, <2>1
  <2>. QED
    BY <1>1, <1>2, <1>3, <2>2
<1>6. q = k
  BY <1>1, <1>4, <1>5
<1>7. m = r
  BY <1>1, <1>2, <1>3, <1>6
<1>. QED
  BY <1>7 DEF m

\* A number is a multiple of the divisor and its remainder.
LEMMA Divided ==
    ASSUME NEW x \in Nat
    PROVE  \E q \in Nat : x = Word * q + (x % Word) /\ x % Word \in 0..Word - 1
<1>1. x \div Word \in Nat /\ x = Word * (x \div Word) + (x % Word) /\ x % Word \in 0..Word - 1
  OBVIOUS
<1>. QED
  BY <1>1

\* Sums may wrap at every addition or once at the end.
LEMMA WrapOnce ==
    ASSUME NEW x \in Nat, NEW y \in Nat
    PROVE  ((x % Word) + y) % Word = (x + y) % Word
<1> DEFINE m == x % Word
           z == m + y
           r == z % Word
<1>1. PICK q \in Nat : x = Word * q + m /\ m \in 0..Word - 1
  BY Divided
<1>2. z \in Nat
  BY <1>1
<1>3. PICK p \in Nat : z = Word * p + r /\ r \in 0..Word - 1
  BY <1>2, Divided
<1>4. Word \in Nat /\ Word * q \in Nat /\ Word * p \in Nat /\ Word * (q + p) = Word * q + Word * p
  OBVIOUS
<1>5. x + y = Word * q + z
  <2>1. z = m + y
    OBVIOUS
  <2> HIDE DEF m, z
  <2>. QED
    BY <1>1, <1>4, <2>1
<1> HIDE DEF m, z, r
<1>6. x + y = Word * (q + p) + r
  BY <1>2, <1>3, <1>4, <1>5
<1> DEFINE k == q + p
           w == x + y
<1>7. k \in Nat /\ w \in Nat /\ w = Word * k + r
  BY <1>6
<1> HIDE DEF k, w
<1>8. w % Word = r
  BY <1>3, <1>7, RemainderIs
<1>. QED
  BY <1>8 DEF w, r, z, m

-----------------------------------------------------------------------------
(* The lines, and the tables made of some of them *)

\* The lines that are not skipped, as pairs of a file and an index.
Entries ==
    {l \in Files \X (Nat \ {0}) :
       l[2] <= Len(Content[l[1]]) /\ Content[l[1]][l[2]] # Skipped}

Url(l) == Content[l[1]][l[2]].url
Referer(l) == Content[l[1]][l[2]].referer
Bytes == [l \in Entries |-> strtoull(Content[l[1]][l[2]].bytes)]

WithUrl(P, u) == {l \in P : Url(l) = u}
WithReferer(P, r) == {l \in P : Referer(l) = r}

UrlTable(P) == [u \in {Url(l) : l \in P} |-> BytesOf(WithUrl(P, u))]
RefererTable(P) ==
    [r \in {Referer(l) : l \in P} \ {NoReferer} |-> Cardinality(WithReferer(P, r))]

LEMMA EntryIs ==
    ASSUME NEW l \in Entries
    PROVE  /\ l[1] \in Files /\ l[2] \in Nat \ {0} /\ l = <<l[1], l[2]>>
           /\ Content[l[1]][l[2]] \in Line /\ Bytes[l] \in 0..Word - 1
<1>1. l[1] \in Files /\ l[2] \in Nat \ {0} /\ l = <<l[1], l[2]>>
      /\ l[2] <= Len(Content[l[1]]) /\ Content[l[1]][l[2]] # Skipped
  BY DEF Entries
<1>2. Content[l[1]] \in Seq(Line \cup {Skipped})
  BY <1>1
<1>3. Content[l[1]][l[2]] \in Line \cup {Skipped}
  <2>1. l[2] \in 1..Len(Content[l[1]])
    BY <1>1, <1>2
  <2>. QED
    BY <1>2, <2>1, ElementOfSeq
<1>4. Content[l[1]][l[2]].bytes \in Nat
  BY <1>1, <1>3 DEF Line
<1>5. strtoull(Content[l[1]][l[2]].bytes) \in 0..Word - 1
  BY <1>4 DEF strtoull
<1>. QED
  BY <1>1, <1>3, <1>5 DEF Bytes

\* One of the files is the longest.
LEMMA LengthsBounded == \E n \in Nat : \A f \in Files : Len(Content[f]) <= n
<1> DEFINE P == {T \in SUBSET Files : \E n \in Nat : \A f \in T : Len(Content[f]) <= n}
<1>1. {} \in P
  OBVIOUS
<1>2. ASSUME NEW T \in SUBSET Files, NEW x \in Files, T \in P PROVE T \cup {x} \in P
  <2>1. PICK n \in Nat : \A f \in T : Len(Content[f]) <= n
    BY <1>2
  <2>2. Len(Content[x]) \in Nat /\ \A f \in T : Len(Content[f]) \in Nat
    BY LenProperties
  <2> DEFINE m == n + Len(Content[x])
  <2>3. m \in Nat /\ \A f \in T \cup {x} : Len(Content[f]) <= m
    BY <2>1, <2>2
  <2> HIDE DEF m
  <2>. QED
    BY <2>3
<1> HIDE DEF P
<1>3. \A T \in SUBSET Files : T \in P
  BY <1>1, <1>2, FilesAssumption, SetInduction
<1>4. Files \in P
  BY <1>3
<1>. QED
  BY <1>4 DEF P

LEMMA EntriesFinite == IsFiniteSet(Entries)
<1>1. PICK n \in Nat : \A f \in Files : Len(Content[f]) <= n
  BY LengthsBounded
<1>2. IsFiniteSet(Files \X (1..n))
  <2>1. IsFiniteSet(1..n)
    BY FS_Interval
  <2>. QED
    BY <2>1, FilesAssumption, FS_Product
<1>3. \A l \in Entries : l \in Files \X (1..n)
  <2>1. \A f \in Files : Len(Content[f]) \in Nat
    BY LenProperties
  <2>. QED
    BY <1>1, <2>1 DEF Entries
<1>. QED
  BY <1>2, <1>3, FS_Subset

LEMMA PassedIs == Passed = {l \in Entries : l[2] < worker[l[1]].next}
<1> DEFINE T == {Len(Content[g]) : g \in Files} \cup {0}
<1>1. PICK n \in Nat : \A f \in Files : Len(Content[f]) <= n
  BY LengthsBounded
<1>2. \A f \in Files : Len(Content[f]) \in Nat
  BY LenProperties
<1>3. T \in SUBSET Nat /\ T # {} /\ (\A x \in T : x <= n) /\ \A f \in Files : Len(Content[f]) \in T
  BY <1>1, <1>2
<1> HIDE DEF T
<1> DEFINE m == Max(T)
<1>4. m \in Nat /\ \A f \in Files : Len(Content[f]) <= m
  BY <1>3, MaxIs
<1> HIDE DEF m
<1>5. Passed = {l \in {<<f, k>> : f \in Files, k \in 1..m} :
                  /\ l[2] < worker[l[1]].next /\ l[2] <= Len(Content[l[1]])
                  /\ Content[l[1]][l[2]] # Skipped}
  BY DEF Passed, m, T
<1>6. ASSUME NEW l PROVE l \in Passed <=> l \in {e \in Entries : e[2] < worker[e[1]].next}
  <2>1. ASSUME l \in Passed PROVE l \in Entries /\ l[2] < worker[l[1]].next
    BY <1>4, <1>5, <2>1 DEF Entries
  <2>2. ASSUME l \in Entries, l[2] < worker[l[1]].next PROVE l \in Passed
    <3>1. l[1] \in Files /\ l[2] \in Nat \ {0} /\ l = <<l[1], l[2]>>
          /\ l[2] <= Len(Content[l[1]]) /\ Content[l[1]][l[2]] # Skipped
      BY <2>2 DEF Entries
    <3>2. l[2] \in 1..m
      BY <1>2, <1>4, <3>1
    <3>3. l \in {<<f, k>> : f \in Files, k \in 1..m}
      BY <3>1, <3>2
    <3>. QED
      BY <1>5, <2>2, <3>1, <3>3
  <2>. QED
    BY <2>1, <2>2
<1>. QED
  BY <1>6

LEMMA BytesIs ==
    ASSUME NEW P \in SUBSET Entries
    PROVE  BytesOf(P) = Total(Bytes, P) % Word /\ Total(Bytes, P) \in Nat
<1> DEFINE bytes == [l \in P |-> strtoull(Content[l[1]][l[2]].bytes)]
<1>1. IsFiniteSet(P)
  BY EntriesFinite, FS_Subset
<1>2. \A l \in P : Bytes[l] \in Nat /\ bytes[l] \in Int /\ bytes[l] = Bytes[l]
  <2>1. \A l \in P : Bytes[l] \in Nat
    BY EntryIs
  <2>2. \A l \in P : Bytes[l] = strtoull(Content[l[1]][l[2]].bytes)
    BY DEF Bytes
  <2>3. \A l \in P : bytes[l] = strtoull(Content[l[1]][l[2]].bytes)
    OBVIOUS
  <2> HIDE DEF bytes
  <2>. QED
    BY <2>1, <2>2, <2>3
<1>3. BytesOf(P) = Total(bytes, P) % Word
  BY DEF BytesOf, Total
<1> HIDE DEF bytes
<1>4. Total(bytes, P) = Total(Bytes, P)
  BY <1>1, <1>2, TotalEqual
<1>5. Total(Bytes, P) \in Nat
  BY <1>1, <1>2, TotalNat
<1>. QED
  BY <1>3, <1>4, <1>5

LEMMA BytesAdded ==
    ASSUME NEW P \in SUBSET Entries, NEW c \in Entries, c \notin P
    PROVE  /\ BytesOf(P \cup {c}) = (BytesOf(P) + Bytes[c]) % Word
           /\ BytesOf({}) = 0 /\ BytesOf({c}) = Bytes[c]
<1> DEFINE Q == P \cup {c}
           x == Total(Bytes, P)
<1>1. Q \in SUBSET Entries
  OBVIOUS
<1>2. \A l \in Entries : Bytes[l] \in Int
  BY EntryIs
<1>3. Total(Bytes, P \cup {c}) = Bytes[c] + Total(Bytes, P)
  BY <1>2, EntriesFinite, TotalAdd
<1>4. x \in Nat /\ Bytes[c] \in 0..Word - 1
  BY BytesIs, EntryIs
<1>5. BytesOf(P) = x % Word
  BY BytesIs
<1>6. BytesOf(Q) = (Bytes[c] + x) % Word
  <2>1. BytesOf(Q) = Total(Bytes, Q) % Word
    BY <1>1, BytesIs
  <2>. QED
    BY <1>3, <2>1
<1>7. BytesOf({}) = 0
  <2>1. Total(Bytes, {}) = 0
    BY TotalEmpty
  <2>2. BytesOf({}) = Total(Bytes, {}) % Word
    BY BytesIs
  <2>3. 0 % Word = 0
    BY RemainderIs
  <2>. QED
    BY <2>1, <2>2, <2>3
<1>8. BytesOf({c}) = Bytes[c]
  <2> DEFINE E == {}
  <2>a. E \in SUBSET Entries /\ c \notin E
    OBVIOUS
  <2> HIDE DEF E
  <2>b. Total(Bytes, E \cup {c}) = Bytes[c] + Total(Bytes, E)
    BY <1>2, <2>a, EntriesFinite, TotalAdd
  <2>1. Total(Bytes, {} \cup {c}) = Bytes[c] + Total(Bytes, {})
    BY <2>b DEF E
  <2>2. {} \cup {c} = {c}
    OBVIOUS
  <2>3. Total(Bytes, {c}) = Bytes[c] + 0
    BY <2>1, <2>2, TotalEmpty
  <2>4. BytesOf({c}) = Total(Bytes, {c}) % Word
    BY BytesIs
  <2> DEFINE b == Bytes[c]
  <2> HIDE DEF b
  <2>5. b \in Nat /\ b \in 0..Word - 1
    BY <1>4 DEF b
  <2>6. b % Word = b
    <3>1. b = Word * 0 + b
      BY <2>5
    <3>. QED
      BY <2>5, <3>1, RemainderIs
  <2>7. b + 0 = b
    BY <2>5
  <2>. QED
    BY <2>3, <2>4, <2>6, <2>7 DEF b
<1> HIDE DEF Q, x
<1>9. (Bytes[c] + x) % Word = ((x % Word) + Bytes[c]) % Word
  <2>1. Bytes[c] + x = x + Bytes[c] /\ Bytes[c] \in Nat
    BY <1>4
  <2>2. ((x % Word) + Bytes[c]) % Word = (x + Bytes[c]) % Word
    BY <1>4, <2>1, WrapOnce
  <2>. QED
    BY <2>1, <2>2
<1>. QED
  BY <1>5, <1>6, <1>7, <1>8, <1>9 DEF Q

LEMMA WithAdded ==
    ASSUME NEW P, NEW c, c \notin P, NEW u
    PROVE  /\ Url(c) = u => WithUrl(P \cup {c}, u) = WithUrl(P, u) \cup {c}
           /\ Url(c) # u => WithUrl(P \cup {c}, u) = WithUrl(P, u)
           /\ Referer(c) = u => WithReferer(P \cup {c}, u) = WithReferer(P, u) \cup {c}
           /\ Referer(c) # u => WithReferer(P \cup {c}, u) = WithReferer(P, u)
           /\ c \notin WithUrl(P, u) /\ c \notin WithReferer(P, u)
  BY DEF WithUrl, WithReferer

\* A line more adds its bytes to those of its url.
LEMMA UrlAdded ==
    ASSUME NEW P \in SUBSET Entries, NEW c \in Entries, c \notin P
    PROVE  UrlTable(P \cup {c}) =
             Put(UrlTable(P), Url(c),
                 IF Url(c) \in DOMAIN UrlTable(P)
                 THEN (UrlTable(P)[Url(c)] + Bytes[c]) % Word ELSE Bytes[c])
<1> DEFINE u == Url(c)
           Q == P \cup {c}
           K == {Url(l) : l \in P}
           t == UrlTable(P)
           value == IF u \in DOMAIN t THEN (t[u] + Bytes[c]) % Word ELSE Bytes[c]
<1>1. DOMAIN t = K /\ \A k \in K : t[k] = BytesOf(WithUrl(P, k))
  BY DEF UrlTable
<1>2. {Url(l) : l \in Q} = K \cup {u}
  OBVIOUS
<1>3. WithUrl(P, u) \in SUBSET Entries /\ c \notin WithUrl(P, u)
  BY DEF WithUrl
<1>4. BytesOf(WithUrl(Q, u)) = value
  <2>1. WithUrl(Q, u) = WithUrl(P, u) \cup {c}
    BY WithAdded
  <2>2. CASE u \in K
    <3>1. BytesOf(WithUrl(P, u) \cup {c}) = (BytesOf(WithUrl(P, u)) + Bytes[c]) % Word
      BY <1>3, BytesAdded
    <3>. QED
      BY <1>1, <2>1, <2>2, <3>1
  <2>3. CASE u \notin K
    <3>1. WithUrl(P, u) = {}
      BY <2>3 DEF WithUrl
    <3>2. BytesOf({c}) = Bytes[c]
      BY BytesAdded
    <3>. QED
      BY <1>1, <2>1, <2>3, <3>1, <3>2
  <2>. QED
    BY <2>2, <2>3
<1>5. \A k : k # u => BytesOf(WithUrl(Q, k)) = BytesOf(WithUrl(P, k))
  BY WithAdded
<1>6. UrlTable(Q) = [k \in {Url(l) : l \in Q} |-> BytesOf(WithUrl(Q, k))]
  BY DEF UrlTable
<1>7. Put(t, u, value) = [k \in K \cup {u} |-> IF k = u THEN value ELSE t[k]]
  BY <1>1 DEF Put
<1> HIDE DEF u, Q, K, t, value
<1>8. \A k \in K \cup {u} : BytesOf(WithUrl(Q, k)) = IF k = u THEN value ELSE t[k]
  BY <1>1, <1>4, <1>5
<1>9. UrlTable(Q) = Put(t, u, value)
  BY <1>2, <1>6, <1>7, <1>8
<1>. QED
  BY <1>9 DEF u, Q, t, value

LEMMA RefererJoins ==
    ASSUME NEW P, NEW c
    PROVE  WithReferer(P \cup {c}, Referer(c)) = WithReferer(P, Referer(c)) \cup {c}
BY DEF WithReferer

\* A line more is counted for its referer, if it has one.
LEMMA RefererAdded ==
    ASSUME NEW P \in SUBSET Entries, NEW c \in Entries, c \notin P
    PROVE  RefererTable(P \cup {c}) =
             IF Referer(c) = NoReferer THEN RefererTable(P)
             ELSE Counted(RefererTable(P), Referer(c))
<1> DEFINE r == Referer(c)
           Q == P \cup {c}
           K == {Referer(l) : l \in P} \ {NoReferer}
           t == RefererTable(P)
           value == IF r \in DOMAIN t THEN t[r] + 1 ELSE 1
<1>1. DOMAIN t = K /\ \A k \in K : t[k] = Cardinality(WithReferer(P, k))
  BY DEF RefererTable
<1>2. {Referer(l) : l \in Q} \ {NoReferer} = IF r = NoReferer THEN K ELSE K \cup {r}
  OBVIOUS
<1>3. IsFiniteSet(WithReferer(P, r)) /\ c \notin WithReferer(P, r)
  <2>1. WithReferer(P, r) \in SUBSET Entries /\ c \notin WithReferer(P, r)
    BY DEF WithReferer
  <2>. QED
    BY <2>1, EntriesFinite, FS_Subset
<1>4. r # NoReferer => Cardinality(WithReferer(Q, r)) = value
  <2>. SUFFICES ASSUME r # NoReferer PROVE Cardinality(WithReferer(Q, r)) = value
    OBVIOUS
  <2>1. WithReferer(Q, r) = WithReferer(P, r) \cup {c}
    BY RefererJoins
  <2>2. Cardinality(WithReferer(P, r) \cup {c}) = Cardinality(WithReferer(P, r)) + 1
    BY <1>3, FS_AddElement
  <2>3. CASE r \in K
    BY <1>1, <2>1, <2>2, <2>3
  <2>4. CASE r \notin K
    <3>1. WithReferer(P, r) = {}
      BY <2>4 DEF WithReferer
    <3>2. Cardinality({}) + 1 = 1
      BY FS_EmptySet
    <3>. QED
      BY <1>1, <2>1, <2>2, <2>4, <3>1, <3>2
  <2>. QED
    BY <2>3, <2>4
<1>5. \A k : k # r => WithReferer(Q, k) = WithReferer(P, k)
  BY WithAdded
<1>6. RefererTable(Q) = [k \in {Referer(l) : l \in Q} \ {NoReferer} |-> Cardinality(WithReferer(Q, k))]
  BY DEF RefererTable
<1>7. RefererTable(P) = [k \in K |-> Cardinality(WithReferer(P, k))]
  BY DEF RefererTable
<1>8. Counted(t, r) = [k \in K \cup {r} |-> IF k = r THEN value ELSE t[k]]
  BY <1>1 DEF Counted, Put
<1> HIDE DEF r, Q, K, t, value
<1>9. CASE r = NoReferer
  <2>1. \A k \in K : k # r
    BY <1>9 DEF K
  <2>. QED
    BY <1>2, <1>5, <1>6, <1>7, <1>9, <2>1 DEF r, Q
<1>10. CASE r # NoReferer
  <2>1. \A k \in K \cup {r} : Cardinality(WithReferer(Q, k)) = IF k = r THEN value ELSE t[k]
    BY <1>1, <1>4, <1>5, <1>10
  <2>2. RefererTable(Q) = Counted(t, r)
    BY <1>2, <1>6, <1>8, <1>10, <2>1
  <2>. QED
    BY <1>10, <2>2 DEF r, Q, t
<1>. QED
  BY <1>9, <1>10

-----------------------------------------------------------------------------
(* The statistics *)

\* The lines being entered by the threads at these places.
Here(f) == <<f, worker[f].next>>
Entering(places) == {Here(f) : f \in {g \in Files : worker[g].pc \in places}}

\* Only the owner of the mutex is among the statistics; what it has entered of
\* its line, and what it found, agree with them.
Exclusive == \A f \in Files : worker[f].pc \in InBooks <=> lock = f

CountInv ==
    /\ Exclusive
    /\ \A f \in Files : worker[f].pc = "found" =>
          (worker[f].hit <=> CurrentLine(f).url \in DOMAIN url_traffic)
    /\ total_bytes = BytesOf(Passed \cup Entering({"found", "added"}))
    /\ url_traffic = UrlTable(Passed \cup Entering({"added"}))
    /\ referer_counts = RefererTable(Passed)

WorkerType == worker \in [Files -> [pc : Places, next : Nat \ {0}, hit : BOOLEAN]]

\* The line of a thread that has parsed one.
LEMMA HereIs ==
    ASSUME IInv, NEW f \in Files, worker[f].pc \in {"parsed"} \cup InBooks
    PROVE  /\ Here(f) \in Entries /\ Here(f) \notin Passed
           /\ Url(Here(f)) = CurrentLine(f).url /\ Referer(Here(f)) = CurrentLine(f).referer
           /\ Bytes[Here(f)] = strtoull(CurrentLine(f).bytes)
<1>1. /\ worker[f].next \in Nat \ {0} /\ worker[f].next <= Len(Content[f])
      /\ Content[f][worker[f].next] # Skipped
  BY DEF IInv, TypeOK, Bookkeeping, CurrentLine
<1>2. Here(f) \in Entries
  BY <1>1 DEF Entries, Here
<1>3. Here(f)[1] = f /\ Here(f)[2] = worker[f].next
  BY DEF Here
<1>4. ~(worker[f].next < worker[f].next)
  BY <1>1
<1>. QED
  BY <1>2, <1>3, <1>4, PassedIs DEF Url, Referer, Bytes, CurrentLine

OwnerEnters ==
    \A places \in SUBSET InBooks :
       /\ lock = NoThread => Entering(places) = {}
       /\ \A f \in Files : lock = f =>
             Entering(places) = IF worker[f].pc \in places THEN {Here(f)} ELSE {}

LEMMA EnteringIs == Exclusive => OwnerEnters
<1>. SUFFICES ASSUME Exclusive, NEW places \in SUBSET InBooks
              PROVE  /\ lock = NoThread => Entering(places) = {}
                     /\ \A f \in Files : lock = f =>
                           Entering(places) = IF worker[f].pc \in places THEN {Here(f)} ELSE {}
  BY DEF OwnerEnters
<1>1. \A f \in Files : worker[f].pc \in InBooks <=> lock = f
  BY DEF Exclusive
<1>2. \A f \in Files : f # NoThread
  OBVIOUS
<1>3. lock = NoThread => {g \in Files : worker[g].pc \in places} = {}
  BY <1>1, <1>2
<1>4. \A f \in Files : lock = f =>
         {g \in Files : worker[g].pc \in places} = IF worker[f].pc \in places THEN {f} ELSE {}
  BY <1>1
<1>. QED
  BY <1>3, <1>4 DEF Entering

LEMMA PassedEntries == Passed \in SUBSET Entries
  BY PassedIs

\* A step that moves no thread into, out of or within the critical section,
\* and passes at most skipped lines.
LEMMA Quiet ==
    ASSUME CountInv, UNCHANGED <<lock, stats>>, Passed' = Passed,
           \A f \in Files : /\ worker'[f].pc \in InBooks <=> worker[f].pc \in InBooks
                            /\ worker[f].pc \in InBooks => worker'[f] = worker[f]
    PROVE  CountInv'
<1>1. UNCHANGED <<lock, total_bytes, url_traffic, referer_counts>>
  BY DEF stats
<1>2. Exclusive'
  BY <1>1 DEF CountInv, Exclusive
<1>3. \A f \in Files : worker'[f].pc = "found" =>
         (worker'[f].hit <=> CurrentLine(f)'.url \in DOMAIN url_traffic')
  <2>. SUFFICES ASSUME NEW f \in Files, worker'[f].pc = "found"
                PROVE  worker'[f].hit <=> CurrentLine(f)'.url \in DOMAIN url_traffic'
    OBVIOUS
  <2>1. worker'[f] = worker[f]
    BY DEF InBooks
  <2>. QED
    BY <1>1, <2>1 DEF CountInv, CurrentLine
<1>4. ASSUME NEW places \in SUBSET InBooks PROVE Entering(places)' = Entering(places)
  <2>1. {g \in Files : worker'[g].pc \in places} = {g \in Files : worker[g].pc \in places}
    OBVIOUS
  <2>2. \A g \in Files : worker[g].pc \in places => Here(g)' = Here(g)
    BY DEF Here
  <2>. QED
    BY <2>1, <2>2 DEF Entering
<1>5. {"found", "added"} \in SUBSET InBooks /\ {"added"} \in SUBSET InBooks
  BY DEF InBooks
<1>6. Entering({"found", "added"})' = Entering({"found", "added"})
      /\ Entering({"added"})' = Entering({"added"})
  BY <1>4, <1>5
<1>7. total_bytes' = BytesOf(Passed \cup Entering({"found", "added"}))'
  BY <1>1, <1>6 DEF CountInv
<1>8. url_traffic' = UrlTable(Passed \cup Entering({"added"}))'
  BY <1>1, <1>6 DEF CountInv
<1>9. referer_counts' = RefererTable(Passed)'
  BY <1>1 DEF CountInv
<1>. QED
  BY <1>2, <1>3, <1>7, <1>8, <1>9 DEF CountInv

\* What is passed depends on the counters of lines alone.
LEMMA SamePassed ==
    ASSUME \A f \in Files : worker'[f].next = worker[f].next
    PROVE  Passed' = Passed
<1>1. \A l \in Entries : l[1] \in Files
  BY EntryIs
<1>2. (Passed = {l \in Entries : l[2] < worker[l[1]].next})'
  BY PassedIs, PTL
<1>. QED
  BY <1>1, <1>2, PassedIs

\* main only sees threads before their start and after their end.
LEMMA MainCounts == ASSUME IInv, CountInv, Main PROVE CountInv'
<1>0. WorkerType
  BY DEF IInv, TypeOK, WorkerType
<1>1. ASSUME NEW f \in Files, worker[f].pc \notin InBooks, NEW place, place \notin InBooks,
             MoveTo(f, place), UNCHANGED <<lock, stats>>
      PROVE  CountInv'
  <2>1. \A g \in Files : /\ worker'[g].next = worker[g].next
                         /\ worker'[g].pc = IF g = f THEN place ELSE worker[g].pc
                         /\ g # f => worker'[g] = worker[g]
    BY <1>0, <1>1 DEF MoveTo, WorkerType
  <2>2. Passed' = Passed
    BY <2>1, SamePassed
  <2>3. \A g \in Files : /\ worker'[g].pc \in InBooks <=> worker[g].pc \in InBooks
                         /\ worker[g].pc \in InBooks => worker'[g] = worker[g]
    BY <1>1, <2>1
  <2>. QED
    BY <1>1, <2>2, <2>3, Quiet
<1>2. ASSUME UNCHANGED <<worker, lock, stats>> PROVE CountInv'
  <2>1. Passed' = Passed
    BY <1>2, SamePassed
  <2>. QED
    BY <1>2, <2>1, Quiet
<1>3. {"none", "created", "dropped", "exited", "joined"} \cap InBooks = {}
  BY DEF InBooks
<1>4. CASE StartThread \/ StartFails
  <2>1. files # <<>> /\ files \in Seq(Files) /\ pc # "scan" /\ UNCHANGED <<lock, stats>>
    BY <1>4 DEF StartThread, StartFails, IInv, TypeOK
  <2>2. Head(files) \in Files /\ 1 \in DOMAIN files /\ files[1] = Head(files)
    BY <2>1
  <2>3. worker[Head(files)].pc = "none"
    BY <2>1, <2>2 DEF IInv, Bookkeeping
  <2>4. MoveTo(Head(files), "created") \/ MoveTo(Head(files), "dropped")
    BY <1>4 DEF StartThread, StartFails
  <2>. QED
    BY <1>1, <1>3, <2>1, <2>2, <2>3, <2>4
<1>5. CASE TryJoin \/ JoinNext
  <2>1. i <= active_threads /\ i \in 1..num_threads + 1 /\ active_threads \in 0..num_threads
        /\ UNCHANGED <<lock, stats>>
    BY <1>5 DEF TryJoin, JoinNext, IInv, TypeOK
  <2>2. threads[i] \in Files
    BY <2>1 DEF IInv, Bookkeeping
  <2>3. \/ worker[threads[i]].pc = "exited" /\ MoveTo(threads[i], "joined")
        \/ UNCHANGED worker
    BY <1>5 DEF TryJoin, JoinNext
  <2>. QED
    BY <1>1, <1>2, <1>3, <2>1, <2>2, <2>3
<1>6. CASE (\E f \in Files : ScanEntry(f)) \/ EndScan \/ AllBusy \/ NoneFinished
           \/ NoMoreFiles \/ EndJoin \/ PrintLists
  BY <1>2, <1>6 DEF ScanEntry, EndScan, AllBusy, NoneFinished, NoMoreFiles, EndJoin, PrintLists
<1>. QED
  BY <1>4, <1>5, <1>6 DEF Main

\* A thread that leaves its line behind passes it.
LEMMA LinePassed ==
    ASSUME IInv, NEW f \in Files, worker[f].pc \in {"reading"} \cup InBooks,
           worker[f].next <= Len(Content[f]),
           worker'[f].next = worker[f].next + 1,
           \A g \in Files \ {f} : worker'[g].next = worker[g].next
    PROVE  Passed' = IF CurrentLine(f) = Skipped THEN Passed ELSE Passed \cup {Here(f)}
<1> DEFINE n == worker[f].next
<1>1. n \in Nat \ {0}
  BY DEF IInv, TypeOK
<1>2. (Passed = {l \in Entries : l[2] < worker[l[1]].next})'
  BY PassedIs, PTL
<1>3. ASSUME NEW l \in Entries
      PROVE  l[2] < worker'[l[1]].next <=> l[2] < worker[l[1]].next \/ l = <<f, n>>
  <2>1. l[1] \in Files /\ l[2] \in Nat /\ l = <<l[1], l[2]>>
    BY EntryIs
  <2>2. CASE l[1] = f
    <3>1. l = <<f, n>> <=> l[2] = n
      BY <2>1, <2>2
    <3>2. worker'[l[1]].next = n + 1 /\ worker[l[1]].next = n
      BY <2>2
    <3> HIDE DEF n
    <3>3. l[2] < n + 1 <=> l[2] < n \/ l[2] = n
      BY <1>1, <2>1
    <3>. QED
      BY <3>1, <3>2, <3>3
  <2>3. CASE l[1] # f
    BY <2>1, <2>3
  <2>. QED
    BY <2>2, <2>3
<1>4. <<f, n>> \in Entries <=> CurrentLine(f) # Skipped
  BY <1>1 DEF Entries, CurrentLine
<1>5. Here(f) = <<f, n>>
  BY DEF Here
<1>6. Passed' = {l \in Entries : l[2] < worker[l[1]].next} \cup {l \in Entries : l = <<f, n>>}
  BY <1>2, <1>3
<1>. QED
  BY <1>4, <1>5, <1>6, PassedIs

LEMMA WorkerCounts == ASSUME IInv, CountInv, NEW f \in Files, Worker(f) PROVE CountInv'
<1>0. WorkerType /\ worker[f] \in [pc : Places, next : Nat \ {0}, hit : BOOLEAN] /\ f # NoThread
  BY DEF IInv, TypeOK, WorkerType
<1> DEFINE w == worker'[f]
<1>1. ASSUME NEW v, worker' = [worker EXCEPT ![f] = v]
      PROVE  /\ worker'[f] = v
             /\ \A g \in Files : g # f => worker'[g] = worker[g]
  BY <1>0, <1>1 DEF WorkerType
<1>2. ASSUME NEW place, MoveTo(f, place)
      PROVE  /\ worker'[f] = [worker[f] EXCEPT !.pc = place]
             /\ worker'[f].pc = place /\ worker'[f].next = worker[f].next
             /\ worker'[f].hit = worker[f].hit
             /\ \A g \in Files : g # f => worker'[g] = worker[g]
             /\ Passed' = Passed
  <2>1. worker'[f] = [worker[f] EXCEPT !.pc = place]
    BY <1>0, <1>2 DEF MoveTo, WorkerType
  <2>2. \A g \in Files : g # f => worker'[g] = worker[g]
    BY <1>0, <1>2 DEF MoveTo, WorkerType
  <2>3. worker'[f].pc = place /\ worker'[f].next = worker[f].next /\ worker'[f].hit = worker[f].hit
    BY <1>0, <2>1
  <2>4. \A g \in Files : worker'[g].next = worker[g].next
    BY <2>2, <2>3
  <2>5. Passed' = Passed
    BY <2>4, SamePassed
  <2>. QED
    BY <2>1, <2>2, <2>3, <2>5
<1>3. {"created", "reading", "exited", "parsed"} \cap InBooks = {} /\ InBooks = {"locked", "found", "added"}
  BY DEF InBooks
<1>4. ASSUME NEW place, place \notin InBooks, worker[f].pc \notin InBooks,
             MoveTo(f, place), UNCHANGED <<lock, stats>>
      PROVE  CountInv'
  <2>1. /\ worker'[f].pc = place /\ Passed' = Passed
        /\ \A g \in Files : g # f => worker'[g] = worker[g]
    BY <1>2, <1>4
  <2>2. \A g \in Files : /\ worker'[g].pc \in InBooks <=> worker[g].pc \in InBooks
                         /\ worker[g].pc \in InBooks => worker'[g] = worker[g]
    BY <1>4, <2>1
  <2>. QED
    BY <1>4, <2>1, <2>2, Quiet
<1>5. CASE OpenFile(f) \/ EndOfFile(f)
  <2>1. /\ worker[f].pc \in {"created", "reading"} /\ UNCHANGED <<lock, stats>>
        /\ MoveTo(f, "reading") \/ MoveTo(f, "exited")
    BY <1>5 DEF OpenFile, EndOfFile
  <2>. QED
    BY <1>3, <1>4, <2>1
<1>6. CASE ReadLine(f)
  <2>1. CASE CurrentLine(f) = Skipped
    <3>1. /\ worker[f].pc = "reading" /\ worker[f].next <= Len(Content[f])
          /\ worker' = [worker EXCEPT ![f].next = @ + 1] /\ UNCHANGED <<lock, stats>>
      BY <1>6, <2>1 DEF ReadLine
    <3>2. /\ worker'[f] = [worker[f] EXCEPT !.next = @ + 1]
          /\ \A g \in Files : g # f => worker'[g] = worker[g]
      BY <1>0, <3>1 DEF WorkerType
    <3>3. worker'[f].next = worker[f].next + 1 /\ worker'[f].pc = worker[f].pc
      BY <1>0, <3>2
    <3>4. Passed' = Passed
      BY <2>1, <3>1, <3>2, <3>3, LinePassed
    <3>. QED
      BY <1>3, <3>1, <3>2, <3>3, <3>4, Quiet
  <2>2. CASE CurrentLine(f) # Skipped
    <3>1. worker[f].pc = "reading" /\ MoveTo(f, "parsed") /\ UNCHANGED <<lock, stats>>
      BY <1>6, <2>2 DEF ReadLine
    <3>. QED
      BY <1>3, <1>4, <3>1
  <2>. QED
    BY <2>1, <2>2
<1> DEFINE c == Here(f)
<1>7. /\ lock = NoThread => Entering({"found", "added"}) = {} /\ Entering({"added"}) = {}
      /\ lock = f => /\ Entering({"found", "added"}) =
                          IF worker[f].pc \in {"found", "added"} THEN {c} ELSE {}
                     /\ Entering({"added"}) = IF worker[f].pc = "added" THEN {c} ELSE {}
  <2>1. {"found", "added"} \in SUBSET InBooks /\ {"added"} \in SUBSET InBooks
    BY DEF InBooks
  <2>. QED
    BY <2>1, EnteringIs DEF CountInv, OwnerEnters
<1>8. Exclusive' =>
      /\ lock' = NoThread => Entering({"found", "added"})' = {} /\ Entering({"added"})' = {}
      /\ lock' = f => /\ Entering({"found", "added"})' =
                           IF worker'[f].pc \in {"found", "added"} THEN {c'} ELSE {}
                      /\ Entering({"added"})' = IF worker'[f].pc = "added" THEN {c'} ELSE {}
  <2>1. {"found", "added"} \in SUBSET InBooks /\ {"added"} \in SUBSET InBooks
    BY DEF InBooks
  <2>2. (Exclusive => OwnerEnters)'
    BY EnteringIs, PTL
  <2>. QED
    BY <2>1, <2>2 DEF OwnerEnters
<1>9. worker'[f].next = worker[f].next => c' = c
  BY DEF Here
<1>10. worker[f].pc \in InBooks <=> lock = f
  BY DEF CountInv, Exclusive
<1>11. \A g \in Files \ {f} : worker[g].pc \in InBooks <=> lock = g
  BY DEF CountInv, Exclusive
<1>12. ASSUME \/ lock' = f /\ worker'[f].pc \in InBooks
              \/ lock' = NoThread /\ worker'[f].pc \notin InBooks,
              lock \in {f, NoThread}, \A g \in Files : g # f => worker'[g] = worker[g]
       PROVE  Exclusive'
  <2>1. \A g \in Files \ {f} : worker'[g].pc \notin InBooks /\ lock' # g
    BY <1>0, <1>11, <1>12
  <2>. QED
    BY <1>0, <1>12, <2>1 DEF Exclusive
<1>13. ASSUME worker[f].pc \in {"parsed"} \cup InBooks
       PROVE  /\ c \in Entries /\ c \notin Passed /\ Passed \in SUBSET Entries
              /\ Url(c) = CurrentLine(f).url /\ Referer(c) = CurrentLine(f).referer
              /\ Bytes[c] = strtoull(CurrentLine(f).bytes)
  BY <1>13, HereIs, PassedEntries
<1> HIDE DEF c
<1>14. CASE Lock(f)
  <2>1. /\ worker[f].pc = "parsed" /\ lock = NoThread /\ lock' = f /\ MoveTo(f, "locked")
        /\ UNCHANGED stats
    BY <1>14 DEF Lock
  <2>2. /\ worker'[f].pc = "locked" /\ Passed' = Passed
        /\ \A g \in Files : g # f => worker'[g] = worker[g]
    BY <1>2, <2>1
  <2>3. Exclusive'
    BY <1>3, <1>12, <2>1, <2>2
  <2>4. /\ Entering({"found", "added"})' = Entering({"found", "added"})
        /\ Entering({"added"})' = Entering({"added"})
    BY <1>7, <1>8, <2>1, <2>2, <2>3
  <2>5. ASSUME NEW g \in Files, worker'[g].pc = "found" PROVE FALSE
    <3>1. lock' = g
      BY <1>3, <2>3, <2>5 DEF Exclusive
    <3>. QED
      BY <2>1, <2>2, <2>5, <3>1
  <2>6. UNCHANGED <<total_bytes, url_traffic, referer_counts>>
    BY <2>1 DEF stats
  <2>. QED
    BY <2>2, <2>3, <2>4, <2>5, <2>6 DEF CountInv
<1>15. CASE FindUrl(f)
  <2>1. /\ worker[f].pc = "locked"
        /\ total_bytes' = (total_bytes + strtoull(CurrentLine(f).bytes)) % Word
        /\ worker' = [worker EXCEPT ![f] = [worker[f] EXCEPT
                         !.pc = "found", !.hit = CurrentLine(f).url \in DOMAIN url_traffic]]
        /\ UNCHANGED <<lock, url_traffic, referer_counts>>
    <3>1. DOMAIN worker = Files
      BY <1>0 DEF WorkerType
    <3>. QED
      BY <1>0, <1>15, <3>1 DEF FindUrl
  <2>2. /\ worker'[f].pc = "found" /\ worker'[f].next = worker[f].next
        /\ worker'[f].hit <=> CurrentLine(f).url \in DOMAIN url_traffic
        /\ \A g \in Files : g # f => worker'[g] = worker[g]
    <3>1. worker'[f] = [worker[f] EXCEPT
                         !.pc = "found", !.hit = CurrentLine(f).url \in DOMAIN url_traffic]
          /\ \A g \in Files : g # f => worker'[g] = worker[g]
      BY <1>1, <2>1
    <3>. QED
      BY <1>0, <3>1
  <2>3. Passed' = Passed
    <3>1. \A g \in Files : worker'[g].next = worker[g].next
      BY <2>2
    <3>. QED
      BY <3>1, SamePassed
  <2>4. lock = f /\ lock' = f
    BY <1>3, <1>10, <2>1
  <2>5. Exclusive'
    BY <1>3, <1>12, <2>2, <2>4
  <2>6. /\ Entering({"found", "added"}) = {} /\ Entering({"added"}) = {}
        /\ Entering({"found", "added"})' = {c} /\ Entering({"added"})' = {}
    BY <1>7, <1>8, <1>9, <2>1, <2>2, <2>4, <2>5
  <2>7. total_bytes' = BytesOf(Passed \cup {c})
    <3>1. total_bytes = BytesOf(Passed)
      BY <2>6 DEF CountInv
    <3>2. BytesOf(Passed \cup {c}) = (BytesOf(Passed) + Bytes[c]) % Word
      BY <1>3, <1>13, <2>1, BytesAdded
    <3>. QED
      BY <1>3, <1>13, <2>1, <3>1, <3>2
  <2>8. ASSUME NEW g \in Files, worker'[g].pc = "found"
        PROVE  worker'[g].hit <=> CurrentLine(g)'.url \in DOMAIN url_traffic'
    <3>1. g = f
      BY <1>3, <2>4, <2>5, <2>8 DEF Exclusive
    <3>2. CurrentLine(f)' = CurrentLine(f)
      BY <2>2 DEF CurrentLine
    <3>. QED
      BY <2>1, <2>2, <3>1, <3>2
  <2>9. total_bytes' = BytesOf(Passed \cup Entering({"found", "added"}))'
    BY <2>3, <2>6, <2>7
  <2>10. url_traffic' = UrlTable(Passed \cup Entering({"added"}))'
    BY <2>1, <2>3, <2>6 DEF CountInv
  <2>11. referer_counts' = RefererTable(Passed)'
    BY <2>1, <2>3 DEF CountInv
  <2>. QED
    BY <2>5, <2>8, <2>9, <2>10, <2>11 DEF CountInv
<1>16. CASE AddUrl(f)
  <2>1. /\ worker[f].pc = "found" /\ MoveTo(f, "added")
        /\ url_traffic' = Put(url_traffic, CurrentLine(f).url,
                              IF worker[f].hit
                              THEN (url_traffic[CurrentLine(f).url]
                                      + strtoull(CurrentLine(f).bytes)) % Word
                              ELSE strtoull(CurrentLine(f).bytes))
        /\ UNCHANGED <<lock, total_bytes, referer_counts>>
    BY <1>16 DEF AddUrl
  <2>2. /\ worker'[f].pc = "added" /\ worker'[f].next = worker[f].next /\ Passed' = Passed
        /\ \A g \in Files : g # f => worker'[g] = worker[g]
    BY <1>2, <2>1
  <2>3. lock = f /\ lock' = f
    BY <1>3, <1>10, <2>1
  <2>4. Exclusive'
    BY <1>3, <1>12, <2>2, <2>3
  <2>5. /\ Entering({"found", "added"}) = {c} /\ Entering({"added"}) = {}
        /\ Entering({"found", "added"})' = {c} /\ Entering({"added"})' = {c}
    BY <1>7, <1>8, <1>9, <2>1, <2>2, <2>3, <2>4
  <2>6. url_traffic' = UrlTable(Passed \cup {c})
    <3> DEFINE t == UrlTable(Passed)
               u == Url(c)
    <3>1. url_traffic = t
      BY <2>5 DEF CountInv
    <3>2. worker[f].hit <=> u \in DOMAIN t
      BY <1>3, <1>13, <2>1, <3>1 DEF CountInv
    <3>3. url_traffic' = Put(t, u, IF worker[f].hit THEN (t[u] + Bytes[c]) % Word ELSE Bytes[c])
      BY <1>3, <1>13, <2>1, <3>1
    <3>4. UrlTable(Passed \cup {c}) =
            Put(t, u, IF u \in DOMAIN t THEN (t[u] + Bytes[c]) % Word ELSE Bytes[c])
      BY <1>3, <1>13, <2>1, UrlAdded
    <3> HIDE DEF t, u
    <3>. QED
      BY <3>2, <3>3, <3>4
  <2>7. ASSUME NEW g \in Files, worker'[g].pc = "found" PROVE FALSE
    <3>1. g = f
      BY <1>3, <2>3, <2>4, <2>7 DEF Exclusive
    <3>. QED
      BY <2>2, <2>7, <3>1
  <2>8. total_bytes' = BytesOf(Passed \cup Entering({"found", "added"}))'
    BY <2>1, <2>2, <2>5 DEF CountInv
  <2>9. url_traffic' = UrlTable(Passed \cup Entering({"added"}))'
    BY <2>2, <2>5, <2>6
  <2>10. referer_counts' = RefererTable(Passed)'
    BY <2>1, <2>2 DEF CountInv
  <2>. QED
    BY <2>4, <2>7, <2>8, <2>9, <2>10 DEF CountInv
<1>17. CASE AddReferer(f)
  <2>1. /\ worker[f].pc = "added" /\ lock' = NoThread
        /\ worker' = [worker EXCEPT ![f] = [worker[f] EXCEPT !.pc = "reading", !.next = @ + 1]]
        /\ referer_counts' = IF CurrentLine(f).referer = NoReferer THEN referer_counts
                             ELSE Counted(referer_counts, CurrentLine(f).referer)
        /\ UNCHANGED <<total_bytes, url_traffic>>
    <3>1. DOMAIN worker = Files
      BY <1>0 DEF WorkerType
    <3>. QED
      BY <1>0, <1>17, <3>1 DEF AddReferer, NextLine
  <2>2. /\ worker'[f].pc = "reading" /\ worker'[f].next = worker[f].next + 1
        /\ \A g \in Files : g # f => worker'[g] = worker[g]
    <3>1. worker'[f] = [worker[f] EXCEPT !.pc = "reading", !.next = @ + 1]
          /\ \A g \in Files : g # f => worker'[g] = worker[g]
      BY <1>1, <2>1
    <3>. QED
      BY <1>0, <3>1
  <2>3. lock = f
    BY <1>3, <1>10, <2>1
  <2>4. Exclusive'
    BY <1>3, <1>12, <2>1, <2>2, <2>3
  <2>5. Passed' = Passed \cup {c}
    <3>1. worker[f].next <= Len(Content[f]) /\ CurrentLine(f) # Skipped
      BY <1>3, <2>1 DEF IInv, Bookkeeping
    <3>2. \A g \in Files \ {f} : worker'[g].next = worker[g].next
      BY <2>2
    <3>. QED
      BY <1>3, <2>1, <2>2, <3>1, <3>2, LinePassed DEF c
  <2>6. /\ Entering({"found", "added"}) = {c} /\ Entering({"added"}) = {c}
        /\ Entering({"found", "added"})' = {} /\ Entering({"added"})' = {}
    BY <1>7, <1>8, <2>1, <2>3, <2>4
  <2>7. referer_counts' = RefererTable(Passed \cup {c})
    <3>1. RefererTable(Passed \cup {c}) =
            IF Referer(c) = NoReferer THEN RefererTable(Passed)
            ELSE Counted(RefererTable(Passed), Referer(c))
      BY <1>3, <1>13, <2>1, RefererAdded
    <3>2. referer_counts = RefererTable(Passed) /\ Referer(c) = CurrentLine(f).referer
      BY <1>3, <1>13, <2>1 DEF CountInv
    <3>. QED
      BY <2>1, <3>1, <3>2
  <2>8. ASSUME NEW g \in Files, worker'[g].pc = "found" PROVE FALSE
    <3>1. lock' = g
      BY <1>3, <2>4, <2>8 DEF Exclusive
    <3>. QED
      BY <1>0, <2>1, <3>1
  <2>9. total_bytes' = BytesOf(Passed \cup Entering({"found", "added"}))'
    BY <2>1, <2>5, <2>6 DEF CountInv
  <2>10. url_traffic' = UrlTable(Passed \cup Entering({"added"}))'
    BY <2>1, <2>5, <2>6 DEF CountInv
  <2>11. referer_counts' = RefererTable(Passed)'
    BY <2>5, <2>7
  <2>. QED
    BY <2>4, <2>8, <2>9, <2>10, <2>11 DEF CountInv
<1>. QED
  BY <1>5, <1>6, <1>14, <1>15, <1>16, <1>17 DEF Worker

LEMMA CountStep == IInv /\ CountInv /\ [Next]_vars => CountInv'
<1>. SUFFICES ASSUME IInv, CountInv, [Next]_vars PROVE CountInv'
  OBVIOUS
<1>1. CASE UNCHANGED vars
  <2>1. UNCHANGED <<worker, lock, stats>>
    BY <1>1 DEF vars, mainVars
  <2>2. Passed' = Passed
    BY <2>1, SamePassed
  <2>. QED
    BY <2>1, <2>2, Quiet
<1>. QED
  BY <1>1, MainCounts, WorkerCounts DEF Next

LEMMA CountInit == Init => CountInv
<1>. SUFFICES ASSUME Init PROVE CountInv
  OBVIOUS
<1>1. \A f \in Files : worker[f].pc = "none" /\ worker[f].next = 1
  BY DEF Init
<1>2. \A f \in Files : worker[f].pc \notin InBooks
  BY <1>1 DEF InBooks
<1>3. Exclusive
  BY <1>2 DEF Init, Exclusive
<1>4. Passed = {}
  <2>1. \A l \in Entries : l[1] \in Files /\ l[2] \in Nat \ {0}
    BY EntryIs
  <2>2. \A l \in Entries : ~(l[2] < worker[l[1]].next)
    BY <1>1, <2>1
  <2>. QED
    BY <2>2, PassedIs
<1>5. Entering({"found", "added"}) = {} /\ Entering({"added"}) = {}
  BY <1>1 DEF Entering
<1>6. BytesOf({}) = 0
  <2>1. {} \in SUBSET Entries /\ Total(Bytes, {}) = 0
    BY TotalEmpty
  <2>2. BytesOf({}) = 0 % Word
    BY <2>1, BytesIs
  <2>3. 0 % Word = 0
    BY RemainderIs
  <2>. QED
    BY <2>2, <2>3
<1>7. UrlTable({}) = Empty
  BY DEF UrlTable, Empty
<1>8. RefererTable({}) = Empty
  BY DEF RefererTable, Empty
<1>9. \A f \in Files : worker[f].pc # "found"
  BY <1>1
<1>10. total_bytes = 0 /\ url_traffic = Empty /\ referer_counts = Empty
  BY DEF Init
<1>11. Passed \cup Entering({"found", "added"}) = {} /\ Passed \cup Entering({"added"}) = {}
  BY <1>4, <1>5
<1>. QED
  BY <1>3, <1>4, <1>6, <1>7, <1>8, <1>9, <1>10, <1>11 DEF CountInv

\* Whenever the mutex is free the statistics are those of the lines passed,
\* for any files, any lines and any number of threads that run at once.
THEOREM NothingLostOrCountedTwice == Spec => []CountedExactly
<1>1. CountInv => CountedExactly
  <2>. SUFFICES ASSUME CountInv, lock = NoThread
                PROVE  /\ total_bytes = BytesOf(Passed)
                       /\ url_traffic = UrlTable(Passed)
                       /\ referer_counts = RefererTable(Passed)
    BY DEF CountedExactly, UrlTable, RefererTable, WithUrl, WithReferer, Url, Referer
  <2>1. {"found", "added"} \in SUBSET InBooks /\ {"added"} \in SUBSET InBooks
    BY DEF InBooks
  <2>2. Entering({"found", "added"}) = {} /\ Entering({"added"}) = {}
    BY <2>1, EnteringIs DEF CountInv, OwnerEnters
  <2>3. Passed \cup {} = Passed
    OBVIOUS
  <2>. QED
    BY <2>2, <2>3 DEF CountInv
<1>. QED
  BY <1>1, InitIInv, NextIInv, CountInit, CountStep, PTL DEF Spec
=============================================================================
