-------------------------- MODULE ExercisesProofs --------------------------
(***************************************************************************)
(* The small programs, for every input: each has a part of its own, an     *)
(* invariant of its work and what follows from it.  A behaviour runs one   *)
(* job, so the invariant of a program is about the behaviours of its jobs. *)
(***************************************************************************)
EXTENDS Exercises, Induction, SequenceTheorems

\* No program changes its job.
LEMMA JobStays == [Next]_vars => job' = job
<1>1. Unwinding!Next => job' = job
  BY DEF Unwinding!Next, Unwinding!Succeed, Unwinding!Fail, Unwinding!End, Unwinding!Release
<1>2. Encoding!Next => job' = job
  BY DEF Encoding!Next, Encoding!UnknownCharset, Encoding!Convert, Encoding!UndefinedByte,
         Encoding!WriteFails, Encoding!EndOfFile, Encoding!ReadFails
<1>3. FileTree!Next => job' = job
  BY DEF FileTree!Next, FileTree!ReadEntry, FileTree!StatFails, FileTree!OpenFails,
         FileTree!CloseDirectory, FileTree!StartFilling, FileTree!AddRow, FileTree!Filled
<1>4. ArchiveSearch!Next => job' = job
  BY DEF ArchiveSearch!Next, ArchiveSearch!NoArchive, ArchiveSearch!StepBack,
         ArchiveSearch!Found, ArchiveSearch!PrintEntry, ArchiveSearch!NameMisfits,
         ArchiveSearch!BadSignature, ArchiveSearch!Listed
<1>5. ColumnStats!Next => job' = job
  BY DEF ColumnStats!Next, ColumnStats!main, ColumnStats!sqlite3_open, ColumnStats!CheckType,
         ColumnStats!PrepareQuery, ColumnStats!StepQuery, ColumnStats!sqlite_exit,
         ColumnStats!PQconnectdb, ColumnStats!PQexec, ColumnStats!PQgetvalue,
         ColumnStats!postgres_exit, ColumnStats!Goto, ColumnStats!Leave
<1>6. FigletClient!Next => job' = job
  BY DEF FigletClient!Next, FigletClient!TryFails, FigletClient!Connect,
         FigletClient!NoConnection, FigletClient!ServerSends, FigletClient!Receive,
         FigletClient!SendCommand, FigletClient!PrintAnswer
<1>7. ListPrograms!Next => job' = job
  BY DEF ListPrograms!Next, ListPrograms!Abort, ListPrograms!Build, ListPrograms!Built,
         ListPrograms!map, ListPrograms!NewLine, ListPrograms!Filter, ListPrograms!Filtered,
         ListPrograms!Clear, ListPrograms!Cleared, ListPrograms!Go
<1>8. Weather!Next => job' = job
  BY DEF Weather!Next, Weather!StartTransfer, Weather!TransferFails, Weather!write_cb,
         Weather!TransferEnds, Weather!Parse, Weather!CopyNull, Weather!NoForecast,
         Weather!Copy, Weather!main
<1>. QED
  BY <1>1, <1>2, <1>3, <1>4, <1>5, <1>6, <1>7, <1>8 DEF Next, vars

\* The steps of a behaviour are those of the program its job is for.
LEMMA OwnSteps ==
    ASSUME Next
    PROVE  /\ Runs(Unwinding!Programs) => Unwinding!Next
           /\ Runs({"encoding"}) => Encoding!Next
           /\ Runs({"explorer"}) => FileTree!Next
           /\ Runs({"rarjpeg"}) => ArchiveSearch!Next
           /\ Runs({"column"}) => ColumnStats!Next
           /\ Runs({"figlet"}) => FigletClient!Next
           /\ Runs({"list", "list_ref"}) => ListPrograms!Next
           /\ Runs({"weather"}) => Weather!Next
<1>1. /\ Unwinding!Next => job.program \in {"buffer", "server", "crc32"}
      /\ Encoding!Next => job.program = "encoding"
      /\ FileTree!Next => job.program = "explorer"
      /\ ArchiveSearch!Next => job.program = "rarjpeg"
  BY DEF Unwinding!Next, Unwinding!Programs, Encoding!Next, FileTree!Next, ArchiveSearch!Next
<1>2. /\ ColumnStats!Next => job.program = "column"
      /\ FigletClient!Next => job.program = "figlet"
      /\ ListPrograms!Next => job.program \in {"list", "list_ref"}
      /\ Weather!Next => job.program = "weather"
  BY DEF ColumnStats!Next, FigletClient!Next, ListPrograms!Next, Weather!Next
<1>. QED
  BY <1>1, <1>2 DEF Next, Runs, Unwinding!Programs

\* A job has the form of its program's inputs.
LEMMA JobForms ==
    ASSUME Init
    PROVE  /\ Runs({"encoding"}) => Encoding!IsInput(job)
           /\ Runs({"explorer"}) => FileTree!IsInput(job)
           /\ Runs({"rarjpeg"}) => ArchiveSearch!IsInput(job)
           /\ Runs({"column"}) => ColumnStats!IsInput(job)
           /\ Runs({"figlet"}) => FigletClient!IsInput(job)
           /\ Runs({"list", "list_ref"}) => ListPrograms!IsInput(job)
           /\ Runs({"weather"}) => Weather!IsInput(job)
<1>1. IsJob(job)
  BY JobAssumption DEF Init
<1>2. /\ Unwinding!IsInput(job) => job.program \in {"buffer", "server", "crc32"}
      /\ Encoding!IsInput(job) => job.program = "encoding"
      /\ FileTree!IsInput(job) => job.program = "explorer"
      /\ ArchiveSearch!IsInput(job) => job.program = "rarjpeg"
  BY DEF Unwinding!IsInput, Unwinding!Programs, Encoding!IsInput, FileTree!IsInput,
         ArchiveSearch!IsInput
<1>3. /\ ColumnStats!IsInput(job) => job.program = "column"
      /\ FigletClient!IsInput(job) => job.program = "figlet"
      /\ ListPrograms!IsInput(job) => job.program \in {"list", "list_ref"}
      /\ Weather!IsInput(job) => job.program = "weather"
  BY DEF ColumnStats!IsInput, FigletClient!IsInput, ListPrograms!IsInput, Weather!IsInput
<1>. QED
  BY <1>1, <1>2, <1>3 DEF IsJob, Runs

\* Where each program starts.
LEMMA FirstStates ==
    ASSUME Init
    PROVE  /\ Runs(Unwinding!Programs) => work = Unwinding!Start /\ status = "running"
           /\ Runs({"encoding"}) => work = Encoding!Start /\ status = "running"
           /\ Runs({"explorer"}) => work = FileTree!Start(job.base, job.entries) /\ status = "running"
           /\ Runs({"rarjpeg"}) => work = ArchiveSearch!Start /\ status = "searching"
           /\ Runs({"column"}) => work = ColumnStats!Start /\ status = "running"
           /\ Runs({"figlet"}) => work = FigletClient!Start(job.banner) /\ status = "connecting"
           /\ Runs({"list", "list_ref"}) => work = ListPrograms!Start(job.data) /\ status = "build"
           /\ Runs({"weather"}) => work = Weather!Start /\ status = "starting"
BY DEF Init, Starts, Runs, Unwinding!Programs

-----------------------------------------------------------------------------
(* hw2 weather *)

WeatherFields == Weather!Current \cup Weather!Today
CellsFrom1(n) == [i \in 1..n |-> i]

\* What is in the struct when the fields are all there or short enough.
CopiedRight ==
    \A f \in WeatherFields :
        /\ job.fields[f] = "short" <=> work.wd[f] = "short"
        /\ job.fields[f] = "absent" <=> work.wd[f] = "N/A"

HeldAt ==
    CASE status = "starting" -> {}
      [] status = "receiving" -> {"response", "handler"}
      [] status = "copying" -> {"response", "root"}
      [] status \in {"parsing", "checking"} -> {"response"}
      [] status = "failed" -> IF work.missed THEN {} ELSE {"response"}
      [] status = "done" -> {}

WeatherInv ==
    /\ Weather!IsInput(job)
    /\ work = [held |-> work.held, response |-> work.response, error_code |-> work.error_code,
               missed |-> work.missed, wd |-> work.wd]
    /\ DOMAIN work.wd = WeatherFields
    /\ status \in {"starting", "receiving", "parsing", "copying", "checking",
                   "failed", "done", "undefined"}
    /\ status # "undefined" => work.held = HeldAt
    /\ work.missed \in BOOLEAN /\ (work.missed => status = "failed")
    /\ \E n \in 0..job.size : work.response = CellsFrom1(n)
    /\ status = "starting" => work.response = CellsFrom1(0)
    /\ status \in {"parsing", "copying", "checking", "done"} =>
          job.size > 0 /\ work.response = CellsFrom1(job.size)
    /\ status = "copying" => job.json /\ {"current_condition", "weatherDesc"} \subseteq job.sections
    /\ status = "checking" => work.error_code \in {0, 1, 2, 3, 4, Weather!Stray}
    /\ status = "checking" /\ work.error_code \in 1..4 => ~Weather!Good
    /\ status = "checking" /\ work.error_code = 0 => Weather!Good /\ CopiedRight
    /\ status = "failed" /\ ~work.missed => ~Weather!Good \/ work.error_code = Weather!Stray
    /\ status = "done" => Weather!Good /\ CopiedRight

LEMMA CellsLength ==
    ASSUME NEW n \in Nat
    PROVE  CellsFrom1(n) \in Seq(Nat) /\ Len(CellsFrom1(n)) = n
<1>1. \A i \in 1..n : i \in Nat
  OBVIOUS
<1>2. CellsFrom1(n) \in [1..n -> Nat]
  BY <1>1 DEF CellsFrom1
<1>. QED
  BY <1>2 DEF CellsFrom1

LEMMA WeatherStarts == ASSUME Init, Runs({"weather"}) PROVE WeatherInv
<1>1. work = Weather!Start /\ status = "starting" /\ Weather!IsInput(job)
  BY FirstStates, JobForms
<1>2. job.size \in Nat /\ 0 \in 0..job.size
  BY <1>1 DEF Weather!IsInput
<1>3. CellsFrom1(0) = <<>>
  BY DEF CellsFrom1
<1>. QED
  BY <1>1, <1>2, <1>3 DEF WeatherInv, Weather!Start, HeldAt, WeatherFields

\* The cells that are there and those of one part more.
LEMMA PartAdded ==
    ASSUME NEW m \in Nat, NEW n \in Nat, m <= n
    PROVE  CellsFrom1(m) \o [i \in 1..n - m |-> m + i] = CellsFrom1(n)
<1> DEFINE part == [i \in 1..n - m |-> m + i]
           whole == CellsFrom1(m) \o part
<1>1. n - m \in Nat /\ part \in [1..n - m -> Nat]
  OBVIOUS
<1>2. part \in Seq(Nat) /\ Len(part) = n - m
  BY <1>1
<1>3. CellsFrom1(m) \in Seq(Nat) /\ Len(CellsFrom1(m)) = m
  BY CellsLength
<1>4. /\ whole \in Seq(Nat) /\ Len(whole) = m + (n - m)
      /\ \A i \in 1..m + (n - m) : whole[i] = IF i <= m THEN CellsFrom1(m)[i] ELSE part[i - m]
  <2> DEFINE c == CellsFrom1(m)
  <2>1. c \in Seq(Nat) /\ part \in Seq(Nat) /\ Len(c) = m /\ Len(part) = n - m
    BY <1>2, <1>3
  <2> HIDE DEF part, c
  <2>2. /\ c \o part \in Seq(Nat) /\ Len(c \o part) = Len(c) + Len(part)
        /\ \A i \in 1..Len(c) + Len(part) :
              (c \o part)[i] = IF i <= Len(c) THEN c[i] ELSE part[i - Len(c)]
    BY <2>1, ConcatProperties
  <2>. QED
    BY <2>1, <2>2 DEF c
<1>5. \A i \in 1..n : whole[i] = i
  <2>1. ASSUME NEW i \in 1..n, i <= m PROVE CellsFrom1(m)[i] = i
    BY <2>1 DEF CellsFrom1
  <2>2. ASSUME NEW i \in 1..n, ~(i <= m) PROVE part[i - m] = i
    <3>1. i - m \in 1..n - m
      BY <2>2
    <3>. QED
      BY <3>1
  <2>3. m + (n - m) = n
    OBVIOUS
  <2> HIDE DEF part, whole
  <2>4. ASSUME NEW i \in 1..n PROVE whole[i] = i
    <3>1. whole[i] = IF i <= m THEN CellsFrom1(m)[i] ELSE part[i - m]
      BY <1>4, <2>3
    <3>. QED
      BY <2>1, <2>2, <3>1
  <2>. QED
    BY <2>4
<1> HIDE DEF part
<1>6. whole = [i \in 1..n |-> whole[i]]
  <2> HIDE DEF whole
  <2>. QED
    BY <1>4
<1> HIDE DEF whole
<1>7. whole = CellsFrom1(n)
  BY <1>5, <1>6 DEF CellsFrom1
<1>. QED
  BY <1>7 DEF whole, part

LEMMA WeatherSteps == ASSUME WeatherInv, Weather!Next, job' = job PROVE WeatherInv'
<1> DEFINE F == WeatherFields
<1>1. /\ job.size \in Nat /\ job.json \in BOOLEAN /\ job.sections \subseteq Weather!Sections
      /\ \A f \in F : job.fields[f] \in {"absent", "short", "long", "number"}
  BY DEF WeatherInv, Weather!IsInput, WeatherFields
<1>2. Weather!IsInput(job')
  BY DEF WeatherInv
<1>3. CASE Weather!StartTransfer
  BY <1>1, <1>2, <1>3 DEF WeatherInv, Weather!StartTransfer, HeldAt, WeatherFields
<1>4. CASE Weather!TransferFails
  BY <1>1, <1>2, <1>4 DEF WeatherInv, Weather!TransferFails, HeldAt, WeatherFields
<1>5. CASE Weather!write_cb
  <2>1. PICK m \in 0..job.size : work.response = CellsFrom1(m)
    BY DEF WeatherInv
  <2>2. m \in Nat /\ Len(work.response) = m
    BY <1>1, <2>1, CellsLength
  <2>3. PICK n \in m + 1..job.size :
           work' = [work EXCEPT !.response = work.response \o [i \in 1..n - m |-> m + i]]
    BY <1>5, <2>2 DEF Weather!write_cb
  <2>4. n \in Nat /\ m <= n /\ n \in 0..job.size
    BY <1>1, <2>2
  <2>5. work' = [work EXCEPT !.response = CellsFrom1(n)]
    BY <2>1, <2>2, <2>3, <2>4, PartAdded
  <2>6. status = "receiving" /\ status' = status
    BY <1>5 DEF Weather!write_cb
  <2>. QED
    BY <1>1, <1>2, <2>4, <2>5, <2>6 DEF WeatherInv, HeldAt, WeatherFields
<1>6. CASE Weather!TransferEnds
  <2>1. PICK m \in 0..job.size : work.response = CellsFrom1(m)
    BY DEF WeatherInv
  <2>2. m \in Nat /\ Len(work.response) = m
    BY <1>1, <2>1, CellsLength
  <2>3. m = job.size
    BY <1>6, <2>2 DEF Weather!TransferEnds
  <2>. QED
    <3>1. /\ work' = [work EXCEPT !.held = {"response"}] /\ work.response = CellsFrom1(job.size)
          /\ status' = IF job.size = 0 THEN "undefined" ELSE "parsing"
      BY <1>6, <2>1, <2>3 DEF WeatherInv, Weather!TransferEnds, HeldAt
    <3>2. status = "receiving" /\ work.missed = FALSE
      BY <1>6 DEF Weather!TransferEnds, WeatherInv
    <3>. QED
      BY <1>1, <1>2, <3>1, <3>2 DEF WeatherInv, HeldAt, WeatherFields
<1>7. CASE Weather!Parse
  <2>0. status = "parsing" /\ work.held = {"response"} /\ Weather!Whole /\ job.size > 0
        /\ work.missed = FALSE
    BY <1>7 DEF Weather!Parse, WeatherInv, HeldAt, Weather!Whole, CellsFrom1
  <2>1. \/ /\ \E code \in 1..3 : Weather!Fail(code)
           /\ ~Weather!Good
        \/ /\ job.json /\ {"current_condition", "weatherDesc"} \subseteq job.sections
           /\ work' = [work EXCEPT !.held = @ \cup {"root"}] /\ status' = "copying"
    BY <1>1, <1>7, <2>0 DEF Weather!Parse, Weather!Good, Weather!Sections
  <2>2. ASSUME NEW code \in 1..3, Weather!Fail(code), ~Weather!Good PROVE WeatherInv'
    <3>1. work' = [work EXCEPT !.error_code = code, !.held = {"response"}] /\ status' = "checking"
      BY <2>0, <2>2 DEF Weather!Fail
    <3>2. ~Weather!Good'
      BY <2>2 DEF Weather!Good
    <3>3. /\ work'.held = {"response"} /\ work'.error_code = code /\ work'.response = work.response
          /\ work'.missed = FALSE /\ work'.wd = work.wd
          /\ work' = [held |-> work'.held, response |-> work'.response,
                      error_code |-> work'.error_code, missed |-> work'.missed, wd |-> work'.wd]
      BY <1>1, <1>2, <2>0, <3>1 DEF WeatherInv
    <3>4. /\ job.size > 0 /\ work.response = CellsFrom1(job.size) /\ job.size \in 0..job.size
          /\ DOMAIN work.wd = WeatherFields
      BY <1>1, <1>2, <2>0 DEF WeatherInv
    <3>5. HeldAt' = {"response"}
      BY <3>1 DEF HeldAt
    <3>. QED
      BY <1>2, <3>1, <3>2, <3>3, <3>4, <3>5 DEF WeatherInv, Weather!Stray
  <2>3. ASSUME job.json, {"current_condition", "weatherDesc"} \subseteq job.sections,
               work' = [work EXCEPT !.held = @ \cup {"root"}], status' = "copying"
        PROVE  WeatherInv'
    BY <1>1, <1>2, <2>0, <2>3 DEF WeatherInv, HeldAt, WeatherFields
  <2>. QED
    BY <2>1, <2>2, <2>3
<1>8. CASE Weather!CopyNull
  BY <1>1, <1>2, <1>8 DEF WeatherInv, Weather!CopyNull, HeldAt, WeatherFields
<1>9. CASE Weather!NoForecast
  <2>1. ~Weather!Good /\ Weather!Fail(4) /\ status = "copying"
    BY <1>9 DEF Weather!NoForecast, Weather!Good, Weather!Sections
  <2>2. work.held = {"response", "root"} /\ work.missed = FALSE
    BY <2>1 DEF WeatherInv, HeldAt
  <2>. QED
    <3>1. work' = [work EXCEPT !.error_code = 4, !.held = {"response"}] /\ status' = "checking"
      BY <2>1, <2>2 DEF Weather!Fail
    <3>2. ~Weather!Good'
      BY <2>1 DEF Weather!Good
    <3>3. /\ work'.held = {"response"} /\ work'.error_code = 4 /\ work'.response = work.response
          /\ work'.missed = FALSE /\ work'.wd = work.wd
          /\ work' = [held |-> work'.held, response |-> work'.response,
                      error_code |-> work'.error_code, missed |-> work'.missed, wd |-> work'.wd]
      BY <1>1, <1>2, <2>1, <2>2, <3>1 DEF WeatherInv
    <3>4. /\ job.size > 0 /\ work.response = CellsFrom1(job.size) /\ job.size \in 0..job.size
          /\ DOMAIN work.wd = WeatherFields
      BY <1>1, <1>2, <2>1, <2>2 DEF WeatherInv
    <3>5. HeldAt' = {"response"}
      BY <3>1 DEF HeldAt
    <3>. QED
      BY <1>2, <3>1, <3>2, <3>3, <3>4, <3>5 DEF WeatherInv, Weather!Stray
<1>10. CASE Weather!Copy
  <2>1. PICK unended \in SUBSET DOMAIN work.wd, code \in {0, Weather!Stray} :
           work' = [work EXCEPT !.wd = [f \in DOMAIN @ |-> Weather!Copied(f, unended)],
                                !.error_code = code, !.held = @ \ {"root"}]
    BY <1>10 DEF Weather!Copy
  <2>2. /\ status = "copying" /\ status' = "checking" /\ "weather" \in job.sections
        /\ \A f \in F : job.fields[f] # "number"
    BY <1>10 DEF Weather!Copy, Weather!HasNumber, WeatherFields
  <2>3. work.held = {"response", "root"} /\ work.missed = FALSE /\ DOMAIN work.wd = F
    BY <2>2 DEF WeatherInv, HeldAt
  <2>4. Weather!Good
    BY <2>2 DEF WeatherInv, Weather!Good, Weather!Sections
  <2>5. /\ work'.wd = [f \in F |-> Weather!Copied(f, unended)] /\ work'.error_code = code
        /\ work'.held = {"response"} /\ work'.missed = FALSE /\ work'.response = work.response
        /\ work' = [held |-> work'.held, response |-> work'.response,
                    error_code |-> work'.error_code, missed |-> work'.missed, wd |-> work'.wd]
    BY <2>1, <2>3 DEF WeatherInv
  <2>6. CopiedRight'
    <3>1. \A f \in F : /\ job.fields[f] = "absent" => Weather!Copied(f, unended) = "N/A"
                       /\ job.fields[f] = "short" => Weather!Copied(f, unended) = "short"
                       /\ job.fields[f] = "long" => Weather!Copied(f, unended) \in {"cut", "cut and more"}
      BY DEF Weather!Copied
    <3>2. \A f \in F : work'.wd[f] = Weather!Copied(f, unended)
      BY <2>5
    <3>. QED
      BY <1>1, <2>2, <3>1, <3>2 DEF CopiedRight
  <2>. QED
    <3>1. Weather!Good'
      BY <2>4 DEF Weather!Good
    <3>2. DOMAIN work'.wd = F
      BY <2>5
    <3>3. /\ job.size > 0 /\ work.response = CellsFrom1(job.size) /\ job.size \in 0..job.size
      BY <1>1, <2>2 DEF WeatherInv
    <3>4. HeldAt' = {"response"}
      BY <2>2 DEF HeldAt
    <3>. QED
      <4>1. work'.error_code \in {0, Weather!Stray} /\ work'.error_code \notin 1..4
        BY <2>5 DEF Weather!Stray
      <4>2. /\ work'.held = {"response"} /\ work'.missed = FALSE /\ work'.response = work.response
            /\ work' = [held |-> work'.held, response |-> work'.response,
                        error_code |-> work'.error_code, missed |-> work'.missed, wd |-> work'.wd]
        BY <2>5
      <4>. QED
        BY <1>2, <2>2, <2>6, <3>1, <3>2, <3>3, <3>4, <4>1, <4>2 DEF WeatherInv
<1>11. CASE Weather!main
  <2>1. /\ status = "checking" /\ work.held = {"response"} /\ work.missed = FALSE
        /\ work.error_code \in {0, 1, 2, 3, 4, Weather!Stray}
    BY <1>11 DEF Weather!main, WeatherInv, HeldAt
  <2>2. CASE work.error_code # 0
    BY <1>1, <1>2, <1>11, <2>1, <2>2 DEF Weather!main, WeatherInv, HeldAt, WeatherFields,
       Weather!Good, Weather!Stray
  <2>3. CASE work.error_code = 0
    BY <1>1, <1>2, <1>11, <2>1, <2>3 DEF Weather!main, WeatherInv, HeldAt, WeatherFields,
       Weather!Good, CopiedRight
  <2>. QED
    BY <2>2, <2>3
<1>. QED
  BY <1>3, <1>4, <1>5, <1>6, <1>7, <1>8, <1>9, <1>10, <1>11 DEF Weather!Next

LEMMA WeatherAlways == Spec => [](Runs({"weather"}) => WeatherInv)
<1>1. Init => (Runs({"weather"}) => WeatherInv)
  BY WeatherStarts
<1>2. (Runs({"weather"}) => WeatherInv) /\ [Next]_vars => (Runs({"weather"}) => WeatherInv)'
  <2>1. ASSUME Next, Runs({"weather"}), WeatherInv PROVE WeatherInv'
    BY <2>1, JobStays, OwnSteps, WeatherSteps
  <2>2. ASSUME UNCHANGED vars, WeatherInv PROVE WeatherInv'
    BY <2>2 DEF vars, WeatherInv, HeldAt, CopiedRight, WeatherFields, Weather!Good
  <2>3. [Next]_vars => job' = job
    BY JobStays
  <2>. QED
    BY <2>1, <2>2, <2>3 DEF Runs
<1>. QED
  BY <1>1, <1>2, PTL DEF Spec

LEMMA WeatherIsPrinted == ASSUME WeatherInv PROVE Weather!WeatherPrinted /\ Weather!WeatherReleased
BY DEF WeatherInv, Weather!WeatherPrinted, Weather!WeatherReleased, CopiedRight, HeldAt, WeatherFields

-----------------------------------------------------------------------------
(* Acquiring and releasing: hw14 loading, hw12 start-up, hw9 files *)

Resources == {"number", "memory", "cdev", "class", "device", "kobject", "attribute",
              "listen_fd", "epoll_fd", "fd", "mapping"}

\* What a program acquires, in this order, and how much before the n-th call.
Acquired(program) ==
    CASE program = "buffer" ->
            <<"number", "memory", "cdev", "class", "device", "kobject", "attribute">>
      [] program = "server" -> <<"listen_fd", "epoll_fd">>
      [] program = "crc32" -> <<"fd", "mapping">>
AcquiredBefore(program, n) ==
    CASE program = "buffer" -> n - 1
      [] program = "server" -> IF n <= 3 THEN 0 ELSE IF n <= 9 THEN 1 ELSE 2
      [] program = "crc32" -> IF n <= 1 THEN 0 ELSE IF n <= 3 THEN 1 ELSE 2

\* The first k of s, forwards and backwards.
IsFirst(held, s, k) ==
    held \in Seq(Resources) /\ Len(held) = k /\ \A i \in 1..k : held[i] = s[i]
IsBackwards(plan, s, k) ==
    plan \in Seq(Resources) /\ Len(plan) = k /\ \A i \in 1..k : plan[i] = s[k + 1 - i]

\* While it runs a program holds what its calls have given it; on its way out
\* it plans to release just that, backwards.
UnwindingInv ==
    LET names == Acquired(job.program)
    IN /\ job.program \in Unwinding!Programs
       /\ work = [next |-> work.next, held |-> work.held, plan |-> work.plan]
       /\ work.next \in 1..Len(Unwinding!Calls) + 1
       /\ \E k \in 0..Len(names) :
            /\ IsFirst(work.held, names, k)
            /\ status = "running" =>
                 work.plan = <<>> /\ k = AcquiredBefore(job.program, work.next)
            /\ status # "running" => IsBackwards(work.plan, names, k)

LEMMA NamesDiffer ==
    ASSUME NEW program \in Unwinding!Programs
    PROVE  LET names == Acquired(program)
           IN /\ Len(names) \in Nat /\ names \in Seq(Resources)
              /\ \A i, j \in 1..Len(names) : names[i] = names[j] => i = j
<1>1. program \in {"buffer", "server", "crc32"}
  BY DEF Unwinding!Programs
<1>2. CASE program = "buffer"
  <2> DEFINE s == <<"number", "memory", "cdev", "class", "device", "kobject", "attribute">>
  <2>1. Len(s) = 7 /\ s \in Seq(Resources) /\ \A i, j \in 1..7 : s[i] = s[j] => i = j
    BY DEF Resources
  <2>2. Acquired(program) = s
    BY <1>2 DEF Acquired
  <2> HIDE DEF s
  <2>3. Len(s) \in Nat /\ s \in Seq(Resources) /\ \A i, j \in 1..Len(s) : s[i] = s[j] => i = j
    BY <2>1
  <2>. QED
    BY <2>2, <2>3
<1>3. CASE program = "server"
  <2> DEFINE s == <<"listen_fd", "epoll_fd">>
  <2>1. Len(s) = 2 /\ s \in Seq(Resources) /\ \A i, j \in 1..2 : s[i] = s[j] => i = j
    BY DEF Resources
  <2>2. Acquired(program) = s
    BY <1>3 DEF Acquired
  <2> HIDE DEF s
  <2>. QED
    BY <2>1, <2>2
<1>4. CASE program = "crc32"
  <2> DEFINE s == <<"fd", "mapping">>
  <2>1. Len(s) = 2 /\ s \in Seq(Resources) /\ \A i, j \in 1..2 : s[i] = s[j] => i = j
    BY DEF Resources
  <2>2. Acquired(program) = s
    BY <1>4 DEF Acquired
  <2> HIDE DEF s
  <2>. QED
    BY <2>1, <2>2
<1>. QED
  BY <1>1, <1>2, <1>3, <1>4

LEMMA LengthOfCalls ==
    ASSUME job.program \in Unwinding!Programs
    PROVE  Len(Unwinding!Calls) = CASE job.program = "buffer" -> 7
                                    [] job.program = "server" -> 10
                                    [] job.program = "crc32" -> 3
BY DEF Unwinding!Programs, Unwinding!Calls, Unwinding!buffer_init, Unwinding!server_start,
       Unwinding!crc32_start

\* The labels of buffer_init from the n-th on.
LEMMA LabelsFrom ==
    ASSUME NEW n \in 1..6
    PROVE  /\ Unwinding!From(n) \in Seq(Resources) /\ Len(Unwinding!From(n)) = 7 - n
           /\ \A i \in 1..7 - n : Unwinding!From(n)[i] = Unwinding!Cascade[n + i - 1]
<1>1. Unwinding!Cascade \in Seq(Resources) /\ Len(Unwinding!Cascade) = 6
  BY DEF Unwinding!Cascade, Resources
<1> DEFINE c == Unwinding!Cascade
<1> HIDE DEF c
<1>2. c \in Seq(Resources) /\ Len(c) = 6
  BY <1>1 DEF c
<1>3. \A i \in n..6 : i \in 1..Len(c) /\ c[i] \in Resources
  <2>1. \A i \in n..6 : i \in 1..Len(c)
    BY <1>2
  <2>. QED
    BY <1>2, <2>1, ElementOfSeq
<1>4. /\ SubSeq(c, n, 6) \in Seq(Resources) /\ Len(SubSeq(c, n, 6)) = 6 - n + 1
      /\ \A i \in 1..6 - n + 1 : SubSeq(c, n, 6)[i] = c[n + i - 1]
  BY <1>2, <1>3, SubSeqProperties
<1>5. Unwinding!From(n) = SubSeq(c, n, 6) /\ 6 - n + 1 = 7 - n
  BY <1>2 DEF Unwinding!From, c
<1>6. \A i \in 1..7 - n : SubSeq(c, n, 6)[i] = c[n + i - 1]
  BY <1>4, <1>5
<1>. QED
  BY <1>4, <1>5, <1>6 DEF c

\* Each call gives what comes next, and plans to release what was held before it.
InOrder(program, call, n) ==
    LET names == Acquired(program)
        k == AcquiredBefore(program, n)
    IN /\ k \in 0..Len(names)
       /\ IF call.gets = Unwinding!Nothing
          THEN AcquiredBefore(program, n + 1) = k
          ELSE /\ AcquiredBefore(program, n + 1) = k + 1
               /\ k + 1 \in 1..Len(names) /\ names[k + 1] = call.gets
       /\ IsBackwards(call.undo, names, k)

LEMMA BufferInOrder ==
    ASSUME NEW n \in 1..7 PROVE InOrder("buffer", Unwinding!buffer_init[n], n)
<1> DEFINE s == <<"number", "memory", "cdev", "class", "device", "kobject", "attribute">>
           call == Unwinding!buffer_init[n]
<1>1. Acquired("buffer") = s /\ Len(s) = 7
  BY DEF Acquired
<1>2. AcquiredBefore("buffer", n) = n - 1 /\ AcquiredBefore("buffer", n + 1) = n
  BY DEF AcquiredBefore
<1>3. n \in {1, 2, 3, 4, 5, 6, 7}
  OBVIOUS
<1>4. call.gets = s[n]
  BY <1>3 DEF Unwinding!buffer_init, Unwinding!Call
<1>5. s[n] # Unwinding!Nothing
  <2>1. s[n] \in Resources
    BY <1>3 DEF Resources
  <2>. QED
    BY <2>1 DEF Resources, Unwinding!Nothing
<1>6. call.undo = IF n = 1 THEN <<>> ELSE Unwinding!From(8 - n)
  BY <1>3 DEF Unwinding!buffer_init, Unwinding!Call
<1>7. IsBackwards(call.undo, s, n - 1)
  <2>1. CASE n = 1
    BY <1>6, <2>1 DEF IsBackwards
  <2>2. CASE n \in 2..7
    <3> DEFINE m == 8 - n
    <3>1. m \in 1..6 /\ 7 - m = n - 1 /\ call.undo = Unwinding!From(m)
      BY <1>6, <2>2
    <3>2. /\ call.undo \in Seq(Resources) /\ Len(call.undo) = n - 1
          /\ \A i \in 1..n - 1 : call.undo[i] = Unwinding!Cascade[m + i - 1]
      <4> HIDE DEF m, call
      <4>. QED
        BY <3>1, LabelsFrom
    <3>3. \A j \in 1..6 : Unwinding!Cascade[j] = s[7 - j]
      BY DEF Unwinding!Cascade
    <3>4. ASSUME NEW i \in 1..n - 1 PROVE call.undo[i] = s[(n - 1) + 1 - i]
      <4>1. m + i - 1 \in 1..6 /\ 7 - (m + i - 1) = (n - 1) + 1 - i
        BY <2>2
      <4> HIDE DEF m, call, s
      <4>2. Unwinding!Cascade[m + i - 1] = s[7 - (m + i - 1)]
        BY <3>3, <4>1
      <4>. QED
        BY <3>2, <4>1, <4>2
    <3> HIDE DEF call, s
    <3>. QED
      BY <3>2, <3>4 DEF IsBackwards
  <2>. QED
    BY <2>1, <2>2
<1> HIDE DEF s, call
<1>8. n - 1 \in 0..7 /\ (n - 1) + 1 = n /\ n \in 1..7
  OBVIOUS
<1>9. InOrder("buffer", call, n)
  BY <1>1, <1>2, <1>4, <1>5, <1>7, <1>8 DEF InOrder
<1>. QED
  BY <1>9 DEF call

LEMMA ServerInOrder ==
    ASSUME NEW n \in 1..10 PROVE InOrder("server", Unwinding!server_start[n], n)
<1> DEFINE s == <<"listen_fd", "epoll_fd">>
           call == Unwinding!server_start[n]
           k == IF n <= 3 THEN 0 ELSE IF n <= 9 THEN 1 ELSE 2
           l == IF n <= 2 THEN 0 ELSE IF n <= 8 THEN 1 ELSE 2
<1>1. Acquired("server") = s /\ Len(s) = 2
  BY DEF Acquired
<1>2. AcquiredBefore("server", n) = k /\ AcquiredBefore("server", n + 1) = l
  BY DEF AcquiredBefore
<1>3. n \in {1, 2, 3, 4, 5, 6, 7, 8, 9, 10}
  OBVIOUS
<1> DEFINE Is(i, gets, undo) == /\ Unwinding!server_start[i].gets = gets
                                /\ Unwinding!server_start[i].undo = undo
           None == Unwinding!Nothing
<1>0. /\ Is(1, None, <<>>) /\ Is(2, None, <<>>) /\ Is(3, "listen_fd", <<>>)
      /\ Is(4, None, <<"listen_fd">>) /\ Is(5, None, <<"listen_fd">>)
      /\ Is(6, None, <<"listen_fd">>) /\ Is(7, None, <<"listen_fd">>)
      /\ Is(8, None, <<"listen_fd">>) /\ Is(9, "epoll_fd", <<"listen_fd">>)
      /\ Is(10, None, <<"epoll_fd", "listen_fd">>)
  BY DEF Unwinding!server_start, Unwinding!Call
<1>4. call.gets = CASE n = 3 -> "listen_fd" [] n = 9 -> "epoll_fd" [] OTHER -> Unwinding!Nothing
  BY <1>0, <1>3
<1>5. call.undo = CASE k = 0 -> <<>> [] k = 1 -> <<"listen_fd">> [] k = 2 -> <<"epoll_fd", "listen_fd">>
  BY <1>0, <1>3
<1>6. IsBackwards(call.undo, s, k)
  <2>1. k \in {0, 1, 2}
    OBVIOUS
  <2>2. /\ IsBackwards(<<>>, s, 0) /\ IsBackwards(<<"listen_fd">>, s, 1)
        /\ IsBackwards(<<"epoll_fd", "listen_fd">>, s, 2)
    BY DEF IsBackwards, Resources
  <2> HIDE DEF k, call, s
  <2>. QED
    BY <1>5, <2>1, <2>2
<1>7. "listen_fd" # Unwinding!Nothing /\ "epoll_fd" # Unwinding!Nothing
  BY DEF Unwinding!Nothing
<1> HIDE DEF call
<1>8. /\ k \in 0..2
      /\ IF call.gets = Unwinding!Nothing THEN l = k
         ELSE l = k + 1 /\ k + 1 \in 1..2 /\ s[k + 1] = call.gets
  BY <1>3, <1>4, <1>7
<1> HIDE DEF k, l, s
<1>9. InOrder("server", call, n)
  BY <1>1, <1>2, <1>6, <1>8 DEF InOrder
<1>. QED
  BY <1>9 DEF call

LEMMA CrcInOrder ==
    ASSUME NEW n \in 1..3 PROVE InOrder("crc32", Unwinding!crc32_start[n], n)
<1> DEFINE s == <<"fd", "mapping">>
           call == Unwinding!crc32_start[n]
           k == IF n <= 1 THEN 0 ELSE 1
<1>1. Acquired("crc32") = s /\ Len(s) = 2
  BY DEF Acquired
<1>2. AcquiredBefore("crc32", n) = k /\ AcquiredBefore("crc32", n + 1) = IF n <= 2 THEN 1 ELSE 2
  BY DEF AcquiredBefore
<1>3. n \in {1, 2, 3}
  OBVIOUS
<1>4. call.gets = CASE n = 1 -> "fd" [] n = 3 -> "mapping" [] OTHER -> Unwinding!Nothing
  BY <1>3 DEF Unwinding!crc32_start, Unwinding!Call
<1>5. call.undo = IF k = 0 THEN <<>> ELSE <<"fd">>
  BY <1>3 DEF Unwinding!crc32_start, Unwinding!Call
<1>6. IsBackwards(call.undo, s, k)
  BY <1>5 DEF IsBackwards, Resources
<1>7. "fd" # Unwinding!Nothing /\ "mapping" # Unwinding!Nothing
  BY DEF Unwinding!Nothing
<1> HIDE DEF call
<1>8. InOrder("crc32", call, n)
  BY <1>1, <1>2, <1>4, <1>6, <1>7 DEF InOrder
<1>. QED
  BY <1>8 DEF call

LEMMA CallsInOrder ==
    ASSUME job.program \in Unwinding!Programs, NEW n \in 1..Len(Unwinding!Calls)
    PROVE  InOrder(job.program, Unwinding!Calls[n], n)
<1>1. job.program \in {"buffer", "server", "crc32"}
  BY DEF Unwinding!Programs
<1>2. CASE job.program = "buffer"
  BY <1>2, LengthOfCalls, BufferInOrder DEF Unwinding!Calls
<1>3. CASE job.program = "server"
  BY <1>3, LengthOfCalls, ServerInOrder DEF Unwinding!Calls
<1>4. CASE job.program = "crc32"
  BY <1>4, LengthOfCalls, CrcInOrder DEF Unwinding!Calls
<1>. QED
  BY <1>1, <1>2, <1>3, <1>4

\* A program that has run on holds all it acquires and releases it backwards.
LEMMA EndInOrder ==
    ASSUME job.program \in Unwinding!Programs
    PROVE  LET names == Acquired(job.program)
           IN /\ AcquiredBefore(job.program, Len(Unwinding!Calls) + 1) = Len(names)
              /\ IsBackwards(Unwinding!AtEnd, names, Len(names))
<1>1. CASE job.program = "buffer"
  <2> DEFINE s == <<"number", "memory", "cdev", "class", "device", "kobject", "attribute">>
             end == Unwinding!buffer_exit
  <2>1. /\ Unwinding!AtEnd = end /\ Len(Unwinding!Calls) = 7 /\ Acquired(job.program) = s
    BY <1>1, LengthOfCalls DEF Unwinding!AtEnd, Acquired
  <2>2. Len(s) = 7 /\ Len(end) = 7 /\ end \in Seq(Resources)
    BY DEF Resources, Unwinding!buffer_exit
  <2>3. \A i \in 1..7 : end[i] = s[7 + 1 - i]
    BY DEF Unwinding!buffer_exit
  <2>4. AcquiredBefore(job.program, 7 + 1) = 7
    BY <1>1 DEF AcquiredBefore
  <2> HIDE DEF s, end
  <2>5. IsBackwards(end, s, 7)
    BY <2>1, <2>2, <2>3 DEF IsBackwards
  <2>. QED
    BY <2>1, <2>2, <2>3, <2>4, <2>5
<1>2. CASE job.program = "server"
  <2> DEFINE s == <<"listen_fd", "epoll_fd">>
             end == Unwinding!server_end
  <2>1. /\ Unwinding!AtEnd = end /\ Len(Unwinding!Calls) = 10 /\ Acquired(job.program) = s
    BY <1>2, LengthOfCalls DEF Unwinding!AtEnd, Acquired
  <2>2. /\ Len(s) = 2 /\ Len(end) = 2 /\ end \in Seq(Resources)
        /\ \A i \in 1..2 : end[i] = s[2 + 1 - i]
    BY DEF Resources, Unwinding!server_end
  <2>4. AcquiredBefore(job.program, 10 + 1) = 2
    BY <1>2 DEF AcquiredBefore
  <2> HIDE DEF s, end
  <2>5. IsBackwards(end, s, 2)
    BY <2>1, <2>2 DEF IsBackwards
  <2>. QED
    BY <2>1, <2>2, <2>4, <2>5
<1>3. CASE job.program = "crc32"
  <2> DEFINE s == <<"fd", "mapping">>
             end == Unwinding!crc32_end
  <2>1. /\ Unwinding!AtEnd = end /\ Len(Unwinding!Calls) = 3 /\ Acquired(job.program) = s
    BY <1>3, LengthOfCalls DEF Unwinding!AtEnd, Acquired
  <2>2. /\ Len(s) = 2 /\ Len(end) = 2 /\ end \in Seq(Resources)
        /\ \A i \in 1..2 : end[i] = s[2 + 1 - i]
    BY DEF Resources, Unwinding!crc32_end
  <2>4. AcquiredBefore(job.program, 3 + 1) = 2
    BY <1>3 DEF AcquiredBefore
  <2> HIDE DEF s, end
  <2>5. IsBackwards(end, s, 2)
    BY <2>1, <2>2 DEF IsBackwards
  <2>. QED
    BY <2>1, <2>2, <2>4, <2>5
<1>. QED
  BY <1>1, <1>2, <1>3 DEF Unwinding!Programs

LEMMA UnwindingStarts == ASSUME Init, Runs(Unwinding!Programs) PROVE UnwindingInv
<1>1. work = Unwinding!Start /\ status = "running" /\ job.program \in Unwinding!Programs
  BY FirstStates DEF Runs
<1> DEFINE names == Acquired(job.program)
<1>2. Len(Unwinding!Calls) \in Nat /\ 1 \in 1..Len(Unwinding!Calls) + 1
  BY <1>1, LengthOfCalls DEF Unwinding!Programs
<1>3. Len(names) \in Nat /\ 0 \in 0..Len(names)
  BY <1>1, NamesDiffer
<1>4. AcquiredBefore(job.program, 1) = 0
  BY <1>1 DEF AcquiredBefore, Unwinding!Programs
<1>5. work.next = 1 /\ work.held = <<>> /\ work.plan = <<>>
      /\ work = [next |-> work.next, held |-> work.held, plan |-> work.plan]
  BY <1>1 DEF Unwinding!Start
<1>6. IsFirst(<<>>, names, 0)
  BY DEF IsFirst
<1> HIDE DEF names
<1>. QED
  BY <1>1, <1>2, <1>3, <1>4, <1>5, <1>6 DEF UnwindingInv, names

\* Releasing what the plan says first, which is what is held last.
LEMMA OneReleased ==
    ASSUME NEW names \in Seq(Resources), NEW k \in 1..Len(names), NEW held, NEW plan,
           \A i, j \in 1..Len(names) : names[i] = names[j] => i = j,
           IsFirst(held, names, k), IsBackwards(plan, names, k)
    PROVE  /\ plan # <<>> /\ Head(plan) = names[k] /\ held # <<>> /\ held[Len(held)] = names[k]
           /\ IsFirst(Unwinding!Without(Head(plan), held), names, k - 1)
           /\ IsBackwards(Tail(plan), names, k - 1)
<1>0. Len(names) \in Nat /\ k \in Nat /\ k - 1 \in Nat /\ k \in 1..k /\ 1 \in 1..k
  OBVIOUS
<1>1. /\ held \in Seq(Resources) /\ Len(held) = k /\ \A i \in 1..k : held[i] = names[i]
      /\ plan \in Seq(Resources) /\ Len(plan) = k /\ \A i \in 1..k : plan[i] = names[k + 1 - i]
  BY DEF IsFirst, IsBackwards
<1>2. plan # <<>> /\ held # <<>>
  BY <1>0, <1>1
<1>3. Head(plan) = names[k]
  <2>1. Head(plan) = plan[1]
    BY <1>1, <1>2, HeadTailProperties
  <2>2. plan[1] = names[k + 1 - 1] /\ k + 1 - 1 = k
    BY <1>0, <1>1
  <2>. QED
    BY <2>1, <2>2
<1>4. held[Len(held)] = names[k]
  BY <1>0, <1>1
<1> DEFINE e == names[k]
           front == SubSeq(held, 1, k - 1)
           S == {held[i] : i \in DOMAIN held} \ {e}
<1>5. front \in Seq(Resources) /\ Len(front) = k - 1 /\ \A i \in 1..k - 1 : front[i] = held[i]
  BY <1>0, <1>1
<1>6. held = Append(front, e)
  <2>1. held = Append(SubSeq(held, 1, k - 1), held[k])
    <3>1. SubSeq(held, 1, k) = Append(SubSeq(held, 1, k - 1), held[k])
      BY <1>0, <1>1, SubSeqRecursiveSecond
    <3>2. SubSeq(held, 1, k) = held
      BY <1>1, SubSeqFull
    <3>. QED
      BY <3>1, <3>2
  <2>. QED
    BY <1>0, <1>1, <2>1
<1>7. e \in Resources /\ e \notin S
  BY <1>0
<1>8. \A i \in 1..k - 1 : front[i] \in S
  <2>1. ASSUME NEW i \in 1..k - 1 PROVE front[i] \in S
    <3>1. i \in DOMAIN held /\ i \in 1..Len(names) /\ i # k /\ i \in 1..k
      BY <1>0, <1>1, LenProperties
    <3>. QED
      BY <1>1, <1>5, <3>1
  <2>. QED
    BY <2>1
<1>9. Unwinding!Without(Head(plan), held) = front
  <2>1. Unwinding!Without(Head(plan), held) = Unwinding!Chosen(S, held)
    BY <1>3 DEF Unwinding!Without
  <2> HIDE DEF S, e, front
  <2>2. Unwinding!Chosen(S, held) = Chosen(S, held)
    BY DEF Unwinding!Chosen, Chosen
  <2>3. Chosen(S, Append(front, e)) = Chosen(S, front)
    BY <1>5, <1>7, ChosenAppend
  <2>4. Chosen(S, front) = front
    BY <1>5, <1>8, ChosenAll
  <2>. QED
    BY <1>6, <2>1, <2>2, <2>3, <2>4
<1>10. IsFirst(SubSeq(held, 1, k - 1), names, k - 1)
  BY <1>0, <1>1 DEF IsFirst
<1>11. IsBackwards(Tail(plan), names, k - 1)
  <2>1. /\ Tail(plan) \in Seq(Resources) /\ Len(Tail(plan)) = k - 1
        /\ \A i \in 1..k - 1 : Tail(plan)[i] = plan[i + 1]
    BY <1>1, <1>2, HeadTailProperties
  <2>2. ASSUME NEW i \in 1..k - 1 PROVE Tail(plan)[i] = names[(k - 1) + 1 - i]
    <3>1. i + 1 \in 1..k /\ k + 1 - (i + 1) = (k - 1) + 1 - i
      BY <1>0
    <3>. QED
      BY <1>1, <2>1, <3>1
  <2>. QED
    BY <2>1, <2>2 DEF IsBackwards
<1>. QED
  BY <1>2, <1>3, <1>4, <1>8, <1>9, <1>10, <1>11

LEMMA UnwindingSteps == ASSUME UnwindingInv, Unwinding!Next, job' = job PROVE UnwindingInv'
<1> DEFINE names == Acquired(job.program)
           calls == Unwinding!Calls
<1>1. /\ job.program \in Unwinding!Programs /\ job'.program \in Unwinding!Programs
      /\ Acquired(job'.program) = names
      /\ work = [next |-> work.next, held |-> work.held, plan |-> work.plan]
      /\ work.next \in 1..Len(calls) + 1
  BY DEF UnwindingInv
<1>2. calls' = calls
  BY DEF Unwinding!Calls
<1>3. PICK k \in 0..Len(names) :
        /\ IsFirst(work.held, names, k)
        /\ status = "running" => work.plan = <<>> /\ k = AcquiredBefore(job.program, work.next)
        /\ status # "running" => IsBackwards(work.plan, names, k)
  BY DEF UnwindingInv
<1>4. /\ Len(names) \in Nat /\ names \in Seq(Resources) /\ Len(calls) \in Nat
      /\ \A i, j \in 1..Len(names) : names[i] = names[j] => i = j
  BY <1>1, NamesDiffer, LengthOfCalls DEF Unwinding!Programs
<1>5. CASE Unwinding!Succeed
  <2> DEFINE n == work.next
             call == calls[n]
  <2>1. /\ status = "running" /\ status' = status /\ n \in 1..Len(calls)
        /\ work' = [work EXCEPT !.next = n + 1,
                                !.held = IF call.gets = Unwinding!Nothing THEN work.held
                                         ELSE Append(work.held, call.gets)]
    BY <1>1, <1>4, <1>5 DEF Unwinding!Succeed
  <2>2. InOrder(job.program, call, n) /\ k = AcquiredBefore(job.program, n) /\ work.plan = <<>>
    BY <1>1, <1>3, <2>1, CallsInOrder
  <2>3. /\ work'.next = n + 1 /\ work'.plan = <<>>
        /\ work'.held = IF call.gets = Unwinding!Nothing THEN work.held ELSE Append(work.held, call.gets)
        /\ work' = [next |-> work'.next, held |-> work'.held, plan |-> work'.plan]
        /\ n + 1 \in 1..Len(calls) + 1
    <3> HIDE DEF n, call, names, calls
    <3>1. n + 1 \in 1..Len(calls) + 1
      BY <1>4, <2>1
    <3>2. DOMAIN work = {"next", "held", "plan"}
      BY <1>1
    <3>. QED
      BY <1>1, <2>1, <2>2, <3>1, <3>2
  <2> HIDE DEF n, call, names, calls
  <2>4. \E m \in 0..Len(names) :
           IsFirst(work'.held, names, m) /\ m = AcquiredBefore(job.program, n + 1)
    <3>1. CASE call.gets = Unwinding!Nothing
      BY <1>3, <2>2, <2>3, <3>1 DEF InOrder, names
    <3>2. CASE call.gets # Unwinding!Nothing
      <4>1. k + 1 \in 1..Len(names) /\ names[k + 1] = call.gets
            /\ AcquiredBefore(job.program, n + 1) = k + 1
        BY <2>2, <3>2 DEF InOrder, names
      <4>2. work'.held = Append(work.held, names[k + 1]) /\ names[k + 1] \in Resources
        BY <1>4, <2>3, <3>2, <4>1, ElementOfSeq
      <4>3. IsFirst(work'.held, names, k + 1)
        <5>1. work.held \in Seq(Resources) /\ Len(work.held) = k /\ \A i \in 1..k : work.held[i] = names[i]
          BY <1>3 DEF IsFirst
        <5>2. /\ work'.held \in Seq(Resources) /\ Len(work'.held) = k + 1
              /\ work'.held[k + 1] = names[k + 1]
              /\ \A i \in 1..k : work'.held[i] = work.held[i]
          BY <4>2, <5>1, AppendProperties
        <5>3. \A i \in 1..k + 1 : i = k + 1 \/ i \in 1..k
          BY <1>3, <1>4
        <5>. QED
          BY <5>1, <5>2, <5>3 DEF IsFirst
      <4>. QED
        BY <1>4, <4>1, <4>3
    <3>. QED
      BY <3>1, <3>2
  <2>. QED
    BY <1>1, <1>2, <2>1, <2>3, <2>4 DEF UnwindingInv, names, calls
<1>6. CASE Unwinding!Fail
  <2> DEFINE n == work.next
             call == calls[n]
  <2>1. /\ status = "running" /\ status' = "failed" /\ n \in 1..Len(calls)
        /\ work' = [work EXCEPT !.plan = call.undo]
    BY <1>1, <1>4, <1>6 DEF Unwinding!Fail
  <2>2. InOrder(job.program, call, n) /\ k = AcquiredBefore(job.program, n)
    BY <1>1, <1>3, <2>1, CallsInOrder
  <2>3. IsBackwards(call.undo, names, k)
    BY <2>2 DEF InOrder
  <2>4. /\ work'.next = n /\ work'.plan = call.undo /\ work'.held = work.held
        /\ work' = [next |-> work'.next, held |-> work'.held, plan |-> work'.plan]
    BY <1>1, <2>1
  <2> HIDE DEF call, names, calls
  <2>. QED
    BY <1>1, <1>2, <1>3, <2>1, <2>3, <2>4 DEF UnwindingInv, names, calls
<1>7. CASE Unwinding!End
  <2>1. /\ status = "running" /\ status' = "done" /\ work.next = Len(calls) + 1
        /\ work' = [work EXCEPT !.plan = Unwinding!AtEnd]
    BY <1>1, <1>4, <1>7 DEF Unwinding!End
  <2>2. k = Len(names) /\ IsBackwards(Unwinding!AtEnd, names, k)
    BY <1>1, <1>3, <2>1, EndInOrder
  <2>3. /\ work'.next = work.next /\ work'.plan = Unwinding!AtEnd /\ work'.held = work.held
        /\ work' = [next |-> work'.next, held |-> work'.held, plan |-> work'.plan]
    BY <1>1, <2>1
  <2> HIDE DEF names, calls
  <2>. QED
    BY <1>1, <1>2, <1>3, <2>1, <2>2, <2>3 DEF UnwindingInv, names, calls
<1>8. CASE Unwinding!Release
  <2>1. /\ work.plan # <<>> /\ status' = status
        /\ work' = [work EXCEPT !.plan = Tail(work.plan),
                                !.held = Unwinding!Without(Head(work.plan), work.held)]
    BY <1>8 DEF Unwinding!Release
  <2>2. status # "running" /\ IsBackwards(work.plan, names, k)
    BY <1>3, <2>1
  <2>3. k \in 1..Len(names) /\ k - 1 \in 0..Len(names)
    <3>1. work.plan \in Seq(Resources) /\ Len(work.plan) = k
      BY <2>2 DEF IsBackwards
    <3>2. k # 0
      BY <2>1, <3>1, EmptySeq
    <3>. QED
      BY <1>4, <3>2
  <2>4. /\ work'.next = work.next /\ work'.plan = Tail(work.plan)
        /\ work'.held = Unwinding!Without(Head(work.plan), work.held)
        /\ work' = [next |-> work'.next, held |-> work'.held, plan |-> work'.plan]
    BY <1>1, <2>1
  <2> HIDE DEF names, calls
  <2>5. IsFirst(work'.held, names, k - 1) /\ IsBackwards(work'.plan, names, k - 1)
    <3>1. /\ IsFirst(work.held, names, k) /\ IsBackwards(work.plan, names, k)
          /\ Len(names) \in Nat /\ names \in Seq(Resources)
          /\ \A i, j \in 1..Len(names) : names[i] = names[j] => i = j
      BY <1>3, <1>4, <2>2
    <3>2. /\ IsFirst(Unwinding!Without(Head(work.plan), work.held), names, k - 1)
          /\ IsBackwards(Tail(work.plan), names, k - 1)
      BY ONLY <2>3, <3>1, OneReleased
    <3>. QED
      BY ONLY <2>4, <3>2
  <2>. QED
    BY <1>1, <1>2, <2>1, <2>2, <2>3, <2>4, <2>5 DEF UnwindingInv, names, calls
<1>. QED
  BY <1>5, <1>6, <1>7, <1>8 DEF Unwinding!Next

LEMMA UnwindingAlways == Spec => [](Runs(Unwinding!Programs) => UnwindingInv)
<1>1. Init => (Runs(Unwinding!Programs) => UnwindingInv)
  BY UnwindingStarts
<1>2. (Runs(Unwinding!Programs) => UnwindingInv) /\ [Next]_vars
      => (Runs(Unwinding!Programs) => UnwindingInv)'
  <2>1. ASSUME Next, Runs(Unwinding!Programs), UnwindingInv PROVE UnwindingInv'
    BY <2>1, JobStays, OwnSteps, UnwindingSteps
  <2>2. ASSUME UNCHANGED vars, UnwindingInv PROVE UnwindingInv'
    BY <2>2 DEF vars, UnwindingInv, Unwinding!Calls
  <2>3. [Next]_vars => job' = job
    BY JobStays
  <2>. QED
    BY <2>1, <2>2, <2>3 DEF Runs, Unwinding!Programs
<1>. QED
  BY <1>1, <1>2, PTL DEF Spec

LEMMA UnwindingUnwound == ASSUME UnwindingInv PROVE Unwinding!Unwound
<1> DEFINE names == Acquired(job.program)
<1>1. PICK k \in 0..Len(names) :
        /\ IsFirst(work.held, names, k)
        /\ status = "running" => work.plan = <<>>
        /\ status # "running" => IsBackwards(work.plan, names, k)
  BY DEF UnwindingInv
<1>2. /\ Len(names) \in Nat /\ names \in Seq(Resources)
      /\ \A i, j \in 1..Len(names) : names[i] = names[j] => i = j
  BY NamesDiffer DEF UnwindingInv
<1> HIDE DEF names
<1>3. CASE k = 0
  <2>1. work.held = <<>>
    BY <1>1, <1>3, EmptySeq DEF IsFirst
  <2>2. work.plan = <<>>
    BY <1>1, <1>3, EmptySeq DEF IsBackwards
  <2>. QED
    BY <2>1, <2>2 DEF Unwinding!Unwound
<1>4. CASE k # 0
  <2>1. k \in 1..Len(names)
    BY <1>2, <1>4
  <2>2. CASE status = "running"
    BY <1>1, <2>2 DEF Unwinding!Unwound
  <2>3. CASE status # "running"
    <3>1. work.plan # <<>> /\ Head(work.plan) = names[k] /\ work.held # <<>> /\ work.held[Len(work.held)] = names[k]
      BY <1>1, <1>2, <2>1, <2>3, OneReleased
    <3>. QED
      BY <3>1 DEF Unwinding!Unwound
  <2>. QED
    BY <2>2, <2>3
<1>. QED
  BY <1>3, <1>4

-----------------------------------------------------------------------------
(* hw15, the statistics of a column *)

\* What is held at each place, and what the numbers printed are.
ColumnNumbers == ColumnStats!Present
ColumnTexts == ColumnStats!Of({"text"})
ColumnAnswer == ColumnStats!sqlite_stats(ColumnNumbers)
ColumnSample == ColumnStats!Aggregates(ColumnStats!Values(ColumnNumbers))
ColumnTruth == ColumnStats!Sample(ColumnStats!Values(ColumnNumbers))

SqliteHeld ==
    /\ work.at \in {"main", "open", "check", "query", "step", "exit", "close", "return"}
    /\ work.at \in {"main", "open", "return"} => work.held = {}
    /\ work.at \in {"check", "query", "close"} => work.held = {"db"}
    /\ work.at = "step" => work.held = {"db", "statement"}
    /\ work.at = "exit" => work.held \in {{"db"}, {"db", "statement"}}

\* A result without a number is left behind.
PostgresHeld ==
    /\ work.at \in {"main", "open", "exec", "tuples", "clear", "exit", "return"}
    /\ work.at \in {"main", "open"} => work.held = {}
    /\ work.at = "exec" => work.held = {"conn"}
    /\ work.at \in {"tuples", "clear"} => work.held = {"conn", "result"}
    /\ work.at = "exit" =>
          \/ work.held = {"conn"}
          \/ work.held = {"conn", "result"} /\ status = "failed" /\ ColumnNumbers = <<>>
    /\ work.at = "return" =>
          \/ work.held = {}
          \/ work.held = {"result"} /\ status = "failed" /\ ColumnNumbers = <<>>

ColumnInv ==
    /\ ColumnStats!IsInput(job)
    /\ work = [at |-> work.at, held |-> work.held, checked |-> work.checked, stats |-> work.stats]
    /\ job.db = "sqlite" =>
          /\ SqliteHeld
          /\ status = "running" /\ work.at \in {"query", "step"} /\ work.checked =>
                ~ColumnStats!FirstIsText
          /\ status = "done" /\ work.checked => ~ColumnStats!FirstIsText
          /\ status = "done" => work.stats = ColumnAnswer
    /\ job.db = "postgres" =>
          /\ PostgresHeld
          /\ status = "done" \/ (status = "running" /\ work.at = "tuples") => ColumnTexts = <<>>
          /\ status = "done" => work.stats = ColumnSample
    /\ job.db \notin {"sqlite", "postgres"} => work.at \in {"main", "return"} /\ work.held = {}
    /\ status = "done" => job.db \in {"sqlite", "postgres"} /\ ColumnNumbers # <<>>
    /\ status \in {"running", "failed", "done"}

LEMMA ColumnStarts == ASSUME Init, Runs({"column"}) PROVE ColumnInv
BY FirstStates, JobForms DEF ColumnInv, SqliteHeld, PostgresHeld, ColumnStats!Start

\* What is computed of the column is the same while the job is.
LEMMA ColumnStays ==
    ASSUME job' = job
    PROVE  /\ ColumnNumbers' = ColumnNumbers /\ ColumnTexts' = ColumnTexts
           /\ ColumnStats!FirstIsText' = ColumnStats!FirstIsText
           /\ ColumnAnswer' = ColumnAnswer /\ ColumnSample' = ColumnSample
<1>1. ColumnNumbers' = ColumnNumbers /\ ColumnTexts' = ColumnTexts
  BY DEF ColumnNumbers, ColumnTexts, ColumnStats!Present, ColumnStats!Of
<1>2. ColumnStats!FirstIsText' = ColumnStats!FirstIsText
  BY DEF ColumnStats!FirstIsText
<1>3. ColumnAnswer' = ColumnAnswer
  BY <1>1 DEF ColumnAnswer
<1>4. ColumnSample' = ColumnSample
  BY <1>1 DEF ColumnSample
<1>. QED
  BY <1>1, <1>2, <1>3, <1>4

LEMMA ColumnSteps == ASSUME ColumnInv, ColumnStats!Next, job' = job PROVE ColumnInv'
<1>0. /\ ColumnNumbers' = ColumnNumbers /\ ColumnTexts' = ColumnTexts
      /\ ColumnStats!FirstIsText' = ColumnStats!FirstIsText
      /\ ColumnAnswer' = ColumnAnswer /\ ColumnSample' = ColumnSample
  BY ColumnStays
<1>1. ColumnStats!IsInput(job')
  BY DEF ColumnInv
<1>2. work = [at |-> work.at, held |-> work.held, checked |-> work.checked, stats |-> work.stats]
  BY DEF ColumnInv
<1>3. CASE ColumnStats!main
  <2>1. /\ work.at = "main" /\ work.held = {}
        /\ \/ work' = [work EXCEPT !.at = "open", !.held = {}] /\ status' = "running"
              /\ job.db \in {"sqlite", "postgres"}
           \/ work' = [work EXCEPT !.at = "return"] /\ status' = "failed"
    BY <1>3 DEF ColumnInv, SqliteHeld, PostgresHeld, ColumnStats!main, ColumnStats!Goto
  <2>2. /\ work'.held = {}
        /\ \/ work'.at = "open" /\ status' = "running" /\ job.db \in {"sqlite", "postgres"}
           \/ work'.at = "return" /\ status' = "failed"
    BY <1>2, <2>1
  <2>3. work' = [at |-> work'.at, held |-> work'.held, checked |-> work'.checked,
                 stats |-> work'.stats]
    BY <1>2, <2>1
  <2>. QED
    BY <1>0, <1>1, <2>2, <2>3 DEF ColumnInv, SqliteHeld, PostgresHeld
<1>4. CASE ColumnStats!sqlite3_open
  <2>1. /\ job.db = "sqlite" /\ work.at = "open"
        /\ \/ work' = [work EXCEPT !.at = "check", !.held = {"db"}] /\ status' = "running"
           \/ work' = [work EXCEPT !.at = "exit", !.held = {"db"}] /\ status' = "failed"
    BY <1>4 DEF ColumnStats!sqlite3_open, ColumnStats!At
  <2>2. /\ work'.held = {"db"}
        /\ \/ work'.at = "check" /\ status' = "running"
           \/ work'.at = "exit" /\ status' = "failed"
    BY <1>2, <2>1
  <2>3. work' = [at |-> work'.at, held |-> work'.held, checked |-> work'.checked,
                 stats |-> work'.stats]
    BY <1>2, <2>1
  <2>. QED
    BY <1>0, <1>1, <2>1, <2>2, <2>3 DEF ColumnInv, SqliteHeld
<1>5. CASE ColumnStats!CheckType
  <2>1. status = "running" /\ job.db = "sqlite" /\ work.at = "check" /\ work.held = {"db"}
    BY <1>5 DEF ColumnInv, SqliteHeld, ColumnStats!CheckType, ColumnStats!At
  <2>2. \/ work' = [work EXCEPT !.at = "exit"] /\ status' = "failed"
        \/ work' = [work EXCEPT !.at = "exit", !.held = {"db", "statement"}] /\ status' = "failed"
        \/ /\ work' = [work EXCEPT !.at = "query"] /\ ~ColumnStats!FirstIsText /\ status' = status
        \/ /\ work' = [work EXCEPT !.at = "query", !.checked = FALSE] /\ status' = status
    BY <1>2, <1>5, <2>1 DEF ColumnStats!CheckType, ColumnStats!Goto, ColumnStats!Leave
  <2>3. \/ /\ work'.at = "exit" /\ work'.held \in {{"db"}, {"db", "statement"}} /\ status' = "failed"
        \/ /\ work'.at = "query" /\ work'.held = {"db"} /\ status' = "running"
           /\ work'.checked => ~ColumnStats!FirstIsText
    BY <1>2, <2>1, <2>2
  <2>4. work' = [at |-> work'.at, held |-> work'.held, checked |-> work'.checked,
                 stats |-> work'.stats]
    BY <1>2, <2>2
  <2>. QED
    BY <1>0, <1>1, <2>1, <2>3, <2>4 DEF ColumnInv, SqliteHeld
<1>6. CASE ColumnStats!PrepareQuery
  <2>1. status = "running" /\ job.db = "sqlite" /\ work.at = "query" /\ work.held = {"db"}
        /\ (work.checked => ~ColumnStats!FirstIsText)
    BY <1>6 DEF ColumnInv, SqliteHeld, ColumnStats!PrepareQuery, ColumnStats!At
  <2>2. \/ work' = [work EXCEPT !.at = "exit"] /\ status' = "failed"
        \/ work' = [work EXCEPT !.at = "step", !.held = {"db", "statement"}] /\ status' = status
    BY <1>2, <1>6, <2>1 DEF ColumnStats!PrepareQuery, ColumnStats!Goto, ColumnStats!Leave
  <2>3. /\ work'.checked = work.checked
        /\ \/ work'.at = "exit" /\ work'.held = {"db"} /\ status' = "failed"
           \/ work'.at = "step" /\ work'.held = {"db", "statement"} /\ status' = "running"
    BY <1>2, <2>1, <2>2
  <2>4. work' = [at |-> work'.at, held |-> work'.held, checked |-> work'.checked,
                 stats |-> work'.stats]
    BY <1>2, <2>2
  <2>. QED
    BY <1>0, <1>1, <2>1, <2>3, <2>4 DEF ColumnInv, SqliteHeld
<1>7. CASE ColumnStats!StepQuery
  <2>1. status = "running" /\ job.db = "sqlite" /\ work.at = "step"
        /\ work.held = {"db", "statement"} /\ (work.checked => ~ColumnStats!FirstIsText)
    BY <1>7 DEF ColumnInv, SqliteHeld, ColumnStats!StepQuery, ColumnStats!At
  <2>2. \/ work' = [work EXCEPT !.at = "exit"] /\ status' = "failed"
        \/ /\ work' = [work EXCEPT !.at = "exit", !.stats = ColumnAnswer] /\ status' = "done"
           /\ ColumnNumbers # <<>>
    BY <1>7 DEF ColumnStats!StepQuery, ColumnStats!Leave, ColumnNumbers, ColumnAnswer
  <2>3. /\ work'.checked = work.checked /\ work'.at = "exit" /\ work'.held = {"db", "statement"}
        /\ \/ status' = "failed"
           \/ status' = "done" /\ work'.stats = ColumnAnswer /\ ColumnNumbers # <<>>
    BY <1>2, <2>1, <2>2
  <2>4. work' = [at |-> work'.at, held |-> work'.held, checked |-> work'.checked,
                 stats |-> work'.stats]
    BY <1>2, <2>2
  <2>. QED
    BY <1>0, <1>1, <2>1, <2>3, <2>4 DEF ColumnInv, SqliteHeld
<1>8. CASE ColumnStats!sqlite_exit
  <2>1. /\ job.db = "sqlite" /\ status' = status
        /\ \/ work.at = "exit" /\ work' = [work EXCEPT !.at = "close", !.held = {"db"}]
           \/ work.at = "close" /\ work' = [work EXCEPT !.at = "return", !.held = {}]
    <3>1. /\ {"db"} \ {"statement"} = {"db"} /\ {"db", "statement"} \ {"statement"} = {"db"}
          /\ {"db"} \ {"db"} = {}
      OBVIOUS
    <3>. QED
      BY <1>8, <3>1 DEF ColumnInv, SqliteHeld, ColumnStats!sqlite_exit
  <2>2. /\ work'.checked = work.checked /\ work'.stats = work.stats
        /\ \/ work'.at = "close" /\ work'.held = {"db"}
           \/ work'.at = "return" /\ work'.held = {}
    BY <1>2, <2>1
  <2>3. work' = [at |-> work'.at, held |-> work'.held, checked |-> work'.checked,
                 stats |-> work'.stats]
    BY <1>2, <2>1
  <2>. QED
    BY <1>0, <1>1, <2>1, <2>2, <2>3 DEF ColumnInv, SqliteHeld
<1>9. CASE ColumnStats!PQconnectdb
  <2>1. /\ job.db = "postgres" /\ work.at = "open"
        /\ \/ work' = [work EXCEPT !.at = "exec", !.held = {"conn"}] /\ status' = "running"
           \/ work' = [work EXCEPT !.at = "exit", !.held = {"conn"}] /\ status' = "failed"
    BY <1>9 DEF ColumnStats!PQconnectdb, ColumnStats!At
  <2>2. /\ work'.held = {"conn"}
        /\ \/ work'.at = "exec" /\ status' = "running"
           \/ work'.at = "exit" /\ status' = "failed"
    BY <1>2, <2>1
  <2>3. work' = [at |-> work'.at, held |-> work'.held, checked |-> work'.checked,
                 stats |-> work'.stats]
    BY <1>2, <2>1
  <2>. QED
    BY <1>0, <1>1, <2>1, <2>2, <2>3 DEF ColumnInv, PostgresHeld
<1>10. CASE ColumnStats!PQexec
  <2>1. /\ job.db = "postgres" /\ work.at = "exec" /\ work.held = {"conn"} /\ status = "running"
    BY <1>10 DEF ColumnInv, PostgresHeld, ColumnStats!PQexec, ColumnStats!At
  <2>2. {"conn"} \cup {"result"} = {"conn", "result"}
    OBVIOUS
  <2>3. \/ work' = [work EXCEPT !.at = "exit"] /\ status' = "failed"
        \/ work' = [work EXCEPT !.at = "clear", !.held = {"conn", "result"}] /\ status' = "failed"
        \/ /\ work' = [work EXCEPT !.at = "tuples", !.held = {"conn", "result"}]
           /\ ColumnTexts = <<>> /\ status' = status
    BY <1>10, <2>1, <2>2 DEF ColumnTexts, ColumnStats!PQexec, ColumnStats!Leave, ColumnStats!Goto
  <2>4. \/ work'.at = "exit" /\ work'.held = {"conn"} /\ status' = "failed"
        \/ work'.at = "clear" /\ work'.held = {"conn", "result"} /\ status' = "failed"
        \/ /\ work'.at = "tuples" /\ work'.held = {"conn", "result"} /\ status' = "running"
           /\ ColumnTexts = <<>>
    BY <1>2, <2>1, <2>3
  <2>5. work' = [at |-> work'.at, held |-> work'.held, checked |-> work'.checked,
                 stats |-> work'.stats]
    BY <1>2, <2>3
  <2>. QED
    BY <1>0, <1>1, <2>1, <2>4, <2>5 DEF ColumnInv, PostgresHeld
<1>11. CASE ColumnStats!PQgetvalue
  <2>1. /\ job.db = "postgres" /\ work.at = "tuples" /\ work.held = {"conn", "result"}
        /\ status = "running" /\ ColumnTexts = <<>>
    BY <1>11 DEF ColumnInv, PostgresHeld, ColumnStats!PQgetvalue, ColumnStats!At
  <2>2. \/ work' = [work EXCEPT !.at = "exit"] /\ status' = "failed" /\ ColumnNumbers = <<>>
        \/ /\ work' = [work EXCEPT !.at = "clear", !.stats = ColumnSample] /\ status' = "done"
           /\ ColumnNumbers # <<>>
    BY <1>11 DEF ColumnStats!PQgetvalue, ColumnStats!Leave, ColumnNumbers, ColumnSample
  <2>3. /\ work'.held = {"conn", "result"}
        /\ \/ work'.at = "exit" /\ status' = "failed" /\ ColumnNumbers = <<>>
           \/ /\ work'.at = "clear" /\ work'.stats = ColumnSample /\ status' = "done"
              /\ ColumnNumbers # <<>>
    BY <1>2, <2>1, <2>2
  <2>4. work' = [at |-> work'.at, held |-> work'.held, checked |-> work'.checked,
                 stats |-> work'.stats]
    BY <1>2, <2>2
  <2>. QED
    BY <1>0, <1>1, <2>1, <2>3, <2>4 DEF ColumnInv, PostgresHeld
<1>12. CASE ColumnStats!postgres_exit
  <2>1. /\ job.db = "postgres" /\ status' = status
        /\ \/ /\ work.at = "clear" /\ work.held = {"conn", "result"}
              /\ work' = [work EXCEPT !.at = "exit", !.held = @ \ {"result"}]
           \/ work.at = "exit" /\ work' = [work EXCEPT !.at = "return", !.held = @ \ {"conn"}]
    BY <1>12 DEF ColumnInv, PostgresHeld, ColumnStats!postgres_exit
  <2>2. /\ {"conn", "result"} \ {"result"} = {"conn"} /\ {"conn", "result"} \ {"conn"} = {"result"}
        /\ {"conn"} \ {"conn"} = {}
    OBVIOUS
  <2>3. /\ work'.checked = work.checked /\ work'.stats = work.stats
        /\ \/ work.at = "clear" /\ work'.at = "exit" /\ work'.held = {"conn"}
           \/ work.at = "exit" /\ work'.at = "return" /\ work'.held = work.held \ {"conn"}
    BY <1>2, <2>1, <2>2
  <2>4. work' = [at |-> work'.at, held |-> work'.held, checked |-> work'.checked,
                 stats |-> work'.stats]
    BY <1>2, <2>1
  <2>5. PostgresHeld'
    BY <1>0, <2>1, <2>2, <2>3 DEF ColumnInv, PostgresHeld
  <2>. QED
    BY <1>0, <1>1, <2>1, <2>3, <2>4, <2>5 DEF ColumnInv
<1>. QED
  BY <1>3, <1>4, <1>5, <1>6, <1>7, <1>8, <1>9, <1>10, <1>11, <1>12 DEF ColumnStats!Next

LEMMA ColumnAlways == Spec => [](Runs({"column"}) => ColumnInv)
<1>1. Init => (Runs({"column"}) => ColumnInv)
  BY ColumnStarts
<1>2. (Runs({"column"}) => ColumnInv) /\ [Next]_vars => (Runs({"column"}) => ColumnInv)'
  <2>1. ASSUME Next, Runs({"column"}), ColumnInv PROVE ColumnInv'
    BY <2>1, JobStays, OwnSteps, ColumnSteps
  <2>2. ASSUME UNCHANGED vars, ColumnInv PROVE ColumnInv'
    BY <2>2, ColumnStays DEF vars, ColumnInv, SqliteHeld, PostgresHeld
  <2>3. [Next]_vars => job' = job
    BY JobStays
  <2>. QED
    BY <2>1, <2>2, <2>3 DEF Runs
<1>. QED
  BY <1>1, <1>2, PTL DEF Spec

LEMMA ColumnIsReleased == ASSUME ColumnInv PROVE ColumnStats!ColumnReleased
<1>1. "statement" \notin {"db"} /\ "statement" \notin {} /\ "db" \in {"db", "statement"}
      /\ "statement" \notin {"conn"} /\ "statement" \notin {"conn", "result"} /\ "statement" \notin {"result"}
  OBVIOUS
<1>2. CASE job.db = "sqlite"
  BY <1>1, <1>2 DEF ColumnInv, SqliteHeld, ColumnStats!ColumnReleased
<1>3. CASE job.db = "postgres"
  BY <1>1, <1>3 DEF ColumnInv, PostgresHeld, ColumnNumbers, ColumnStats!ColumnReleased
<1>4. CASE job.db \notin {"sqlite", "postgres"}
  BY <1>1, <1>4 DEF ColumnInv, ColumnStats!ColumnReleased
<1>. QED
  BY <1>2, <1>3, <1>4

SomeCells == [type : ColumnStats!CellTypes, value : Int]

Statistics == {"avg", "max", "min", "sum", "var"}
RightOrRounded(stats, truth) ==
    \A field \in Statistics : stats[field] = truth[field] \/ stats[field] = ColumnStats!Rounded

LEMMA SampleFields ==
    ASSUME NEW v
    PROVE  LET sample == ColumnStats!Sample(v)
           IN /\ DOMAIN sample = Statistics
              /\ sample = [avg |-> sample.avg, max |-> sample.max, min |-> sample.min,
                           sum |-> sample.sum, var |-> sample.var]
BY DEF ColumnStats!Sample, Statistics

LEMMA AggregatesAre ==
    ASSUME NEW v
    PROVE  LET sample == ColumnStats!Sample(v)
               got == ColumnStats!Aggregates(v)
           IN /\ got.max = sample.max /\ got.min = sample.min
              /\ RightOrRounded(got, sample)
              /\ got = [avg |-> got.avg, max |-> got.max, min |-> got.min,
                        sum |-> got.sum, var |-> got.var]
<1> DEFINE sample == ColumnStats!Sample(v)
           got == ColumnStats!Aggregates(v)
           R == ColumnStats!Rounded
<1>1. got = sample \/ got = [sample EXCEPT !.avg = R, !.sum = R, !.var = R]
  BY DEF ColumnStats!Aggregates
<1>2. sample = [avg |-> sample.avg, max |-> sample.max, min |-> sample.min, sum |-> sample.sum,
                var |-> sample.var]
  BY SampleFields
<1> HIDE DEF sample, got, R
<1>3. \/ got = sample
      \/ got = [avg |-> R, max |-> sample.max, min |-> sample.min, sum |-> R, var |-> R]
  BY <1>1, <1>2
<1>. QED
  BY <1>2, <1>3 DEF sample, got, R, RightOrRounded, Statistics

LEMMA OfTypeIs ==
    ASSUME NEW types, NEW cells
    PROVE  ColumnStats!OfType(types, cells) = Chosen({c \in ToSet(cells) : c.type \in types}, cells)
<1> DEFINE S == {c \in ToSet(cells) : c.type \in types}
<1>1. ColumnStats!OfType(types, cells) = ColumnStats!Chosen(S, cells)
  BY DEF ColumnStats!OfType, ColumnStats!Range, ToSet
<1> HIDE DEF S
<1>2. ColumnStats!Chosen(S, cells) = Chosen(S, cells)
  BY DEF ColumnStats!Chosen, Chosen
<1>. QED
  BY <1>1, <1>2 DEF S

\* A column without a text, as the query to SQLite computes it.
LEMMA AnswerIsTruth ==
    ASSUME NEW cells \in Seq(SomeCells), cells # <<>>,
           \A i \in 1..Len(cells) : cells[i].type \in {"integer", "real"},
           Len(cells) > 1 => ~ColumnStats!AllIntegers(cells)
    PROVE  RightOrRounded(ColumnStats!sqlite_stats(cells),
                          ColumnStats!Sample(ColumnStats!Values(cells)))
<1> DEFINE S == {c \in ToSet(cells) : c.type \in {"integer", "real"}}
           numbers == ColumnStats!OfType({"integer", "real"}, cells)
           v == ColumnStats!Values(cells)
           n == Len(cells)
           s == ColumnStats!SumOf(v)
           q == ColumnStats!SumOf(ColumnStats!Squares(v))
           sample == ColumnStats!Sample(v)
           got == ColumnStats!Aggregates(v)
           R == ColumnStats!Rounded
           var == ColumnStats!sqlite_variance(cells)
           lowest == ColumnStats!Min(ColumnStats!Range(ColumnStats!Values(numbers)))
<1>1. numbers = cells
  <2>1. \A i \in 1..Len(cells) : cells[i] \in ToSet(cells)
    BY ToSetElements
  <2>2. \A i \in 1..Len(cells) : cells[i] \in S
    BY <2>1
  <2>3. numbers = Chosen(S, cells)
    BY OfTypeIs
  <2> HIDE DEF S, numbers
  <2>. QED
    BY <2>2, <2>3, ChosenAll
<1>2. n \in Nat \ {0} /\ Len(v) = n
  BY DEF ColumnStats!Values
<1>3. var = (IF n = 1 THEN <<0, 1>> ELSE <<n * q - s * s, n * (n - 1)>>) \/ var = R
  <2>1. CASE n = 1
    BY <1>2, <2>1 DEF ColumnStats!sqlite_variance
  <2>2. CASE n # 1
    <3>1. Len(v) > 1 /\ Len(v) # 1 /\ ~ColumnStats!AllIntegers(cells)
      BY <1>2, <2>2
    <3>2. \/ ColumnStats!sqlite_variance(cells) = <<Len(v) * q - s * s, Len(v) * (Len(v) - 1)>>
          \/ ColumnStats!sqlite_variance(cells) = R
      <4>1. CASE ColumnStats!Exact(v)
        BY ONLY <3>1, <4>1 DEF ColumnStats!sqlite_variance, v, q, s, R
      <4>2. CASE ~ColumnStats!Exact(v)
        BY ONLY <3>1, <4>2 DEF ColumnStats!sqlite_variance, v, q, s, R
      <4>. QED
        BY <4>1, <4>2
    <3> HIDE DEF v, n, q, s, R
    <3>. QED
      BY <1>2, <2>2, <3>2
  <2>. QED
    BY <2>1, <2>2
<1>4. sample.var = IF n = 1 THEN <<0, 1>> ELSE <<n * q - s * s, n * (n - 1)>>
  <2>1. n * (n - 1) = 0 <=> n = 1
    BY <1>2
  <2>2. sample.var = ColumnStats!Fraction(n * q - s * s, n * (n - 1))
    BY <1>2 DEF ColumnStats!Sample
  <2> HIDE DEF n, sample
  <2>. QED
    BY <2>1, <2>2 DEF ColumnStats!Fraction
<1>5. sample.min = <<ColumnStats!Min(ColumnStats!Range(v)), 1>>
  BY DEF ColumnStats!Sample, ColumnStats!Fraction
<1>6. /\ got.max = sample.max /\ got.min = sample.min /\ RightOrRounded(got, sample)
      /\ got = [avg |-> got.avg, max |-> got.max, min |-> got.min, sum |-> got.sum,
                var |-> got.var]
  BY AggregatesAre
<1>7. ColumnStats!sqlite_stats(cells)
      = [got EXCEPT !.var = var,
                    !.max = IF Len(numbers) < Len(cells) THEN <<0, 1>> ELSE @,
                    !.min = IF numbers = <<>> THEN <<0, 1>> ELSE <<lowest, 1>>]
  BY DEF ColumnStats!sqlite_stats
<1>8. /\ var = sample.var \/ var = R
      /\ <<lowest, 1>> = sample.min /\ numbers # <<>> /\ ~(Len(numbers) < Len(cells))
  <2> HIDE DEF sample, numbers, var
  <2>. QED
    BY <1>1, <1>2, <1>3, <1>4, <1>5
<1> HIDE DEF sample, numbers, var, lowest, got
<1>9. ColumnStats!sqlite_stats(cells)
      = [avg |-> got.avg, max |-> got.max, min |-> sample.min, sum |-> got.sum, var |-> var]
  BY <1>6, <1>7, <1>8
<1>10. RightOrRounded(ColumnStats!sqlite_stats(cells), sample)
  BY <1>6, <1>8, <1>9 DEF RightOrRounded, Statistics
<1>. QED
  BY <1>10 DEF sample

LEMMA ColumnIsRight == ASSUME ColumnInv PROVE ColumnStats!StatsRight
<1> DEFINE cells == ColumnNumbers
           texts == {c \in ToSet(job.column) : c.type \in {"text"}}
           present == {c \in ToSet(job.column) : c.type \in {"integer", "real", "text"}}
<1>1. SUFFICES ASSUME status = "done", work.checked,
                      job.db = "sqlite" =>
                         /\ ColumnTexts = <<>> \/ ColumnStats!FirstIsText
                         /\ ~ColumnStats!AllIntegers(cells) \/ Len(cells) <= 1
      PROVE  ColumnTexts = <<>> /\ cells # <<>> /\ RightOrRounded(work.stats, ColumnTruth)
  <2>1. DOMAIN ColumnTruth = Statistics
    BY SampleFields DEF ColumnTruth
  <2>2. RightOrRounded(work.stats, ColumnTruth)
        => \A field \in DOMAIN ColumnTruth :
              ColumnStats!Equal(work.stats[field], ColumnTruth[field])
    BY <2>1 DEF RightOrRounded, ColumnStats!Equal
  <2>. QED
    BY <2>2 DEF ColumnStats!StatsRight, ColumnStats!StatsAsPromised, ColumnTexts, ColumnNumbers,
                ColumnTruth
<1>2. job.column \in Seq(SomeCells) /\ cells # <<>> /\ job.db \in {"sqlite", "postgres"}
  BY <1>1 DEF ColumnInv, ColumnStats!IsInput, SomeCells
<1>3. CASE job.db = "postgres"
  <2>1. ColumnTexts = <<>> /\ work.stats = ColumnSample
    BY <1>1, <1>3 DEF ColumnInv
  <2>2. RightOrRounded(ColumnSample, ColumnTruth)
    BY AggregatesAre DEF ColumnSample, ColumnTruth
  <2>. QED
    BY <1>2, <2>1, <2>2
<1>4. CASE job.db = "sqlite"
  <2>1. /\ ~ColumnStats!FirstIsText /\ work.stats = ColumnAnswer
        /\ ColumnTexts = <<>> /\ (Len(cells) <= 1 \/ ~ColumnStats!AllIntegers(cells))
    BY <1>1, <1>4 DEF ColumnInv
  <2>2. ColumnTexts = Chosen(texts, job.column) /\ cells = Chosen(present, job.column)
    BY OfTypeIs DEF ColumnTexts, ColumnNumbers, ColumnStats!Present, ColumnStats!Of
  <2>3. /\ cells \in Seq(SomeCells) /\ ToSet(cells) = ToSet(job.column) \cap present
        /\ ToSet(ColumnTexts) = ToSet(job.column) \cap texts
    <3> HIDE DEF present, texts
    <3>1. /\ Chosen(present, job.column) \in Seq(SomeCells)
          /\ ToSet(Chosen(present, job.column)) = ToSet(job.column) \cap present
          /\ ToSet(Chosen(texts, job.column)) = ToSet(job.column) \cap texts
      BY <1>2, ChosenType, ChosenElements
    <3>2. cells = Chosen(present, job.column) /\ ColumnTexts = Chosen(texts, job.column)
      BY <2>2
    <3> HIDE DEF cells
    <3>. QED
      BY <3>1, <3>2
  <2>4. \A x \in ToSet(job.column) : x.type # "text"
    <3>1. ToSet(ColumnTexts) = {}
      BY <2>1 DEF ToSet
    <3>. QED
      BY <2>3, <3>1
  <2>5. \A i \in 1..Len(cells) : cells[i].type \in {"integer", "real"}
    <3> HIDE DEF cells
    <3>1. \A i \in 1..Len(cells) : cells[i] \in ToSet(cells)
      BY <2>3, ToSetElements
    <3>. QED
      BY <2>3, <2>4, <3>1
  <2> HIDE DEF cells
  <2>6. Len(cells) > 1 => ~ColumnStats!AllIntegers(cells)
    <3>1. Len(cells) \in Nat
      BY <2>3
    <3>. QED
      BY <2>1, <3>1
  <2>7. RightOrRounded(ColumnStats!sqlite_stats(cells),
                       ColumnStats!Sample(ColumnStats!Values(cells)))
    BY <1>2, <2>3, <2>5, <2>6, AnswerIsTruth
  <2>. QED
    BY <1>2, <2>1, <2>7 DEF ColumnAnswer, ColumnTruth, cells
<1>. QED
  BY <1>2, <1>3, <1>4

(* The statistics printed are those of the numbers in the column, and a     *)
(* column with a text is refused, but for the two columns StatsRight names. *)
THEOREM ColumnsAreRight == Spec => []StatsRight
<1>1. (Runs({"column"}) => ColumnInv) => StatsRight
  BY ColumnIsRight DEF StatsRight
<1>. QED
  BY <1>1, ColumnAlways, PTL

-----------------------------------------------------------------------------
(* hw3, the two lists *)

OddOf(d) == Chosen({x \in Nat : x % 2 = 1}, d)
Odds(d) == Len(OddOf(d))
OddsTo(d, m) == Len(Chosen({x \in Nat : x % 2 = 1}, SubSeq(d, 1, m)))
Reversed(s) == [i \in DOMAIN s |-> s[Len(s) - i + 1]]

\* The nodes in the order of malloc: the data from the last on, then the odd
\* values from the first on.
ListNode == [value : Nat, next : Nat, live : BOOLEAN]
NodeValue(d, i) == IF i <= Len(d) THEN d[Len(d) + 1 - i] ELSE OddOf(d)[i - Len(d)]
NodeNext(d, i) == IF i = Len(d) + 1 THEN 0 ELSE i - 1
Nodes(d, heap) ==
    /\ heap \in Seq(ListNode) /\ Len(heap) <= Len(d) + Odds(d)
    /\ \A i \in 1..Len(heap) : heap[i].value = NodeValue(d, i) /\ heap[i].next = NodeNext(d, i)
Lives(heap, T) == \A i \in 1..Len(heap) : heap[i].live <=> i \in T

\* The first p elements of the output.
Symbols == Nat \cup {"\n"}
OutAt(d, i) ==
    IF i <= Len(d) THEN d[i]
    ELSE IF i = Len(d) + 1 \/ i = Len(d) + Odds(d) + 2 THEN "\n"
    ELSE OddOf(d)[Len(d) + Odds(d) + 2 - i]
Printed(d, out, p) ==
    /\ p \in 0..Len(d) + Odds(d) + 2 /\ out \in Seq(Symbols) /\ Len(out) = p
    /\ \A i \in 1..p : out[i] = OutAt(d, i)

LEMMA OddFacts ==
    ASSUME NEW d \in Seq(Nat)
    PROVE  /\ Len(d) \in Nat /\ Odds(d) \in Nat /\ OddOf(d) \in Seq(Nat)
           /\ OddsTo(d, 0) = 0 /\ OddsTo(d, Len(d)) = Odds(d)
           /\ \A m \in 1..Len(d) :
                 /\ OddsTo(d, m - 1) \in Nat /\ OddsTo(d, m) \in Nat /\ OddsTo(d, m) <= Odds(d)
                 /\ d[m] % 2 = 1 => /\ OddsTo(d, m) = OddsTo(d, m - 1) + 1
                                    /\ OddOf(d)[OddsTo(d, m)] = d[m]
                 /\ d[m] % 2 # 1 => OddsTo(d, m) = OddsTo(d, m - 1)
<1> DEFINE S == {x \in Nat : x % 2 = 1}
           Part(m) == Chosen(S, SubSeq(d, 1, m))
<1>1. Len(d) \in Nat /\ OddOf(d) \in Seq(Nat) /\ OddOf(d) = Chosen(S, d)
  <2>1. OddOf(d) = Chosen(S, d)
    BY DEF OddOf
  <2> HIDE DEF S
  <2>. QED
    BY <2>1, ChosenType
<1>2. /\ SubSeq(d, 1, 0) = <<>> /\ SubSeq(d, 1, Len(d)) = d
      /\ \A m \in 0..Len(d) : SubSeq(d, 1, m) \in Seq(Nat)
  <2>1. SubSeq(d, 1, Len(d)) = d
    BY SubSeqFull
  <2>2. SubSeq(d, 1, 0) = <<>>
    BY SubSeqEmpty
  <2>3. ASSUME NEW m \in 0..Len(d) PROVE SubSeq(d, 1, m) \in Seq(Nat)
    OBVIOUS
  <2>. QED
    BY <2>1, <2>2, <2>3
<1>3. /\ Part(0) = <<>> /\ Part(Len(d)) = OddOf(d)
      /\ \A m \in 0..Len(d) : Part(m) \in Seq(Nat)
  <2> HIDE DEF S
  <2>. QED
    BY <1>1, <1>2, ChosenEmpty, ChosenType
<1>4. \A m \in 0..Len(d) : OddsTo(d, m) = Len(Part(m)) /\ OddsTo(d, m) \in Nat
  BY <1>3 DEF OddsTo
<1>5. ASSUME NEW m \in 1..Len(d)
      PROVE  Part(m) = IF d[m] % 2 = 1 THEN Append(Part(m - 1), d[m]) ELSE Part(m - 1)
  <2>1. m \in Nat /\ m - 1 \in 0..Len(d) /\ 1 <= m /\ d[m] \in Nat
    BY <1>1
  <2>2. SubSeq(d, 1, m) = Append(SubSeq(d, 1, m - 1), d[m])
    BY <1>1, <2>1, SubSeqRecursiveSecond
  <2>3. d[m] \in S <=> d[m] % 2 = 1
    BY <2>1, ToSetElements
  <2> HIDE DEF S
  <2>4. Chosen(S, Append(SubSeq(d, 1, m - 1), d[m]))
        = IF d[m] \in S THEN Append(Chosen(S, SubSeq(d, 1, m - 1)), d[m])
          ELSE Chosen(S, SubSeq(d, 1, m - 1))
    <3> DEFINE q == SubSeq(d, 1, m - 1)
    <3>1. q \in Seq(Nat)
      BY <1>2, <2>1
    <3> DEFINE T == Nat
               x == d[m]
    <3>2. q \in Seq(T) /\ x \in T
      BY <2>1, <3>1
    <3> HIDE DEF q, T, x
    <3>3. Chosen(S, Append(q, x)) = IF x \in S THEN Append(Chosen(S, q), x) ELSE Chosen(S, q)
      BY <3>2, ChosenAppend
    <3>. QED
      BY <3>3 DEF q, x
  <2>. QED
    BY <2>2, <2>3, <2>4
<1>6. ASSUME NEW m \in 0..Len(d)
      PROVE  /\ Len(Part(m)) <= Odds(d)
             /\ \A i \in 1..Len(Part(m)) : OddOf(d)[i] = Part(m)[i]
  <2> DEFINE rest == SubSeq(d, m + 1, Len(d))
  <2>1. m \in Nat /\ m <= Len(d) /\ rest \in Seq(Nat)
    BY <1>1
  <2>2. SubSeq(d, 1, m) \o rest = d
    <3>1. /\ 1 \in 1..Len(d) + 1 /\ m \in 1 - 1..Len(d) /\ Len(d) \in m..Len(d)
      BY <1>1, <2>1
    <3>2. SubSeq(d, 1, m) \o SubSeq(d, m + 1, Len(d)) = SubSeq(d, 1, Len(d))
      BY <3>1, ConcatAdjacentSubSeq
    <3>. QED
      BY <1>2, <3>2
  <2> HIDE DEF S, rest
  <2>3. OddOf(d) = Part(m) \o Chosen(S, rest)
    <3> DEFINE q == SubSeq(d, 1, m)
    <3>1. q \in Seq(Nat) /\ q \o rest = d
      BY <1>2, <2>2
    <3> DEFINE T == Nat
    <3>2. q \in Seq(T) /\ rest \in Seq(T)
      BY <2>1, <3>1
    <3> HIDE DEF q, T
    <3>3. Chosen(S, q \o rest) = Chosen(S, q) \o Chosen(S, rest)
      BY <3>2, ChosenConcat
    <3>. QED
      BY <1>1, <3>1, <3>3 DEF q
  <2>4. Chosen(S, rest) \in Seq(Nat) /\ Part(m) \in Seq(Nat)
    BY <1>3, <2>1, ChosenType
  <2> HIDE DEF Part
  <2>. QED
    BY <2>3, <2>4, ConcatProperties DEF Odds
<1>7. ASSUME NEW m \in 1..Len(d)
      PROVE  /\ OddsTo(d, m - 1) \in Nat /\ OddsTo(d, m) \in Nat /\ OddsTo(d, m) <= Odds(d)
             /\ d[m] % 2 = 1 => /\ OddsTo(d, m) = OddsTo(d, m - 1) + 1
                                /\ OddOf(d)[OddsTo(d, m)] = d[m]
             /\ d[m] % 2 # 1 => OddsTo(d, m) = OddsTo(d, m - 1)
  <2>1. m \in 0..Len(d) /\ m - 1 \in 0..Len(d) /\ d[m] \in Nat
    BY <1>1
  <2>2. /\ OddsTo(d, m) = Len(Part(m)) /\ OddsTo(d, m - 1) = Len(Part(m - 1))
        /\ Part(m) \in Seq(Nat) /\ Part(m - 1) \in Seq(Nat) /\ Len(Part(m)) <= Odds(d)
    BY <1>3, <1>4, <1>6, <2>1
  <2> HIDE DEF Part
  <2>3. CASE d[m] % 2 = 1
    <3>1. Part(m) = Append(Part(m - 1), d[m])
      BY <1>5, <2>3
    <3>2. Len(Part(m)) = Len(Part(m - 1)) + 1 /\ Part(m)[Len(Part(m))] = d[m]
      BY <2>1, <2>2, <3>1, AppendProperties
    <3>3. Len(Part(m)) \in 1..Len(Part(m))
      BY <2>2, <3>2
    <3>4. OddOf(d)[Len(Part(m))] = d[m]
      BY <1>6, <2>1, <3>2, <3>3
    <3>. QED
      BY <2>2, <2>3, <3>2, <3>4
  <2>4. CASE d[m] % 2 # 1
    BY <1>5, <2>2, <2>4
  <2>. QED
    BY <2>2, <2>3, <2>4
<1>8. OddsTo(d, 0) = 0 /\ OddsTo(d, Len(d)) = Odds(d) /\ Odds(d) \in Nat
  <2>1. 0 \in 0..Len(d) /\ Len(d) \in 0..Len(d)
    BY <1>1
  <2>. QED
    BY <1>1, <1>3, <1>4, <2>1 DEF Odds
<1>. QED
  BY <1>1, <1>7, <1>8

LEMMA NodeAdded ==
    ASSUME NEW d \in Seq(Nat), NEW heap, NEW v \in Nat, NEW n \in Nat,
           Nodes(d, heap), Lives(heap, 1..Len(heap)), Len(heap) < Len(d) + Odds(d),
           v = NodeValue(d, Len(heap) + 1), n = NodeNext(d, Len(heap) + 1)
    PROVE  LET more == Append(heap, [value |-> v, next |-> n, live |-> TRUE])
           IN Nodes(d, more) /\ Lives(more, 1..Len(more)) /\ Len(more) = Len(heap) + 1
<1> DEFINE x == [value |-> v, next |-> n, live |-> TRUE]
           more == Append(heap, x)
<1>1. heap \in Seq(ListNode) /\ x \in ListNode /\ Len(heap) \in Nat /\ Len(d) \in Nat /\ Odds(d) \in Nat
  BY OddFacts DEF Nodes, ListNode
<1>2. x.value = v /\ x.next = n /\ x.live = TRUE
  OBVIOUS
<1> HIDE DEF x
<1>3. /\ more \in Seq(ListNode) /\ Len(more) = Len(heap) + 1 /\ more[Len(heap) + 1] = x
      /\ \A i \in 1..Len(heap) : more[i] = heap[i]
  BY <1>1, AppendProperties
<1> HIDE DEF more
<1>4. ASSUME NEW i \in 1..Len(more)
      PROVE  /\ more[i].value = NodeValue(d, i) /\ more[i].next = NodeNext(d, i)
             /\ more[i].live <=> i \in 1..Len(more)
  <2>1. i = Len(heap) + 1 \/ i \in 1..Len(heap)
    BY <1>1, <1>3
  <2>2. CASE i = Len(heap) + 1
    BY <1>2, <1>3, <2>2
  <2>3. CASE i \in 1..Len(heap)
    BY <1>3, <2>3 DEF Nodes, Lives
  <2>. QED
    BY <2>1, <2>2, <2>3
<1>5. Len(more) <= Len(d) + Odds(d)
  BY <1>1, <1>3
<1>. QED
  BY <1>3, <1>4, <1>5 DEF Nodes, Lives, more, x

LEMMA NodeFreed ==
    ASSUME NEW d \in Seq(Nat), NEW heap, NEW T, Nodes(d, heap), Lives(heap, T),
           NEW c \in 1..Len(heap)
    PROVE  LET rest == [heap EXCEPT ![c].live = FALSE]
           IN Nodes(d, rest) /\ Lives(rest, T \ {c}) /\ Len(rest) = Len(heap)
<1> DEFINE rest == [heap EXCEPT ![c].live = FALSE]
<1>1. heap \in Seq(ListNode) /\ heap[c] \in ListNode /\ Len(heap) \in Nat
  BY DEF Nodes
<1> DEFINE x == [heap[c] EXCEPT !.live = FALSE]
<1>2. x \in ListNode /\ x.value = heap[c].value /\ x.next = heap[c].next /\ x.live = FALSE
  BY <1>1 DEF ListNode
<1>3. rest = [heap EXCEPT ![c] = x]
  OBVIOUS
<1> HIDE DEF rest, x
<1>4. /\ rest \in Seq(ListNode) /\ Len(rest) = Len(heap)
      /\ \A i \in 1..Len(heap) : rest[i] = IF i = c THEN x ELSE heap[i]
  BY <1>1, <1>2, <1>3, ExceptSeq
<1>. QED
  BY <1>2, <1>4 DEF Nodes, Lives, rest

LEMMA OddType ==
    ASSUME NEW d \in Seq(Nat)
    PROVE  OddOf(d) \in Seq(Nat)
BY OddFacts

LEMMA PrintedMore ==
    ASSUME NEW d \in Seq(Nat), NEW out, NEW p, Printed(d, out, p), p < Len(d) + Odds(d) + 2,
           NEW x \in Symbols, x = OutAt(d, p + 1)
    PROVE  Printed(d, Append(out, x), p + 1)
<1> DEFINE more == Append(out, x)
<1>1. p \in Nat /\ Len(d) \in Nat /\ Odds(d) \in Nat /\ out \in Seq(Symbols) /\ Len(out) = p
  BY OddFacts DEF Printed
<1>2. /\ more \in Seq(Symbols) /\ Len(more) = p + 1 /\ more[p + 1] = x
      /\ \A i \in 1..p : more[i] = out[i]
  BY <1>1, AppendProperties
<1> HIDE DEF more
<1>3. ASSUME NEW i \in 1..p + 1 PROVE more[i] = OutAt(d, i)
  <2>1. i = p + 1 \/ i \in 1..p
    BY <1>1
  <2>. QED
    BY <1>2, <2>1 DEF Printed
<1>4. p + 1 \in 0..Len(d) + Odds(d) + 2
  BY <1>1
<1>. QED
  BY <1>2, <1>3, <1>4 DEF Printed, more

ListInv ==
    LET d == job.data
        N == Len(d)
        K == Odds(d)
        heap == work.heap
        c == work.cursor
        All == 1..Len(heap)
        newest == IF Len(heap) = N THEN 0 ELSE Len(heap)
    IN
    /\ ListPrograms!IsInput(job)
    /\ work = [heap |-> work.heap, left |-> work.left, list |-> work.list,
               new_list |-> work.new_list, cursor |-> work.cursor, out |-> work.out]
    /\ Nodes(d, heap)
    /\ status \in {"build", "print", "filter", "print_new", "clear", "clear_new", "done", "aborted"}
    /\ status = "build" =>
          /\ work.left = SubSeq(d, 1, N - Len(heap)) /\ Len(heap) <= N
          /\ work.list = Len(heap) /\ work.new_list = 0 /\ c = 0
          /\ Printed(d, work.out, 0) /\ Lives(heap, All)
    /\ status \notin {"build", "aborted"} =>
          work.list = N /\ N <= Len(heap) /\ work.new_list = newest
    /\ status = "print" =>
          /\ Len(heap) = N /\ c \in 0..N /\ Printed(d, work.out, N - c) /\ Lives(heap, All)
    /\ status = "filter" =>
          /\ c \in 0..N /\ Len(heap) = N + OddsTo(d, N - c)
          /\ Printed(d, work.out, N + 1) /\ Lives(heap, All)
    /\ status \notin {"build", "print", "filter", "aborted"} => Len(heap) = N + K
    /\ status = "print_new" =>
          /\ c \in {0} \cup N + 1..N + K /\ Lives(heap, All)
          /\ Printed(d, work.out, N + 1 + (IF c = 0 THEN K ELSE N + K - c))
    /\ status \in {"clear", "clear_new", "done"} => Printed(d, work.out, N + K + 2)
    /\ status \in {"clear", "clear_new"} => job.program = "list_ref"
    /\ status = "clear" => c \in 0..N /\ Lives(heap, 1..c \cup N + 1..N + K)
    /\ status = "clear_new" =>
          c \in {0} \cup N + 1..N + K /\ Lives(heap, IF c = 0 THEN {} ELSE N + 1..c)
    /\ status = "done" =>
          IF job.program = "list" THEN c \in 0..N /\ Lives(heap, All) ELSE c = 0 /\ Lives(heap, {})
    /\ status = "aborted" =>
          c \in 0..Len(heap) /\ Lives(heap, All) /\ \E p \in Nat : Printed(d, work.out, p)

LEMMA ListStarts == ASSUME Init, Runs({"list", "list_ref"}) PROVE ListInv
<1>1. /\ work = ListPrograms!Start(job.data) /\ status = "build" /\ ListPrograms!IsInput(job)
  BY FirstStates, JobForms
<1>2. job.data \in Seq(Nat) /\ Len(job.data) \in Nat /\ Odds(job.data) \in Nat
  BY <1>1, OddFacts DEF ListPrograms!IsInput
<1>3. /\ work = [heap |-> work.heap, left |-> work.left, list |-> work.list,
                 new_list |-> work.new_list, cursor |-> work.cursor, out |-> work.out]
      /\ work.heap = <<>> /\ work.left = job.data /\ work.list = 0 /\ work.new_list = 0
      /\ work.cursor = 0 /\ work.out = <<>>
  BY <1>1 DEF ListPrograms!Start, ListPrograms!NULL
<1>4. SubSeq(job.data, 1, Len(job.data)) = job.data
  BY <1>2, SubSeqFull
<1>5. <<>> \in Seq(ListNode) /\ <<>> \in Seq(Symbols) /\ Len(<<>>) = 0
  OBVIOUS
<1>6. Nodes(job.data, <<>>) /\ Lives(<<>>, 1..0) /\ Printed(job.data, <<>>, 0)
  BY <1>2, <1>5 DEF Nodes, Lives, Printed
<1>7. Len(job.data) - 0 = Len(job.data) /\ 0 <= Len(job.data)
  BY <1>2
<1>. QED
  BY <1>1, <1>3, <1>4, <1>5, <1>6, <1>7 DEF ListInv

LEMMA Mirror ==
    ASSUME NEW n \in Nat, NEW k \in 1..n
    PROVE  /\ n + 1 - k \in 1..n /\ n + 1 - k - 1 = n - k /\ n - (k - 1) = n + 1 - k
           /\ k - 1 \in 0..n /\ n - k \in 0..n
OBVIOUS

LEMMA ListSteps == ASSUME ListInv, ListPrograms!Next, job' = job PROVE ListInv'
<1> DEFINE d == job.data
           N == Len(d)
           K == Odds(d)
           heap == work.heap
           c == work.cursor
<1>1. /\ ListPrograms!IsInput(job)' /\ job'.data = d /\ job'.program = job.program /\ d \in Seq(Nat)
      /\ work = [heap |-> work.heap, left |-> work.left, list |-> work.list,
                 new_list |-> work.new_list, cursor |-> work.cursor, out |-> work.out]
      /\ Nodes(d, heap) /\ heap \in Seq(ListNode) /\ Len(heap) \in Nat
  BY DEF ListInv, ListPrograms!IsInput, Nodes
<1>2. /\ N \in Nat /\ K \in Nat /\ OddsTo(d, 0) = 0 /\ OddsTo(d, N) = K
      /\ \A m \in 1..N :
            /\ OddsTo(d, m - 1) \in Nat /\ OddsTo(d, m) \in Nat /\ OddsTo(d, m) <= K
            /\ d[m] % 2 = 1 => OddsTo(d, m) = OddsTo(d, m - 1) + 1 /\ OddOf(d)[OddsTo(d, m)] = d[m]
            /\ d[m] % 2 # 1 => OddsTo(d, m) = OddsTo(d, m - 1)
  BY <1>1, OddFacts
<1>3. \A m \in 0..N : OddsTo(d, m) \in 0..K
  <2>1. \A m \in 0..N : m = 0 \/ m \in 1..N
    BY <1>2
  <2>. QED
    BY <1>2, <2>1
<1>4. DOMAIN work = {"heap", "left", "list", "new_list", "cursor", "out"}
  BY <1>1
<1>num. N \in Nat /\ K \in Nat /\ Len(d) = N /\ Odds(d) = K
  BY <1>2
<1> HIDE DEF N, K
<1>5. CASE ListPrograms!Abort
  <2>1. /\ status \in {"build", "filter"} /\ status' = "aborted" /\ work' = work
    BY <1>5 DEF ListPrograms!Abort
  <2>2. c \in 0..Len(heap) /\ Lives(heap, 1..Len(heap))
    BY <1>2, <1>3, <2>1 DEF ListInv, N
  <2>3. \E p \in Nat : Printed(d, work.out, p)
    <3>1. Printed(d, work.out, 0) \/ Printed(d, work.out, N + 1)
      BY <2>1 DEF ListInv, N
    <3>2. 0 \in Nat /\ N + 1 \in Nat
      BY <1>num
    <3>. QED
      BY <3>1, <3>2
  <2>. QED
    BY <1>1, <2>1, <2>2, <2>3 DEF ListInv
<1>6. CASE ListPrograms!Build
  <2> DEFINE L == Len(heap)
             x == work.left[Len(work.left)]
             rest == SubSeq(work.left, 1, Len(work.left) - 1)
             more == Append(heap, [value |-> x, next |-> work.list, live |-> TRUE])
  <2>1. /\ status = "build" /\ status' = status /\ work.left # <<>>
        /\ work' = [work EXCEPT !.heap = more, !.list = L + 1, !.left = rest]
    BY <1>6 DEF ListPrograms!Build, ListPrograms!add_element, ListPrograms!Newest
  <2>2. /\ work.left = SubSeq(d, 1, N - L) /\ L <= N /\ work.list = L /\ work.new_list = 0 /\ c = 0
        /\ Printed(d, work.out, 0) /\ Lives(heap, 1..L)
    BY <2>1 DEF ListInv, N
  <2>3. L < N
    <3>1. L = N => SubSeq(d, 1, N - L) = <<>>
      BY <1>2
    <3>. QED
      BY <1>1, <1>2, <2>1, <2>2, <3>1
  <2>4. Len(work.left) = N - L /\ x = d[N - L] /\ x \in Nat /\ rest = SubSeq(d, 1, N - (L + 1))
    <3> DEFINE m == N - L
    <3>1. m \in 1..Len(d) /\ m - 1 = N - (L + 1) /\ m \in Int /\ 1 <= m
      BY <1>1, <1>2, <2>3 DEF N
    <3> HIDE DEF m
    <3>2. work.left = SubSeq(d, 1, m)
      BY <2>2 DEF m
    <3>3. Len(work.left) = m /\ work.left[m] = d[m] /\ d[m] \in Nat
      BY <1>1, <3>1, <3>2
    <3>4. rest = SubSeq(d, 1, m - 1)
      BY <1>1, <3>1, <3>2, <3>3
    <3>. QED
      BY <3>1, <3>3, <3>4 DEF m
  <2>5. x = NodeValue(d, L + 1) /\ work.list = NodeNext(d, L + 1)
    <3>1. L + 1 <= N /\ N + 1 - (L + 1) = N - L /\ L + 1 # N + 1 /\ L + 1 - 1 = L
      BY <1>1, <1>num, <2>3
    <3>. QED
      BY <1>num, <2>2, <2>4, <3>1 DEF NodeValue, NodeNext
  <2>6. Nodes(d, more) /\ Lives(more, 1..Len(more)) /\ Len(more) = L + 1
    <3>1. L < Len(d) + Odds(d) /\ work.list \in Nat
      BY <1>1, <1>2, <2>2, <2>3 DEF N, K
    <3> HIDE DEF x
    <3>. QED
      BY <1>1, <2>2, <2>4, <2>5, <3>1, NodeAdded
  <2> HIDE DEF x, rest, more
  <2>7. /\ work'.heap = more /\ work'.list = L + 1 /\ work'.left = rest /\ work'.new_list = 0
        /\ work'.cursor = 0 /\ work'.out = work.out
        /\ work' = [heap |-> work'.heap, left |-> work'.left, list |-> work'.list,
                   new_list |-> work'.new_list, cursor |-> work'.cursor, out |-> work'.out]
    BY <1>1, <2>1, <2>2
  <2>8. L + 1 <= N
    BY <1>1, <1>2, <2>3
  <2>. QED
    BY <1>1, <2>1, <2>2, <2>4, <2>6, <2>7, <2>8 DEF ListInv, N
<1>7. CASE ListPrograms!Built
  <2>1. /\ status = "build" /\ status' = "print" /\ work.left = <<>>
        /\ work' = [work EXCEPT !.cursor = work.list]
    BY <1>7 DEF ListPrograms!Built, ListPrograms!Go
  <2>2. /\ work.left = SubSeq(d, 1, N - Len(heap)) /\ Len(heap) <= N /\ work.list = Len(heap)
        /\ work.new_list = 0 /\ Printed(d, work.out, 0) /\ Lives(heap, 1..Len(heap))
    BY <2>1 DEF ListInv, N
  <2>3. Len(heap) = N
    <3> DEFINE m == N - Len(heap)
    <3>1. m \in 0..Len(d)
      BY <1>1, <1>2, <2>2 DEF N
    <3> HIDE DEF m
    <3>2. Len(SubSeq(d, 1, m)) = m
      BY <1>1, <3>1
    <3>3. m = 0
      <4>1. SubSeq(d, 1, m) = <<>>
        BY <2>1, <2>2 DEF m
      <4>. QED
        BY <3>2, <4>1
    <3>. QED
      BY <1>1, <1>2, <3>3 DEF m
  <2>4. /\ work'.heap = heap /\ work'.list = N /\ work'.new_list = 0 /\ work'.cursor = N
        /\ work'.out = work.out
        /\ work' = [heap |-> work'.heap, left |-> work'.left, list |-> work'.list,
                   new_list |-> work'.new_list, cursor |-> work'.cursor, out |-> work'.out]
    BY <1>1, <2>1, <2>2, <2>3
  <2>5. N - N = 0 /\ N \in 0..N
    BY <1>2
  <2>. QED
    BY <1>1, <2>1, <2>2, <2>3, <2>4, <2>5 DEF ListInv, N
<1>8. CASE ListPrograms!map
  <2>1. /\ status \in {"print", "print_new"} /\ status' = status /\ c # 0
        /\ work' = [work EXCEPT !.out = Append(work.out, heap[c].value), !.cursor = heap[c].next]
    BY <1>8 DEF ListPrograms!map, ListPrograms!Node, ListPrograms!NULL
  <2>2. CASE status = "print"
    <3>1. /\ Len(heap) = N /\ c \in 1..N /\ Printed(d, work.out, N - c) /\ Lives(heap, 1..Len(heap))
          /\ work.list = N /\ work.new_list = 0
      BY <1>2, <2>1, <2>2 DEF ListInv, N
    <3>2. heap[c].value = d[N + 1 - c] /\ heap[c].next = c - 1 /\ d[N + 1 - c] \in Nat
      <4>0. c \in 1..Len(heap) /\ c <= N /\ c # N + 1 /\ N + 1 - c \in 1..N
        BY <1>num, <3>1
      <4>1. /\ heap[c].value = NodeValue(d, c) /\ heap[c].next = NodeNext(d, c)
            /\ c <= Len(d) /\ c # Len(d) + 1 /\ N + 1 - c \in 1..Len(d)
        BY <1>1, <1>num, <4>0 DEF Nodes
      <4>. QED
        BY <1>1, <4>1 DEF NodeValue, NodeNext, N
    <3>3. Printed(d, Append(work.out, heap[c].value), N - (c - 1))
      <4> DEFINE p == N - c
                 x == d[N + 1 - c]
      <4>1. p < Len(d) + Odds(d) + 2 /\ p + 1 <= Len(d) /\ N + 1 - c = p + 1 /\ N - (c - 1) = p + 1
            /\ x \in Symbols
        <5>1. c \in 1..N
          BY <3>1
        <5>2. p < N + K + 2 /\ p + 1 <= N /\ N + 1 - c = p + 1 /\ N - (c - 1) = p + 1
          BY <1>num, <5>1
        <5>. QED
          BY <1>num, <3>2, <5>2 DEF Symbols
      <4>2. x = OutAt(d, p + 1)
        BY <4>1 DEF OutAt
      <4> HIDE DEF p, x
      <4>3. Printed(d, Append(work.out, x), p + 1)
        BY <1>1, <3>1, <4>1, <4>2, PrintedMore DEF p
      <4>. QED
        BY <3>2, <4>1, <4>3 DEF x
    <3> DEFINE more == Append(work.out, heap[c].value)
    <3> HIDE DEF more
    <3>4. /\ work'.heap = heap /\ work'.list = N /\ work'.new_list = 0 /\ work'.cursor = c - 1
          /\ work'.out = more
          /\ work' = [heap |-> work'.heap, left |-> work'.left, list |-> work'.list,
                     new_list |-> work'.new_list, cursor |-> work'.cursor, out |-> work'.out]
      BY <1>1, <2>1, <3>1, <3>2 DEF more
    <3>5. c - 1 \in 0..N
      BY <1>2, <3>1
    <3>. QED
      BY <1>1, <2>1, <2>2, <3>1, <3>3, <3>4, <3>5 DEF ListInv, N, more
  <2>3. CASE status = "print_new"
    <3>1. /\ Len(heap) = N + K /\ c \in N + 1..N + K /\ Printed(d, work.out, N + 1 + (N + K - c))
          /\ Lives(heap, 1..Len(heap))
          /\ work.list = N /\ work.new_list = IF Len(heap) = N THEN 0 ELSE Len(heap)
      BY <1>2, <2>1, <2>3 DEF ListInv, N, K
    <3> DEFINE after == IF c = N + 1 THEN 0 ELSE c - 1
               x == OddOf(d)[c - N]
               more == Append(work.out, x)
    <3>2. heap[c].value = x /\ heap[c].next = after /\ x \in Nat
      <4>1. /\ heap[c].value = NodeValue(d, c) /\ heap[c].next = NodeNext(d, c)
            /\ ~(c <= Len(d))
        <5>1. c \in 1..Len(heap) /\ ~(c <= N)
          BY <1>num, <3>1
        <5>. QED
          BY <1>1, <1>num, <5>1 DEF Nodes
      <4>2. x \in Nat
        <5>1. OddOf(d) \in Seq(Nat)
          BY <1>1, OddType
        <5>2. c - N \in 1..K
          BY <1>num, <3>1
        <5>3. K = Len(OddOf(d))
          BY DEF K, Odds
        <5>. QED
          BY <5>1, <5>2, <5>3
      <4>. QED
        BY <4>1, <4>2 DEF NodeValue, NodeNext, N
    <3>3. Printed(d, more, N + 1 + (N + K - c) + 1)
      <4> DEFINE p == N + 1 + (N + K - c)
      <4>1. /\ p < Len(d) + Odds(d) + 2 /\ ~(p + 1 <= Len(d)) /\ p + 1 # Len(d) + 1
            /\ p + 1 # Len(d) + Odds(d) + 2 /\ Len(d) + Odds(d) + 2 - (p + 1) = c - N
            /\ x \in Symbols
        <5>1. c \in N + 1..N + K
          BY <3>1
        <5>2. /\ p < N + K + 2 /\ ~(p + 1 <= N) /\ p + 1 # N + 1
              /\ p + 1 # N + K + 2 /\ N + K + 2 - (p + 1) = c - N
          BY <1>num, <5>1
        <5>. QED
          BY <1>num, <3>2, <5>2 DEF Symbols
      <4>2. x = OutAt(d, p + 1)
        BY <4>1 DEF OutAt
      <4> HIDE DEF p, x
      <4>3. Printed(d, Append(work.out, x), p + 1)
        BY <1>1, <3>1, <4>1, <4>2, PrintedMore DEF p
      <4>. QED
        BY <4>3 DEF p
    <3> HIDE DEF more, x
    <3>4. N + 1 + (N + K - c) + 1 = N + 1 + (IF after = 0 THEN K ELSE N + K - after)
          /\ after \in {0} \cup N + 1..N + K
      <4>1. c \in N + 1..N + K
        BY <3>1
      <4>2. CASE c = N + 1
        BY <1>num, <4>2
      <4>3. CASE c # N + 1
        BY <1>num, <4>1, <4>3
      <4>. QED
        BY <4>2, <4>3
    <3> HIDE DEF after
    <3>5. /\ work'.heap = heap /\ work'.list = N /\ work'.new_list = work.new_list
          /\ work'.cursor = after /\ work'.out = more
          /\ work' = [heap |-> work'.heap, left |-> work'.left, list |-> work'.list,
                     new_list |-> work'.new_list, cursor |-> work'.cursor, out |-> work'.out]
      BY <1>1, <2>1, <3>1, <3>2 DEF more
    <3>6. Printed(d, more, N + 1 + (IF after = 0 THEN K ELSE N + K - after)) /\ N <= N + K
      BY <1>2, <3>3, <3>4
    <3>. QED
      BY <1>1, <2>1, <2>3, <3>1, <3>4, <3>5, <3>6 DEF ListInv, N, K
  <2>. QED
    BY <2>1, <2>2, <2>3
<1>9. CASE ListPrograms!NewLine
  <2> DEFINE more == Append(work.out, "\n")
  <2>1. /\ status \in {"print", "print_new"} /\ c = 0
        /\ work' = [work EXCEPT !.out = more, !.cursor = work.list]
        /\ status = "print" => status' = "filter"
        /\ status = "print_new" => status' = IF job.program = "list" THEN "done" ELSE "clear"
    BY <1>9 DEF ListPrograms!NewLine, ListPrograms!NULL, ListInv, ListPrograms!IsInput
  <2>2. work.list = N /\ work.new_list = (IF Len(heap) = N THEN 0 ELSE Len(heap))
        /\ Lives(heap, 1..Len(heap))
    BY <2>1 DEF ListInv, N
  <2>3. ASSUME NEW p \in Nat, Printed(d, work.out, p), p < N + K + 2, "\n" = OutAt(d, p + 1)
        PROVE  Printed(d, more, p + 1)
    <3>1. "\n" \in Symbols
      BY DEF Symbols
    <3>. QED
      BY <1>1, <1>num, <2>3, <3>1, PrintedMore
  <2> HIDE DEF more
  <2>4. /\ work'.heap = heap /\ work'.list = N /\ work'.new_list = work.new_list
        /\ work'.cursor = N /\ work'.out = more
        /\ work' = [heap |-> work'.heap, left |-> work'.left, list |-> work'.list,
                   new_list |-> work'.new_list, cursor |-> work'.cursor, out |-> work'.out]
    BY <1>1, <2>1, <2>2
  <2>5. CASE status = "print"
    <3>1. Len(heap) = N /\ Printed(d, work.out, N - 0)
      BY <2>1, <2>5 DEF ListInv, N
    <3>2. N - 0 = N /\ N \in Nat /\ N < N + K + 2 /\ N \in 0..N /\ N <= N /\ N - N = 0
      BY <1>num
    <3>3. "\n" = OutAt(d, N + 1)
      BY <1>num DEF OutAt
    <3>4. Printed(d, more, N + 1)
      BY <2>3, <3>1, <3>2, <3>3
    <3>5. N = N + OddsTo(d, N - N)
      BY <1>2, <1>num, <3>2
    <3>. QED
      BY <1>1, <2>1, <2>2, <2>4, <2>5, <3>1, <3>2, <3>4, <3>5 DEF ListInv, N
  <2>6. CASE status = "print_new"
    <3>1. Len(heap) = N + K /\ Printed(d, work.out, N + 1 + K)
      BY <2>1, <2>6 DEF ListInv, N, K
    <3>2. /\ N + 1 + K \in Nat /\ N + 1 + K < N + K + 2 /\ N + 1 + K + 1 = N + K + 2
          /\ N \in 0..N /\ N <= N + K /\ 1..N \cup N + 1..N + K = 1..N + K
          /\ ~(N + 1 + K + 1 <= N)
      BY <1>num
    <3>3. "\n" = OutAt(d, N + 1 + K + 1)
      BY <1>num, <3>2 DEF OutAt
    <3>4. Printed(d, more, N + K + 2)
      BY <2>3, <3>1, <3>2, <3>3
    <3>5. Lives(heap, 1..N \cup N + 1..N + K)
      BY <2>2, <3>1, <3>2
    <3>6. CASE job.program = "list"
      BY <1>1, <2>1, <2>2, <2>4, <2>6, <3>1, <3>2, <3>4, <3>5, <3>6 DEF ListInv, N, K
    <3>7. CASE job.program # "list"
      <4>1. status' = "clear" /\ job'.program = "list_ref"
        BY <1>1, <2>1, <2>6, <3>7 DEF ListInv, ListPrograms!IsInput
      <4>. QED
        BY <1>1, <2>2, <2>4, <3>1, <3>2, <3>4, <3>5, <4>1 DEF ListInv, N, K
    <3>. QED
      BY <3>6, <3>7
  <2>. QED
    BY <2>1, <2>5, <2>6
<1>10. CASE ListPrograms!Filter
  <2>1. /\ status = "filter" /\ status' = status /\ c # 0
        /\ work' = IF heap[c].value % 2 = 1
                   THEN [work EXCEPT
                            !.heap = Append(heap, [value |-> heap[c].value, next |-> work.new_list,
                                                   live |-> TRUE]),
                            !.new_list = Len(heap) + 1, !.cursor = heap[c].next]
                   ELSE [work EXCEPT !.cursor = heap[c].next]
    BY <1>10 DEF ListPrograms!Filter, ListPrograms!NULL, ListPrograms!Node, ListPrograms!is_odd,
                 ListPrograms!add_element, ListPrograms!Newest
  <2>2. /\ Len(heap) = N + OddsTo(d, N - c) /\ Printed(d, work.out, N + 1)
        /\ Lives(heap, 1..Len(heap)) /\ work.list = N
        /\ work.new_list = IF Len(heap) = N THEN 0 ELSE Len(heap)
    BY <2>1 DEF ListInv, N
  <2>3. c \in 1..N /\ c <= N /\ c # N + 1
    <3>1. c \in 0..N
      BY <2>1 DEF ListInv, N
    <3>. QED
      BY <1>num, <2>1, <3>1
  <2> DEFINE m == N + 1 - c
  <2>4. m \in 1..N /\ m - 1 = N - c /\ N - (c - 1) = m /\ c - 1 \in 0..N /\ N - c \in 0..N
    BY <1>num, <2>3, Mirror
  <2>5. /\ OddsTo(d, m - 1) \in Nat /\ OddsTo(d, m) \in Nat /\ OddsTo(d, m) <= K
        /\ d[m] % 2 = 1 => OddsTo(d, m) = OddsTo(d, m - 1) + 1 /\ OddOf(d)[OddsTo(d, m)] = d[m]
        /\ d[m] % 2 # 1 => OddsTo(d, m) = OddsTo(d, m - 1)
    BY <1>2, <2>4
  <2> DEFINE o == OddsTo(d, m - 1)
  <2>6. Len(heap) = N + o /\ o \in Nat /\ N <= Len(heap)
    BY <1>num, <2>2, <2>4, <2>5
  <2>7. heap[c].value = d[m] /\ heap[c].next = c - 1 /\ d[m] \in Nat
    <3>1. c \in 1..Len(heap)
      BY <1>num, <2>3, <2>6
    <3>2. heap[c].value = NodeValue(d, c) /\ heap[c].next = NodeNext(d, c)
      BY <1>1, <3>1 DEF Nodes
    <3>3. d[m] \in Nat
      BY <1>1, <1>num, <2>4
    <3>. QED
      BY <1>num, <2>3, <3>2, <3>3 DEF NodeValue, NodeNext
  <2> HIDE DEF m, o
  <2>8. CASE d[m] % 2 = 1
    <3> DEFINE x == d[m]
               more == Append(heap, [value |-> x, next |-> work.new_list, live |-> TRUE])
    <3>1. OddsTo(d, m) = o + 1 /\ o + 1 <= K /\ OddOf(d)[o + 1] = x
      BY <2>5, <2>8 DEF o
    <3>2. /\ ~(Len(heap) + 1 <= N) /\ Len(heap) + 1 - N = o + 1 /\ Len(heap) < N + K
          /\ Len(heap) + 1 = N + 1 <=> Len(heap) = N
          /\ Len(heap) + 1 - 1 = Len(heap) /\ work.new_list \in Nat
          /\ Len(heap) + 1 = N + (o + 1) /\ N <= Len(heap) + 1 /\ Len(heap) + 1 # N
      BY <1>num, <2>2, <2>6, <3>1
    <3>3. x = NodeValue(d, Len(heap) + 1) /\ work.new_list = NodeNext(d, Len(heap) + 1)
      BY <1>num, <2>2, <3>1, <3>2 DEF NodeValue, NodeNext
    <3>4. x \in Nat
      BY <2>7
    <3> HIDE DEF x
    <3>5. Nodes(d, more) /\ Lives(more, 1..Len(more)) /\ Len(more) = Len(heap) + 1
      BY <1>1, <1>num, <2>2, <3>2, <3>3, <3>4, NodeAdded
    <3>6. work' = [work EXCEPT !.heap = more, !.new_list = Len(heap) + 1, !.cursor = c - 1]
      BY <2>1, <2>7, <2>8 DEF x
    <3> HIDE DEF more
    <3>7. /\ work'.heap = more /\ work'.list = N /\ work'.new_list = Len(more)
          /\ work'.cursor = c - 1 /\ work'.out = work.out
          /\ work' = [heap |-> work'.heap, left |-> work'.left, list |-> work'.list,
                     new_list |-> work'.new_list, cursor |-> work'.cursor, out |-> work'.out]
      BY <1>1, <2>2, <3>5, <3>6
    <3>8. Len(more) = N + OddsTo(d, N - (c - 1)) /\ N <= Len(more) /\ Len(more) # N
      BY <2>4, <3>1, <3>2, <3>5
    <3>. QED
      BY <1>1, <2>1, <2>2, <2>4, <3>5, <3>7, <3>8 DEF ListInv, N
  <2>9. CASE d[m] % 2 # 1
    <3>1. work' = [work EXCEPT !.cursor = c - 1]
      BY <2>1, <2>7, <2>9
    <3>2. /\ work'.heap = heap /\ work'.list = N /\ work'.new_list = work.new_list
          /\ work'.cursor = c - 1 /\ work'.out = work.out
          /\ work' = [heap |-> work'.heap, left |-> work'.left, list |-> work'.list,
                     new_list |-> work'.new_list, cursor |-> work'.cursor, out |-> work'.out]
      BY <1>1, <2>2, <3>1
    <3>3. Len(heap) = N + OddsTo(d, N - (c - 1))
      BY <2>4, <2>5, <2>6, <2>9 DEF o
    <3>. QED
      BY <1>1, <2>1, <2>2, <2>4, <2>6, <3>2, <3>3 DEF ListInv, N
  <2>. QED
    BY <2>8, <2>9
<1>11. CASE ListPrograms!Filtered
  <2>1. /\ status = "filter" /\ status' = "print_new" /\ c = 0
        /\ work' = [work EXCEPT !.cursor = work.new_list]
    BY <1>11 DEF ListPrograms!Filtered, ListPrograms!NULL, ListPrograms!Go
  <2>2. /\ Len(heap) = N + OddsTo(d, N - 0) /\ Printed(d, work.out, N + 1)
        /\ Lives(heap, 1..Len(heap)) /\ work.list = N
        /\ work.new_list = IF Len(heap) = N THEN 0 ELSE Len(heap)
    BY <2>1 DEF ListInv, N
  <2>3. Len(heap) = N + K
    BY <1>2, <1>num, <2>2
  <2> DEFINE after == IF K = 0 THEN 0 ELSE N + K
  <2>4. /\ work.new_list = after /\ after \in {0} \cup N + 1..N + K /\ N <= N + K
        /\ N + 1 + (IF after = 0 THEN K ELSE N + K - after) = N + 1
    <3>1. CASE K = 0
      BY <1>num, <2>2, <2>3, <3>1
    <3>2. CASE K # 0
      BY <1>num, <2>2, <2>3, <3>2
    <3>. QED
      BY <3>1, <3>2
  <2> HIDE DEF after
  <2>5. /\ work'.heap = heap /\ work'.list = N /\ work'.new_list = work.new_list
        /\ work'.cursor = after /\ work'.out = work.out
        /\ work' = [heap |-> work'.heap, left |-> work'.left, list |-> work'.list,
                   new_list |-> work'.new_list, cursor |-> work'.cursor, out |-> work'.out]
    BY <1>1, <2>1, <2>2, <2>4
  <2>6. Printed(d, work.out, N + 1 + (IF after = 0 THEN K ELSE N + K - after))
    BY <2>2, <2>4
  <2>. QED
    BY <1>1, <2>1, <2>2, <2>3, <2>4, <2>5, <2>6 DEF ListInv, N, K
<1>12. CASE ListPrograms!Clear
  <2> DEFINE rest == [heap EXCEPT ![c].live = FALSE]
             next == heap[c].next
  <2>1. /\ status \in {"clear", "clear_new"} /\ status' = status /\ c # 0
        /\ work' = [work EXCEPT !.heap = rest, !.cursor = next]
    BY <1>12 DEF ListPrograms!Clear, ListPrograms!NULL, ListPrograms!Node
  <2>2. /\ Len(heap) = N + K /\ work.list = N /\ Printed(d, work.out, N + K + 2)
        /\ work.new_list = IF Len(heap) = N THEN 0 ELSE Len(heap)
    BY <2>1 DEF ListInv, N, K
  <2>3. CASE status = "clear"
    <3> DEFINE T == 1..c \cup N + 1..N + K
    <3>1. c \in 1..N /\ Lives(heap, T)
      <4>1. c \in 0..N /\ Lives(heap, T)
        BY <2>3 DEF ListInv, N, K
      <4>. QED
        BY <1>num, <2>1, <4>1
    <3>2. c \in 1..Len(heap) /\ c <= N /\ c # N + 1 /\ c - 1 \in 0..N /\ N <= N + K
      BY <1>num, <2>2, <3>1
    <3>3. next = c - 1
      BY <1>1, <1>num, <3>2 DEF Nodes, NodeNext
    <3>4. T \ {c} = 1..c - 1 \cup N + 1..N + K
      BY <1>num, <3>1
    <3> HIDE DEF T
    <3>5. Nodes(d, rest) /\ Lives(rest, 1..c - 1 \cup N + 1..N + K) /\ Len(rest) = N + K
      <4>1. Nodes(d, rest) /\ Lives(rest, T \ {c}) /\ Len(rest) = Len(heap)
        BY <1>1, <3>1, <3>2, NodeFreed
      <4> HIDE DEF rest
      <4>. QED
        BY <2>2, <3>4, <4>1
    <3> HIDE DEF rest, next
    <3>6. /\ work'.heap = rest /\ work'.list = N /\ work'.new_list = work.new_list
          /\ work'.cursor = c - 1 /\ work'.out = work.out
          /\ work' = [heap |-> work'.heap, left |-> work'.left, list |-> work'.list,
                     new_list |-> work'.new_list, cursor |-> work'.cursor, out |-> work'.out]
      BY <1>1, <2>1, <2>2, <3>3
    <3>. QED
      BY <1>1, <2>1, <2>2, <2>3, <3>2, <3>5, <3>6 DEF ListInv, N, K
  <2>4. CASE status = "clear_new"
    <3>1. c \in N + 1..N + K /\ Lives(heap, N + 1..c)
      BY <2>1, <2>4 DEF ListInv, N, K
    <3> DEFINE after == IF c = N + 1 THEN 0 ELSE c - 1
    <3>2. c \in 1..Len(heap) /\ after \in {0} \cup N + 1..N + K /\ N <= N + K
      BY <1>num, <2>2, <3>1
    <3>3. next = after
      BY <1>1, <1>num, <3>2 DEF Nodes, NodeNext
    <3>4. (N + 1..c) \ {c} = IF after = 0 THEN {} ELSE N + 1..after
      <4>1. CASE c = N + 1
        BY <1>num, <4>1
      <4>2. CASE c # N + 1
        <5>1. after = c - 1 /\ after # 0
          BY <1>num, <3>1, <4>2
        <5>2. (N + 1..c) \ {c} = N + 1..c - 1
          BY <1>num, <3>1
        <5>. QED
          BY <5>1, <5>2
      <4>. QED
        BY <4>1, <4>2
    <3>5. /\ Nodes(d, rest) /\ Lives(rest, IF after = 0 THEN {} ELSE N + 1..after)
          /\ Len(rest) = N + K
      <4>1. Nodes(d, rest) /\ Lives(rest, (N + 1..c) \ {c}) /\ Len(rest) = Len(heap)
        BY <1>1, <3>1, <3>2, NodeFreed
      <4> HIDE DEF rest, after
      <4>. QED
        BY <2>2, <3>4, <4>1
    <3> HIDE DEF rest, next, after
    <3>6. /\ work'.heap = rest /\ work'.list = N /\ work'.new_list = work.new_list
          /\ work'.cursor = after /\ work'.out = work.out
          /\ work' = [heap |-> work'.heap, left |-> work'.left, list |-> work'.list,
                     new_list |-> work'.new_list, cursor |-> work'.cursor, out |-> work'.out]
      BY <1>1, <2>1, <2>2, <3>3
    <3>. QED
      BY <1>1, <2>1, <2>2, <2>4, <3>2, <3>5, <3>6 DEF ListInv, N, K
  <2>. QED
    BY <2>1, <2>3, <2>4
<1>13. CASE ListPrograms!Cleared
  <2>1. /\ status \in {"clear", "clear_new"} /\ c = 0
        /\ status = "clear" => status' = "clear_new" /\ work' = [work EXCEPT !.cursor = work.new_list]
        /\ status = "clear_new" => status' = "done" /\ work' = [work EXCEPT !.cursor = 0]
    BY <1>13 DEF ListPrograms!Cleared, ListPrograms!NULL, ListPrograms!Go
  <2>2. /\ Len(heap) = N + K /\ work.list = N /\ Printed(d, work.out, N + K + 2)
        /\ work.new_list = IF Len(heap) = N THEN 0 ELSE Len(heap)
    BY <2>1 DEF ListInv, N, K
  <2>3. CASE status = "clear"
    <3> DEFINE after == IF K = 0 THEN 0 ELSE N + K
    <3>1. /\ work.new_list = after /\ after \in {0} \cup N + 1..N + K /\ N <= N + K
          /\ 1..0 \cup N + 1..N + K = IF after = 0 THEN {} ELSE N + 1..after
      <4>1. CASE K = 0
        BY <1>num, <2>2, <4>1
      <4>2. CASE K # 0
        <5>1. N + K # 0 /\ N + K # N /\ N + K \in N + 1..N + K /\ N <= N + K
          BY <1>num, <4>2
        <5>2. 1..0 \cup N + 1..N + K = N + 1..N + K
          OBVIOUS
        <5>. QED
          BY <2>2, <4>2, <5>1, <5>2
      <4>. QED
        BY <4>1, <4>2
    <3>2. Lives(heap, 1..0 \cup N + 1..N + K)
      BY <2>1, <2>3 DEF ListInv, N, K
    <3> HIDE DEF after
    <3>3. Lives(heap, IF after = 0 THEN {} ELSE N + 1..after)
      BY <3>1, <3>2
    <3>4. /\ work'.heap = heap /\ work'.list = N /\ work'.new_list = work.new_list
          /\ work'.cursor = after /\ work'.out = work.out
          /\ work' = [heap |-> work'.heap, left |-> work'.left, list |-> work'.list,
                     new_list |-> work'.new_list, cursor |-> work'.cursor, out |-> work'.out]
      BY <1>1, <2>1, <2>2, <2>3, <3>1
    <3>. QED
      BY <1>1, <2>1, <2>2, <2>3, <3>1, <3>3, <3>4 DEF ListInv, N, K
  <2>4. CASE status = "clear_new"
    <3>1. /\ work'.heap = heap /\ work'.list = N /\ work'.new_list = work.new_list
          /\ work'.cursor = 0 /\ work'.out = work.out
          /\ work' = [heap |-> work'.heap, left |-> work'.left, list |-> work'.list,
                     new_list |-> work'.new_list, cursor |-> work'.cursor, out |-> work'.out]
      BY <1>1, <2>1, <2>2, <2>4
    <3>2. Lives(heap, {}) /\ N <= N + K /\ job.program # "list" /\ 0 \in 0..N
      BY <1>num, <2>1, <2>4 DEF ListInv
    <3>. QED
      BY <1>1, <2>1, <2>2, <2>4, <3>1, <3>2 DEF ListInv, N, K
  <2>. QED
    BY <2>1, <2>3, <2>4
<1>. QED
  BY <1>5, <1>6, <1>7, <1>8, <1>9, <1>10, <1>11, <1>12, <1>13 DEF ListPrograms!Next

LEMMA ListAlways == Spec => [](Runs({"list", "list_ref"}) => ListInv)
<1>1. Init => (Runs({"list", "list_ref"}) => ListInv)
  BY ListStarts
<1>2. (Runs({"list", "list_ref"}) => ListInv) /\ [Next]_vars
      => (Runs({"list", "list_ref"}) => ListInv)'
  <2>1. ASSUME Next, Runs({"list", "list_ref"}), ListInv PROVE ListInv'
    BY <2>1, JobStays, OwnSteps, ListSteps
  <2>2. ASSUME UNCHANGED vars, ListInv PROVE ListInv'
    BY <2>2 DEF vars, ListInv
  <2>3. [Next]_vars => job' = job
    BY JobStays
  <2>. QED
    BY <2>1, <2>2, <2>3 DEF Runs
<1>. QED
  BY <1>1, <1>2, PTL DEF Spec

LEMMA ListNodesFreed == ASSUME ListInv PROVE ListPrograms!NodesFreed
<1> DEFINE d == job.data
           N == Len(d)
           K == Odds(d)
           heap == work.heap
           c == work.cursor
<1>1. /\ d \in Seq(Nat) /\ Nodes(d, heap) /\ heap \in Seq(ListNode) /\ Len(heap) \in Nat
      /\ job.program \in {"list", "list_ref"}
  BY DEF ListInv, ListPrograms!IsInput, Nodes
<1>2. N \in Nat /\ K \in Nat /\ Len(d) = N /\ Odds(d) = K
  BY <1>1, OddFacts
<1>3. c # 0 => c \in 1..Len(heap) /\ heap[c].live
  <2>1. SUFFICES ASSUME c # 0 PROVE \E T : Lives(heap, T) /\ c \in T /\ c \in 1..Len(heap)
    BY DEF Lives
  <2> HIDE DEF N, K
  <2>2. CASE status \in {"print", "filter"} \/ (status = "done" /\ job.program = "list")
    <3>1. c \in 0..N /\ N <= Len(heap) /\ Lives(heap, 1..Len(heap))
      BY <1>2, <2>2 DEF ListInv, N
    <3>2. c \in 1..Len(heap)
      BY <1>1, <1>2, <2>1, <3>1
    <3>. QED
      BY <3>1, <3>2
  <2>3. CASE status = "print_new"
    <3>1. c \in N + 1..N + K /\ Len(heap) = N + K /\ Lives(heap, 1..Len(heap))
      BY <2>1, <2>3 DEF ListInv, N, K
    <3>2. c \in 1..Len(heap)
      BY <1>2, <3>1
    <3>. QED
      BY <3>1, <3>2
  <2>4. CASE status = "clear"
    <3>1. c \in 0..N /\ Len(heap) = N + K /\ Lives(heap, 1..c \cup N + 1..N + K)
      BY <2>4 DEF ListInv, N, K
    <3>2. c \in 1..Len(heap) /\ c \in 1..c \cup N + 1..N + K
      BY <1>2, <2>1, <3>1
    <3>. QED
      BY <3>1, <3>2
  <2>5. CASE status = "clear_new"
    <3>1. c \in N + 1..N + K /\ Len(heap) = N + K /\ Lives(heap, N + 1..c)
      BY <2>1, <2>5 DEF ListInv, N, K
    <3>2. c \in 1..Len(heap) /\ c \in N + 1..c
      BY <1>2, <3>1
    <3>. QED
      BY <3>1, <3>2
  <2>6. CASE status = "aborted"
    <3>1. c \in 0..Len(heap) /\ Lives(heap, 1..Len(heap))
      BY <2>6 DEF ListInv
    <3>2. c \in 1..Len(heap)
      BY <1>1, <2>1, <3>1
    <3>. QED
      BY <3>1, <3>2
  <2>7. status = "build" => c = 0
    BY DEF ListInv
  <2>8. status = "done" /\ job.program # "list" => c = 0
    BY DEF ListInv
  <2>9. status \in {"build", "print", "filter", "print_new", "clear", "clear_new", "done", "aborted"}
    BY DEF ListInv
  <2>. QED
    BY <2>1, <2>2, <2>3, <2>4, <2>5, <2>6, <2>7, <2>8, <2>9
<1>4. status = "done" /\ job.program = "list_ref" => \A n \in DOMAIN heap : ~heap[n].live
  <2>1. status = "done" /\ job.program = "list_ref" => Lives(heap, {})
    BY DEF ListInv
  <2>2. DOMAIN heap = 1..Len(heap)
    BY <1>1
  <2>. QED
    BY <2>1, <2>2 DEF Lives
<1>. QED
  BY <1>3, <1>4 DEF ListPrograms!NodesFreed, ListPrograms!Node, ListPrograms!NULL

LEMMA Joined ==
    ASSUME NEW T, NEW s \in Seq(T), NEW t \in Seq(T), NEW m, NEW n, Len(s) = m, Len(t) = n
    PROVE  /\ s \o t \in Seq(T) /\ Len(s \o t) = m + n
           /\ \A i \in 1..m + n : (s \o t)[i] = IF i <= m THEN s[i] ELSE t[i - m]
BY ConcatProperties

\* What is printed is the beginning of the whole output.
LEMMA WholeOutput ==
    ASSUME NEW d \in Seq(Nat)
    PROVE  LET whole == d \o <<"\n">> \o Reversed(OddOf(d)) \o <<"\n">>
           IN /\ whole \in Seq(Symbols) /\ Len(whole) = Len(d) + Odds(d) + 2
              /\ \A i \in 1..Len(d) + Odds(d) + 2 : whole[i] = OutAt(d, i)
<1> DEFINE r == Reversed(OddOf(d))
           nl == <<"\n">>
           a == d \o nl
           b == a \o r
           whole == b \o nl
           N == Len(d)
           K == Odds(d)
<1>1. N \in Nat /\ K \in Nat /\ OddOf(d) \in Seq(Nat) /\ Len(OddOf(d)) = K /\ Len(d) = N
  BY OddFacts DEF Odds
<1>2. r \in Seq(Symbols) /\ Len(r) = K /\ \A i \in 1..K : r[i] = OddOf(d)[K - i + 1]
  <2>1. \A i \in 1..K : OddOf(d)[K - i + 1] \in Symbols
    <3>1. \A i \in 1..K : K - i + 1 \in 1..K
      BY <1>1
    <3>. QED
      BY <1>1, <3>1 DEF Symbols
  <2>2. r = [i \in 1..K |-> OddOf(d)[K - i + 1]]
    BY <1>1 DEF Reversed
  <2> HIDE DEF r, K
  <2>3. r \in [1..K -> Symbols]
    BY <2>1, <2>2
  <2>. QED
    BY <1>1, <2>2, <2>3
<1>3. d \in Seq(Symbols) /\ nl \in Seq(Symbols) /\ Len(nl) = 1 /\ nl[1] = "\n"
  <2>1. "\n" \in Symbols
    BY DEF Symbols
  <2>2. \A i \in 1..Len(d) : d[i] \in Symbols
    BY DEF Symbols
  <2>3. d \in [1..Len(d) -> Symbols] /\ Len(d) \in Nat
    BY <2>2
  <2>. QED
    BY <2>1, <2>3
<1> HIDE DEF r, nl, N, K
<1>4. /\ a \in Seq(Symbols) /\ Len(a) = N + 1
      /\ \A i \in 1..N + 1 : a[i] = IF i <= N THEN d[i] ELSE nl[i - N]
  <2>1. /\ a \in Seq(Symbols) /\ Len(a) = N + Len(nl)
        /\ \A i \in 1..N + Len(nl) : a[i] = IF i <= N THEN d[i] ELSE nl[i - N]
    <3>1. d \in Seq(Symbols) /\ nl \in Seq(Symbols) /\ Len(d) = N
      BY <1>1, <1>3
    <3>. QED
      BY ONLY <3>1, Joined DEF a
  <2> HIDE DEF a
  <2>. QED
    BY <1>3, <2>1
<1> HIDE DEF a
<1>5. /\ b \in Seq(Symbols) /\ Len(b) = N + 1 + K
      /\ \A i \in 1..N + 1 + K : b[i] = IF i <= N + 1 THEN a[i] ELSE r[i - (N + 1)]
  BY <1>2, <1>4, Joined
<1> HIDE DEF b
<1>6. /\ whole \in Seq(Symbols) /\ Len(whole) = N + 1 + K + 1
      /\ \A i \in 1..N + 1 + K + 1 : whole[i] = IF i <= N + 1 + K THEN b[i] ELSE nl[i - (N + 1 + K)]
  <2> DEFINE m == N + 1 + K
  <2>0. Len(b) = m
    BY <1>5
  <2> HIDE DEF m
  <2>1. /\ whole \in Seq(Symbols) /\ Len(whole) = m + Len(nl)
        /\ \A i \in 1..m + Len(nl) : whole[i] = IF i <= m THEN b[i] ELSE nl[i - m]
    <3>1. b \in Seq(Symbols) /\ nl \in Seq(Symbols)
      BY <1>3, <1>5
    <3>. QED
      BY ONLY <2>0, <3>1, Joined DEF whole
  <2> HIDE DEF whole
  <2>. QED
    BY <1>3, <2>1 DEF m
<1> HIDE DEF whole
<1>7. N + 1 + K + 1 = N + K + 2
  BY <1>1
<1>8. ASSUME NEW i \in 1..N + K + 2 PROVE whole[i] = OutAt(d, i)
  <2>0. i \in 1..N + 1 + K + 1 /\ i \in Nat
    BY <1>1
  <2>1. CASE i <= N
    <3>1. i <= N + 1 + K /\ i <= N + 1 /\ i \in 1..N + 1 + K /\ i \in 1..N + 1
      BY <1>1, <2>0, <2>1
    <3>. QED
      BY <1>4, <1>5, <1>6, <2>0, <2>1, <3>1 DEF OutAt, N
  <2>2. CASE i = N + 1
    <3>1. /\ i <= N + 1 + K /\ i <= N + 1 /\ i \in 1..N + 1 + K /\ i \in 1..N + 1 /\ ~(i <= N)
          /\ i - N = 1
      BY <1>1, <2>0, <2>2
    <3>. QED
      BY <1>3, <1>4, <1>5, <1>6, <2>0, <2>2, <3>1 DEF OutAt, N
  <2>3. CASE N + 1 < i /\ i <= N + 1 + K
    <3>1. /\ i \in 1..N + 1 + K /\ ~(i <= N) /\ ~(i <= N + 1) /\ i # N + 1 /\ i # N + K + 2
          /\ i - (N + 1) \in 1..K /\ K - (i - (N + 1)) + 1 = N + K + 2 - i
      BY <1>1, <2>0, <2>3
    <3>2. whole[i] = r[i - (N + 1)]
      BY <1>5, <1>6, <2>0, <2>3, <3>1
    <3>3. whole[i] = OddOf(d)[N + K + 2 - i]
      BY <1>2, <3>1, <3>2
    <3>. QED
      BY <3>1, <3>3 DEF OutAt, N, K
  <2>4. CASE i = N + K + 2
    <3>1. ~(i <= N + 1 + K) /\ i - (N + 1 + K) = 1 /\ ~(i <= N)
      BY <1>1, <2>0, <2>4
    <3>. QED
      BY <1>3, <1>6, <2>0, <2>4, <3>1 DEF OutAt, N, K
  <2>5. i <= N \/ i = N + 1 \/ (N + 1 < i /\ i <= N + 1 + K) \/ i = N + K + 2
    BY <1>1, <2>0
  <2>. QED
    BY <2>1, <2>2, <2>3, <2>4, <2>5
<1>. QED
  BY <1>6, <1>7, <1>8 DEF whole, b, a, nl, r, N, K

LEMMA ListIsPrinted == ASSUME ListInv PROVE ListPrograms!ListsPrinted
<1> DEFINE d == job.data
           N == Len(d)
           K == Odds(d)
           out == work.out
           whole == d \o <<"\n">> \o Reversed(OddOf(d)) \o <<"\n">>
<1>1. d \in Seq(Nat) /\ N \in Nat /\ K \in Nat /\ Len(d) = N /\ Odds(d) = K
  BY OddFacts DEF ListInv, ListPrograms!IsInput
<1>2. ListPrograms!Odd = OddOf(d)
  <2> DEFINE S == {x \in Nat : x % 2 = 1}
  <2>1. ListPrograms!Odd = ListPrograms!Chosen(S, d)
    BY DEF ListPrograms!Odd, ListPrograms!is_odd
  <2> HIDE DEF S
  <2>2. ListPrograms!Chosen(S, d) = Chosen(S, d)
    BY DEF ListPrograms!Chosen, Chosen
  <2>. QED
    BY <2>1, <2>2 DEF OddOf, S
<1>3. whole \in Seq(Symbols) /\ Len(whole) = N + K + 2 /\ \A i \in 1..N + K + 2 : whole[i] = OutAt(d, i)
  BY <1>1, WholeOutput
<1> HIDE DEF whole, N, K
<1>4. PICK p \in Nat : Printed(d, out, p) /\ (status \in {"done", "clear"} => p = N + K + 2)
  <2>1. CASE status = "build"
    BY <2>1 DEF ListInv, N
  <2>2. CASE status = "print"
    <3>1. work.cursor \in 0..N /\ Printed(d, out, N - work.cursor)
      BY <2>2 DEF ListInv, N
    <3>2. N - work.cursor \in Nat
      BY <1>1, <3>1
    <3>. QED
      BY <2>2, <3>1, <3>2
  <2>3. CASE status = "filter"
    <3>1. Printed(d, out, N + 1) /\ N + 1 \in Nat
      BY <1>1, <2>3 DEF ListInv, N
    <3>. QED
      BY <2>3, <3>1
  <2>4. CASE status = "print_new"
    <3> DEFINE q == N + 1 + (IF work.cursor = 0 THEN K ELSE N + K - work.cursor)
    <3>1. Printed(d, out, q)
      BY <2>4 DEF ListInv, N, K
    <3>2. q \in Nat
      BY <3>1 DEF Printed
    <3> HIDE DEF q
    <3>. QED
      BY <2>4, <3>1, <3>2
  <2>5. CASE status \in {"clear", "clear_new", "done"}
    <3>1. Printed(d, out, N + K + 2) /\ N + K + 2 \in Nat
      BY <1>1, <2>5 DEF ListInv, N, K
    <3>. QED
      BY <3>1
  <2>6. CASE status = "aborted"
    BY <2>6 DEF ListInv
  <2>7. status \in {"build", "print", "filter", "print_new", "clear", "clear_new", "done", "aborted"}
    BY DEF ListInv
  <2>. QED
    BY <2>1, <2>2, <2>3, <2>4, <2>5, <2>6, <2>7
<1>5. /\ p \in 0..N + K + 2 /\ out \in Seq(Symbols) /\ Len(out) = p
      /\ \A i \in 1..p : out[i] = whole[i]
  <2>1. /\ p \in 0..N + K + 2 /\ out \in Seq(Symbols) /\ Len(out) = p
        /\ \A i \in 1..p : out[i] = OutAt(d, i)
    BY <1>1, <1>4 DEF Printed
  <2>. QED
    BY <1>1, <1>3, <2>1
<1>6. \E n \in 0..Len(whole) : out = SubSeq(whole, 1, n)
  <2>1. /\ SubSeq(whole, 1, p) \in Seq(Symbols) /\ Len(SubSeq(whole, 1, p)) = p
        /\ \A i \in 1..p : SubSeq(whole, 1, p)[i] = whole[i]
    BY <1>1, <1>3, <1>5
  <2> DEFINE f == SubSeq(whole, 1, p)
  <2> HIDE DEF f
  <2>2. out = f
    BY <1>5, <2>1, SeqEqual DEF f
  <2>. QED
    BY <1>3, <1>5, <2>2 DEF f
<1>7. status \in {"done", "clear"} => out = whole
  BY <1>1, <1>3, <1>4, <1>5, SeqEqual
<1>8. whole = d \o <<"\n">> \o [i \in DOMAIN ListPrograms!Odd |->
                               ListPrograms!Odd[Len(ListPrograms!Odd) - i + 1]] \o <<"\n">>
  BY <1>2 DEF Reversed, whole
<1>. QED
  BY <1>6, <1>7, <1>8 DEF ListPrograms!ListsPrinted

(* Whatever fails, everything acquired is given back once: what the driver *)
(* registers, the sockets of the server, the map of a file, the handles of *)
(* the databases, the nodes of main_ref.c, the JSON document and the text  *)
(* of the weather, but for the two things ResourcesReleased names.         *)
THEOREM EverythingReleased == Spec => []ResourcesReleased
<1>1. /\ Runs(Unwinding!Programs) => UnwindingInv
      /\ Runs({"column"}) => ColumnInv
      /\ Runs({"list", "list_ref"}) => ListInv
      /\ Runs({"weather"}) => WeatherInv
      => ResourcesReleased
  BY UnwindingUnwound, ColumnIsReleased, ListNodesFreed, WeatherIsPrinted DEF ResourcesReleased
<1>. QED
  BY <1>1, UnwindingAlways, ColumnAlways, ListAlways, WeatherAlways, PTL

-----------------------------------------------------------------------------
(* hw11 figlet client *)

FigletCells == STRING \cup {FigletClient!Garbage}

\* What is received, what has arrived and what is coming make up the answer.
PartsOfAnswer(a, r, n, arrived, coming) ==
    /\ n + Len(arrived) + Len(coming) = Len(a)
    /\ \A i \in 1..n : r[i] = a[i]
    /\ \A i \in 1..Len(arrived) : arrived[i] = a[n + i]
    /\ \A i \in 1..Len(coming) : coming[i] = a[n + Len(arrived) + i]

FigletInv ==
    /\ FigletClient!IsInput(job)
    /\ work = [tried |-> work.tried, open |-> work.open, coming |-> work.coming,
               arrived |-> work.arrived, missed |-> work.missed, response |-> work.response,
               len |-> work.len, printed |-> work.printed]
    /\ work.coming \in Seq(STRING) /\ work.arrived \in Seq(STRING) /\ work.missed \in BOOLEAN
    /\ work.len \in 0..BUFFER_SIZE /\ work.response \in [1..BUFFER_SIZE -> FigletCells]
    /\ status = "answer" /\ ~work.missed =>
          PartsOfAnswer(job.answer, work.response, work.len, work.arrived, work.coming)
    /\ FigletClient!AnswerPrinted

LEMMA FigletStarts == ASSUME Init, Runs({"figlet"}) PROVE FigletInv
<1>1. /\ work = FigletClient!Start(job.banner) /\ status = "connecting" /\ FigletClient!IsInput(job)
  BY FirstStates, JobForms
<1>2. [i \in 1..BUFFER_SIZE |-> FigletClient!Garbage] \in [1..BUFFER_SIZE -> FigletCells]
  BY DEF FigletCells
<1>3. BUFFER_SIZE \in Nat /\ 0 \in 0..BUFFER_SIZE /\ job.banner \in Seq(STRING)
  BY <1>1, BoundAssumption DEF FigletClient!IsInput
<1>4. /\ work.coming = job.banner /\ work.arrived = <<>> /\ work.missed = FALSE /\ work.len = 0
      /\ work.response = [i \in 1..BUFFER_SIZE |-> FigletClient!Garbage]
      /\ work = [tried |-> work.tried, open |-> work.open, coming |-> work.coming,
                 arrived |-> work.arrived, missed |-> work.missed, response |-> work.response,
                 len |-> work.len, printed |-> work.printed]
  BY <1>1 DEF FigletClient!Start
<1>5. FigletClient!AnswerPrinted
  BY <1>1 DEF FigletClient!AnswerPrinted
<1>. QED
  <2>1. work.arrived \in Seq(STRING) /\ work.missed \in BOOLEAN
    <3>1. <<>> \in Seq(STRING) /\ work.arrived = <<>>
      BY <1>4
    <3>2. work.missed \in BOOLEAN
      BY <1>4
    <3>. QED
      BY <3>1, <3>2
  <2>2. work.coming \in Seq(STRING) /\ work.len \in 0..BUFFER_SIZE
        /\ work.response \in [1..BUFFER_SIZE -> FigletCells]
    BY <1>2, <1>3, <1>4
  <2>3. status # "answer"
    BY <1>1
  <2>. QED
    BY <1>1, <1>4, <1>5, <2>1, <2>2, <2>3 DEF FigletInv

\* One more cell arrives.
LEMMA CellArrives ==
    ASSUME NEW a \in Seq(STRING), NEW r, NEW n \in Nat, NEW arrived \in Seq(STRING),
           NEW coming \in Seq(STRING), coming # <<>>
    PROVE  /\ Tail(coming) \in Seq(STRING) /\ Append(arrived, Head(coming)) \in Seq(STRING)
           /\ PartsOfAnswer(a, r, n, arrived, coming)
              => PartsOfAnswer(a, r, n, Append(arrived, Head(coming)), Tail(coming))
<1> DEFINE x == Head(coming)
           rest == Tail(coming)
           more == Append(arrived, x)
           L == Len(arrived)
<1>1. /\ x \in STRING /\ x = coming[1] /\ rest \in Seq(STRING) /\ Len(rest) = Len(coming) - 1
      /\ \A i \in 1..Len(rest) : rest[i] = coming[i + 1]
  BY HeadTailProperties
<1>2. Len(coming) \in Nat \ {0} /\ L \in Nat /\ Len(a) \in Nat
  BY EmptySeq
<1> HIDE DEF x, rest
<1>3. /\ more \in Seq(STRING) /\ Len(more) = L + 1 /\ more[L + 1] = x
      /\ \A i \in 1..L : more[i] = arrived[i]
  BY <1>1, AppendProperties
<1> HIDE DEF more, L
<1>4. ASSUME PartsOfAnswer(a, r, n, arrived, coming) PROVE PartsOfAnswer(a, r, n, more, rest)
  <2>1. /\ n + L + Len(coming) = Len(a) /\ \A i \in 1..n : r[i] = a[i]
        /\ \A i \in 1..L : arrived[i] = a[n + i]
        /\ \A i \in 1..Len(coming) : coming[i] = a[n + L + i]
    BY <1>4 DEF PartsOfAnswer, L
  <2>2. n + (L + 1) + Len(rest) = Len(a)
    <3>1. Len(rest) = Len(coming) - 1 /\ n + L + Len(coming) = Len(a)
      BY <1>1, <2>1
    <3>. QED
      BY <1>2, <3>1
  <2>3. ASSUME NEW i \in 1..L + 1 PROVE more[i] = a[n + i]
    <3>1. CASE i = L + 1
      <4>1. 1 \in 1..Len(coming) /\ n + L + 1 = n + i
        BY <1>2, <3>1
      <4>. QED
        BY <1>1, <1>3, <2>1, <3>1, <4>1
    <3>2. CASE i # L + 1
      <4>1. i \in 1..L
        BY <1>2, <3>2
      <4>. QED
        BY <1>3, <2>1, <4>1
    <3>. QED
      BY <3>1, <3>2
  <2>4. ASSUME NEW i \in 1..Len(rest) PROVE rest[i] = a[n + (L + 1) + i]
    <3>1. i + 1 \in 1..Len(coming) /\ n + L + (i + 1) = n + (L + 1) + i
      BY <1>1, <1>2
    <3>. QED
      BY <1>1, <2>1, <3>1
  <2>. QED
    BY <1>3, <2>1, <2>2, <2>3, <2>4 DEF PartsOfAnswer
<1>. QED
  BY <1>1, <1>3, <1>4 DEF x, rest, more

LEMMA Shifted ==
    ASSUME NEW n \in Nat, NEW k \in Nat, NEW l \in Nat, NEW c \in Nat
    PROVE  n + k + (l - k) + c = n + l + c /\ n + k + (l - k) = n + l
OBVIOUS

\* Cells that have arrived go to the buffer.
LEMMA CellsReceived ==
    ASSUME NEW a \in Seq(STRING), NEW B \in Nat, NEW r \in [1..B -> FigletCells], NEW n \in 0..B,
           NEW arrived \in Seq(STRING), NEW coming \in Seq(STRING),
           NEW k \in 1..B - n, k <= Len(arrived),
           NEW s, \A i \in 1..B : s[i] = IF i \in n + 1..n + k THEN arrived[i - n] ELSE r[i]
    PROVE  LET rest == SubSeq(arrived, k + 1, Len(arrived))
           IN /\ \A i \in 1..B : s[i] \in FigletCells
              /\ rest \in Seq(STRING) /\ n + k \in 0..B
              /\ PartsOfAnswer(a, r, n, arrived, coming) => PartsOfAnswer(a, s, n + k, rest, coming)
<1> DEFINE L == Len(arrived)
           rest == SubSeq(arrived, k + 1, L)
<1>1. n \in Nat /\ k \in Nat /\ L \in Nat /\ n + k \in 0..B /\ Len(coming) \in Nat /\ Len(a) \in Nat
  OBVIOUS
<1>2. /\ rest \in Seq(STRING) /\ Len(rest) = L - k
      /\ \A i \in 1..L - k : rest[i] = arrived[k + i]
  <2>1. /\ k + 1 \in Int /\ L \in Int /\ \A i \in k + 1..L : arrived[i] \in STRING
    <3>1. \A i \in k + 1..L : i \in 1..L
      BY <1>1
    <3>. QED
      BY <1>1, <3>1, ElementOfSeq
  <2>2. /\ rest \in Seq(STRING) /\ Len(rest) = (IF k + 1 <= L THEN L - (k + 1) + 1 ELSE 0)
        /\ \A i \in 1..L - (k + 1) + 1 : rest[i] = arrived[k + 1 + i - 1]
    BY <2>1, SubSeqProperties
  <2> HIDE DEF rest, L
  <2>3. /\ (IF k + 1 <= L THEN L - (k + 1) + 1 ELSE 0) = L - k /\ L - (k + 1) + 1 = L - k
        /\ \A i \in 1..L - k : k + 1 + i - 1 = k + i
    BY <1>1 DEF L
  <2>. QED
    BY <2>2, <2>3
<1>3. \A i \in 1..B : i \in n + 1..n + k => i - n \in 1..k /\ i - n \in 1..L
  BY <1>1
<1>4. \A i \in 1..L : arrived[i] \in FigletCells
  BY DEF FigletCells
<1> HIDE DEF rest, L
<1>5. \A i \in 1..B : s[i] \in FigletCells
  BY <1>3, <1>4
<1>6. ASSUME PartsOfAnswer(a, r, n, arrived, coming) PROVE PartsOfAnswer(a, s, n + k, rest, coming)
  <2>1. /\ n + L + Len(coming) = Len(a) /\ \A i \in 1..n : r[i] = a[i]
        /\ \A i \in 1..L : arrived[i] = a[n + i]
        /\ \A i \in 1..Len(coming) : coming[i] = a[n + L + i]
    BY <1>6 DEF PartsOfAnswer, L
  <2>2. n + k + Len(rest) + Len(coming) = Len(a) /\ n + k + Len(rest) = n + L
    <3> DEFINE c == Len(coming)
               A == Len(a)
               R == Len(rest)
    <3>1. R = L - k /\ n + L + c = A /\ c \in Nat /\ A \in Nat
      BY <1>1, <1>2, <2>1
    <3> HIDE DEF c, A, R
    <3>2. n + k + R + c = A /\ n + k + R = n + L
      <4>1. n + k + (L - k) + c = n + L + c /\ n + k + (L - k) = n + L
        BY <1>1, <3>1, Shifted
      <4>. QED
        BY <3>1, <4>1
    <3>. QED
      BY <3>2 DEF c, A, R
  <2>3. ASSUME NEW i \in 1..n + k PROVE s[i] = a[i]
    <3>0. i \in 1..B
      BY <1>1
    <3>1. CASE i \in 1..n
      <4>1. i \notin n + 1..n + k
        BY <1>1, <3>1
      <4>. QED
        BY <2>1, <3>0, <3>1, <4>1
    <3>2. CASE i \notin 1..n
      <4>1. i \in n + 1..n + k /\ i - n \in 1..L /\ n + (i - n) = i
        <5>1. i \in n + 1..n + k /\ n + (i - n) = i
          BY <1>1, <3>2
        <5>. QED
          BY <1>3, <3>0, <5>1
      <4>2. s[i] = arrived[i - n]
        BY <3>0, <4>1
      <4>. QED
        BY <2>1, <4>1, <4>2
    <3>. QED
      BY <3>1, <3>2
  <2>4. ASSUME NEW i \in 1..Len(rest) PROVE rest[i] = a[n + k + i]
    <3>1. i \in 1..L - k /\ k + i \in 1..L /\ n + (k + i) = n + k + i
      BY <1>1, <1>2
    <3>. QED
      BY <1>2, <2>1, <3>1
  <2>. QED
    BY <2>1, <2>2, <2>3, <2>4 DEF PartsOfAnswer
<1>. QED
  BY <1>1, <1>2, <1>5, <1>6 DEF rest, L

\* A whole answer in the buffer is printed from behind its first line end.
LEMMA FromTheLineEnd ==
    ASSUME NEW B \in Nat, NEW r \in [1..B -> FigletCells], NEW w \in Seq(STRING), Len(w) <= B,
           \A i \in 1..Len(w) : r[i] = w[i], FigletClient!LineEnds(w) # {}
    PROVE  LET first == FigletClient!Min(FigletClient!LineEnds(w))
               end == CHOOSE i \in 1..B : r[i] = "CRLF" /\ \A j \in 1..i - 1 : r[j] # "CRLF"
           IN /\ "CRLF" \in FigletClient!Range(r)
              /\ SubSeq(r, end + 1, Len(w)) = SubSeq(w, first + 1, Len(w))
<1> DEFINE ends == FigletClient!LineEnds(w)
           first == FigletClient!Min(ends)
           Is(i) == i \in 1..B /\ r[i] = "CRLF" /\ \A j \in 1..i - 1 : r[j] # "CRLF"
           end == CHOOSE i \in 1..B : r[i] = "CRLF" /\ \A j \in 1..i - 1 : r[j] # "CRLF"
           W == Len(w)
<1>1. ends = {i \in 1..W : w[i] = "CRLF"} /\ W \in Nat /\ DOMAIN r = 1..B
  BY DEF FigletClient!LineEnds
<1>2. first \in ends /\ \A y \in ends : first <= y
  <2>1. ends \in SUBSET Nat /\ ends # {}
    BY <1>1
  <2> HIDE DEF ends
  <2>2. Min(ends) \in ends /\ \A y \in ends : Min(ends) <= y
    BY <2>1, MinIs
  <2>3. first = Min(ends)
    BY DEF FigletClient!Min, Min
  <2> HIDE DEF first
  <2>. QED
    BY <2>2, <2>3
<1> HIDE DEF ends, first
<1>3. first \in 1..W /\ w[first] = "CRLF" /\ first \in 1..B /\ r[first] = "CRLF"
  <2>1. first \in 1..W /\ w[first] = "CRLF"
    BY <1>1, <1>2
  <2>. QED
    BY <1>1, <2>1
<1>4. \A j \in 1..first - 1 : r[j] # "CRLF"
  <2>1. SUFFICES ASSUME NEW j \in 1..first - 1, r[j] = "CRLF" PROVE FALSE
    OBVIOUS
  <2>2. j \in 1..W /\ ~(first <= j)
    BY <1>1, <1>3
  <2>3. j \in ends
    BY <1>1, <2>1, <2>2
  <2>. QED
    BY <1>2, <2>2, <2>3
<1>5. Is(first)
  BY <1>3, <1>4
<1>6. Is(end)
  BY <1>5
<1> HIDE DEF end
<1>7. end = first
  <2>1. end \in 1..B /\ r[end] = "CRLF" /\ first \in 1..B
    BY <1>5, <1>6
  <2>2. CASE end < first
    <3>1. end \in 1..first - 1
      BY <2>1, <2>2
    <3>. QED
      BY <1>4, <2>1, <3>1
  <2>3. CASE first < end
    <3>1. first \in 1..end - 1
      BY <2>1, <2>3
    <3>. QED
      BY <1>3, <1>6, <3>1
  <2>. QED
    BY <2>1, <2>2, <2>3
<1>8. "CRLF" \in FigletClient!Range(r)
  BY <1>1, <1>3 DEF FigletClient!Range
<1>9. SubSeq(r, first + 1, W) = SubSeq(w, first + 1, W)
  <2> DEFINE m == first + 1
             f == SubSeq(r, m, W)
             g == SubSeq(w, m, W)
  <2>1. m \in Int /\ W \in Int /\ W \in Nat /\ m \in Nat \ {0}
    BY <1>1, <1>3
  <2>2. \A i \in m..W : i \in 1..W /\ i \in 1..B
    BY <1>1, <2>1
  <2> HIDE DEF m, W
  <2>3. /\ \A i \in m..W : r[i] \in FigletCells /\ w[i] \in FigletCells
    <3>1. \A i \in m..W : r[i] \in FigletCells
      BY <2>2
    <3>2. \A i \in m..W : w[i] = r[i]
      BY <2>2 DEF W
    <3>. QED
      BY <3>1, <3>2
  <2> DEFINE n == W - m + 1
             L == IF m <= W THEN n ELSE 0
  <2>4. f \in Seq(FigletCells) /\ Len(f) = L /\ \A i \in 1..n : f[i] = r[m + i - 1]
    BY <2>1, <2>3, SubSeqProperties
  <2>5. g \in Seq(FigletCells) /\ Len(g) = L /\ \A i \in 1..n : g[i] = w[m + i - 1]
    BY <2>1, <2>3, SubSeqProperties
  <2>6. \A i \in 1..L : i \in 1..n
    BY <2>1
  <2>7. \A i \in 1..n : m + i - 1 \in 1..W
    BY <2>1
  <2>8. \A i \in 1..n : f[i] = g[i]
    BY <2>4, <2>5, <2>7 DEF W
  <2> HIDE DEF f, g, L, n
  <2>. QED
    BY <2>4, <2>5, <2>6, <2>8, SeqEqual DEF f, g, m
<1>. QED
  BY <1>7, <1>8, <1>9 DEF first, end, ends

LEMMA FigletSteps == ASSUME FigletInv, FigletClient!Next, job' = job PROVE FigletInv'
<1> DEFINE a == job.answer
           B == BUFFER_SIZE
           Same(w) == w = [tried |-> w.tried, open |-> w.open, coming |-> w.coming,
                           arrived |-> w.arrived, missed |-> w.missed, response |-> w.response,
                           len |-> w.len, printed |-> w.printed]
<1>1. FigletClient!IsInput(job)' /\ job'.answer = a /\ a \in Seq(STRING) /\ Len(a) \in Nat
  BY DEF FigletInv, FigletClient!IsInput
<1>2. /\ Same(work) /\ work.coming \in Seq(STRING) /\ work.arrived \in Seq(STRING)
      /\ work.missed \in BOOLEAN /\ work.len \in 0..B
      /\ work.response \in [1..B -> FigletCells] /\ DOMAIN work.response = 1..B
      /\ B \in Nat /\ work.len \in Nat
      /\ Len(work.coming) \in Nat /\ Len(work.arrived) \in Nat
  BY BoundAssumption DEF FigletInv
<1>3. status = "answer" /\ ~work.missed =>
         PartsOfAnswer(a, work.response, work.len, work.arrived, work.coming)
  BY DEF FigletInv
<1>4. ASSUME status' \notin {"done", "undefined"} PROVE FigletClient!AnswerPrinted'
  BY <1>4 DEF FigletClient!AnswerPrinted
<1>5. CASE FigletClient!TryFails
  <2>1. PICK n \in 0..1 : work' = [work EXCEPT !.tried = @ + 1, !.open = @ + n]
    BY <1>5 DEF FigletClient!TryFails
  <2>2. status = "connecting" /\ status' = "connecting"
    BY <1>5 DEF FigletClient!TryFails
  <2>. QED
    BY <1>1, <1>2, <1>4, <2>1, <2>2 DEF FigletInv
<1>6. CASE FigletClient!Connect
  <2>1. work' = [work EXCEPT !.open = @ + 1] /\ status' = "banner"
    BY <1>6 DEF FigletClient!Connect
  <2>. QED
    BY <1>1, <1>2, <1>4, <2>1 DEF FigletInv
<1>7. CASE FigletClient!NoConnection
  <2>1. work' = work /\ status' = "failed"
    BY <1>7 DEF FigletClient!NoConnection
  <2>. QED
    BY <1>1, <1>2, <1>4, <2>1 DEF FigletInv
<1>8. CASE FigletClient!ServerSends
  <2> DEFINE rest == Tail(work.coming)
             more == Append(work.arrived, Head(work.coming))
  <2>1. /\ status \in {"banner", "answer"} /\ status' = status /\ work.coming # <<>>
        /\ work' = [work EXCEPT !.coming = rest, !.arrived = more]
    BY <1>8 DEF FigletClient!ServerSends, FigletClient!Receiving
  <2>2. /\ rest \in Seq(STRING) /\ more \in Seq(STRING)
        /\ PartsOfAnswer(a, work.response, work.len, work.arrived, work.coming)
           => PartsOfAnswer(a, work.response, work.len, more, rest)
    BY <1>1, <1>2, <2>1, CellArrives
  <2> HIDE DEF rest, more
  <2>3. /\ work'.coming = rest /\ work'.arrived = more /\ work'.missed = work.missed
        /\ work'.response = work.response /\ work'.len = work.len /\ Same(work')
    BY <1>2, <2>1
  <2>4. FigletClient!AnswerPrinted'
    BY <1>4, <2>1
  <2>. QED
    BY <1>1, <1>2, <1>3, <2>1, <2>2, <2>3, <2>4 DEF FigletInv
<1>9. CASE FigletClient!Receive
  <2>1. PICK k \in 1..B - work.len :
           /\ k <= Len(work.arrived)
           /\ work' = [work EXCEPT
                 !.response = [i \in DOMAIN @ |-> IF i \in work.len + 1..work.len + k
                                                  THEN work.arrived[i - work.len] ELSE @[i]],
                 !.len = @ + k,
                 !.arrived = SubSeq(@, k + 1, Len(@))]
    BY <1>9 DEF FigletClient!Receive, FigletClient!Room
  <2>2. status \in {"banner", "answer"} /\ status' = status
    BY <1>9 DEF FigletClient!Receive, FigletClient!Receiving
  <2> DEFINE n == work.len
             s == [i \in 1..B |-> IF i \in n + 1..n + k THEN work.arrived[i - n] ELSE work.response[i]]
             rest == SubSeq(work.arrived, k + 1, Len(work.arrived))
  <2>3. /\ s \in [1..B -> FigletCells] /\ rest \in Seq(STRING) /\ n + k \in 0..B
        /\ PartsOfAnswer(a, work.response, n, work.arrived, work.coming)
           => PartsOfAnswer(a, s, n + k, rest, work.coming)
    <3> DEFINE r == work.response
               arrived == work.arrived
               coming == work.coming
    <3>1. /\ a \in Seq(STRING) /\ B \in Nat /\ r \in [1..B -> FigletCells] /\ n \in 0..B
          /\ arrived \in Seq(STRING) /\ coming \in Seq(STRING)
          /\ k \in 1..B - n /\ k <= Len(arrived)
      BY <1>1, <1>2, <2>1
    <3>2. \A i \in 1..B : s[i] = IF i \in n + 1..n + k THEN arrived[i - n] ELSE r[i]
      OBVIOUS
    <3>3. s = [i \in 1..B |-> s[i]]
      OBVIOUS
    <3> HIDE DEF r, arrived, coming, a, B, n, s
    <3>4. /\ \A i \in 1..B : s[i] \in FigletCells
          /\ SubSeq(arrived, k + 1, Len(arrived)) \in Seq(STRING) /\ n + k \in 0..B
          /\ PartsOfAnswer(a, r, n, arrived, coming)
             => PartsOfAnswer(a, s, n + k, SubSeq(arrived, k + 1, Len(arrived)), coming)
      BY <3>1, <3>2, CellsReceived
    <3>5. s \in [1..B -> FigletCells]
      BY <3>3, <3>4
    <3>. QED
      BY <3>4, <3>5 DEF r, arrived, coming
  <2>4. work' = [work EXCEPT !.response = s, !.len = n + k, !.arrived = rest]
    BY <1>2, <2>1
  <2> HIDE DEF s, rest, n
  <2>5. /\ work'.coming = work.coming /\ work'.arrived = rest /\ work'.missed = work.missed
        /\ work'.response = s /\ work'.len = n + k /\ Same(work')
    BY <1>2, <2>4
  <2>6. FigletClient!AnswerPrinted'
    BY <1>4, <2>2
  <2>. QED
    BY <1>1, <1>2, <1>3, <2>2, <2>3, <2>5, <2>6 DEF FigletInv, n
<1>10. CASE FigletClient!SendCommand
  <2>1. CASE status' = "failed"
    <3>1. work' = [work EXCEPT !.open = @ - 1]
      BY <1>10, <2>1 DEF FigletClient!SendCommand
    <3>. QED
      BY <1>1, <1>2, <1>4, <2>1, <3>1 DEF FigletInv
  <2>2. CASE status' # "failed"
    <3> DEFINE left == work.coming \o work.arrived
               coming == work.coming \o a
    <3>1. /\ status' = "answer"
          /\ work' = [work EXCEPT !.missed = left # <<>>, !.coming = coming, !.len = 0]
      BY <1>10, <2>2 DEF FigletClient!SendCommand
    <3>2. coming \in Seq(STRING) /\ 0 \in 0..B
      BY <1>1, <1>2
    <3>3. left = <<>> => PartsOfAnswer(a, work.response, 0, work.arrived, coming)
      <4>1. ASSUME left = <<>> PROVE work.arrived = <<>> /\ work.coming = <<>>
        <5>1. Len(left) = Len(work.coming) + Len(work.arrived) /\ Len(left) = 0
          BY <1>2, <4>1, ConcatProperties
        <5>. QED
          BY <1>2, <5>1, EmptySeq
      <4>2. <<>> \o a = a
        BY <1>1, ConcatEmptySeq
      <4>3. PartsOfAnswer(a, work.response, 0, <<>>, a)
        BY <1>1 DEF PartsOfAnswer
      <4> HIDE DEF left
      <4>. QED
        BY <4>1, <4>2, <4>3
    <3> HIDE DEF left, coming
    <3>4. /\ work'.coming = coming /\ work'.arrived = work.arrived
          /\ work'.response = work.response /\ work'.len = 0 /\ Same(work')
      BY <1>2, <3>1
    <3>5. work'.missed = (left # <<>>)
      BY <1>2, <3>1
    <3>6. work'.missed \in BOOLEAN
      BY <3>5
    <3>7. FigletClient!AnswerPrinted'
      BY <1>4, <3>1
    <3>8. ~work'.missed => PartsOfAnswer(a, work.response, 0, work.arrived, coming)
      BY <3>3, <3>5
    <3>. QED
      BY <1>1, <1>2, <3>1, <3>2, <3>4, <3>6, <3>7, <3>8 DEF FigletInv
  <2>. QED
    BY <2>1, <2>2
<1>11. CASE FigletClient!PrintAnswer
  <2> DEFINE n == work.len
             whole == SubSeq(a, 1, FigletClient!Min({B, Len(a)}))
             ends == FigletClient!LineEnds(whole)
             paused == work.missed \/ (B - n > 0 /\ work.coming # <<>>)
             found == "CRLF" \in FigletClient!Range(work.response)
             printed == SubSeq(work.response, FigletClient!FirstLineEnd + 1, n)
  <2>1. /\ status = "answer" /\ (B - n = 0 \/ work.arrived = <<>>)
        /\ found => status' = "done"
                    /\ work' = [work EXCEPT !.open = @ - 1, !.missed = paused, !.printed = printed]
        /\ ~found => status' = "undefined" /\ work' = [work EXCEPT !.missed = paused]
    BY <1>11 DEF FigletClient!PrintAnswer, FigletClient!Ends, FigletClient!Room
  <2>2. ASSUME ~paused
        PROVE  /\ whole \in Seq(STRING) /\ Len(whole) = n
               /\ \A i \in 1..n : work.response[i] = whole[i]
    <3>1. PartsOfAnswer(a, work.response, n, work.arrived, work.coming)
      BY <1>3, <2>1, <2>2
    <3>2. /\ n + Len(work.arrived) + Len(work.coming) = Len(a)
          /\ \A i \in 1..n : work.response[i] = a[i]
      BY <3>1 DEF PartsOfAnswer
    <3>3. n <= Len(a) /\ (n = B \/ n = Len(a)) /\ n <= B /\ n \in Nat
      <4>1. CASE B - n = 0
        BY <1>1, <1>2, <3>2, <4>1
      <4>2. CASE B - n # 0
        <5>1. work.arrived = <<>> /\ work.coming = <<>>
          BY <1>2, <2>1, <2>2, <4>2
        <5>2. Len(work.arrived) = 0 /\ Len(work.coming) = 0
          BY <5>1
        <5>. QED
          BY <1>1, <1>2, <3>2, <5>2
      <4>. QED
        BY <4>1, <4>2
    <3>4. FigletClient!Min({B, Len(a)}) = n
      <4> DEFINE S == {B, Len(a)}
      <4>1. S \in SUBSET Nat /\ S # {} /\ n \in S /\ \A y \in S : n <= y
        BY <1>1, <1>2, <3>3
      <4>2. FigletClient!Min(S) = Min(S)
        BY DEF FigletClient!Min, Min
      <4> HIDE DEF S
      <4>3. Min(S) \in S /\ \A y \in S : Min(S) <= y
        BY <4>1, MinIs
      <4>4. Min(S) <= n /\ n <= Min(S) /\ Min(S) \in Nat
        BY <4>1, <4>3
      <4>5. Min(S) = n
        BY <3>3, <4>4
      <4>. QED
        BY <4>2, <4>5 DEF S
    <3>5. whole = SubSeq(a, 1, n)
      BY <3>4
    <3> HIDE DEF whole, n
    <3>6. whole \in Seq(STRING) /\ Len(whole) = n /\ \A i \in 1..n : whole[i] = a[i]
      BY <1>1, <3>3, <3>5
    <3>. QED
      BY <3>2, <3>6
  <2>3. ASSUME ~paused, ends # {}
        PROVE  found /\ printed = SubSeq(whole, FigletClient!Min(ends) + 1, Len(whole))
    <3>1. /\ whole \in Seq(STRING) /\ Len(whole) = n
          /\ \A i \in 1..n : work.response[i] = whole[i]
      BY <2>2, <2>3
    <3>2. Len(whole) <= B /\ \A i \in 1..Len(whole) : work.response[i] = whole[i]
      <4> HIDE DEF whole
      <4>1. Len(whole) <= B
        BY <1>2, <3>1
      <4>. QED
        BY <3>1, <4>1
    <3> DEFINE r == work.response
               end == CHOOSE i \in 1..B : r[i] = "CRLF" /\ \A j \in 1..i - 1 : r[j] # "CRLF"
    <3> HIDE DEF whole, r
    <3>3. /\ "CRLF" \in FigletClient!Range(r)
          /\ SubSeq(r, end + 1, Len(whole))
             = SubSeq(whole, FigletClient!Min(FigletClient!LineEnds(whole)) + 1, Len(whole))
      BY <1>2, <2>3, <3>1, <3>2, FromTheLineEnd DEF r
    <3>4. FigletClient!FirstLineEnd = end
      BY DEF FigletClient!FirstLineEnd, r
    <3>. QED
      BY <3>1, <3>3, <3>4 DEF r
  <2> HIDE DEF found, printed, paused, ends, whole
  <2>4. /\ work'.coming = work.coming /\ work'.arrived = work.arrived
        /\ work'.response = work.response /\ work'.len = work.len /\ Same(work')
        /\ (found => work'.printed = printed)
    BY <1>2, <2>1
  <2>5. work'.missed = paused
    BY <1>2, <2>1
  <2>6. paused \in BOOLEAN
    BY <1>2 DEF paused
  <2>7. FigletClient!AnswerPrinted'
    <3>1. SUFFICES ASSUME status' \in {"done", "undefined"}, ~work'.missed, ends # {}
          PROVE  /\ status' = "done"
                 /\ work'.printed = SubSeq(whole, FigletClient!Min(ends) + 1, Len(whole))
      BY <1>1 DEF FigletClient!AnswerPrinted, whole, ends
    <3>. QED
      BY <2>1, <2>3, <2>4, <2>5, <3>1
  <2>8. status' # "answer"
    BY <2>1
  <2>. QED
    BY <1>1, <1>2, <2>4, <2>5, <2>6, <2>7, <2>8 DEF FigletInv
<1>. QED
  BY <1>5, <1>6, <1>7, <1>8, <1>9, <1>10, <1>11 DEF FigletClient!Next

LEMMA FigletAlways == Spec => [](Runs({"figlet"}) => FigletInv)
<1>1. Init => (Runs({"figlet"}) => FigletInv)
  BY FigletStarts
<1>2. (Runs({"figlet"}) => FigletInv) /\ [Next]_vars => (Runs({"figlet"}) => FigletInv)'
  <2>1. ASSUME Next, Runs({"figlet"}), FigletInv PROVE FigletInv'
    BY <2>1, JobStays, OwnSteps, FigletSteps
  <2>2. ASSUME UNCHANGED vars, FigletInv PROVE FigletInv'
    BY <2>2 DEF vars, FigletInv, FigletClient!AnswerPrinted
  <2>3. [Next]_vars => job' = job
    BY JobStays
  <2>. QED
    BY <2>1, <2>2, <2>3 DEF Runs
<1>. QED
  BY <1>1, <1>2, PTL DEF Spec

(* What a server sends in parts is put together and printed: by the figlet *)
(* client from its second line on, by the weather program field by field.  *)
THEOREM AnswersPrinted == Spec => []AnswerPrinted
<1>1. (Runs({"figlet"}) => FigletInv) /\ (Runs({"weather"}) => WeatherInv) => AnswerPrinted
  BY WeatherIsPrinted DEF AnswerPrinted, FigletInv
<1>. QED
  BY <1>1, FigletAlways, WeatherAlways, PTL

-----------------------------------------------------------------------------
(* hw1 archive in a picture *)

ArchiveCell ==
    ArchiveSearch!AnyCell
    \cup {ArchiveSearch!Cell("CFH_SIGNATURE"), ArchiveSearch!Cell("EOCDR_SIGNATURE"),
          ArchiveSearch!Cell("noise")}

LEMMA Triple ==
    ASSUME NEW T, NEW a \in T, NEW b \in T, NEW c \in T
    PROVE  /\ <<a, b, c>> \in Seq(T) /\ Len(<<a, b, c>>) = 3
           /\ <<a, b, c>>[1] = a /\ <<a, b, c>>[2] = b /\ <<a, b, c>>[3] = c
OBVIOUS

LEMMA Pair ==
    ASSUME NEW T, NEW a \in T, NEW b \in T
    PROVE  <<a, b>> \in Seq(T) /\ Len(<<a, b>>) = 2 /\ <<a, b>>[1] = a /\ <<a, b>>[2] = b
OBVIOUS

LEMMA NoiseIs ==
    ASSUME NEW n \in Nat
    PROVE  /\ ArchiveSearch!Noise(n) \in Seq(ArchiveCell) /\ Len(ArchiveSearch!Noise(n)) = n
           /\ \A i \in 1..n : ArchiveSearch!Noise(n)[i].kind = "noise"
<1> DEFINE c == ArchiveSearch!Cell("noise")
           s == ArchiveSearch!Noise(n)
<1>1. s = [i \in 1..n |-> c] /\ c.kind = "noise" /\ c \in ArchiveCell
  BY DEF ArchiveSearch!Noise, ArchiveSearch!Cell, ArchiveCell
<1> HIDE DEF c, s
<1>2. s \in [1..n -> ArchiveCell]
  BY <1>1
<1>. QED
  BY <1>1, <1>2 DEF s

\* One header of the central directory.
HeaderOf(m, h) ==
    /\ h \in Seq(ArchiveCell) /\ Len(h) = 3 + m.extra + m.comment
    /\ h[1].kind = "CFH_SIGNATURE"
    /\ h[2].name_len = m.len /\ h[2].extra_len = m.extra /\ h[2].comment_len = m.comment
    /\ h[3].name = m.name

LEMMA HeaderIs ==
    ASSUME NEW m \in ArchiveSearch!Member PROVE HeaderOf(m, ArchiveSearch!Header(m))
<1> DEFINE a == ArchiveSearch!Cell("CFH_SIGNATURE")
           b == [kind |-> "cfh", name_len |-> m.len, extra_len |-> m.extra,
                 comment_len |-> m.comment]
           c == [kind |-> "name", name |-> m.name]
           t == <<a, b, c>>
           r == ArchiveSearch!Noise(m.extra + m.comment)
           h == ArchiveSearch!Header(m)
<1>1. m.extra \in Nat /\ m.comment \in Nat /\ m.name \in STRING /\ m.extra + m.comment \in Nat
      /\ m.len \in Nat
  BY DEF ArchiveSearch!Member
<1>2. a \in ArchiveCell /\ a.kind = "CFH_SIGNATURE"
  BY DEF ArchiveCell, ArchiveSearch!Cell
<1>3. b \in ArchiveCell /\ b.name_len = m.len /\ b.extra_len = m.extra /\ b.comment_len = m.comment
  BY <1>1 DEF ArchiveCell, ArchiveSearch!AnyCell
<1>4. c \in ArchiveCell /\ c.name = m.name
  BY <1>1 DEF ArchiveCell, ArchiveSearch!AnyCell
<1>5. h = t \o r
  BY DEF ArchiveSearch!Header
<1> HIDE DEF a, b, c, h
<1>6. t \in Seq(ArchiveCell) /\ Len(t) = 3 /\ t[1] = a /\ t[2] = b /\ t[3] = c
  BY <1>2, <1>3, <1>4, Triple
<1>7. r \in Seq(ArchiveCell) /\ Len(r) = m.extra + m.comment
  BY <1>1, NoiseIs
<1> HIDE DEF t, r
<1>8. /\ t \o r \in Seq(ArchiveCell) /\ Len(t \o r) = Len(t) + Len(r)
      /\ \A i \in 1..Len(t) + Len(r) : (t \o r)[i] = IF i <= Len(t) THEN t[i] ELSE r[i - Len(t)]
  BY ONLY <1>6, <1>7, ConcatProperties
<1>9. h \in Seq(ArchiveCell) /\ Len(h) = 3 + (m.extra + m.comment)
  BY <1>5, <1>6, <1>7, <1>8
<1>10. h[1] = a /\ h[2] = b /\ h[3] = c
  <2>1. \A i \in 1..3 : i \in 1..Len(t) + Len(r) /\ i <= Len(t)
    BY <1>1, <1>6, <1>7
  <2>2. \A i \in 1..3 : h[i] = t[i]
    BY <1>5, <1>8, <2>1
  <2>. QED
    BY <1>6, <2>2
<1>11. 3 + (m.extra + m.comment) = 3 + m.extra + m.comment
  BY <1>1
<1>. QED
  BY <1>2, <1>3, <1>4, <1>9, <1>10, <1>11 DEF HeaderOf, h

LEMMA NextPart ==
    ASSUME NEW f, NEW g, NEW n \in Nat, \A i \in 1..n : f[i] = f[i - 1] \o g[i]
    PROVE  \A m \in 0..n : m + 1 \in 1..n => f[m + 1] = f[m] \o g[m + 1]
<1> SUFFICES ASSUME NEW m \in 0..n, m + 1 \in 1..n PROVE f[m + 1] = f[m] \o g[m + 1]
  OBVIOUS
<1> DEFINE k == m + 1
<1>1. k \in 1..n /\ k - 1 = m
  OBVIOUS
<1> HIDE DEF k
<1>2. f[k] = f[k - 1] \o g[k]
  BY <1>1
<1>. QED
  BY <1>1, <1>2 DEF k

\* Each part of a flattened sequence begins the whole.
LEMMA FlatBegins ==
    ASSUME NEW T, NEW ss \in Seq(Seq(T)), NEW flat, IsFlat(flat, ss, T)
    PROVE  \A k \in 0..Len(ss) : /\ Len(flat[k]) <= Len(flat[Len(ss)])
                                 /\ \A i \in 1..Len(flat[k]) : flat[Len(ss)][i] = flat[k][i]
<1> DEFINE N == Len(ss)
           Begins(k, m) == /\ Len(flat[k]) <= Len(flat[m])
                           /\ \A i \in 1..Len(flat[k]) : flat[m][i] = flat[k][i]
           P == {m \in Nat : m <= N => \A k \in 0..m : Begins(k, m)}
<1>1. N \in Nat /\ (\A k \in 0..N : flat[k] \in Seq(T)) /\ \A k \in 1..N : flat[k] = flat[k - 1] \o ss[k]
  <2>1. N \in Nat
    OBVIOUS
  <2>2. flat \in [0..N -> Seq(T)] /\ \A k \in 1..N : flat[k] = flat[k - 1] \o ss[k]
    BY DEF IsFlat
  <2> HIDE DEF N
  <2>. QED
    BY <2>1, <2>2
<1>2. \A m \in 0..N : Begins(m, m)
  <2>1. \A m \in 0..N : Len(flat[m]) \in Nat
    BY <1>1
  <2>. QED
    BY <2>1
<1>3. 0 \in P
  <2>1. \A k \in 0..0 : k = 0
    OBVIOUS
  <2>. QED
    BY <1>1, <1>2, <2>1
<1>4. ASSUME NEW m \in Nat, m \in P PROVE m + 1 \in P
  <2>1. SUFFICES ASSUME m + 1 <= N, NEW k \in 0..m + 1 PROVE Begins(k, m + 1)
    OBVIOUS
  <2>2. m <= N /\ m \in 0..N /\ m + 1 \in 1..N /\ m + 1 - 1 = m /\ (k = m + 1 \/ k \in 0..m)
        /\ m + 1 \in 0..N
    BY <1>1, <2>1
  <2>3. CASE k = m + 1
    BY <1>2, <2>2, <2>3
  <2>4. CASE k \in 0..m
    <3>1. Begins(k, m)
      BY <1>4, <2>2, <2>4
    <3>2. Begins(m, m + 1)
      <4> DEFINE s == flat[m]
                 t == ss[m + 1]
      <4>1. s \in Seq(T) /\ t \in Seq(T) /\ flat[m + 1] = s \o t
        <5>1. ss[m + 1] \in Seq(T)
          BY <2>2, ElementOfSeq
        <5>2. flat[m + 1] = flat[m] \o ss[m + 1] /\ flat[m] \in Seq(T)
          <6>1. m + 1 \in 1..N /\ m \in 0..N
            BY <2>2
          <6>2. \A i \in 1..N : flat[i] = flat[i - 1] \o ss[i]
            BY <1>1
          <6>3. flat[m] \in Seq(T)
            BY <1>1, <6>1
          <6>4. flat[m + 1] = flat[m] \o ss[m + 1]
            BY ONLY <1>1, <6>1, <6>2, NextPart
          <6>. QED
            BY <6>3, <6>4
        <5>. QED
          BY <5>1, <5>2
      <4> HIDE DEF s, t
      <4>2. Len(s) <= Len(s \o t) /\ \A i \in 1..Len(s) : (s \o t)[i] = s[i]
        BY <4>1, ConcatProperties
      <4>. QED
        BY <4>1, <4>2 DEF s
    <3>3. Len(flat[k]) \in Nat /\ Len(flat[m]) \in Nat /\ Len(flat[m + 1]) \in Nat
      <4>1. k \in 0..N
        BY <2>2, <2>4, <1>1
      <4>. QED
        BY <1>1, <2>2, <4>1
    <3> DEFINE p == flat[k]
               q == flat[m]
               r == flat[m + 1]
    <3> HIDE DEF p, q, r
    <3>4. /\ Len(p) <= Len(q) /\ Len(q) <= Len(r)
          /\ \A i \in 1..Len(p) : q[i] = p[i]
          /\ \A i \in 1..Len(q) : r[i] = q[i]
      BY <3>1, <3>2 DEF p, q, r
    <3>5. Len(p) \in Nat /\ Len(q) \in Nat /\ Len(r) \in Nat
      BY <3>3 DEF p, q, r
    <3>6. Len(p) <= Len(r)
      BY <3>4, <3>5
    <3>7. \A i \in 1..Len(p) : i \in 1..Len(q)
      BY <3>4, <3>5
    <3>8. \A i \in 1..Len(p) : r[i] = p[i]
      BY <3>4, <3>7
    <3>. QED
      BY <3>6, <3>8 DEF p, r
  <2>. QED
    BY <2>2, <2>3, <2>4
<1> HIDE DEF P
<1>5. \A m \in Nat : m \in P
  BY <1>3, <1>4, CountingUp
<1>. QED
  BY <1>1, <1>5 DEF P

\* A header stands behind the first p cells of d.
HeaderAt(d, p, m) ==
    /\ p + 3 <= Len(d)
    /\ d[p + 1].kind = "CFH_SIGNATURE"
    /\ d[p + 2].name_len = m.len
    /\ d[p + 2].extra_len = m.extra /\ d[p + 2].comment_len = m.comment
    /\ d[p + 3].name = m.name

\* Where the headers of the directory begin and where it ends.
Offsets(ms, off) ==
    /\ off \in [0..Len(ms) -> Nat] /\ off[0] = 0
    /\ \A k \in 1..Len(ms) : off[k] = off[k - 1] + 3 + ms[k].extra + ms[k].comment

LEMMA MemberFields ==
    ASSUME NEW m \in ArchiveSearch!Member
    PROVE  m.extra \in Nat /\ m.comment \in Nat /\ m.name \in STRING
BY DEF ArchiveSearch!Member

LEMMA SumsOfThree ==
    ASSUME NEW a \in Nat, NEW x \in Nat, NEW y \in Nat
    PROVE  a + (3 + x + y) = a + 3 + x + y /\ a + 3 <= a + (3 + x + y)
OBVIOUS

LEMMA DirectoryIs ==
    ASSUME NEW ms \in Seq(ArchiveSearch!Member)
    PROVE  LET d == ArchiveSearch!Directory(ms)
           IN /\ d \in Seq(ArchiveCell)
              /\ \E off : /\ Offsets(ms, off) /\ Len(d) = off[Len(ms)]
                          /\ \A k \in 1..Len(ms) : HeaderAt(d, off[k - 1], ms[k])
<1> DEFINE M == Len(ms)
           T == ArchiveCell
           hs == [i \in DOMAIN ms |-> ArchiveSearch!Header(ms[i])]
           d == ArchiveSearch!Directory(ms)
<1>1. /\ M \in Nat /\ DOMAIN ms = 1..M /\ \A k \in 1..M : ms[k] \in ArchiveSearch!Member
  BY LenProperties, ElementOfSeq
<1>2. \A k \in 1..M : hs[k] = ArchiveSearch!Header(ms[k]) /\ HeaderOf(ms[k], hs[k])
  <2>1. ASSUME NEW k \in 1..M PROVE hs[k] = ArchiveSearch!Header(ms[k]) /\ HeaderOf(ms[k], hs[k])
    <3>1. hs[k] = ArchiveSearch!Header(ms[k]) /\ ms[k] \in ArchiveSearch!Member
      BY <1>1
    <3>. QED
      BY <3>1, HeaderIs
  <2>. QED
    BY <2>1
<1>3. hs \in Seq(Seq(T)) /\ Len(hs) = M
  <2>1. hs \in [1..M -> Seq(T)]
    BY <1>1, <1>2 DEF HeaderOf
  <2>. QED
    BY <1>1, <2>1
<1>4. d = FlattenSeq(hs)
  BY DEF ArchiveSearch!Directory, ArchiveSearch!FlattenSeq, FlattenSeq
<1> HIDE DEF hs, T
<1>5. PICK flat : IsFlat(flat, hs, T) /\ FlattenSeq(hs) = flat[Len(hs)]
  BY <1>3, FlattenIs
<1> HIDE DEF d
<1>6. d = flat[M] /\ (\A k \in 0..M : flat[k] \in Seq(T)) /\ flat[0] = <<>>
      /\ \A k \in 1..M : flat[k] = flat[k - 1] \o hs[k]
  BY <1>3, <1>4, <1>5 DEF IsFlat
<1>7. \A k \in 0..M : Len(flat[k]) <= Len(flat[M]) /\ \A i \in 1..Len(flat[k]) : flat[M][i] = flat[k][i]
  BY <1>3, <1>5, FlatBegins
<1> DEFINE off == [k \in 0..M |-> Len(flat[k])]
<1>8. /\ off \in [0..M -> Nat] /\ off[0] = 0 /\ Len(d) = off[M] /\ \A k \in 0..M : off[k] = Len(flat[k])
  <2>1. \A k \in 0..M : Len(flat[k]) \in Nat
    BY <1>6
  <2>2. 0 \in 0..M /\ M \in 0..M /\ Len(flat[0]) = 0
    BY <1>1, <1>6
  <2>. QED
    BY <1>6, <2>1, <2>2
<1> HIDE DEF off
<1>9. ASSUME NEW k \in 1..M
      PROVE  off[k] = off[k - 1] + 3 + ms[k].extra + ms[k].comment /\ HeaderAt(d, off[k - 1], ms[k])
  <2> DEFINE s == flat[k - 1]
             h == hs[k]
             a == off[k - 1]
             x == ms[k].extra
             y == ms[k].comment
  <2>1. k - 1 \in 0..M /\ k \in 0..M
    BY <1>1
  <2>2. x \in Nat /\ y \in Nat /\ a \in Nat
    BY <1>1, <1>8, <2>1, MemberFields
  <2>3. /\ s \in Seq(T) /\ Len(s) = a /\ flat[k] = s \o h /\ flat[k] \in Seq(T)
        /\ off[k] = Len(flat[k]) /\ Len(flat[k]) <= Len(d)
        /\ \A i \in 1..Len(flat[k]) : d[i] = flat[k][i]
    BY <1>6, <1>7, <1>8, <2>1
  <2>4. /\ h \in Seq(T) /\ Len(h) = 3 + x + y
        /\ h[1].kind = "CFH_SIGNATURE"
        /\ h[2].name_len = ms[k].len /\ h[2].extra_len = x /\ h[2].comment_len = y
        /\ h[3].name = ms[k].name
    BY <1>2 DEF HeaderOf, T
  <2> HIDE DEF s, h, a, x, y
  <2>5. /\ Len(s \o h) = a + (3 + x + y)
        /\ \A i \in 1..a + (3 + x + y) : (s \o h)[i] = IF i <= a THEN s[i] ELSE h[i - a]
    <3> DEFINE n == 3 + x + y
    <3>1. s \in Seq(T) /\ h \in Seq(T) /\ Len(s) = a /\ Len(h) = n
      BY <2>3, <2>4
    <3> HIDE DEF n
    <3>2. Len(s \o h) = a + n /\ \A i \in 1..a + n : (s \o h)[i] = IF i <= a THEN s[i] ELSE h[i - a]
      BY ONLY <3>1, Joined
    <3>. QED
      BY <3>2 DEF n
  <2>6. off[k] = a + 3 + x + y /\ a + 3 <= Len(flat[k]) /\ Len(flat[k]) \in Nat /\ Len(d) \in Nat
    <3>1. Len(flat[k]) = a + (3 + x + y)
      BY <2>3, <2>5
    <3>2. M \in 0..M
      BY <1>1
    <3>. QED
      BY <1>8, <2>2, <2>3, <3>1, <3>2, SumsOfThree
  <2>7. ASSUME NEW i \in 1..3 PROVE d[a + i] = h[i]
    <3>1. a + i \in 1..a + (3 + x + y) /\ ~(a + i <= a) /\ a + i - a = i
      BY <2>2
    <3>2. a + i \in 1..Len(flat[k])
      BY <2>2, <2>6
    <3>3. (s \o h)[a + i] = h[i]
      <4> DEFINE k2 == a + i
                 n == a + (3 + x + y)
      <4>1. /\ k2 \in 1..n /\ ~(k2 <= a) /\ k2 - a = i
            /\ \A q \in 1..n : (s \o h)[q] = IF q <= a THEN s[q] ELSE h[q - a]
        <5>1. k2 \in 1..n /\ ~(k2 <= a) /\ k2 - a = i
          BY <2>2
        <5>2. \A q \in 1..n : (s \o h)[q] = IF q <= a THEN s[q] ELSE h[q - a]
          BY <2>5
        <5>. QED
          BY <5>1, <5>2
      <4> HIDE DEF k2, n
      <4>2. (s \o h)[k2] = h[i]
        BY ONLY <4>1
      <4>. QED
        BY <4>2 DEF k2
    <3>. QED
      BY <2>3, <3>1, <3>2, <3>3
  <2>8. a + 3 <= Len(d)
    BY <2>2, <2>3, <2>6
  <2>. QED
    <3>1. d[a + 1] = h[1] /\ d[a + 2] = h[2] /\ d[a + 3] = h[3]
      BY <2>7
    <3>. QED
      BY <2>4, <2>6, <2>8, <3>1 DEF HeaderAt, a, x, y
<1>. QED
  <2>1. M \in 0..M
    BY <1>1
  <2>2. d \in Seq(T)
    BY <1>6, <2>1
  <2>3. Offsets(ms, off)
    BY <1>8, <1>9 DEF Offsets
  <2>. QED
    BY <1>8, <1>9, <2>2, <2>3 DEF d, T

\* Two sequences put together: where the cells of each are.
IsJoined(u, s, t, m, n, T) ==
    /\ u \in Seq(T) /\ Len(u) = m + n
    /\ \A i \in 1..m : u[i] = s[i]
    /\ \A i \in 1..n : u[m + i] = t[i]

LEMMA JoinedParts ==
    ASSUME NEW T, NEW s \in Seq(T), NEW t \in Seq(T), NEW m, NEW n, Len(s) = m, Len(t) = n
    PROVE  IsJoined(s \o t, s, t, m, n, T)
<1> DEFINE u == s \o t
<1>0. m \in Nat /\ n \in Nat
  BY LenProperties
<1>1. /\ u \in Seq(T) /\ Len(u) = m + n
      /\ \A i \in 1..m + n : u[i] = IF i <= m THEN s[i] ELSE t[i - m]
  BY Joined
<1> HIDE DEF u
<1>2. \A i \in 1..m : u[i] = s[i]
  <2>1. \A i \in 1..m : i \in 1..m + n /\ i <= m
    BY <1>0
  <2>. QED
    BY <1>1, <2>1
<1>3. ASSUME NEW i \in 1..n PROVE u[m + i] = t[i]
  <2> DEFINE k == m + i
  <2>1. k \in 1..m + n /\ ~(k <= m) /\ k - m = i
    BY <1>0
  <2> HIDE DEF k
  <2>2. u[k] = t[i]
    BY <1>1, <2>1
  <2>. QED
    BY <2>2 DEF k
<1>. QED
  BY <1>1, <1>2, <1>3 DEF u, IsJoined

\* Where the parts of a file are.
FileParts(f, d, e, z, n, D, c, T) ==
    /\ f \in Seq(T) /\ Len(f) = n + D + 2 + c
    /\ \A i \in 1..D : f[n + i] = d[i]
    /\ \A i \in 1..2 : f[n + D + i] = e[i]
    /\ \A i \in 1..c : f[n + D + 2 + i] = z[i]

LEMMA PartsOfFile ==
    ASSUME NEW T, NEW p \in Seq(T), NEW d \in Seq(T), NEW e \in Seq(T), NEW z \in Seq(T),
           NEW n, NEW D, NEW c,
           Len(p) = n, Len(d) = D, Len(e) = 2, Len(z) = c
    PROVE  FileParts(p \o d \o e \o z, d, e, z, n, D, c, T)
<1> DEFINE a == p \o d
           b == a \o e
           f == b \o z
           l == n + D
           m == n + D + 2
<1>0. /\ l \in Nat /\ m \in Nat /\ m = l + 2 /\ n \in Nat /\ D \in Nat /\ c \in Nat
  BY LenProperties
<1>1. a \in Seq(T) /\ Len(a) = l /\ \A i \in 1..D : a[n + i] = d[i]
  <2> HIDE DEF l
  <2>1. p \in Seq(T) /\ d \in Seq(T) /\ n \in Nat /\ D \in Nat /\ Len(p) = n /\ Len(d) = D
    OBVIOUS
  <2>2. IsJoined(a, p, d, n, D, T)
    BY ONLY <2>1, JoinedParts
  <2>. QED
    BY <2>2 DEF IsJoined, l
<1> HIDE DEF a
<1>2. /\ b \in Seq(T) /\ Len(b) = l + 2 /\ (\A i \in 1..l : b[i] = a[i])
      /\ \A i \in 1..2 : b[l + i] = e[i]
  <2> HIDE DEF l
  <2>1. /\ a \in Seq(T) /\ e \in Seq(T) /\ l \in Nat /\ 2 \in Nat /\ Len(a) = l /\ Len(e) = 2
    BY <1>0, <1>1
  <2>2. IsJoined(b, a, e, l, 2, T)
    BY ONLY <2>1, JoinedParts
  <2>. QED
    BY <2>2 DEF IsJoined
<1> HIDE DEF b
<1>3. /\ f \in Seq(T) /\ Len(f) = m + c /\ (\A i \in 1..m : f[i] = b[i])
      /\ \A i \in 1..c : f[m + i] = z[i]
  <2>1. Len(b) = m
    BY <1>0, <1>2
  <2> HIDE DEF m
  <2>2. b \in Seq(T) /\ z \in Seq(T) /\ m \in Nat /\ c \in Nat /\ Len(b) = m /\ Len(z) = c
    BY <1>0, <1>2, <2>1
  <2>3. IsJoined(f, b, z, m, c, T)
    BY ONLY <2>2, JoinedParts
  <2>. QED
    BY <2>3 DEF IsJoined
<1> HIDE DEF f
<1>4. ASSUME NEW i \in 1..D PROVE f[n + i] = d[i]
  <2>1. n + i \in 1..l /\ n + i \in 1..m
    BY <1>0
  <2> DEFINE k == n + i
  <2> HIDE DEF k, l, m
  <2>2. k \in 1..l /\ k \in 1..m
    BY <2>1 DEF k
  <2>3. f[k] = a[k]
    BY <1>2, <1>3, <2>2
  <2>. QED
    BY <1>1, <2>3 DEF k
<1>5. ASSUME NEW i \in 1..2 PROVE f[l + i] = e[i]
  <2>1. l + i \in 1..m
    BY <1>0
  <2> DEFINE k == l + i
  <2> HIDE DEF m
  <2>. QED
    BY <1>2, <1>3, <2>1
<1>. QED
  BY <1>3, <1>4, <1>5 DEF f, b, a, FileParts

\* How the file of an archive is laid out: n cells of the picture, the
\* directory, the end record and a comment of c cells.
Placed(j, n, c, off) ==
    LET f == j.file
        M == Len(j.members)
    IN /\ n \in Nat /\ c \in Nat /\ c <= MAX_BACK_OFFSET
       /\ Offsets(j.members, off)
       /\ Len(f) = n + off[M] + 2 + c
       /\ f[n + off[M] + 1].kind = "EOCDR_SIGNATURE"
       /\ f[n + off[M] + 2].kind = "eocdr"
       /\ f[n + off[M] + 2].cd_entries = M /\ f[n + off[M] + 2].cd_size = off[M]
       /\ \A i \in 1..c : f[n + off[M] + 2 + i].kind = "noise"
       /\ \A k \in 1..M : HeaderAt(f, n + off[k - 1], j.members[k])

LEMMA HeaderMoves ==
    ASSUME NEW n \in Nat, NEW p \in Nat, NEW D \in Nat, p + 3 <= D,
           NEW L \in Nat, n + D + 2 <= L
    PROVE  /\ n + p + 3 <= L
           /\ p + 1 \in 1..D /\ p + 2 \in 1..D /\ p + 3 \in 1..D
           /\ n + (p + 1) = n + p + 1 /\ n + (p + 2) = n + p + 2 /\ n + (p + 3) = n + p + 3
OBVIOUS

LEMMA ArchiveForm ==
    ASSUME NEW j, ArchiveSearch!IsInput(j), j.archive
    PROVE  \E n, c, off : Placed(j, n, c, off)
<1> DEFINE ms == j.members
           M == Len(ms)
           T == ArchiveCell
           f == j.file
           d == ArchiveSearch!Directory(ms)
           e == ArchiveSearch!EndRecord(ms)
<1>1. /\ ms \in Seq(ArchiveSearch!Member) /\ f \in Seq(ArchiveSearch!AnyCell) /\ M \in Nat
      /\ \E n \in 0..Len(f), c \in 0..MAX_BACK_OFFSET :
            f = ArchiveSearch!Rarjpeg(SubSeq(f, 1, n), ms, c)
  BY DEF ArchiveSearch!IsInput
<1>2. PICK n \in 0..Len(f), c \in 0..MAX_BACK_OFFSET :
         f = ArchiveSearch!Rarjpeg(SubSeq(f, 1, n), ms, c)
  BY <1>1
<1> DEFINE p == SubSeq(f, 1, n)
           z == ArchiveSearch!Noise(c)
<1>3. d \in Seq(T) /\ \E off : /\ Offsets(ms, off) /\ Len(d) = off[Len(ms)]
                              /\ \A k \in 1..Len(ms) : HeaderAt(d, off[k - 1], ms[k])
  BY <1>1, DirectoryIs
<1>4. f = p \o d \o e \o z
  BY <1>2 DEF ArchiveSearch!Rarjpeg
<1>5. n \in Nat /\ c \in Nat /\ c <= MAX_BACK_OFFSET
  BY <1>1, <1>2, BoundAssumption
<1>6. z \in Seq(T) /\ Len(z) = c /\ \A i \in 1..c : z[i].kind = "noise"
  BY <1>5, NoiseIs
<1>7. p \in Seq(T) /\ Len(p) = n
  <2>1. f \in Seq(T)
    <3>1. ArchiveSearch!AnyCell \subseteq T
      BY DEF ArchiveCell
    <3> HIDE DEF T, f
    <3>2. Seq(ArchiveSearch!AnyCell) \subseteq Seq(T)
      BY <3>1
    <3>. QED
      BY <1>1, <3>2
  <2> HIDE DEF T, f
  <2>2. n \in 0..Len(f) /\ n \in Nat
    BY <1>2, <1>5
  <2>. QED
    BY <2>1, <2>2, SubSeqProperties
<1>8. e \in Seq(T) /\ Len(e) = 2 /\ e[1].kind = "EOCDR_SIGNATURE" /\ e[2].kind = "eocdr"
      /\ e[2].cd_entries = M /\ e[2].cd_size = Len(d)
  <2> DEFINE x == ArchiveSearch!Cell("EOCDR_SIGNATURE")
             y == [kind |-> "eocdr", cd_entries |-> M, cd_size |-> Len(d)]
  <2>1. x \in T /\ x.kind = "EOCDR_SIGNATURE"
    BY DEF ArchiveCell, ArchiveSearch!Cell
  <2>2. y \in T /\ y.kind = "eocdr" /\ y.cd_entries = M /\ y.cd_size = Len(d)
    <3>1. Len(d) \in Nat
      BY <1>3
    <3> HIDE DEF d, M
    <3>. QED
      BY <1>1, <3>1 DEF ArchiveCell, ArchiveSearch!AnyCell
  <2>3. e = <<x, y>>
    BY DEF ArchiveSearch!EndRecord
  <2> HIDE DEF x, y, T, e, d, M
  <2>. QED
    BY <2>1, <2>2, <2>3, Pair
<1> HIDE DEF d, e, p, z, f, T
<1>9. PICK off : /\ Offsets(ms, off) /\ Len(d) = off[M]
                 /\ \A k \in 1..M : HeaderAt(d, off[k - 1], ms[k])
  BY <1>3
<1> DEFINE D == off[M]
<1>10. D \in Nat /\ Len(d) = D
  <2>1. M \in 0..M
    BY <1>1
  <2>. QED
    BY <1>9, <2>1 DEF Offsets
<1> HIDE DEF D
<1>11. /\ Len(f) = n + D + 2 + c
       /\ \A i \in 1..D : f[n + i] = d[i]
       /\ \A i \in 1..2 : f[n + D + i] = e[i]
       /\ \A i \in 1..c : f[n + D + 2 + i] = z[i]
  <2>1. /\ p \in Seq(T) /\ d \in Seq(T) /\ e \in Seq(T) /\ z \in Seq(T)
        /\ n \in Nat /\ D \in Nat /\ c \in Nat
        /\ Len(p) = n /\ Len(d) = D /\ Len(e) = 2 /\ Len(z) = c
    BY <1>3, <1>5, <1>6, <1>7, <1>8, <1>10
  <2>2. FileParts(f, d, e, z, n, D, c, T)
    BY ONLY <1>4, <2>1, PartsOfFile
  <2>. QED
    BY <2>2 DEF FileParts
<1>12. f[n + D + 1] = e[1] /\ f[n + D + 2] = e[2]
  BY <1>11
<1>13. ASSUME NEW k \in 1..M PROVE HeaderAt(f, n + off[k - 1], ms[k])
  <2> DEFINE q == off[k - 1]
             m == ms[k]
  <2>1. q \in Nat
    <3>1. k - 1 \in 0..M
      BY <1>1
    <3>. QED
      BY <1>9, <3>1 DEF Offsets
  <2>2. HeaderAt(d, q, m)
    BY <1>9
  <2> HIDE DEF q, m
  <2>3. q + 3 <= D /\ Len(f) \in Nat /\ n + D + 2 <= Len(f)
    BY <1>5, <1>10, <1>11, <2>2 DEF HeaderAt
  <2>4. /\ n + q + 3 <= Len(f)
        /\ q + 1 \in 1..D /\ q + 2 \in 1..D /\ q + 3 \in 1..D
        /\ n + (q + 1) = n + q + 1 /\ n + (q + 2) = n + q + 2 /\ n + (q + 3) = n + q + 3
    BY <1>5, <1>10, <2>1, <2>3, HeaderMoves
  <2>5. f[n + (q + 1)] = d[q + 1] /\ f[n + (q + 2)] = d[q + 2] /\ f[n + (q + 3)] = d[q + 3]
    BY <1>11, <2>4
  <2>6. f[n + q + 1] = d[q + 1] /\ f[n + q + 2] = d[q + 2] /\ f[n + q + 3] = d[q + 3]
    BY <2>4, <2>5
  <2>7. HeaderAt(f, n + q, m)
    BY <2>2, <2>4, <2>6 DEF HeaderAt
  <2>. QED
    BY <2>7 DEF q, m
<1>14. Placed(j, n, c, off)
  <2>1. \A i \in 1..c : f[n + D + 2 + i].kind = "noise"
    BY <1>6, <1>11
  <2>. QED
    BY <1>5, <1>8, <1>9, <1>10, <1>11, <1>12, <1>13, <2>1 DEF Placed, f, D
<1>. QED
  BY <1>14

\* The names of the first k members.
NamesOf(ms, k) == [i \in 1..k |-> ms[i].name]

\* How far the search or the listing of an archive has come.
ArchiveAt(n, c, off) ==
    LET M == Len(job.members)
    IN /\ status \in {"searching", "listing", "empty", "done", "undefined"}
       /\ status = "searching" => work.back <= c /\ work.printed = <<>>
       /\ status = "listing" =>
            \E k \in 0..M : /\ M > 0 /\ work.left = M - k /\ work.at = n + off[k]
                            /\ work.printed = NamesOf(job.members, k)
       /\ status = "undefined" =>
            \E k \in 0..M : /\ k + 1 <= M /\ work.printed = NamesOf(job.members, k)
                            /\ job.members[k + 1].len \notin ArchiveSearch!NameLengths
       /\ status = "empty" => M = 0 /\ work.printed = <<>>
       /\ status = "done" => M > 0 /\ work.printed = NamesOf(job.members, M)

ArchiveInv ==
    /\ ArchiveSearch!IsInput(job)
    /\ work = [back |-> work.back, at |-> work.at, left |-> work.left, printed |-> work.printed]
    /\ work.back \in Nat
    /\ job.archive => \E n, c, off : Placed(job, n, c, off) /\ ArchiveAt(n, c, off)
    /\ ~job.archive => status \in {"searching", "none"} /\ work.printed = <<>>

LEMMA ArchiveStarts == ASSUME Init, Runs({"rarjpeg"}) PROVE ArchiveInv
<1>1. work = ArchiveSearch!Start /\ status = "searching" /\ ArchiveSearch!IsInput(job)
  BY FirstStates, JobForms
<1>2. /\ work = [back |-> work.back, at |-> work.at, left |-> work.left, printed |-> work.printed]
      /\ work.back = 0 /\ work.printed = <<>>
  BY <1>1 DEF ArchiveSearch!Start
<1>3. ASSUME job.archive PROVE \E n, c, off : Placed(job, n, c, off) /\ ArchiveAt(n, c, off)
  <2>1. PICK n, c, off : Placed(job, n, c, off)
    BY <1>1, <1>3, ArchiveForm
  <2>2. work.back <= c
    <3>1. c \in Nat
      BY <2>1 DEF Placed
    <3>. QED
      BY <1>2, <3>1
  <2>3. ArchiveAt(n, c, off)
    BY <1>1, <1>2, <2>2 DEF ArchiveAt
  <2>. QED
    BY <2>1, <2>3
<1>. QED
  BY <1>1, <1>2, <1>3 DEF ArchiveInv

\* Where the search looks, b cells back.
LEMMA LookedAt ==
    ASSUME NEW n \in Nat, NEW D \in Nat, NEW c \in Nat, NEW b \in 0..c
    PROVE  /\ b = c => (n + D + 2 + c) - 2 - b + 1 = n + D + 1
           /\ b = c - 1 => (n + D + 2 + c) - 2 - b + 1 = n + D + 2
           /\ b < c - 1 => /\ c - b - 1 \in 1..c
                           /\ (n + D + 2 + c) - 2 - b + 1 = n + D + 2 + (c - b - 1)
           /\ b = c \/ b = c - 1 \/ b < c - 1
           /\ 2 + b <= n + D + 2 + c /\ (b # c => b + 1 <= c)
           /\ b = c => (n + D + 2 + c) - 2 - b = n + D /\ (n + D + 2 + c) - 2 - b + 1 + 1 = n + D + 2
           /\ (n + D) - D = n + 0
OBVIOUS

LEMMA NoneNamed == ASSUME NEW ms PROVE NamesOf(ms, 0) = <<>>
BY DEF NamesOf

LEMMA NamesLength == ASSUME NEW ms, NEW k \in Nat PROVE Len(NamesOf(ms, k)) = k
BY DEF NamesOf

LEMMA OneMoreName ==
    ASSUME NEW ms \in Seq(ArchiveSearch!Member), NEW k \in 0..Len(ms) - 1
    PROVE  Append(NamesOf(ms, k), ms[k + 1].name) = NamesOf(ms, k + 1)
<1> DEFINE s == NamesOf(ms, k)
           x == ms[k + 1].name
<1>1. Len(ms) \in Nat /\ k \in Nat /\ k + 1 \in 1..Len(ms) /\ \A i \in 1..k : i \in 1..Len(ms)
  OBVIOUS
<1>2. \A i \in 1..Len(ms) : ms[i].name \in STRING
  BY ElementOfSeq, MemberFields
<1>3. s \in Seq(STRING) /\ Len(s) = k /\ \A i \in 1..k : s[i] = ms[i].name
  <2>1. s \in [1..k -> STRING]
    BY <1>1, <1>2 DEF NamesOf
  <2>. QED
    BY <1>1, <2>1 DEF NamesOf
<1> HIDE DEF s
<1>4. /\ Append(s, x) \in Seq(STRING) /\ Len(Append(s, x)) = k + 1
      /\ Append(s, x)[k + 1] = x /\ \A i \in 1..k : Append(s, x)[i] = s[i]
  BY <1>1, <1>2, <1>3, AppendProperties
<1>5. \A i \in 1..k + 1 : Append(s, x)[i] = ms[i].name
  <2>1. \A i \in 1..k + 1 : i = k + 1 \/ i \in 1..k
    BY <1>1
  <2>. QED
    BY <1>3, <1>4, <2>1
<1> DEFINE t == Append(s, x)
<1> HIDE DEF t
<1>6. t = [i \in 1..k + 1 |-> t[i]]
  <2>1. t \in Seq(STRING) /\ Len(t) = k + 1
    BY <1>4 DEF t
  <2>2. DOMAIN t = 1..k + 1
    BY <2>1, LenProperties
  <2>. QED
    BY <2>1, <2>2
<1>7. t = [i \in 1..k + 1 |-> ms[i].name]
  BY <1>5, <1>6 DEF t
<1>. QED
  BY <1>7 DEF NamesOf, t, s

\* One step of the search or of the listing of an archive.
LEMMA ArchiveMoves ==
    ASSUME ArchiveSearch!IsInput(job), job.archive, job' = job, ArchiveSearch!Next,
           work = [back |-> work.back, at |-> work.at, left |-> work.left, printed |-> work.printed],
           work.back \in Nat,
           NEW n, NEW c, NEW off, Placed(job, n, c, off), ArchiveAt(n, c, off)
    PROVE  ArchiveAt(n, c, off)' /\ work'.back \in Nat
           /\ work' = [back |-> work'.back, at |-> work'.at, left |-> work'.left,
                       printed |-> work'.printed]
<1> DEFINE f == job.file
           ms == job.members
           M == Len(ms)
           D == off[M]
           b == work.back
           Shape(w) == w = [back |-> w.back, at |-> w.at, left |-> w.left, printed |-> w.printed]
<1>1. /\ ms \in Seq(ArchiveSearch!Member) /\ M \in Nat /\ MAX_BACK_OFFSET \in Nat
  BY BoundAssumption DEF ArchiveSearch!IsInput
<1>2. /\ n \in Nat /\ c \in Nat /\ c <= MAX_BACK_OFFSET
      /\ Offsets(ms, off)
      /\ Len(f) = n + D + 2 + c
      /\ f[n + D + 1].kind = "EOCDR_SIGNATURE"
      /\ f[n + D + 2].kind = "eocdr"
      /\ f[n + D + 2].cd_entries = M /\ f[n + D + 2].cd_size = D
      /\ \A i \in 1..c : f[n + D + 2 + i].kind = "noise"
      /\ \A k \in 1..M : HeaderAt(f, n + off[k - 1], ms[k])
  BY DEF Placed
<1>3. off \in [0..M -> Nat] /\ off[0] = 0 /\ D \in Nat
      /\ \A k \in 1..M : off[k] = off[k - 1] + 3 + ms[k].extra + ms[k].comment
  <2>1. M \in 0..M
    BY <1>1
  <2>. QED
    BY <1>2, <2>1 DEF Offsets
<1>4. /\ status \in {"searching", "listing", "empty", "done", "undefined"}
      /\ status = "searching" => b <= c /\ work.printed = <<>>
      /\ status = "listing" =>
           \E k \in 0..M : /\ M > 0 /\ work.left = M - k /\ work.at = n + off[k]
                           /\ work.printed = NamesOf(ms, k)
  BY DEF ArchiveAt
<1>5. Shape(work)
  OBVIOUS
<1> HIDE DEF D
<1>6. ASSUME status = "searching"
      PROVE  /\ ArchiveSearch!CanSearch
             /\ b = c <=> ArchiveSearch!At(ArchiveSearch!SearchStart).kind = "EOCDR_SIGNATURE"
             /\ b # c => b + 1 <= c
             /\ b = c => /\ ArchiveSearch!SearchStart = n + D
                         /\ ArchiveSearch!At(ArchiveSearch!SearchStart + 1) = f[n + D + 2]
  <2> DEFINE p == (n + D + 2 + c) - 2 - b + 1
  <2>1. b \in 0..c
    BY <1>2, <1>4, <1>6
  <2>2. /\ b = c => p = n + D + 1
        /\ b = c - 1 => p = n + D + 2
        /\ b < c - 1 => c - b - 1 \in 1..c /\ p = n + D + 2 + (c - b - 1)
        /\ b = c \/ b = c - 1 \/ b < c - 1
        /\ 2 + b <= n + D + 2 + c /\ (b # c => b + 1 <= c)
        /\ b = c => (n + D + 2 + c) - 2 - b = n + D /\ p + 1 = n + D + 2
    <3>1. n \in Nat /\ D \in Nat /\ c \in Nat
      BY <1>2, <1>3
    <3> HIDE DEF b
    <3>. QED
      BY ONLY <2>1, <3>1, LookedAt DEF p
  <2>3. ArchiveSearch!SearchStart = (n + D + 2 + c) - 2 - b
    <3>1. Len(f) = n + D + 2 + c
      BY <1>2
    <3>2. ArchiveSearch!SearchStart = Len(f) - 2 - b
      BY DEF ArchiveSearch!SearchStart, ArchiveSearch!EOCDR_BASE_SZ
    <3>. QED
      BY ONLY <3>1, <3>2, Zenon
  <2>4. ArchiveSearch!At(ArchiveSearch!SearchStart) = f[p]
        /\ ArchiveSearch!At(ArchiveSearch!SearchStart + 1) = f[p + 1]
    BY <2>3 DEF ArchiveSearch!At
  <2> HIDE DEF p, b
  <2>5. ArchiveSearch!CanSearch
    <3>1. b <= MAX_BACK_OFFSET
      BY <1>1, <1>2, <2>1
    <3>. QED
      BY <1>2, <2>2, <3>1 DEF ArchiveSearch!CanSearch, ArchiveSearch!EOCDR_BASE_SZ, b
  <2>6. CASE b = c
    BY <1>2, <2>2, <2>3, <2>4, <2>5, <2>6
  <2>7. CASE b = c - 1
    <3>1. b # c
      BY <1>2, <2>7
    <3>2. f[p].kind = "eocdr"
      BY <1>2, <2>2, <2>7
    <3>. QED
      BY <2>2, <2>4, <2>5, <3>1, <3>2
  <2>8. CASE b < c - 1
    <3>1. b # c
      BY <1>2, <2>1, <2>8
    <3>2. f[p].kind = "noise"
      <4> DEFINE i == c - b - 1
      <4>1. i \in 1..c /\ p = n + D + 2 + i
        BY <2>2, <2>8
      <4> HIDE DEF i
      <4>. QED
        BY <1>2, <4>1
    <3>. QED
      BY <2>2, <2>4, <2>5, <3>1, <3>2
  <2>. QED
    BY <2>2, <2>6, <2>7, <2>8
<1>7. ASSUME NEW k \in 0..M, work.left = M - k, work.left > 0, work.at = n + off[k]
      PROVE  /\ k + 1 \in 1..M /\ k \in 0..M - 1 /\ M - k - 1 = M - (k + 1) /\ k + 1 \in 0..M
             /\ ArchiveSearch!At(work.at).kind = "CFH_SIGNATURE"
             /\ ArchiveSearch!At(work.at + 2).name = ms[k + 1].name
             /\ ArchiveSearch!At(work.at + 1).name_len = ms[k + 1].len
             /\ work.at + 3 + ArchiveSearch!At(work.at + 1).extra_len
                + ArchiveSearch!At(work.at + 1).comment_len = n + off[k + 1]
  <2> DEFINE h == k + 1
             a == off[k]
             x == ms[k + 1].extra
             y == ms[k + 1].comment
  <2>1. /\ h \in 1..M /\ h - 1 = k /\ k + 1 \in 1..M /\ k \in 0..M - 1
        /\ M - k - 1 = M - (k + 1) /\ k + 1 \in 0..M
    BY <1>1, <1>7
  <2>2. a \in Nat /\ x \in Nat /\ y \in Nat
    <3>1. ms[k + 1] \in ArchiveSearch!Member
      BY <1>1, <2>1, ElementOfSeq
    <3>. QED
      BY <1>3, <3>1, MemberFields
  <2> HIDE DEF h
  <2>3. off[h] = off[h - 1] + 3 + ms[h].extra + ms[h].comment /\ HeaderAt(f, n + off[h - 1], ms[h])
    BY <1>2, <1>3, <2>1
  <2>4. off[k + 1] = a + 3 + x + y /\ HeaderAt(f, n + a, ms[k + 1])
    <3>1. off[h] = a + 3 + ms[h].extra + ms[h].comment /\ HeaderAt(f, n + a, ms[h])
      BY <2>1, <2>3
    <3>. QED
      BY <3>1 DEF h
  <2>5. /\ work.at = n + a
        /\ f[n + a + 1].kind = "CFH_SIGNATURE"
        /\ f[n + a + 2].name_len = ms[k + 1].len
        /\ f[n + a + 2].extra_len = x /\ f[n + a + 2].comment_len = y
        /\ f[n + a + 3].name = ms[k + 1].name
    BY <1>7, <2>4 DEF HeaderAt
  <2> HIDE DEF a, x, y
  <2>6. n + a + 1 + 1 = n + a + 2 /\ n + a + 2 + 1 = n + a + 3
        /\ n + (a + 3 + x + y) = n + a + 3 + x + y
    <3>1. n \in Nat
      BY <1>2
    <3>. QED
      BY ONLY <3>1, <2>2
  <2>7. /\ ArchiveSearch!At(work.at) = f[n + a + 1]
        /\ ArchiveSearch!At(work.at + 1) = f[n + a + 2]
        /\ ArchiveSearch!At(work.at + 2) = f[n + a + 3]
    BY <2>5, <2>6 DEF ArchiveSearch!At
  <2>. QED
    BY <2>1, <2>4, <2>5, <2>6, <2>7
<1>8. CASE ArchiveSearch!NoArchive
  BY <1>6, <1>8 DEF ArchiveSearch!NoArchive
<1>9. CASE ArchiveSearch!StepBack
  <2>1. status = "searching" /\ status' = status /\ b # c
    BY <1>6, <1>9 DEF ArchiveSearch!StepBack
  <2>2. work' = [work EXCEPT !.back = @ + 1]
    BY <1>9 DEF ArchiveSearch!StepBack
  <2>3. work'.back = b + 1 /\ Shape(work') /\ work'.printed = work.printed
    BY <1>5, <2>2
  <2>4. b + 1 <= c /\ b + 1 \in Nat
    BY <1>6, <2>1
  <2>. QED
    BY <1>4, <2>1, <2>3, <2>4 DEF ArchiveAt
<1>10. CASE ArchiveSearch!Found
  <2>1. status = "searching" /\ b = c
    BY <1>6, <1>10 DEF ArchiveSearch!Found
  <2>2. /\ work' = [work EXCEPT !.at = (n + D) - D, !.left = M]
        /\ status' = IF M = 0 THEN "empty" ELSE "listing"
    <3>1. /\ ArchiveSearch!SearchStart = n + D
          /\ ArchiveSearch!At(ArchiveSearch!SearchStart + 1) = f[n + D + 2]
      BY <1>6, <2>1
    <3>2. /\ work' = [work EXCEPT
                !.at = ArchiveSearch!SearchStart - ArchiveSearch!At(ArchiveSearch!SearchStart + 1).cd_size,
                !.left = ArchiveSearch!At(ArchiveSearch!SearchStart + 1).cd_entries]
          /\ status' = IF ArchiveSearch!At(ArchiveSearch!SearchStart + 1).cd_entries = 0
                       THEN "empty" ELSE "listing"
      BY <1>10 DEF ArchiveSearch!Found
    <3> DEFINE r == ArchiveSearch!At(ArchiveSearch!SearchStart + 1)
    <3>3. r.cd_size = D /\ r.cd_entries = M
      BY <1>2, <3>1
    <3> HIDE DEF r, M
    <3>4. /\ work' = [work EXCEPT !.at = ArchiveSearch!SearchStart - r.cd_size, !.left = r.cd_entries]
          /\ status' = IF r.cd_entries = 0 THEN "empty" ELSE "listing"
      BY <3>2 DEF r
    <3>. QED
      <4>1. ArchiveSearch!SearchStart - r.cd_size = (n + D) - D
        BY ONLY <3>1, <3>3, <2>1, Zenon
      <4>2. work' = [work EXCEPT !.at = (n + D) - D, !.left = M]
        BY ONLY <3>3, <3>4, <4>1, Zenon
      <4>. QED
        BY <3>3, <3>4, <4>2
  <2>3. /\ Shape(work') /\ work'.back = work.back /\ work'.left = M /\ work'.at = (n + D) - D
        /\ work'.printed = work.printed
    BY <1>5, <2>2
  <2>4. (n + D) - D = n + off[0] /\ M = M - 0 /\ 0 \in 0..M
    BY <1>1, <1>2, <1>3
  <2>5. work'.printed = NamesOf(ms, 0)
    BY <1>4, <2>1, <2>3, NoneNamed
  <2>6. M > 0 \/ M = 0
    BY <1>1
  <2>7. status' = "listing" => \E k \in 0..M : /\ M > 0 /\ work'.left = M - k /\ work'.at = n + off[k]
                                               /\ work'.printed = NamesOf(ms, k)
    BY <2>2, <2>3, <2>4, <2>5, <2>6
  <2>. QED
    BY <2>2, <2>3, <2>7 DEF ArchiveAt
<1>11. CASE ArchiveSearch!PrintEntry
  <2>1. status = "listing" /\ status' = status /\ work.left > 0
    BY <1>11 DEF ArchiveSearch!PrintEntry, ArchiveSearch!CanPrint
  <2>2. work' = [work EXCEPT
            !.left = @ - 1,
            !.printed = Append(@, ArchiveSearch!At(work.at + 2).name),
            !.at = @ + 3 + ArchiveSearch!At(work.at + 1).extra_len
                     + ArchiveSearch!At(work.at + 1).comment_len]
    BY <1>11 DEF ArchiveSearch!PrintEntry, ArchiveSearch!file_header
  <2>3. /\ Shape(work') /\ work'.back = work.back /\ work'.left = work.left - 1
        /\ work'.printed = Append(work.printed, ArchiveSearch!At(work.at + 2).name)
        /\ work'.at = work.at + 3 + ArchiveSearch!At(work.at + 1).extra_len
                         + ArchiveSearch!At(work.at + 1).comment_len
    BY <1>5, <2>2
  <2>4. PICK k \in 0..M : /\ M > 0 /\ work.left = M - k /\ work.at = n + off[k]
                          /\ work.printed = NamesOf(ms, k)
    BY <1>4, <2>1
  <2>5. /\ k \in 0..M - 1 /\ M - k - 1 = M - (k + 1) /\ k + 1 \in 0..M
        /\ ArchiveSearch!At(work.at + 2).name = ms[k + 1].name
        /\ work.at + 3 + ArchiveSearch!At(work.at + 1).extra_len
             + ArchiveSearch!At(work.at + 1).comment_len = n + off[k + 1]
    BY <1>7, <2>1, <2>4
  <2>6. work'.printed = NamesOf(ms, k + 1)
    BY <1>1, <2>3, <2>4, <2>5, OneMoreName
  <2>7. work'.left = M - (k + 1) /\ work'.at = n + off[k + 1]
    BY <2>3, <2>4, <2>5
  <2>. QED
    BY <2>1, <2>3, <2>4, <2>5, <2>6, <2>7 DEF ArchiveAt
<1>14. CASE ArchiveSearch!NameMisfits
  <2>1. /\ status = "listing" /\ work.left > 0 /\ status' = "undefined" /\ work' = work
        /\ ArchiveSearch!At(work.at + 1).name_len \notin ArchiveSearch!NameLengths
    BY <1>14 DEF ArchiveSearch!NameMisfits, ArchiveSearch!CanPrint, ArchiveSearch!file_header
  <2>2. PICK k \in 0..M : /\ work.left = M - k /\ work.at = n + off[k]
                          /\ work.printed = NamesOf(ms, k)
    BY <1>4, <2>1
  <2>3. k + 1 \in 1..M /\ ArchiveSearch!At(work.at + 1).name_len = ms[k + 1].len
    BY <1>7, <2>1, <2>2
  <2>4. k + 1 <= M
    BY <1>1, <2>3
  <2>. QED
    BY <1>5, <2>1, <2>2, <2>3, <2>4 DEF ArchiveAt
<1>12. CASE ArchiveSearch!BadSignature
  <2>1. status = "listing" /\ work.left > 0 /\ ArchiveSearch!At(work.at).kind # "CFH_SIGNATURE"
    BY <1>12 DEF ArchiveSearch!BadSignature
  <2>2. PICK k \in 0..M : work.left = M - k /\ work.at = n + off[k]
    BY <1>4, <2>1
  <2>. QED
    BY <1>7, <2>1, <2>2
<1>13. CASE ArchiveSearch!Listed
  <2>1. status = "listing" /\ work.left = 0 /\ status' = "done" /\ work' = work
    BY <1>13 DEF ArchiveSearch!Listed
  <2>2. PICK k \in 0..M : M > 0 /\ work.left = M - k /\ work.printed = NamesOf(ms, k)
    BY <1>4, <2>1
  <2>3. k = M
    BY <1>1, <2>1, <2>2
  <2>. QED
    BY <1>5, <2>1, <2>2, <2>3 DEF ArchiveAt
<1>. QED
  BY <1>8, <1>9, <1>10, <1>11, <1>12, <1>13, <1>14 DEF ArchiveSearch!Next

LEMMA LookedBack ==
    ASSUME NEW b \in Nat, NEW L \in Nat, 2 + b <= L
    PROVE  L - 2 - b + 1 \in 1..L - 1 /\ L - 1 - (L - 2 - b + 1) = b
OBVIOUS

LEMMA ArchiveSteps == ASSUME ArchiveInv, ArchiveSearch!Next, job' = job PROVE ArchiveInv'
<1>1. /\ ArchiveSearch!IsInput(job) /\ ArchiveSearch!IsInput(job)'
      /\ work = [back |-> work.back, at |-> work.at, left |-> work.left, printed |-> work.printed]
      /\ work.back \in Nat
  BY DEF ArchiveInv, ArchiveSearch!IsInput
<1>2. CASE job.archive
  <2>1. PICK n, c, off : Placed(job, n, c, off) /\ ArchiveAt(n, c, off)
    BY <1>2 DEF ArchiveInv
  <2>2. ArchiveAt(n, c, off)' /\ work'.back \in Nat
        /\ work' = [back |-> work'.back, at |-> work'.at, left |-> work'.left,
                    printed |-> work'.printed]
    BY <1>1, <1>2, <2>1, ArchiveMoves
  <2>3. Placed(job, n, c, off)' /\ job'.archive
    BY <1>2, <2>1 DEF Placed
  <2>. QED
    BY <1>1, <2>2, <2>3 DEF ArchiveInv
<1>3. CASE ~job.archive
  <2>1. status \in {"searching", "none"} /\ work.printed = <<>>
    BY <1>3 DEF ArchiveInv
  <2>2. ASSUME ArchiveSearch!CanSearch, status = "searching"
        PROVE  ArchiveSearch!At(ArchiveSearch!SearchStart).kind # "EOCDR_SIGNATURE"
    <3> DEFINE L == Len(job.file)
               i == L - 2 - work.back + 1
    <3>1. L \in Nat /\ MAX_BACK_OFFSET \in Nat
      BY <1>1, BoundAssumption DEF ArchiveSearch!IsInput
    <3>2. work.back <= MAX_BACK_OFFSET /\ 2 + work.back <= L
      BY <2>2 DEF ArchiveSearch!CanSearch, ArchiveSearch!EOCDR_BASE_SZ
    <3>3. i \in 1..L - 1 /\ L - 1 - i <= MAX_BACK_OFFSET
      <4>1. work.back \in Nat
        BY <1>1
      <4> DEFINE b == work.back
      <4> HIDE DEF b, L
      <4>. QED
        BY <3>1, <3>2, <4>1, LookedBack DEF b
    <3>4. \A q \in 1..L - 1 : L - 1 - q <= MAX_BACK_OFFSET => job.file[q].kind # "EOCDR_SIGNATURE"
      BY <1>1, <1>3 DEF ArchiveSearch!IsInput
    <3>5. ArchiveSearch!At(ArchiveSearch!SearchStart) = job.file[i]
      BY DEF ArchiveSearch!At, ArchiveSearch!SearchStart, ArchiveSearch!EOCDR_BASE_SZ
    <3> HIDE DEF i, L
    <3>. QED
      BY <3>3, <3>4, <3>5
  <2>3. \/ status' = "none" /\ work' = work
        \/ status' = "searching" /\ work' = [work EXCEPT !.back = @ + 1]
    BY <2>1, <2>2 DEF ArchiveSearch!Next, ArchiveSearch!NoArchive, ArchiveSearch!StepBack,
         ArchiveSearch!Found, ArchiveSearch!PrintEntry, ArchiveSearch!NameMisfits,
         ArchiveSearch!CanPrint, ArchiveSearch!BadSignature, ArchiveSearch!Listed
  <2>4. /\ work'.back \in Nat /\ work'.printed = <<>>
        /\ work' = [back |-> work'.back, at |-> work'.at, left |-> work'.left,
                    printed |-> work'.printed]
    BY <1>1, <2>1, <2>3
  <2>. QED
    BY <1>1, <1>3, <2>3, <2>4 DEF ArchiveInv
<1>. QED
  BY <1>2, <1>3

LEMMA ArchiveAlways == Spec => [](Runs({"rarjpeg"}) => ArchiveInv)
<1>1. Init => (Runs({"rarjpeg"}) => ArchiveInv)
  BY ArchiveStarts
<1>2. (Runs({"rarjpeg"}) => ArchiveInv) /\ [Next]_vars => (Runs({"rarjpeg"}) => ArchiveInv)'
  <2>1. ASSUME Next, Runs({"rarjpeg"}), ArchiveInv PROVE ArchiveInv'
    BY <2>1, JobStays, OwnSteps, ArchiveSteps
  <2>2. ASSUME UNCHANGED vars, ArchiveInv PROVE ArchiveInv'
    BY <2>2 DEF vars, ArchiveInv, ArchiveAt, Placed, ArchiveSearch!IsInput
  <2>3. [Next]_vars => job' = job
    BY JobStays
  <2>. QED
    BY <2>1, <2>2, <2>3 DEF Runs
<1>. QED
  BY <1>1, <1>2, PTL DEF Spec

LEMMA ArchiveIsListed == ASSUME ArchiveInv PROVE ArchiveSearch!ArchiveListed
<1> DEFINE ms == job.members
           M == Len(ms)
<1>1. ms \in Seq(ArchiveSearch!Member) /\ DOMAIN ms = 1..M /\ (ms = <<>> <=> M = 0) /\ M \in Nat
  <2>1. ms \in Seq(ArchiveSearch!Member)
    BY DEF ArchiveInv, ArchiveSearch!IsInput
  <2>. QED
    BY <2>1, LenProperties, EmptySeq
<1>2. ASSUME NEW k \in Nat, work.printed = NamesOf(ms, k)
      PROVE  /\ Len(work.printed) = k
             /\ work.printed = [i \in 1..Len(work.printed) |-> ms[i].name]
  BY <1>2, NamesLength DEF NamesOf
<1>3. work.printed = <<>> => work.printed = NamesOf(ms, 0)
  BY NoneNamed
<1>4. CASE job.archive
  <2>1. PICK n, c, off : Placed(job, n, c, off) /\ ArchiveAt(n, c, off)
    BY <1>4 DEF ArchiveInv
  <2>2. /\ status \in {"searching", "listing", "empty", "done", "undefined"}
        /\ status \in {"searching", "empty"} => work.printed = <<>>
        /\ status = "empty" => M = 0
        /\ status = "done" => M > 0 /\ work.printed = NamesOf(ms, M)
        /\ status = "listing" => \E k \in 0..M : work.printed = NamesOf(ms, k)
        /\ status = "undefined" =>
              \E k \in 0..M : /\ k + 1 <= M /\ work.printed = NamesOf(ms, k)
                              /\ ms[k + 1].len \notin ArchiveSearch!NameLengths
    BY <2>1 DEF ArchiveAt
  <2>3. work.printed = [i \in 1..Len(work.printed) |-> ms[i].name]
    <3>1. \E k \in Nat : work.printed = NamesOf(ms, k)
      BY <1>1, <1>3, <2>2
    <3>. QED
      BY <1>2, <3>1
  <2>4. status = "done" => Len(work.printed) = M /\ ms # <<>>
    <3>1. ASSUME status = "done" PROVE M > 0 /\ work.printed = NamesOf(ms, M)
      BY <2>2, <3>1
    <3>2. M > 0 => ms # <<>>
      BY <1>1
    <3> HIDE DEF M
    <3>3. work.printed = NamesOf(ms, M) => Len(work.printed) = M
      BY <1>1, <1>2
    <3>. QED
      BY <3>1, <3>2, <3>3
  <2>5. status = "empty" => ms = <<>>
    <3>1. status = "empty" => M = 0
      BY <2>2
    <3> HIDE DEF M, ms
    <3>. QED
      BY <1>1, <3>1
  <2>6. ASSUME status = "undefined"
        PROVE  /\ Len(work.printed) < M
               /\ ms[Len(work.printed) + 1].len \notin ArchiveSearch!NameLengths
    <3>1. PICK k \in 0..M : /\ k + 1 <= M /\ work.printed = NamesOf(ms, k)
                            /\ ms[k + 1].len \notin ArchiveSearch!NameLengths
      BY <2>2, <2>6
    <3>2. k \in Nat /\ k < M
      BY <1>1, <3>1
    <3>3. Len(work.printed) = k
      BY <1>2, <3>1, <3>2
    <3> HIDE DEF M
    <3>. QED
      BY <3>1, <3>2, <3>3
  <2> HIDE DEF M
  <2>. QED
    BY <1>4, <2>2, <2>3, <2>4, <2>5, <2>6 DEF ArchiveSearch!ArchiveListed, M
<1>5. CASE ~job.archive
  <2>1. status \in {"searching", "none"} /\ work.printed = <<>>
    BY <1>5 DEF ArchiveInv
  <2>2. work.printed = [i \in 1..Len(work.printed) |-> ms[i].name]
    BY <1>2, <1>3, <2>1
  <2>. QED
    BY <1>5, <2>1, <2>2 DEF ArchiveSearch!ArchiveListed
<1>. QED
  BY <1>4, <1>5

(* Lists are printed whole and in order: the members of an archive behind  *)
(* a picture, up to a name its buffer does not hold, and the lists of hw3. *)
THEOREM ListsInOrder == Spec => []ListedInOrder
<1>1. /\ Runs({"rarjpeg"}) => ArchiveInv
      /\ Runs({"list", "list_ref"}) => ListInv
      => ListedInOrder
  BY ArchiveIsListed, ListIsPrinted DEF ListedInOrder
<1>. QED
  BY <1>1, ArchiveAlways, ListAlways, PTL

-----------------------------------------------------------------------------
(* hw1 encoding: the tables *)

Between(low, high) == {x \in Int : low <= x /\ x <= high}

\* A part of a table of n rows: each row is undefined or a character of
\* values, no character has two rows and those of letters have one.
IsTable(s, n, values, letters) ==
    /\ s \in Seq(Int) /\ Len(s) = n
    /\ \A i \in 1..n : s[i] = -1 \/ s[i] \in values
    /\ \A i, j \in 1..n : s[i] = s[j] /\ s[i] # -1 => i = j
    /\ \A v \in letters : \E i \in 1..n : s[i] = v

LEMMA TablesJoined ==
    ASSUME NEW s, NEW t, NEW m \in Nat, NEW n \in Nat, NEW V, NEW W, NEW K, NEW L,
           IsTable(s, m, V, K), IsTable(t, n, W, L), V \cap W = {}
    PROVE  IsTable(s \o t, m + n, V \cup W, K \cup L)
<1> DEFINE u == s \o t
<1>1. IsJoined(u, s, t, m, n, Int)
  BY JoinedParts DEF IsTable
<1> HIDE DEF u
<1>2. /\ u \in Seq(Int) /\ Len(u) = m + n
      /\ \A i \in 1..m : u[i] = s[i]
      /\ \A i \in 1..n : u[m + i] = t[i]
  BY <1>1 DEF IsJoined
<1>3. \A k \in 1..m + n : \/ k \in 1..m /\ u[k] = s[k]
                          \/ k - m \in 1..n /\ u[k] = t[k - m]
  <2>1. ASSUME NEW k \in 1..m + n, k \notin 1..m PROVE k - m \in 1..n /\ u[k] = t[k - m]
    <3> DEFINE i == k - m
    <3>1. i \in 1..n /\ m + i = k
      BY <2>1
    <3> HIDE DEF i
    <3>2. u[k] = t[i]
      BY <1>2, <3>1
    <3>. QED
      BY <3>1, <3>2 DEF i
  <2>. QED
    BY <1>2, <2>1
<1>4. \A k \in 1..m + n : u[k] = -1 \/ u[k] \in V \cup W
  <2>1. ASSUME NEW k \in 1..m + n, k \in 1..m, u[k] = s[k] PROVE u[k] = -1 \/ u[k] \in V
    BY <2>1 DEF IsTable
  <2>2. ASSUME NEW k \in 1..m + n, k - m \in 1..n, u[k] = t[k - m] PROVE u[k] = -1 \/ u[k] \in W
    <3>1. \A i \in 1..n : t[i] = -1 \/ t[i] \in W
      BY DEF IsTable
    <3>. QED
      BY <2>2, <3>1
  <2>. QED
    BY <1>3, <2>1, <2>2
<1>5. ASSUME NEW k \in 1..m + n, NEW l \in 1..m + n, u[k] = u[l], u[k] # -1 PROVE k = l
  <2>1. CASE k \in 1..m /\ l \in 1..m
    BY <1>2, <1>5, <2>1 DEF IsTable
  <2>2. CASE k \notin 1..m /\ l \notin 1..m
    <3>1. k - m \in 1..n /\ l - m \in 1..n /\ t[k - m] = t[l - m] /\ t[k - m] # -1
      BY <1>3, <1>5, <2>2
    <3> DEFINE i == k - m
               j == l - m
    <3>2. k = m + i /\ l = m + j
      OBVIOUS
    <3> HIDE DEF i, j
    <3>3. i \in 1..n /\ j \in 1..n /\ t[i] = t[j] /\ t[i] # -1
      BY <3>1 DEF i, j
    <3>4. i = j
      BY <3>3 DEF IsTable
    <3>. QED
      BY <3>2, <3>4
  <2>3. CASE k \in 1..m /\ l \notin 1..m
    <3>1. u[k] \in V
      BY <1>2, <1>5, <2>3 DEF IsTable
    <3>2. u[l] \in W
      BY <1>3, <1>5, <2>3 DEF IsTable
    <3>. QED
      BY <1>5, <3>1, <3>2
  <2>4. CASE k \notin 1..m /\ l \in 1..m
    <3>1. u[l] \in V
      BY <1>2, <1>5, <2>4 DEF IsTable
    <3>2. u[k] \in W
      BY <1>3, <1>5, <2>4 DEF IsTable
    <3>. QED
      BY <1>5, <3>1, <3>2
  <2>. QED
    BY <2>1, <2>2, <2>3, <2>4
<1>6. ASSUME NEW v \in K \cup L PROVE \E k \in 1..m + n : u[k] = v
  <2>1. CASE v \in K
    <3>1. PICK i \in 1..m : s[i] = v
      BY <2>1 DEF IsTable
    <3>2. i \in 1..m + n
      OBVIOUS
    <3>. QED
      BY <1>2, <3>1, <3>2
  <2>2. CASE v \in L
    <3>1. PICK i \in 1..n : t[i] = v
      BY <2>2 DEF IsTable
    <3>2. m + i \in 1..m + n
      OBVIOUS
    <3>. QED
      BY <1>2, <3>1, <3>2
  <2>. QED
    BY <2>1, <2>2
<1>. QED
  BY <1>2, <1>4, <1>5, <1>6 DEF IsTable, u

LEMMA CodesTable ==
    ASSUME NEW first \in Nat, NEW last \in Nat, first <= last
    PROVE  IsTable(Encoding!Codes(first, last), last - first + 1, Between(first, last),
                   Between(first, last))
<1> DEFINE s == Encoding!Codes(first, last)
           n == last - first + 1
<1>1. n \in Nat /\ s = [i \in 1..n |-> first + i - 1]
  BY DEF Encoding!Codes
<1>2. \A i \in 1..n : first + i - 1 \in Between(first, last)
  BY DEF Between
<1> HIDE DEF s
<1>3. \A i \in 1..n : s[i] = first + i - 1 /\ s[i] \in Between(first, last)
  BY <1>1, <1>2
<1>4. s \in Seq(Int) /\ Len(s) = n
  <2>1. s \in [1..n -> Int]
    BY <1>1
  <2>. QED
    BY <1>1, <2>1
<1>5. ASSUME NEW i \in 1..n, NEW j \in 1..n, s[i] = s[j] PROVE i = j
  BY <1>3, <1>5
<1>6. ASSUME NEW v \in Between(first, last) PROVE \E i \in 1..n : s[i] = v
  <2> DEFINE i == v - first + 1
  <2>1. i \in 1..n /\ first + i - 1 = v
    BY <1>6 DEF Between
  <2> HIDE DEF i
  <2>. QED
    BY <1>3, <2>1
<1>. QED
  BY <1>3, <1>4, <1>5, <1>6 DEF IsTable, s

LEMMA OneRow ==
    ASSUME NEW x \in Int PROVE IsTable(<<x>>, 1, {x}, {x})
<1>1. <<x>> \in Seq(Int) /\ Len(<<x>>) = 1 /\ <<x>>[1] = x
  OBVIOUS
<1>2. \A i \in 1..1 : i = 1
  OBVIOUS
<1>. QED
  BY <1>1, <1>2 DEF IsTable

LEMMA Cp1251Signs ==
    IsTable(Encoding!cp1251_signs, 64, {x \in Between(160, 65535) : ~(1040 <= x /\ x <= 1103)},
            {\h401, \h451})
<1> DEFINE s == Encoding!cp1251_signs
           V == {x \in Between(160, 65535) : ~(1040 <= x /\ x <= 1103)}
           K == {\h401, \h451}
<1>1. s \in Seq(Int) /\ Len(s) = 64
  BY DEF Encoding!cp1251_signs, Encoding!Undefined
<1>2. \A i \in 1..64 : s[i] = -1 \/ s[i] \in V
  BY DEF Encoding!cp1251_signs, Encoding!Undefined, Between
<1>3. \A i, j \in 1..64 : s[i] = s[j] => i = j
  BY DEF Encoding!cp1251_signs, Encoding!Undefined
<1>4. s[41] = \h401 /\ s[57] = \h451
  BY DEF Encoding!cp1251_signs
<1> HIDE DEF s
<1>5. \A v \in K : \E i \in 1..64 : s[i] = v
  <2>1. 41 \in 1..64 /\ 57 \in 1..64
    OBVIOUS
  <2>. QED
    BY <1>4, <2>1
<1> HIDE DEF V, K
<1>6. IsTable(s, 64, V, K)
  BY <1>1, <1>2, <1>3, <1>5 DEF IsTable
<1>. QED
  BY <1>6 DEF s, V, K

RussianLetters == (\h410..\h44F) \cup {\h401, \h451}

\* A whole table.
IsCharTable(t) == IsTable(t, 128, Between(160, 65535), RussianLetters)

LEMMA MoreValues ==
    ASSUME NEW t, NEW n, NEW V, NEW L, NEW U, NEW R,
           IsTable(t, n, V, L), V \subseteq U, R \subseteq L
    PROVE  IsTable(t, n, U, R)
<1>1. /\ t \in Seq(Int) /\ Len(t) = n
      /\ \A i \in 1..n : t[i] = -1 \/ t[i] \in V
      /\ \A i, j \in 1..n : t[i] = t[j] /\ t[i] # -1 => i = j
      /\ \A v \in L : \E i \in 1..n : t[i] = v
  BY DEF IsTable
<1>2. \A i \in 1..n : t[i] = -1 \/ t[i] \in U
  BY <1>1
<1>3. \A v \in R : \E i \in 1..n : t[i] = v
  BY <1>1
<1>. QED
  BY <1>1, <1>2, <1>3 DEF IsTable

LEMMA WholeTable ==
    ASSUME NEW t, NEW n, n = 128, NEW V, NEW L, IsTable(t, n, V, L),
           V \subseteq Between(160, 65535), RussianLetters \subseteq L
    PROVE  IsCharTable(t)
<1>1. IsTable(t, n, Between(160, 65535), RussianLetters)
  BY MoreValues
<1>. QED
  BY <1>1 DEF IsCharTable

LEMMA Cp1251Table == IsCharTable(Encoding!cp1251_to_utf8)
<1> DEFINE a == Encoding!cp1251_signs
           b == Encoding!Codes(\h410, \h44F)
           V == {x \in Between(160, 65535) : ~(1040 <= x /\ x <= 1103)}
           W == Between(\h410, \h44F)
           K == {\h401, \h451}
<1>1. IsTable(a, 64, V, K)
  BY Cp1251Signs
<1>2. IsTable(b, 64, W, W)
  <2>1. \h44F - \h410 + 1 = 64 /\ \h410 \in Nat /\ \h44F \in Nat /\ \h410 <= \h44F
    OBVIOUS
  <2>2. IsTable(b, \h44F - \h410 + 1, W, W)
    BY <2>1, CodesTable
  <2>. QED
    BY <2>1, <2>2
<1>3. V \cap W = {} /\ V \cup W \subseteq Between(160, 65535) /\ RussianLetters \subseteq K \cup W
  BY DEF Between, RussianLetters
<1>4. Encoding!cp1251_to_utf8 = a \o b
  BY DEF Encoding!cp1251_to_utf8
<1> HIDE DEF a, b, V, W, K
<1>5. IsTable(a \o b, 64 + 64, V \cup W, K \cup W)
  BY <1>1, <1>2, <1>3, TablesJoined
<1>. QED
  BY <1>3, <1>4, <1>5, WholeTable

LEMMA LettersAre ==
    /\ \A i \in 1..32 : Encoding!koi8r_letters[i] \in \h30..\h4F
    /\ \A i, j \in 1..32 : Encoding!koi8r_letters[i] = Encoding!koi8r_letters[j] => i = j
    /\ \A v \in \h30..\h4F : \E i \in 1..32 : Encoding!koi8r_letters[i] = v
<1>1. \A i \in 1..32 : Encoding!koi8r_letters[i] \in \h30..\h4F
  BY DEF Encoding!koi8r_letters
<1>2. \A i, j \in 1..32 : Encoding!koi8r_letters[i] = Encoding!koi8r_letters[j] => i = j
  BY DEF Encoding!koi8r_letters
<1>3. \A v \in \h30..\h4F : \E i \in 1..32 : Encoding!koi8r_letters[i] = v
  BY DEF Encoding!koi8r_letters
<1>. QED
  BY <1>1, <1>2, <1>3

\* The letters of KOI8-R from a first character on.
LEMMA LettersTable ==
    ASSUME NEW d \in Nat
    PROVE  IsTable([i \in 1..32 |-> d + Encoding!koi8r_letters[i]], 32,
                   Between(d + \h30, d + \h4F), Between(d + \h30, d + \h4F))
<1> DEFINE k == Encoding!koi8r_letters
           s == [i \in 1..32 |-> d + k[i]]
           V == Between(d + \h30, d + \h4F)
<1> HIDE DEF k
<1>1. /\ \A i \in 1..32 : k[i] \in \h30..\h4F
      /\ \A i, j \in 1..32 : k[i] = k[j] => i = j
      /\ \A v \in \h30..\h4F : \E i \in 1..32 : k[i] = v
  BY LettersAre DEF k
<1>2. \A i \in 1..32 : s[i] = d + k[i] /\ s[i] \in V /\ s[i] \in Int
  BY <1>1 DEF Between
<1>3. s \in Seq(Int) /\ Len(s) = 32
  <2>1. s \in [1..32 -> Int]
    BY <1>2
  <2>. QED
    BY <2>1
<1> HIDE DEF s
<1>4. ASSUME NEW i \in 1..32, NEW j \in 1..32, s[i] = s[j] PROVE i = j
  <2>1. k[i] \in Int /\ k[j] \in Int /\ d + k[i] = d + k[j]
    <3>1. s[i] = d + k[i] /\ s[j] = d + k[j]
      BY <1>2
    <3>2. k[i] \in Int /\ k[j] \in Int
      BY <1>1
    <3>. QED
      BY <1>4, <3>1, <3>2
  <2>2. k[i] = k[j]
    BY <2>1
  <2>. QED
    BY <1>1, <2>2
<1>5. ASSUME NEW v \in V PROVE \E i \in 1..32 : s[i] = v
  <2>1. v - d \in \h30..\h4F /\ d + (v - d) = v
    BY DEF Between
  <2>2. PICK i \in 1..32 : k[i] = v - d
    BY <1>1, <2>1
  <2>. QED
    BY <1>2, <2>1, <2>2
<1> HIDE DEF V
<1>6. IsTable(s, 32, V, V)
  BY <1>2, <1>3, <1>4, <1>5 DEF IsTable
<1>. QED
  BY <1>6 DEF s, V, k

KoiSigns == {x \in Between(160, 65535) : /\ ~(\h401 <= x /\ x <= \h44F) /\ x # \hA9
                                         /\ ~(\h2553 <= x /\ x <= \h256C)}
            \cup {\h451}

LEMMA Koi8rSigns == IsTable(Encoding!koi8r_signs, 36, KoiSigns, {\h451})
<1> DEFINE s == Encoding!koi8r_signs
           V == KoiSigns
           K == {\h451}
<1>1. s \in Seq(Int) /\ Len(s) = 36
  BY DEF Encoding!koi8r_signs
<1>2. \A i \in 1..36 : s[i] = -1 \/ s[i] \in V
  BY DEF Encoding!koi8r_signs, Between, KoiSigns
<1>3. \A i, j \in 1..36 : s[i] = s[j] => i = j
  BY DEF Encoding!koi8r_signs
<1>4. s[36] = \h451
  BY DEF Encoding!koi8r_signs
<1> HIDE DEF s
<1>5. \A v \in K : \E i \in 1..36 : s[i] = v
  <2>1. 36 \in 1..36
    OBVIOUS
  <2>. QED
    BY <1>4, <2>1
<1> HIDE DEF V, K
<1>6. IsTable(s, 36, V, K)
  BY <1>1, <1>2, <1>3, <1>5 DEF IsTable
<1>. QED
  BY <1>6 DEF s, V, K

LEMMA CodesRows ==
    ASSUME NEW first \in Nat, NEW last \in Nat, first <= last, NEW n, n = last - first + 1
    PROVE  IsTable(Encoding!Codes(first, last), n, Between(first, last), Between(first, last))
BY CodesTable

LEMMA Koi8rTable == IsCharTable(Encoding!koi8r_to_utf8)
<1> DEFINE a == Encoding!koi8r_signs
           b == Encoding!Codes(\h2553, \h2561)
           c == <<\h401>>
           d == Encoding!Codes(\h2562, \h256C)
           e == <<\hA9>>
           f == [i \in 1..32 |-> \h400 + Encoding!koi8r_letters[i]]
           g == [i \in 1..32 |-> \h3E0 + Encoding!koi8r_letters[i]]
           A == KoiSigns
           B == Between(\h2553, \h2561)
           C == {\h401}
           D == Between(\h2562, \h256C)
           E == {\hA9}
           F == Between(\h430, \h44F)
           G == Between(\h410, \h42F)
           K == {\h451}
<1>1. IsTable(a, 36, A, K)
  BY Koi8rSigns
<1>2. IsTable(b, 15, B, B) /\ IsTable(d, 11, D, D)
  <2>1. /\ \h2553 \in Nat /\ \h2561 \in Nat /\ \h2553 <= \h2561 /\ 15 = \h2561 - \h2553 + 1
        /\ \h2562 \in Nat /\ \h256C \in Nat /\ \h2562 <= \h256C /\ 11 = \h256C - \h2562 + 1
    OBVIOUS
  <2>. QED
    BY <2>1, CodesRows
<1>3. IsTable(c, 1, C, C) /\ IsTable(e, 1, E, E)
  <2>1. \h401 \in Int /\ \hA9 \in Int
    OBVIOUS
  <2>. QED
    BY <2>1, OneRow
<1>4. IsTable(f, 32, F, F)
  <2>1. \h400 \in Nat /\ \h400 + \h30 = \h430 /\ \h400 + \h4F = \h44F
    OBVIOUS
  <2>2. IsTable(f, 32, Between(\h400 + \h30, \h400 + \h4F), Between(\h400 + \h30, \h400 + \h4F))
    BY <2>1, LettersTable
  <2>. QED
    BY <2>1, <2>2
<1>5. IsTable(g, 32, G, G)
  <2>1. \h3E0 \in Nat /\ \h3E0 + \h30 = \h410 /\ \h3E0 + \h4F = \h42F
    OBVIOUS
  <2>2. IsTable(g, 32, Between(\h3E0 + \h30, \h3E0 + \h4F), Between(\h3E0 + \h30, \h3E0 + \h4F))
    BY <2>1, LettersTable
  <2>. QED
    BY <2>1, <2>2
<1>6. Encoding!koi8r_to_utf8 = a \o b \o c \o d \o e \o f \o g
  BY DEF Encoding!koi8r_to_utf8
<1>7. /\ A \cap B = {} /\ (A \cup B) \cap C = {} /\ (A \cup B \cup C) \cap D = {}
  BY DEF Between, KoiSigns
<1>8. (A \cup B \cup C \cup D) \cap E = {}
  BY DEF Between, KoiSigns
<1>9. (A \cup B \cup C \cup D \cup E) \cap F = {}
  BY DEF Between, KoiSigns
<1>10. (A \cup B \cup C \cup D \cup E \cup F) \cap G = {}
  BY DEF Between, KoiSigns
<1>11. A \cup B \cup C \cup D \cup E \cup F \cup G \subseteq Between(160, 65535)
  BY DEF Between, KoiSigns
<1>12. RussianLetters \subseteq K \cup B \cup C \cup D \cup E \cup F \cup G
  BY DEF Between, RussianLetters
<1> HIDE DEF a, b, c, d, e, f, g, A, B, C, D, E, F, G, K
<1>13. IsTable(a \o b, 36 + 15, A \cup B, K \cup B)
  BY <1>1, <1>2, <1>7, TablesJoined
<1>14. IsTable(a \o b \o c, 36 + 15 + 1, A \cup B \cup C, K \cup B \cup C)
  BY <1>3, <1>7, <1>13, TablesJoined
<1>15. IsTable(a \o b \o c \o d, 36 + 15 + 1 + 11, A \cup B \cup C \cup D, K \cup B \cup C \cup D)
  BY <1>2, <1>7, <1>14, TablesJoined
<1>16. IsTable(a \o b \o c \o d \o e, 36 + 15 + 1 + 11 + 1,
               A \cup B \cup C \cup D \cup E, K \cup B \cup C \cup D \cup E)
  BY <1>3, <1>8, <1>15, TablesJoined
<1>17. IsTable(a \o b \o c \o d \o e \o f, 36 + 15 + 1 + 11 + 1 + 32,
               A \cup B \cup C \cup D \cup E \cup F, K \cup B \cup C \cup D \cup E \cup F)
  BY <1>4, <1>9, <1>16, TablesJoined
<1>18. IsTable(a \o b \o c \o d \o e \o f \o g, 36 + 15 + 1 + 11 + 1 + 32 + 32,
               A \cup B \cup C \cup D \cup E \cup F \cup G,
               K \cup B \cup C \cup D \cup E \cup F \cup G)
  BY <1>5, <1>10, <1>17, TablesJoined
<1>. QED
  <2>1. 36 + 15 + 1 + 11 + 1 + 32 + 32 = 128
    OBVIOUS
  <2>. QED
    BY <1>6, <1>11, <1>12, <1>18, <2>1, WholeTable

LEMMA Iso88595Table == IsCharTable(Encoding!iso88595_to_utf8)
<1> DEFINE a == [i \in 1..32 |-> Encoding!Undefined]
           b == <<\hA0>>
           c == Encoding!Codes(\h401, \h40C)
           d == <<\hAD>>
           e == Encoding!Codes(\h40E, \h44F)
           f == <<\h2116>>
           g == Encoding!Codes(\h451, \h45C)
           h == <<\hA7, \h45E, \h45F>>
           A == {}
           B == {\hA0}
           C == Between(\h401, \h40C)
           D == {\hAD}
           E == Between(\h40E, \h44F)
           F == {\h2116}
           G == Between(\h451, \h45C)
           H == {\hA7, \h45E, \h45F}
<1>1. IsTable(a, 32, A, A)
  <2>1. a \in [1..32 -> Int] /\ \A i \in 1..32 : a[i] = -1
    BY DEF Encoding!Undefined
  <2>2. a \in Seq(Int) /\ Len(a) = 32
    BY <2>1
  <2> HIDE DEF a
  <2>. QED
    BY <2>1, <2>2 DEF IsTable
<1>2. IsTable(c, 12, C, C) /\ IsTable(e, 66, E, E) /\ IsTable(g, 12, G, G)
  <2>1. /\ \h401 \in Nat /\ \h40C \in Nat /\ \h401 <= \h40C /\ 12 = \h40C - \h401 + 1
        /\ \h40E \in Nat /\ \h44F \in Nat /\ \h40E <= \h44F /\ 66 = \h44F - \h40E + 1
        /\ \h451 \in Nat /\ \h45C \in Nat /\ \h451 <= \h45C /\ 12 = \h45C - \h451 + 1
    OBVIOUS
  <2>. QED
    BY <2>1, CodesRows
<1>3. IsTable(b, 1, B, B) /\ IsTable(d, 1, D, D) /\ IsTable(f, 1, F, F)
  <2>1. \hA0 \in Int /\ \hAD \in Int /\ \h2116 \in Int
    OBVIOUS
  <2>. QED
    BY <2>1, OneRow
<1>4. IsTable(h, 3, H, H)
  <2> DEFINE x == \hA7
             y == \h45E
             z == \h45F
  <2>1. x \in Int /\ y \in Int /\ z \in Int /\ x # y /\ y # z /\ x # z
    OBVIOUS
  <2> HIDE DEF x, y, z
  <2>2. h = <<x, y, z>> /\ H = {x, y, z}
    BY DEF x, y, z
  <2> HIDE DEF h, H
  <2>3. h \in Seq(Int) /\ Len(h) = 3 /\ h[1] = x /\ h[2] = y /\ h[3] = z
    BY <2>1, <2>2, Triple
  <2>4. \A i \in 1..3 : i = 1 \/ i = 2 \/ i = 3
    OBVIOUS
  <2>5. 1 \in 1..3 /\ 2 \in 1..3 /\ 3 \in 1..3
    OBVIOUS
  <2>. QED
    BY <2>1, <2>2, <2>3, <2>4, <2>5 DEF IsTable
<1>5. Encoding!iso88595_to_utf8 = a \o b \o c \o d \o e \o f \o g \o h
  BY DEF Encoding!iso88595_to_utf8
<1>6. /\ A \cap B = {} /\ (A \cup B) \cap C = {} /\ (A \cup B \cup C) \cap D = {}
      /\ (A \cup B \cup C \cup D) \cap E = {}
  BY DEF Between
<1>7. /\ (A \cup B \cup C \cup D \cup E) \cap F = {}
      /\ (A \cup B \cup C \cup D \cup E \cup F) \cap G = {}
  BY DEF Between
<1>8. /\ (A \cup B \cup C \cup D \cup E \cup F \cup G) \cap H = {}
  BY DEF Between
<1>9. A \cup B \cup C \cup D \cup E \cup F \cup G \cup H \subseteq Between(160, 65535)
  BY DEF Between
<1>10. RussianLetters \subseteq A \cup B \cup C \cup D \cup E \cup F \cup G \cup H
  BY DEF Between, RussianLetters
<1> HIDE DEF a, b, c, d, e, f, g, h, A, B, C, D, E, F, G, H
<1>11. IsTable(a \o b, 32 + 1, A \cup B, A \cup B)
  BY <1>1, <1>3, <1>6, TablesJoined
<1>12. IsTable(a \o b \o c, 32 + 1 + 12, A \cup B \cup C, A \cup B \cup C)
  BY <1>2, <1>6, <1>11, TablesJoined
<1>13. IsTable(a \o b \o c \o d, 32 + 1 + 12 + 1, A \cup B \cup C \cup D, A \cup B \cup C \cup D)
  BY <1>3, <1>6, <1>12, TablesJoined
<1>14. IsTable(a \o b \o c \o d \o e, 32 + 1 + 12 + 1 + 66,
               A \cup B \cup C \cup D \cup E, A \cup B \cup C \cup D \cup E)
  BY <1>2, <1>6, <1>13, TablesJoined
<1>15. IsTable(a \o b \o c \o d \o e \o f, 32 + 1 + 12 + 1 + 66 + 1,
               A \cup B \cup C \cup D \cup E \cup F, A \cup B \cup C \cup D \cup E \cup F)
  BY <1>3, <1>7, <1>14, TablesJoined
<1>16. IsTable(a \o b \o c \o d \o e \o f \o g, 32 + 1 + 12 + 1 + 66 + 1 + 12,
               A \cup B \cup C \cup D \cup E \cup F \cup G,
               A \cup B \cup C \cup D \cup E \cup F \cup G)
  BY <1>2, <1>7, <1>15, TablesJoined
<1>17. IsTable(a \o b \o c \o d \o e \o f \o g \o h, 32 + 1 + 12 + 1 + 66 + 1 + 12 + 3,
               A \cup B \cup C \cup D \cup E \cup F \cup G \cup H,
               A \cup B \cup C \cup D \cup E \cup F \cup G \cup H)
  BY <1>4, <1>8, <1>16, TablesJoined
<1>. QED
  <2>1. 32 + 1 + 12 + 1 + 66 + 1 + 12 + 3 = 128
    OBVIOUS
  <2>. QED
    BY <1>5, <1>9, <1>10, <1>17, <2>1, WholeTable

LEMMA CharTables ==
    ASSUME NEW charset \in Encoding!Charsets PROVE IsCharTable(Encoding!chartable(charset))
<1>1. /\ Encoding!chartable("CP-1251") = Encoding!cp1251_to_utf8
      /\ Encoding!chartable("KOI8-R") = Encoding!koi8r_to_utf8
      /\ Encoding!chartable("ISO-8859-5") = Encoding!iso88595_to_utf8
  BY DEF Encoding!chartable
<1>2. charset = "CP-1251" \/ charset = "KOI8-R" \/ charset = "ISO-8859-5"
  BY DEF Encoding!Charsets
<1>. QED
  BY <1>1, <1>2, Cp1251Table, Koi8rTable, Iso88595Table

Byte == 0..255

\* What the characters of a charset are, and that a character tells its byte.
LEMMA CharIs ==
    ASSUME NEW charset \in Encoding!Charsets, NEW b \in Byte
    PROVE  LET ch == Encoding!Char(charset, b)
           IN /\ ch = -1 \/ (ch \in Nat /\ ch < 65536)
              /\ b < 128 => ch = b
              /\ b >= 128 => ch = -1 \/ 160 <= ch
              /\ b >= 128 => /\ b - 127 \in 1..128
                             /\ ch = Encoding!chartable(charset)[b - 127]
<1> DEFINE t == Encoding!chartable(charset)
           ch == Encoding!Char(charset, b)
           n == 128
<1>1. IsTable(t, n, Between(160, 65535), RussianLetters)
  BY CharTables DEF IsCharTable
<1>2. b \in Int /\ 0 <= b /\ b <= 255
  BY DEF Byte
<1>3. n \in Nat /\ n = 128
  OBVIOUS
<1> HIDE DEF n, t
<1>4. \A i \in 1..n : t[i] = -1 \/ t[i] \in Between(160, 65535)
  BY <1>1 DEF IsTable
<1>5. CASE b < 128
  <2>1. ch = b
    BY <1>5 DEF Encoding!Char
  <2>. QED
    BY <1>2, <1>5, <2>1
<1>6. CASE ~(b < 128)
  <2>1. b - 127 \in 1..n /\ b - 128 + 1 = b - 127 /\ b - 127 \in 1..128
    BY <1>2, <1>3, <1>6
  <2>2. ch = t[b - 127]
    BY <1>6, <2>1 DEF Encoding!Char, t
  <2> DEFINE i == b - 127
  <2> HIDE DEF i, ch
  <2>3. ch = -1 \/ ch \in Between(160, 65535)
    BY <1>4, <2>1, <2>2 DEF i
  <2>4. ch = -1 \/ (ch \in Nat /\ ch < 65536 /\ 160 <= ch)
    BY <2>3 DEF Between
  <2>. QED
    BY <1>6, <2>1, <2>2, <2>4 DEF ch, t
<1>. QED
  BY <1>5, <1>6

LEMMA CharTellsByte ==
    ASSUME NEW charset \in Encoding!Charsets, NEW b \in Byte, NEW c \in Byte,
           Encoding!Char(charset, b) = Encoding!Char(charset, c), Encoding!Char(charset, b) # -1
    PROVE  b = c
<1> DEFINE t == Encoding!chartable(charset)
           x == Encoding!Char(charset, b)
           y == Encoding!Char(charset, c)
           n == 128
<1>1. IsTable(t, n, Between(160, 65535), RussianLetters)
  BY CharTables DEF IsCharTable
<1>2. b \in Int /\ 0 <= b /\ b <= 255 /\ c \in Int /\ 0 <= c /\ c <= 255
  BY DEF Byte
<1>3. /\ b < 128 => x = b
      /\ b >= 128 => x = -1 \/ 160 <= x
      /\ b >= 128 => b - 127 \in 1..n /\ x = t[b - 127]
  BY CharIs
<1>4. /\ c < 128 => y = c
      /\ c >= 128 => y = -1 \/ 160 <= y
      /\ c >= 128 => c - 127 \in 1..n /\ y = t[c - 127]
  BY CharIs
<1>5. x = y /\ x # -1
  OBVIOUS
<1> HIDE DEF n, t, x, y
<1>6. \A i, j \in 1..n : t[i] = t[j] /\ t[i] # -1 => i = j
  BY <1>1 DEF IsTable
<1>7. CASE b < 128 /\ c < 128
  BY <1>3, <1>4, <1>5, <1>7
<1>8. CASE b >= 128 /\ c >= 128
  <2> DEFINE i == b - 127
             j == c - 127
  <2>1. i \in 1..n /\ j \in 1..n /\ t[i] = x /\ t[j] = y
    BY <1>3, <1>4, <1>8
  <2>2. i = j => b = c
    BY <1>2
  <2> HIDE DEF i, j
  <2>. QED
    BY <1>5, <1>6, <2>1, <2>2
<1>9. CASE b < 128 /\ c >= 128
  BY <1>2, <1>3, <1>4, <1>5, <1>9
<1>10. CASE b >= 128 /\ c < 128
  BY <1>2, <1>3, <1>4, <1>5, <1>10
<1>. QED
  BY <1>2, <1>7, <1>8, <1>9, <1>10

LEMMA EveryLetter == Encoding!LettersDefined
<1> SUFFICES ASSUME NEW charset \in Encoding!Charsets, NEW v \in RussianLetters
             PROVE  \E b \in 128..255 : Encoding!Char(charset, b) = v
  BY DEF Encoding!LettersDefined, RussianLetters
<1> DEFINE t == Encoding!chartable(charset)
           n == 128
<1>1. IsTable(t, n, Between(160, 65535), RussianLetters)
  BY CharTables DEF IsCharTable
<1>2. n = 128
  OBVIOUS
<1> HIDE DEF n, t
<1>3. PICK i \in 1..n : t[i] = v
  BY <1>1 DEF IsTable
<1> DEFINE b == i + 127
<1>4. b \in 128..255 /\ ~(b < 128) /\ b - 128 + 1 = i
  BY <1>2
<1> HIDE DEF b
<1>5. Encoding!Char(charset, b) = t[i]
  BY <1>4 DEF Encoding!Char, t
<1>. QED
  BY <1>3, <1>4, <1>5

-----------------------------------------------------------------------------
(* hw1 encoding: the decoder *)

SeenStates == [chars : Seq(Int), lacks : Int, bits : Int, valid : BOOLEAN]
NothingSeen == [chars |-> <<>>, lacks |-> 0, bits |-> 0, valid |-> TRUE]

LEMMA DecodeType ==
    ASSUME NEW byte \in Byte, NEW seen \in SeenStates
    PROVE  Encoding!DecodeByte(byte, seen) \in SeenStates
<1> DEFINE r == Encoding!DecodeByte(byte, seen)
<1>1. byte \in Int /\ 0 <= byte /\ byte <= 255
  BY DEF Byte
<1>2. /\ seen.chars \in Seq(Int) /\ seen.lacks \in Int /\ seen.bits \in Int /\ seen.valid \in BOOLEAN
      /\ seen = [chars |-> seen.chars, lacks |-> seen.lacks, bits |-> seen.bits, valid |-> seen.valid]
  BY DEF SeenStates
<1>3. ASSUME NEW c \in Seq(Int), NEW l \in Int, NEW b \in Int, NEW v \in BOOLEAN
      PROVE  [chars |-> c, lacks |-> l, bits |-> b, valid |-> v] \in SeenStates
  BY DEF SeenStates
<1>4. (seen.valid /\ seen.lacks = 0) \in BOOLEAN /\ (seen.valid /\ seen.lacks > 0) \in BOOLEAN
  OBVIOUS
<1>5. CASE byte < 128
  <2>1. r = [seen EXCEPT !.chars = Append(@, byte), !.valid = @ /\ seen.lacks = 0]
    BY <1>5 DEF Encoding!DecodeByte
  <2>2. Append(seen.chars, byte) \in Seq(Int)
    BY <1>1, <1>2
  <2>3. r = [chars |-> Append(seen.chars, byte), lacks |-> seen.lacks, bits |-> seen.bits,
             valid |-> (seen.valid /\ seen.lacks = 0)]
    BY <1>2, <2>1
  <2>. QED
    BY <1>2, <1>3, <1>4, <2>2, <2>3
<1>6. CASE byte \in \h80..\hBF
  <2> DEFINE bits == 64 * seen.bits + byte - \h80
             more == IF seen.lacks = 1 THEN Append(seen.chars, bits) ELSE seen.chars
  <2>1. r = [seen EXCEPT !.valid = @ /\ seen.lacks > 0, !.lacks = @ - 1, !.bits = bits,
                         !.chars = IF seen.lacks = 1 THEN Append(@, bits) ELSE @]
    BY <1>6 DEF Encoding!DecodeByte
  <2>2. bits \in Int
    BY <1>1, <1>2
  <2> HIDE DEF bits
  <2>3. more \in Seq(Int) /\ seen.lacks - 1 \in Int
    BY <1>2, <2>2
  <2>4. r = [chars |-> more, lacks |-> seen.lacks - 1, bits |-> bits,
             valid |-> (seen.valid /\ seen.lacks > 0)]
    BY <1>2, <2>1
  <2> HIDE DEF more, r
  <2>. QED
    BY <1>3, <1>4, <2>2, <2>3, <2>4 DEF r
<1>7. CASE byte \in \hC2..\hDF
  <2> DEFINE bits == byte - \hC0
             valid == seen.valid /\ seen.lacks = 0
  <2>1. r = [seen EXCEPT !.valid = valid, !.lacks = 1, !.bits = bits]
    BY <1>7 DEF Encoding!DecodeByte
  <2>2. bits \in Int /\ valid \in BOOLEAN
    BY <1>1, <1>4
  <2> HIDE DEF bits, valid, r
  <2>3. r = [chars |-> seen.chars, lacks |-> 1, bits |-> bits, valid |-> valid]
    BY <1>2, <2>1
  <2>4. bits \in Int /\ valid \in BOOLEAN /\ 1 \in Int
        /\ r = [chars |-> seen.chars, lacks |-> 1, bits |-> bits, valid |-> valid]
    BY <2>2, <2>3
  <2>5. r \in SeenStates
    BY <1>2, <1>3, <2>4
  <2>. QED
    BY <2>5 DEF r
<1>8. CASE byte \in \hE0..\hEF
  <2> DEFINE bits == byte - \hE0
             valid == seen.valid /\ seen.lacks = 0
  <2>1. r = [seen EXCEPT !.valid = valid, !.lacks = 2, !.bits = bits]
    BY <1>8 DEF Encoding!DecodeByte
  <2>2. bits \in Int /\ valid \in BOOLEAN
    BY <1>1, <1>4
  <2> HIDE DEF bits, valid, r
  <2>3. r = [chars |-> seen.chars, lacks |-> 2, bits |-> bits, valid |-> valid]
    BY <1>2, <2>1
  <2>4. bits \in Int /\ valid \in BOOLEAN /\ 2 \in Int
        /\ r = [chars |-> seen.chars, lacks |-> 2, bits |-> bits, valid |-> valid]
    BY <2>2, <2>3
  <2>5. r \in SeenStates
    BY <1>2, <1>3, <2>4
  <2>. QED
    BY <2>5 DEF r
<1>9. CASE ~(byte < 128) /\ byte \notin \h80..\hBF /\ byte \notin \hC2..\hDF /\ byte \notin \hE0..\hEF
  <2>1. r = [seen EXCEPT !.valid = FALSE]
    BY <1>9 DEF Encoding!DecodeByte
  <2>2. r = [chars |-> seen.chars, lacks |-> seen.lacks, bits |-> seen.bits, valid |-> FALSE]
    BY <1>2, <2>1
  <2>. QED
    BY <1>2, <1>3, <2>2
<1>. QED
  BY <1>5, <1>6, <1>7, <1>8, <1>9

\* The states of the decoder along its bytes.
DecodesBy(bytes, h) ==
    /\ h \in [0..Len(bytes) -> SeenStates] /\ h[0] = NothingSeen
    /\ \A k \in 1..Len(bytes) : h[k] = Encoding!DecodeByte(bytes[k], h[k - 1])

LEMMA NothingIsState == NothingSeen \in SeenStates
<1>1. <<>> \in Seq(Int) /\ 0 \in Int /\ TRUE \in BOOLEAN
  OBVIOUS
<1>. QED
  BY <1>1 DEF NothingSeen, SeenStates

LEMMA DecodedSteps ==
    ASSUME NEW bytes \in Seq(Byte)
    PROVE  \E h : DecodesBy(bytes, h) /\ Encoding!Decoded(bytes) = h[Len(bytes)]
<1> DEFINE n == Len(bytes)
           S == SeenStates
           base == NothingSeen
           Rec(f) == f = [k \in 0..n |-> IF k = 0 THEN base
                                         ELSE Encoding!DecodeByte(bytes[k], f[k - 1])]
           step == [i \in 1..n |-> [seen \in S |-> Encoding!DecodeByte(bytes[i], seen)]]
           h == CHOOSE f : Rec(f)
<1>1. n \in Nat /\ DOMAIN bytes = 1..n /\ \A i \in 1..n : bytes[i] \in Byte
  OBVIOUS
<1>2. Encoding!Decoded(bytes) = h[n]
  BY DEF Encoding!Decoded, NothingSeen
<1> HIDE DEF S, base
<1>3. base \in S /\ step \in [1..n -> [S -> S]]
  BY <1>1, DecodeType, NothingIsState DEF S, base
<1>4. PICK g \in [SUBSET (1..n) -> S] : IsFold(g, base, step, n)
  <2> HIDE DEF step, n
  <2>. QED
    BY <1>1, <1>3, FoldExists
<1> DEFINE rec == [k \in 0..n |-> g[1..k]]
<1>5. g[1..0] = base
  <2>1. 1..0 = {} /\ 1..0 \in SUBSET (1..n)
    OBVIOUS
  <2>. QED
    BY <1>4, <2>1 DEF IsFold
<1>6. ASSUME NEW k \in 1..n
      PROVE  g[1..k] = Encoding!DecodeByte(bytes[k], g[1..k - 1])
  <2>1. Max(1..k) = k /\ (1..k) \ {k} = 1..k - 1
    BY <1>1, LastOfPrefix
  <2>2. 1..k \in SUBSET (1..n) /\ 1..k - 1 \in SUBSET (1..n) /\ k \in 1..k
    BY <1>1
  <2>3. g[1..k] = step[Max(1..k)][g[(1..k) \ {Max(1..k)}]]
    <3> HIDE DEF step
    <3>. QED
      BY <1>4, <2>2 DEF IsFold
  <2>4. g[1..k - 1] \in S
    BY <1>4, <2>2
  <2>. QED
    BY <2>1, <2>3, <2>4
<1>7. Rec(rec)
  <2>1. \A k \in 0..n : k # 0 => k \in 1..n /\ k - 1 \in 0..n
    BY <1>1
  <2> HIDE DEF step
  <2>. QED
    BY <1>5, <1>6, <2>1
<1>8. Rec(h)
  <2> HIDE DEF rec
  <2>. QED
    BY <1>7
<1> HIDE DEF h, rec, step
<1> DEFINE T == {k \in Nat : k <= n => h[k] \in S}
<1>11. \A k \in 1..n : h[k] = Encoding!DecodeByte(bytes[k], h[k - 1])
  <2>1. \A k \in 1..n : k \in 0..n /\ k # 0
    BY <1>1
  <2>. QED
    BY <1>8, <2>1
<1>12. h[0] = base /\ DOMAIN h = 0..n
  <2>1. 0 \in 0..n
    BY <1>1
  <2>. QED
    BY <1>8, <2>1
<1> HIDE DEF n
<1>13. 0 \in T
  BY <1>3, <1>12
<1>14. ASSUME NEW k \in Nat, k \in T PROVE k + 1 \in T
  <2>1. SUFFICES ASSUME k + 1 <= n PROVE h[k + 1] \in S
    OBVIOUS
  <2> DEFINE l == k + 1
  <2>2. l \in 1..n /\ l - 1 = k /\ k <= n
    BY <1>1, <2>1
  <2> HIDE DEF l
  <2>3. h[l] = Encoding!DecodeByte(bytes[l], h[l - 1])
    BY <1>11, <2>2
  <2>4. h[l - 1] \in SeenStates /\ bytes[l] \in Byte
    BY <1>1, <1>14, <2>2 DEF S
  <2>5. h[l] \in S
    BY <2>3, <2>4, DecodeType DEF S
  <2>. QED
    BY <2>5 DEF l
<1> HIDE DEF T
<1>15. \A k \in Nat : k \in T
  BY <1>13, <1>14, CountingUp
<1>16. h \in [0..n -> S]
  <2>1. \A k \in 0..n : h[k] \in S
    BY <1>1, <1>15 DEF T
  <2>2. h = [k \in 0..n |-> h[k]]
    BY <1>8
  <2>. QED
    BY <2>1, <2>2
<1>. QED
  BY <1>1, <1>2, <1>11, <1>12, <1>16 DEF DecodesBy, S, base, n

LEMMA DecodedAppend ==
    ASSUME NEW s \in Seq(Byte), NEW x \in Byte
    PROVE  /\ Encoding!Decoded(s) \in SeenStates
           /\ Encoding!Decoded(Append(s, x)) = Encoding!DecodeByte(x, Encoding!Decoded(s))
<1> DEFINE t == Append(s, x)
           n == Len(s)
<1>1. /\ t \in Seq(Byte) /\ Len(t) = n + 1 /\ t[n + 1] = x /\ n \in Nat
      /\ \A i \in 1..n : t[i] = s[i]
  BY AppendProperties, LenProperties
<1> HIDE DEF t
<1>2. PICK g : DecodesBy(s, g) /\ Encoding!Decoded(s) = g[n]
  BY DecodedSteps
<1>3. PICK h : DecodesBy(t, h) /\ Encoding!Decoded(t) = h[Len(t)]
  BY <1>1, DecodedSteps
<1>4. /\ g \in [0..n -> SeenStates] /\ g[0] = NothingSeen
      /\ \A k \in 1..n : g[k] = Encoding!DecodeByte(s[k], g[k - 1])
  BY <1>2 DEF DecodesBy
<1>5. /\ h \in [0..n + 1 -> SeenStates] /\ h[0] = NothingSeen
      /\ \A k \in 1..n + 1 : h[k] = Encoding!DecodeByte(t[k], h[k - 1])
  BY <1>1, <1>3 DEF DecodesBy
<1> HIDE DEF n
<1> DEFINE T == {k \in Nat : k <= n => h[k] = g[k]}
<1>6. 0 \in T
  BY <1>4, <1>5
<1>7. ASSUME NEW k \in Nat, k \in T PROVE k + 1 \in T
  <2>1. SUFFICES ASSUME k + 1 <= n PROVE h[k + 1] = g[k + 1]
    OBVIOUS
  <2> DEFINE l == k + 1
  <2>2. l \in 1..n /\ l \in 1..n + 1 /\ l - 1 = k /\ k <= n
    BY <1>1, <2>1
  <2> HIDE DEF l
  <2>3. h[l - 1] = g[l - 1]
    BY <1>7, <2>2
  <2>4. h[l] = Encoding!DecodeByte(t[l], h[l - 1]) /\ g[l] = Encoding!DecodeByte(s[l], g[l - 1])
    BY <1>4, <1>5, <2>2
  <2>5. h[l] = g[l]
    BY <1>1, <2>2, <2>3, <2>4
  <2>. QED
    BY <2>5 DEF l
<1> HIDE DEF T
<1>8. \A k \in Nat : k \in T
  BY <1>6, <1>7, CountingUp
<1>9. h[n] = g[n]
  BY <1>1, <1>8 DEF T
<1> DEFINE l == n + 1
<1>10. l \in 1..n + 1 /\ l - 1 = n /\ n \in 0..n
  BY <1>1
<1> HIDE DEF l
<1>11. h[l] = Encoding!DecodeByte(t[l], h[l - 1])
  BY <1>5, <1>10
<1>12. Encoding!Decoded(t) = h[l] /\ t[l] = x
  BY <1>1, <1>3 DEF l
<1>. QED
  BY <1>2, <1>4, <1>9, <1>10, <1>11, <1>12 DEF t

\* The beginning of a sequence of characters.
Begins(a, b) == Len(a) <= Len(b) /\ \A i \in 1..Len(a) : b[i] = a[i]

\* A byte never makes valid what was not, and adds at most one character.
LEMMA DecodeGrows ==
    ASSUME NEW byte \in Byte, NEW seen \in SeenStates
    PROVE  /\ Encoding!DecodeByte(byte, seen).valid => seen.valid
           /\ Begins(seen.chars, Encoding!DecodeByte(byte, seen).chars)
<1> DEFINE r == Encoding!DecodeByte(byte, seen)
<1>1. byte \in Int /\ 0 <= byte /\ byte <= 255
  BY DEF Byte
<1>2. /\ seen.chars \in Seq(Int) /\ seen.lacks \in Int /\ seen.bits \in Int /\ seen.valid \in BOOLEAN
      /\ seen = [chars |-> seen.chars, lacks |-> seen.lacks, bits |-> seen.bits, valid |-> seen.valid]
  BY DEF SeenStates
<1>3. \A x \in Int : Begins(seen.chars, Append(seen.chars, x))
  <2>1. Len(seen.chars) \in Nat
    BY <1>2
  <2>. QED
    BY <1>2, <2>1, AppendProperties DEF Begins
<1>4. Begins(seen.chars, seen.chars)
  <2>1. Len(seen.chars) \in Nat
    BY <1>2
  <2>. QED
    BY <2>1 DEF Begins
<1>5. CASE byte < 128
  <2>1. r = [seen EXCEPT !.chars = Append(@, byte), !.valid = @ /\ seen.lacks = 0]
    BY <1>5 DEF Encoding!DecodeByte
  <2>2. r.chars = Append(seen.chars, byte) /\ (r.valid => seen.valid)
    BY <1>2, <2>1
  <2>. QED
    BY <1>1, <1>3, <2>2
<1>6. CASE byte \in \h80..\hBF
  <2> DEFINE bits == 64 * seen.bits + byte - \h80
  <2>1. r = [seen EXCEPT !.valid = @ /\ seen.lacks > 0, !.lacks = @ - 1, !.bits = bits,
                         !.chars = IF seen.lacks = 1 THEN Append(@, bits) ELSE @]
    BY <1>6 DEF Encoding!DecodeByte
  <2>2. bits \in Int
    BY <1>1, <1>2
  <2> HIDE DEF bits
  <2>3. (r.chars = Append(seen.chars, bits) \/ r.chars = seen.chars) /\ (r.valid => seen.valid)
    BY <1>2, <2>1
  <2>. QED
    BY <1>3, <1>4, <2>2, <2>3
<1>7. CASE byte \in \hC2..\hDF \/ byte \in \hE0..\hEF
  <2>1. \/ r = [seen EXCEPT !.valid = @ /\ seen.lacks = 0, !.lacks = 1, !.bits = byte - \hC0]
        \/ r = [seen EXCEPT !.valid = @ /\ seen.lacks = 0, !.lacks = 2, !.bits = byte - \hE0]
    BY <1>1, <1>7 DEF Encoding!DecodeByte
  <2>2. r.chars = seen.chars /\ (r.valid => seen.valid)
    BY <1>2, <2>1
  <2>. QED
    BY <1>4, <2>2
<1>8. CASE ~(byte < 128) /\ byte \notin \h80..\hBF /\ byte \notin \hC2..\hDF /\ byte \notin \hE0..\hEF
  <2>1. r = [seen EXCEPT !.valid = FALSE]
    BY <1>8 DEF Encoding!DecodeByte
  <2>2. r.chars = seen.chars /\ ~r.valid
    BY <1>2, <2>1
  <2>. QED
    BY <1>4, <2>2
<1>. QED
  BY <1>5, <1>6, <1>7, <1>8

LEMMA DecodedPrefix ==
    ASSUME NEW s \in Seq(Byte), NEW n \in 0..Len(s)
    PROVE  LET whole == Encoding!Decoded(s)
               first == Encoding!Decoded(SubSeq(s, 1, n))
           IN  /\ whole \in SeenStates /\ first \in SeenStates
               /\ whole.valid => first.valid
               /\ Begins(first.chars, whole.chars)
               /\ n = Len(s) => first = whole
<1> DEFINE t == SubSeq(s, 1, n)
           N == Len(s)
<1>1. /\ t \in Seq(Byte) /\ Len(t) = n /\ n \in Nat /\ N \in Nat /\ n <= N
      /\ \A i \in 1..n : t[i] = s[i]
      /\ \A i \in 1..N : s[i] \in Byte
  BY SubSeqProperties, LenProperties, ElementOfSeq
<1>2. n = N => t = s
  BY SubSeqProperties, LenProperties
<1> HIDE DEF t
<1>3. PICK g : DecodesBy(t, g) /\ Encoding!Decoded(t) = g[Len(t)]
  BY <1>1, DecodedSteps
<1>4. PICK h : DecodesBy(s, h) /\ Encoding!Decoded(s) = h[N]
  BY DecodedSteps
<1>5. /\ g \in [0..n -> SeenStates] /\ g[0] = NothingSeen
      /\ \A k \in 1..n : g[k] = Encoding!DecodeByte(t[k], g[k - 1])
  BY <1>1, <1>3 DEF DecodesBy
<1>6. /\ h \in [0..N -> SeenStates] /\ h[0] = NothingSeen
      /\ \A k \in 1..N : h[k] = Encoding!DecodeByte(s[k], h[k - 1])
  BY <1>4 DEF DecodesBy
<1> HIDE DEF N
<1> DEFINE T == {k \in Nat : k <= n => h[k] = g[k]}
<1>7. 0 \in T
  BY <1>5, <1>6
<1>8. ASSUME NEW k \in Nat, k \in T PROVE k + 1 \in T
  <2>1. SUFFICES ASSUME k + 1 <= n PROVE h[k + 1] = g[k + 1]
    OBVIOUS
  <2> DEFINE l == k + 1
  <2>2. l \in 1..n /\ l \in 1..N /\ l - 1 = k /\ k <= n
    BY <1>1, <2>1
  <2> HIDE DEF l
  <2>3. h[l - 1] = g[l - 1]
    BY <1>8, <2>2
  <2>4. h[l] = Encoding!DecodeByte(s[l], h[l - 1]) /\ g[l] = Encoding!DecodeByte(t[l], g[l - 1])
    BY <1>5, <1>6, <2>2
  <2>5. h[l] = g[l]
    BY <1>1, <2>2, <2>3, <2>4
  <2>. QED
    BY <2>5 DEF l
<1> HIDE DEF T
<1>9. \A k \in Nat : k \in T
  BY <1>7, <1>8, CountingUp
<1>10. h[n] = g[n]
  BY <1>1, <1>9 DEF T
<1> DEFINE U == {k \in Nat : n <= k /\ k <= N => /\ h[k].valid => h[n].valid
                                                /\ Begins(h[n].chars, h[k].chars)}
<1>11. \A k \in 0..N : h[k] \in SeenStates /\ h[k].chars \in Seq(Int) /\ Len(h[k].chars) \in Nat
  BY <1>6 DEF SeenStates
<1>12. n \in 0..N /\ Begins(h[n].chars, h[n].chars)
  <2>1. n \in 0..N
    BY <1>1
  <2>2. Len(h[n].chars) \in Nat
    BY <1>11, <2>1
  <2>. QED
    BY <2>1, <2>2 DEF Begins
<1>13. 0 \in U
  <2>1. n <= 0 => n = 0
    BY <1>1
  <2>. QED
    BY <1>12, <2>1
<1>14. ASSUME NEW k \in Nat, k \in U PROVE k + 1 \in U
  <2> DEFINE l == k + 1
  <2>1. SUFFICES ASSUME n <= l, l <= N
                 PROVE (h[l].valid => h[n].valid) /\ Begins(h[n].chars, h[l].chars)
    OBVIOUS
  <2>2. l \in Nat /\ l - 1 = k /\ l \in 1..N /\ k \in 0..N /\ l \in 0..N /\ (n = l \/ n <= k)
    BY <1>1, <2>1
  <2> HIDE DEF l
  <2>3. CASE n = l
    BY <1>12, <2>3
  <2>4. CASE n <= k
    <3>1. (h[k].valid => h[n].valid) /\ Begins(h[n].chars, h[k].chars)
      <4>1. k <= N
        BY <2>2
      <4>. QED
        BY <1>14, <2>4, <4>1
    <3>2. h[l] = Encoding!DecodeByte(s[l], h[k]) /\ s[l] \in Byte /\ h[k] \in SeenStates
      BY <1>1, <1>6, <1>11, <2>2
    <3>3. (h[l].valid => h[k].valid) /\ Begins(h[k].chars, h[l].chars)
      BY <3>2, DecodeGrows
    <3>4. /\ Len(h[n].chars) \in Nat /\ Len(h[k].chars) \in Nat /\ Len(h[l].chars) \in Nat
      BY <1>11, <1>12, <2>2
    <3> DEFINE a == h[n].chars
               b == h[k].chars
               c == h[l].chars
    <3>5. Begins(a, b) /\ Begins(b, c) /\ Len(a) \in Nat /\ Len(b) \in Nat /\ Len(c) \in Nat
      BY <3>1, <3>3, <3>4
    <3> HIDE DEF a, b, c
    <3>6. Begins(a, c)
      <4>1. \A i \in 1..Len(a) : i \in 1..Len(b)
        BY <3>5 DEF Begins
      <4>. QED
        BY <3>5, <4>1 DEF Begins
    <3>7. Begins(h[n].chars, h[l].chars)
      BY <3>6 DEF a, c
    <3>. QED
      BY <3>1, <3>3, <3>7
  <2>. QED
    BY <2>2, <2>3, <2>4
<1> HIDE DEF U
<1>15. \A k \in Nat : k \in U
  BY <1>13, <1>14, CountingUp
<1>16. (h[N].valid => h[n].valid) /\ Begins(h[n].chars, h[N].chars)
  BY <1>1, <1>15 DEF U
<1>17. h[N] \in SeenStates /\ h[n] \in SeenStates
  BY <1>1, <1>11, <1>12
<1>18. Encoding!Decoded(t) = h[n] /\ Encoding!Decoded(s) = h[N]
  BY <1>1, <1>3, <1>4, <1>10
<1>. QED
  BY <1>2, <1>16, <1>17, <1>18 DEF t, N

\* Quotients and remainders of the sixes of bits.
LEMMA DivMod ==
    ASSUME NEW ch \in Nat
    PROVE  ch = 64 * (ch \div 64) + (ch % 64) /\ ch % 64 \in Nat /\ ch % 64 < 64 /\ ch \div 64 \in Nat
OBVIOUS

LEMMA Quotient ==
    ASSUME NEW a \in Nat, NEW k \in Nat, NEW r \in Nat, r < 4096, a = 4096 * k + r
    PROVE  a \div 4096 = k
OBVIOUS

LEMMA Small ==
    ASSUME NEW a \in Nat, NEW k \in Nat, NEW r \in Nat, a < 65536, a = 4096 * k + r
    PROVE  k < 16
OBVIOUS

LEMMA Nested ==
    ASSUME NEW k \in Nat, NEW m \in Nat, m < 64, NEW r \in Nat, r < 64
    PROVE  64 * m + r \in Nat /\ 64 * m + r < 4096
           /\ 64 * (64 * k + m) + r = 4096 * k + (64 * m + r)
OBVIOUS

LEMMA TwoBytes ==
    ASSUME NEW ch \in Nat, 128 <= ch, ch < 2048
    PROVE  /\ 64 * (ch \div 64) + (ch % 64) = ch
           /\ ch % 64 \in Nat /\ ch % 64 < 64
           /\ ch \div 64 \in Nat /\ 2 <= ch \div 64 /\ ch \div 64 < 32
<1>1. ch = 64 * (ch \div 64) + (ch % 64) /\ ch % 64 \in Nat /\ ch % 64 < 64 /\ ch \div 64 \in Nat
  BY DivMod
<1> DEFINE q == ch \div 64
           r == ch % 64
<1> HIDE DEF q, r
<1>2. ch = 64 * q + r /\ r \in Nat /\ r < 64 /\ q \in Nat
  BY <1>1 DEF q, r
<1>3. 2 <= q /\ q < 32
  BY <1>2
<1>. QED
  BY <1>2, <1>3 DEF q, r

LEMMA ThreeBytes ==
    ASSUME NEW ch \in Nat, ch < 65536
    PROVE  /\ 64 * (64 * (ch \div 4096) + ((ch \div 64) % 64)) + (ch % 64) = ch
           /\ ch % 64 \in Nat /\ ch % 64 < 64
           /\ (ch \div 64) % 64 \in Nat /\ (ch \div 64) % 64 < 64
           /\ ch \div 4096 \in Nat /\ ch \div 4096 < 16
<1> DEFINE q == ch \div 64
           r == ch % 64
           k == q \div 64
           m == q % 64
<1>1. ch = 64 * q + r /\ r \in Nat /\ r < 64 /\ q \in Nat
  BY DivMod
<1>2. q = 64 * k + m /\ m \in Nat /\ m < 64 /\ k \in Nat
  BY <1>1, DivMod
<1> HIDE DEF q, r, k, m
<1> DEFINE rest == 64 * m + r
<1>3. rest \in Nat /\ rest < 4096 /\ ch = 4096 * k + rest
  BY <1>1, <1>2, Nested
<1> HIDE DEF rest
<1>4. ch \div 4096 = k /\ k < 16
  BY <1>2, <1>3, Quotient, Small
<1>. QED
  BY <1>1, <1>2, <1>4 DEF q, r, k, m
\* The bytes a character is written with.
LEMMA OneByteIs ==
    ASSUME NEW ch \in Nat, ch < 128 PROVE Encoding!Bytes(ch) = <<ch>>
BY DEF Encoding!Bytes

LEMMA TwoBytesAre ==
    ASSUME NEW ch \in Nat, 128 <= ch, ch < 2048
    PROVE  Encoding!Bytes(ch) = <<192 + (ch \div 64), 128 + (ch % 64)>>
<1> DEFINE a == <<ch>>
           b == <<192 + (ch \div 64), 128 + (ch % 64)>>
           c == <<224 + (ch \div 4096), 128 + ((ch \div 64) % 64), 128 + (ch % 64)>>
<1>1. ~(ch < 128) /\ ch \in 128..2047 /\ ~(ch > 2047)
  OBVIOUS
<1>2. Encoding!Bytes(ch) = CASE ch < 128 -> a [] ch \in 128..2047 -> b [] ch > 2047 -> c
  BY DEF Encoding!Bytes
<1> HIDE DEF a, b, c
<1>3. Encoding!Bytes(ch) = b
  BY ONLY <1>1, <1>2
<1>. QED
  BY <1>3 DEF b

LEMMA ThreeBytesAre ==
    ASSUME NEW ch \in Nat, 2048 <= ch
    PROVE  Encoding!Bytes(ch) = <<224 + (ch \div 4096), 128 + ((ch \div 64) % 64), 128 + (ch % 64)>>
<1>1. ~(ch < 128) /\ ch \notin 128..2047 /\ ch > 2047
  OBVIOUS
<1>. QED
  BY <1>1 DEF Encoding!Bytes

\* Where the decoder is between two characters.
Whole(seen, chars) == seen.chars = chars /\ seen.lacks = 0 /\ seen.valid = TRUE

LEMMA AsciiDecoded ==
    ASSUME NEW seen \in SeenStates, NEW chars, Whole(seen, chars), NEW x \in Nat, x < 128
    PROVE  Whole(Encoding!DecodeByte(x, seen), Append(chars, x))
<1>1. Encoding!DecodeByte(x, seen) = [seen EXCEPT !.chars = Append(@, x), !.valid = @ /\ seen.lacks = 0]
  BY DEF Encoding!DecodeByte
<1>. QED
  BY <1>1 DEF Whole, SeenStates

\* The state with some bytes of a character to come.
Partial(seen, chars, lacks, bits) ==
    seen.chars = chars /\ seen.lacks = lacks /\ seen.bits = bits /\ seen.valid = TRUE

LEMMA LeadOfTwo ==
    ASSUME NEW seen \in SeenStates, NEW chars, Whole(seen, chars), NEW q \in Nat, 2 <= q, q < 32
    PROVE  Partial(Encoding!DecodeByte(192 + q, seen), chars, 1, q)
<1>1. /\ 192 + q \in \hC2..\hDF /\ ~(192 + q < 128) /\ 192 + q \notin \h80..\hBF
      /\ 192 + q \notin \hE0..\hEF /\ 192 + q - 192 = q
  OBVIOUS
<1> DEFINE b == 192 + q
<1> HIDE DEF b
<1>2. Encoding!DecodeByte(b, seen)
         = [seen EXCEPT !.valid = @ /\ seen.lacks = 0, !.lacks = 1, !.bits = b - 192]
  BY <1>1 DEF Encoding!DecodeByte, b
<1>3. b - 192 = q
  BY DEF b
<1>4. Partial(Encoding!DecodeByte(b, seen), chars, 1, q)
  BY <1>2, <1>3 DEF Whole, Partial, SeenStates
<1>. QED
  BY <1>4 DEF b

LEMMA LeadOfThree ==
    ASSUME NEW seen \in SeenStates, NEW chars, Whole(seen, chars), NEW q \in Nat, q < 16
    PROVE  Partial(Encoding!DecodeByte(224 + q, seen), chars, 2, q)
<1>1. /\ 224 + q \in \hE0..\hEF /\ ~(224 + q < 128) /\ 224 + q \notin \h80..\hBF
      /\ 224 + q \notin \hC2..\hDF
  OBVIOUS
<1> DEFINE b == 224 + q
<1> HIDE DEF b
<1>2. Encoding!DecodeByte(b, seen)
         = [seen EXCEPT !.valid = @ /\ seen.lacks = 0, !.lacks = 2, !.bits = b - 224]
  BY <1>1 DEF Encoding!DecodeByte, b
<1>3. b - 224 = q
  BY DEF b
<1>4. Partial(Encoding!DecodeByte(b, seen), chars, 2, q)
  BY <1>2, <1>3 DEF Whole, Partial, SeenStates
<1>. QED
  BY <1>4 DEF b

LEMMA Follows ==
    ASSUME NEW seen \in SeenStates, NEW chars, NEW bits \in Nat, NEW r \in Nat, r < 64
    PROVE  /\ Partial(seen, chars, 1, bits)
              => Whole(Encoding!DecodeByte(128 + r, seen), Append(chars, 64 * bits + r))
           /\ Partial(seen, chars, 2, bits)
              => Partial(Encoding!DecodeByte(128 + r, seen), chars, 1, 64 * bits + r)
<1>1. /\ 128 + r \in \h80..\hBF /\ ~(128 + r < 128) /\ 128 + r \notin \hE0..\hEF
      /\ 128 + r \notin \hC2..\hDF
  OBVIOUS
<1> DEFINE b == 128 + r
           new == 64 * seen.bits + b - 128
<1>2. seen.bits = bits => new = 64 * bits + r
  OBVIOUS
<1> HIDE DEF b, new
<1>3. Encoding!DecodeByte(b, seen)
         = [seen EXCEPT !.valid = @ /\ seen.lacks > 0, !.lacks = @ - 1, !.bits = new,
                        !.chars = IF seen.lacks = 1 THEN Append(@, new) ELSE @]
  BY <1>1 DEF Encoding!DecodeByte, b, new
<1>4. ASSUME Partial(seen, chars, 1, bits)
      PROVE  Whole(Encoding!DecodeByte(b, seen), Append(chars, 64 * bits + r))
  BY <1>2, <1>3, <1>4 DEF Partial, Whole, SeenStates
<1>5. ASSUME Partial(seen, chars, 2, bits)
      PROVE  Partial(Encoding!DecodeByte(b, seen), chars, 1, 64 * bits + r)
  BY <1>2, <1>3, <1>5 DEF Partial, SeenStates
<1>. QED
  BY <1>4, <1>5 DEF b

LEMMA AppendIs ==
    ASSUME NEW T, NEW s \in Seq(T), NEW x \in T, NEW y \in T, NEW z \in T
    PROVE  /\ s \o <<x>> = Append(s, x) /\ Append(s, x) \in Seq(T)
           /\ s \o <<x, y>> = Append(Append(s, x), y) /\ Append(Append(s, x), y) \in Seq(T)
           /\ s \o <<x, y, z>> = Append(Append(Append(s, x), y), z)
           /\ Append(Append(Append(s, x), y), z) \in Seq(T)
<1>1. s \o <<x>> = Append(s, x) /\ Append(s, x) \in Seq(T)
  OBVIOUS
<1>2. s \o <<x, y>> = Append(Append(s, x), y) /\ Append(Append(s, x), y) \in Seq(T)
  OBVIOUS
<1>3. s \o <<x, y, z>> = Append(Append(Append(s, x), y), z)
      /\ Append(Append(Append(s, x), y), z) \in Seq(T)
  OBVIOUS
<1>. QED
  BY <1>1, <1>2, <1>3

LEMMA CharDecoded ==
    ASSUME NEW s \in Seq(Byte), NEW chars, Whole(Encoding!Decoded(s), chars),
           NEW ch \in Nat, ch < 65536
    PROVE  /\ s \o Encoding!Bytes(ch) \in Seq(Byte)
           /\ Whole(Encoding!Decoded(s \o Encoding!Bytes(ch)), Append(chars, ch))
<1> DEFINE d == Encoding!Decoded(s)
           u == s \o Encoding!Bytes(ch)
<1> HIDE DEF u
<1>1. \A x \in Nat : x < 256 => x \in Byte
  BY DEF Byte
<1>2. d \in SeenStates
  <2>1. 0 \in Byte
    BY <1>1
  <2>. QED
    BY <2>1, DecodedAppend
<1>3. CASE ch < 128
  <2>1. ch \in Byte /\ Encoding!Bytes(ch) = <<ch>>
    BY <1>1, <1>3, OneByteIs
  <2>2. s \o <<ch>> = Append(s, ch) /\ Append(s, ch) \in Seq(Byte)
    BY <2>1, AppendIs
  <2>3. Encoding!Decoded(Append(s, ch)) = Encoding!DecodeByte(ch, d)
    BY <2>1, DecodedAppend
  <2>4. Whole(Encoding!DecodeByte(ch, d), Append(chars, ch))
    BY <1>2, <1>3, AsciiDecoded
  <2>5. u = Append(s, ch)
    BY <2>1, <2>2 DEF u
  <2> HIDE DEF d
  <2>. QED
    BY <2>2, <2>3, <2>4, <2>5 DEF u
<1>4. CASE 128 <= ch /\ ch < 2048
  <2> DEFINE q == ch \div 64
             r == ch % 64
             x == 192 + q
             y == 128 + r
  <2>1. q \in Nat /\ 2 <= q /\ q < 32 /\ r \in Nat /\ r < 64 /\ 64 * q + r = ch
    BY <1>4, TwoBytes
  <2>2. Encoding!Bytes(ch) = <<x, y>>
    <3>1. Encoding!Bytes(ch) = <<192 + (ch \div 64), 128 + (ch % 64)>>
      <4>1. ch \in Nat /\ 128 <= ch /\ ch < 2048
        BY <1>4
      <4>. QED
        BY ONLY <4>1, TwoBytesAre
    <3>. QED
      BY ONLY <3>1 DEF x, y, q, r
  <2> HIDE DEF q, r
  <2>3. x \in Byte /\ y \in Byte
    BY <1>1, <2>1
  <2> HIDE DEF x, y
  <2>4. /\ s \o <<x, y>> = Append(Append(s, x), y) /\ Append(Append(s, x), y) \in Seq(Byte)
        /\ Append(s, x) \in Seq(Byte)
    BY <2>3, AppendIs
  <2> DEFINE e == Encoding!Decoded(Append(s, x))
             f == Encoding!Decoded(Append(Append(s, x), y))
  <2>5. e = Encoding!DecodeByte(x, d) /\ e \in SeenStates /\ f = Encoding!DecodeByte(y, e)
    <3>1. e = Encoding!DecodeByte(x, d)
      BY <2>3, DecodedAppend
    <3> DEFINE t == Append(s, x)
    <3> HIDE DEF t
    <3>2. Encoding!Decoded(t) \in SeenStates
          /\ Encoding!Decoded(Append(t, y)) = Encoding!DecodeByte(y, Encoding!Decoded(t))
      <4>1. t \in Seq(Byte) /\ y \in Byte
        BY <2>3, <2>4 DEF t
      <4>. QED
        BY ONLY <4>1, DecodedAppend
    <3>. QED
      BY ONLY <3>1, <3>2 DEF t, e, f
  <2> HIDE DEF d, e, f
  <2>6. Partial(e, chars, 1, q)
    BY <1>2, <2>1, <2>5, LeadOfTwo DEF d, x
  <2>7. Whole(f, Append(chars, 64 * q + r))
    BY <2>1, <2>5, <2>6, Follows DEF y
  <2>8. u = Append(Append(s, x), y)
    BY <2>2, <2>4 DEF u
  <2>9. Whole(f, Append(chars, ch))
    BY <2>1, <2>7
  <2>. QED
    BY ONLY <2>4, <2>8, <2>9 DEF f, u
<1>5. CASE 2048 <= ch
  <2> DEFINE k == ch \div 4096
             q == (ch \div 64) % 64
             r == ch % 64
             x == 224 + k
             y == 128 + q
             z == 128 + r
  <2>1. /\ k \in Nat /\ k < 16 /\ q \in Nat /\ q < 64 /\ r \in Nat /\ r < 64
        /\ 64 * (64 * k + q) + r = ch
    BY ThreeBytes
  <2>2. Encoding!Bytes(ch) = <<x, y, z>>
    <3>1. Encoding!Bytes(ch) = <<224 + (ch \div 4096), 128 + ((ch \div 64) % 64), 128 + (ch % 64)>>
      <4>1. ch \in Nat /\ 2048 <= ch
        BY <1>5
      <4>. QED
        BY ONLY <4>1, ThreeBytesAre
    <3>. QED
      BY ONLY <3>1 DEF x, y, z, k, q, r
  <2> HIDE DEF k, q, r
  <2>3. x \in Byte /\ y \in Byte /\ z \in Byte
    BY <1>1, <2>1
  <2> HIDE DEF x, y, z
  <2>4. /\ s \o <<x, y, z>> = Append(Append(Append(s, x), y), z)
        /\ Append(Append(Append(s, x), y), z) \in Seq(Byte)
        /\ Append(Append(s, x), y) \in Seq(Byte) /\ Append(s, x) \in Seq(Byte)
    BY <2>3, AppendIs
  <2> DEFINE e == Encoding!Decoded(Append(s, x))
             f == Encoding!Decoded(Append(Append(s, x), y))
             g == Encoding!Decoded(Append(Append(Append(s, x), y), z))
             part == 64 * k + q
  <2>5. /\ e = Encoding!DecodeByte(x, d) /\ e \in SeenStates
        /\ f = Encoding!DecodeByte(y, e) /\ f \in SeenStates
        /\ g = Encoding!DecodeByte(z, f)
    <3>1. e = Encoding!DecodeByte(x, d)
      BY <2>3, DecodedAppend
    <3> DEFINE t == Append(s, x)
               v == Append(t, y)
    <3> HIDE DEF t
    <3>2. Encoding!Decoded(t) \in SeenStates
          /\ Encoding!Decoded(v) = Encoding!DecodeByte(y, Encoding!Decoded(t))
      <4>1. t \in Seq(Byte) /\ y \in Byte
        BY <2>3, <2>4 DEF t
      <4>. QED
        BY ONLY <4>1, DecodedAppend DEF v
    <3> HIDE DEF v
    <3>3. Encoding!Decoded(v) \in SeenStates
          /\ Encoding!Decoded(Append(v, z)) = Encoding!DecodeByte(z, Encoding!Decoded(v))
      <4>1. v \in Seq(Byte) /\ z \in Byte
        BY <2>3, <2>4 DEF t, v
      <4>. QED
        BY ONLY <4>1, DecodedAppend
    <3>. QED
      BY ONLY <3>1, <3>2, <3>3 DEF t, v, e, f, g
  <2>6. part \in Nat
    BY <2>1
  <2> HIDE DEF d, e, f, g
  <2>7. Partial(e, chars, 2, k)
    BY <1>2, <2>1, <2>5, LeadOfThree DEF d, x
  <2>8. Partial(f, chars, 1, part)
    BY <2>1, <2>5, <2>7, Follows DEF y
  <2>9. 64 * part + r = ch
    BY <2>1
  <2> HIDE DEF part
  <2>10. Whole(g, Append(chars, 64 * part + r))
    BY <2>1, <2>5, <2>6, <2>8, Follows DEF z
  <2>11. u = Append(Append(Append(s, x), y), z)
    BY <2>2, <2>4 DEF u
  <2>12. Whole(g, Append(chars, ch))
    BY <2>9, <2>10
  <2>. QED
    BY ONLY <2>4, <2>11, <2>12 DEF g, u
<1>. QED
  BY <1>3, <1>4, <1>5

-----------------------------------------------------------------------------
(* hw1 encoding: the converter *)

\* The characters of the first n bytes of the text.
CharsOf(j, n) == [i \in 1..n |-> Encoding!Char(j.charset, j.text[i])]

EncodingInv ==
    /\ Encoding!IsInput(job)
    /\ work = [read |-> work.read, output |-> work.output, written |-> work.written,
               input |-> work.input, disk |-> work.disk]
    /\ work.read \in 0..Len(job.text) /\ work.output \in Seq(Byte)
    /\ work.written \in 0..Len(work.output)
    /\ status \in {"running", "failed", "done"}
    /\ Whole(Encoding!Decoded(work.output), CharsOf(job, work.read))
    /\ \A i \in 1..work.read : Encoding!Char(job.charset, job.text[i]) # -1
    /\ work.read > 0 => job.charset \in Encoding!Charsets
    /\ status # "running" /\ work.input /\ work.disk /\ job.charset \in Encoding!Charsets =>
          /\ work.written = Len(work.output)
          /\ status = "done" => work.read = Len(job.text)
          /\ status = "failed" => Encoding!Char(job.charset, Encoding!NextByte) = -1
    /\ status = "done" => job.charset \in Encoding!Charsets

LEMMA NothingDecoded == Encoding!Decoded(<<>>) = NothingSeen /\ <<>> \in Seq(Byte)
<1>1. <<>> \in Seq(Byte) /\ Len(<<>>) = 0
  OBVIOUS
<1>2. PICK h : DecodesBy(<<>>, h) /\ Encoding!Decoded(<<>>) = h[Len(<<>>)]
  BY <1>1, DecodedSteps
<1>. QED
  BY <1>1, <1>2 DEF DecodesBy

LEMMA EncodingStarts == ASSUME Init, Runs({"encoding"}) PROVE EncodingInv
<1>1. work = Encoding!Start /\ status = "running" /\ Encoding!IsInput(job)
  BY FirstStates, JobForms
<1>2. /\ work = [read |-> work.read, output |-> work.output, written |-> work.written,
                 input |-> work.input, disk |-> work.disk]
      /\ work.read = 0 /\ work.output = <<>> /\ work.written = 0
  BY <1>1 DEF Encoding!Start
<1>3. Len(job.text) \in Nat
  BY <1>1 DEF Encoding!IsInput
<1>4. 0 \in 0..Len(job.text) /\ 0 \in 0..Len(<<>>) /\ ~(0 > 0) /\ \A i \in 1..0 : FALSE
  BY <1>3
<1>5. CharsOf(job, 0) = <<>>
  BY DEF CharsOf
<1>6. Whole(Encoding!Decoded(work.output), CharsOf(job, work.read))
  BY <1>2, <1>5, NothingDecoded DEF Whole, NothingSeen
<1>. QED
  BY <1>1, <1>2, <1>4, <1>6, NothingDecoded DEF EncodingInv

LEMMA OneMoreChar ==
    ASSUME NEW j, NEW n \in Nat, NEW c, c = Encoding!Char(j.charset, j.text[n + 1]),
           \A i \in 1..n : Encoding!Char(j.charset, j.text[i]) \in Int, c \in Int
    PROVE  Append(CharsOf(j, n), c) = CharsOf(j, n + 1)
<1> DEFINE s == CharsOf(j, n)
           F(i) == Encoding!Char(j.charset, j.text[i])
<1>1. s \in Seq(Int) /\ Len(s) = n /\ \A i \in 1..n : s[i] = F(i)
  <2>1. s \in [1..n -> Int]
    BY DEF CharsOf
  <2>. QED
    BY <2>1 DEF CharsOf
<1> HIDE DEF s
<1>2. /\ Append(s, c) \in Seq(Int) /\ Len(Append(s, c)) = n + 1
      /\ Append(s, c)[n + 1] = c /\ \A i \in 1..n : Append(s, c)[i] = s[i]
  BY <1>1, AppendProperties
<1>3. \A i \in 1..n + 1 : Append(s, c)[i] = F(i)
  <2>1. \A i \in 1..n + 1 : i = n + 1 \/ i \in 1..n
    OBVIOUS
  <2>. QED
    BY <1>1, <1>2, <2>1
<1> DEFINE t == Append(s, c)
<1> HIDE DEF t
<1>4. t = [i \in 1..n + 1 |-> t[i]]
  <2>1. t \in Seq(Int) /\ Len(t) = n + 1
    BY <1>2 DEF t
  <2>2. DOMAIN t = 1..n + 1
    BY <2>1, LenProperties
  <2>. QED
    BY <2>1, <2>2
<1>5. t = [i \in 1..n + 1 |-> F(i)]
  BY <1>3, <1>4 DEF t
<1>. QED
  BY <1>5 DEF CharsOf, t, s

LEMMA EncodingSteps == ASSUME EncodingInv, Encoding!Next, job' = job PROVE EncodingInv'
<1> DEFINE charset == job.charset
           text == job.text
           n == work.read
           out == work.output
           c == Encoding!Char(charset, text[n + 1])
           known == charset \in Encoding!Charsets
           Shape(w) == w = [read |-> w.read, output |-> w.output, written |-> w.written,
                            input |-> w.input, disk |-> w.disk]
<1>1. Encoding!IsInput(job) /\ Encoding!IsInput(job)' /\ text \in Seq(Byte) /\ Len(text) \in Nat
  <2>1. Encoding!IsInput(job) /\ Encoding!IsInput(job)'
    BY DEF EncodingInv, Encoding!IsInput
  <2>2. text \in Seq(Byte)
    BY <2>1 DEF Encoding!IsInput, Byte
  <2>. QED
    BY <2>1, <2>2
<1>2. /\ Shape(work) /\ n \in 0..Len(text) /\ out \in Seq(Byte) /\ n \in Nat
      /\ work.written \in 0..Len(out) /\ Len(out) \in Nat /\ work.written \in Nat
      /\ Whole(Encoding!Decoded(out), CharsOf(job, n))
      /\ \A i \in 1..n : Encoding!Char(charset, text[i]) # -1
      /\ n > 0 => known
  <2>1. n \in 0..Len(text) /\ out \in Seq(Byte) /\ work.written \in 0..Len(out)
    BY DEF EncodingInv
  <2>2. Len(out) \in Nat /\ work.written \in Nat /\ n \in Nat
    BY <1>1, <2>1
  <2>. QED
    BY <2>1, <2>2 DEF EncodingInv
<1>3. Encoding!NextByte = text[n + 1]
  BY DEF Encoding!NextByte
<1>4. ASSUME work'.read = n, work'.output = out, Shape(work'), work'.written \in 0..Len(out),
             status' \in {"running", "failed", "done"}, status' = "done" => known,
             status' # "running" /\ work'.input /\ work'.disk /\ known =>
                /\ work'.written = Len(out)
                /\ status' = "done" => n = Len(text)
                /\ status' = "failed" => c = -1
      PROVE  EncodingInv'
  <2>1. (Encoding!Char(charset, Encoding!NextByte) = c)'
    BY <1>4 DEF Encoding!NextByte
  <2>2. c' = c
    BY <1>4
  <2>3. Whole(Encoding!Decoded(work'.output), CharsOf(job', work'.read))
    BY <1>2, <1>4
  <2>. QED
    BY <1>1, <1>2, <1>4, <2>1, <2>2, <2>3 DEF EncodingInv
<1>5. CASE Encoding!UnknownCharset
  <2>1. work' = work /\ ~known /\ status' = "failed"
    BY <1>5 DEF Encoding!UnknownCharset
  <2>. QED
    BY <1>2, <1>4, <2>1
<1>6. ASSUME Encoding!CanRead, c # -1, Shape(work'), work'.read = n + 1, work'.output = Encoding!More,
             work'.written \in 0..Len(Encoding!More), status' = "running" \/ (status' = "failed" /\ ~work'.disk)
      PROVE  EncodingInv'
  <2>1. status = "running" /\ known /\ n < Len(text)
    BY <1>6 DEF Encoding!CanRead
  <2>2. n + 1 \in 1..Len(text) /\ n + 1 \in 0..Len(text) /\ n + 1 \in Nat
    BY <1>1, <1>2, <2>1
  <2>3. text[n + 1] \in Byte
    BY <1>1, <2>2, ElementOfSeq
  <2>4. c = -1 \/ (c \in Nat /\ c < 65536)
    BY <2>1, <2>3, CharIs
  <2>5. c \in Nat /\ c < 65536
    BY <1>6, <2>4
  <2> DEFINE new == out \o Encoding!Bytes(c)
  <2>6. new \in Seq(Byte) /\ Whole(Encoding!Decoded(new), Append(CharsOf(job, n), c))
    <3> HIDE DEF c
    <3>. QED
      BY <1>2, <2>5, CharDecoded
  <2>7. \A i \in 1..n : Encoding!Char(charset, text[i]) \in Int
    <3>1. ASSUME NEW i \in 1..n PROVE Encoding!Char(charset, text[i]) \in Int
      <4>1. i \in 1..Len(text)
        BY <1>1, <1>2
      <4>2. text[i] \in Byte
        BY <1>1, <4>1, ElementOfSeq
      <4> DEFINE x == Encoding!Char(charset, text[i])
      <4>3. x = -1 \/ (x \in Nat /\ x < 65536)
        BY <2>1, <4>2, CharIs
      <4> HIDE DEF x
      <4>4. x \in Int
        BY <4>3
      <4>. QED
        BY <4>4 DEF x
    <3>. QED
      BY <3>1
  <2>8. Append(CharsOf(job, n), c) = CharsOf(job, n + 1)
    <3>1. n \in Nat /\ c \in Int /\ c = Encoding!Char(job.charset, job.text[n + 1])
      BY <1>2, <2>5
    <3> HIDE DEF c
    <3>. QED
      BY <2>7, <3>1, OneMoreChar
  <2>9. work'.output = new /\ work'.written \in 0..Len(new)
    BY <1>3, <1>6 DEF Encoding!More
  <2> HIDE DEF new, c
  <2>10. Whole(Encoding!Decoded(work'.output), CharsOf(job', work'.read))
    BY <1>6, <2>6, <2>8, <2>9
  <2>11. \A i \in 1..n + 1 : Encoding!Char(charset, text[i]) # -1
    <3>1. \A i \in 1..n + 1 : i = n + 1 \/ i \in 1..n
      BY <1>2
    <3>. QED
      BY <1>2, <1>6, <3>1 DEF c
  <2>. QED
    BY <1>1, <1>6, <2>1, <2>2, <2>6, <2>9, <2>10, <2>11 DEF EncodingInv
<1>7. CASE Encoding!Convert
  <2>1. PICK k \in work.written..Len(Encoding!More) :
            work' = [work EXCEPT !.read = @ + 1, !.output = Encoding!More, !.written = k]
    BY Zenon, <1>7 DEF Encoding!Convert
  <2>2. Encoding!CanRead /\ c # -1 /\ status' = "running"
    BY <1>3, <1>7 DEF Encoding!Convert, Encoding!CanRead, Encoding!Undefined
  <2>3. /\ Shape(work') /\ work'.read = n + 1 /\ work'.output = Encoding!More /\ work'.written = k
    <3> HIDE DEF c
    <3>. QED
      BY <1>2, <2>1
  <2>4. k \in 0..Len(Encoding!More)
    BY <1>2, <2>1
  <2> HIDE DEF c
  <2>. QED
    BY <1>6, <2>2, <2>3, <2>4
<1>8. CASE Encoding!WriteFails
  <2>1. PICK k \in work.written..Len(Encoding!More) - 1 :
            work' = [work EXCEPT !.read = @ + 1, !.output = Encoding!More, !.written = k,
                                 !.disk = FALSE]
    BY Zenon, <1>8 DEF Encoding!WriteFails
  <2>2. Encoding!CanRead /\ c # -1 /\ status' = "failed"
    BY <1>3, <1>8 DEF Encoding!WriteFails, Encoding!Undefined
  <2>3. /\ Shape(work') /\ work'.read = n + 1 /\ work'.output = Encoding!More /\ work'.written = k
        /\ ~work'.disk
    <3> HIDE DEF c
    <3>. QED
      BY <1>2, <2>1
  <2>5. CASE Len(Encoding!More) \in Int
    <3>1. k \in 0..Len(Encoding!More)
      BY <1>2, <2>1, <2>5
    <3> HIDE DEF c
    <3>. QED
      BY <1>6, <2>2, <2>3, <3>1
  <2>. QED
    BY <2>5
<1>9. ASSUME NEW w, work' \in Encoding!Closed(w), Shape(w), w.read = n, w.output = out,
             w.written = work.written
      PROVE  /\ Shape(work') /\ work'.read = n /\ work'.output = out /\ work'.written \in 0..Len(out)
             /\ work'.input = w.input
             /\ work'.disk => work'.written = Len(out)
  <2>1. PICK k \in w.written..Len(w.output) :
            work' = [w EXCEPT !.written = k, !.disk = @ /\ k = Len(w.output)]
    BY Zenon, <1>9 DEF Encoding!Closed
  <2>2. /\ Shape(work') /\ work'.read = n /\ work'.output = out /\ work'.written = k
        /\ work'.input = w.input /\ (work'.disk => k = Len(w.output))
    BY <1>9, <2>1
  <2>3. k \in 0..Len(out)
    BY <1>2, <1>9, <2>1
  <2>. QED
    BY <1>9, <2>2, <2>3
<1>10. CASE Encoding!UndefinedByte
  <2>1. work' \in Encoding!Closed(work) /\ status' = "failed" /\ c = -1
    BY <1>3, <1>10 DEF Encoding!UndefinedByte, Encoding!Undefined
  <2> HIDE DEF c
  <2>2. /\ Shape(work') /\ work'.read = n /\ work'.output = out /\ work'.written \in 0..Len(out)
        /\ work'.disk => work'.written = Len(out)
    BY <1>2, <1>9, <2>1
  <2>. QED
    BY <1>4, <2>1, <2>2
<1>11. CASE Encoding!EndOfFile
  <2>1. work' \in Encoding!Closed(work) /\ status' = "done" /\ known /\ n = Len(text)
    BY <1>11 DEF Encoding!EndOfFile
  <2> HIDE DEF c
  <2>2. /\ Shape(work') /\ work'.read = n /\ work'.output = out /\ work'.written \in 0..Len(out)
        /\ work'.disk => work'.written = Len(out)
    BY <1>2, <1>9, <2>1
  <2>. QED
    BY <1>4, <2>1, <2>2
<1>12. CASE Encoding!ReadFails
  <2> DEFINE w == [work EXCEPT !.input = FALSE]
  <2>1. work' \in Encoding!Closed(w) /\ status' = "done" /\ known
    BY <1>12 DEF Encoding!ReadFails, Encoding!CanRead
  <2>2. Shape(w) /\ w.read = n /\ w.output = out /\ w.written = work.written /\ w.input = FALSE
    <3>1. ASSUME NEW f
          PROVE  LET u == [work EXCEPT !.input = f]
                 IN  Shape(u) /\ u.read = n /\ u.output = out /\ u.written = work.written /\ u.input = f
      <4> HIDE DEF c
      <4>. QED
        BY <1>2
    <3>. QED
      BY Zenon, <3>1
  <2> HIDE DEF c, w
  <2>3. /\ Shape(work') /\ work'.read = n /\ work'.output = out /\ work'.written \in 0..Len(out)
        /\ ~work'.input
    BY <1>9, <2>1, <2>2
  <2>. QED
    BY <1>4, <2>1, <2>3
<1>. QED
  BY <1>5, <1>7, <1>8, <1>10, <1>11, <1>12 DEF Encoding!Next

LEMMA EncodingAlways == Spec => [](Runs({"encoding"}) => EncodingInv)
<1>1. Init => (Runs({"encoding"}) => EncodingInv)
  BY EncodingStarts
<1>2. (Runs({"encoding"}) => EncodingInv) /\ [Next]_vars => (Runs({"encoding"}) => EncodingInv)'
  <2>1. ASSUME Next, Runs({"encoding"}), EncodingInv PROVE EncodingInv'
    BY <2>1, JobStays, OwnSteps, EncodingSteps
  <2>2. ASSUME UNCHANGED vars, EncodingInv PROVE EncodingInv'
    BY <2>2 DEF vars, EncodingInv, Encoding!NextByte, Encoding!IsInput
  <2>3. [Next]_vars => job' = job
    BY JobStays
  <2>. QED
    BY <2>1, <2>2, <2>3 DEF Runs
<1>. QED
  BY <1>1, <1>2, PTL DEF Spec

LEMMA TextIsRecoverable == ASSUME EncodingInv PROVE Encoding!TextRecoverable
<1> DEFINE charset == job.charset
           text == job.text
           n == work.read
           out == work.output
           k == work.written
           seen == Encoding!Decoded(out)
           file == Encoding!InFile
<1>1. /\ n \in 0..Len(text) /\ n \in Nat /\ Len(text) \in Nat /\ text \in Seq(Byte)
      /\ out \in Seq(Byte) /\ k \in 0..Len(out)
  BY DEF EncodingInv, Encoding!IsInput, Byte
<1>2. /\ Whole(seen, CharsOf(job, n))
      /\ \A i \in 1..n : Encoding!Char(charset, text[i]) # -1
      /\ n > 0 => charset \in Encoding!Charsets
      /\ status # "running" /\ work.input /\ work.disk /\ charset \in Encoding!Charsets =>
            /\ k = Len(out)
            /\ status = "done" => n = Len(text)
            /\ status = "failed" => Encoding!Char(charset, Encoding!NextByte) = -1
  BY DEF EncodingInv
<1>3. /\ seen.valid /\ seen.lacks = 0 /\ seen.chars = CharsOf(job, n)
  BY <1>2 DEF Whole
<1>4. Len(CharsOf(job, n)) = n /\ \A i \in 1..n : CharsOf(job, n)[i] = Encoding!Char(charset, text[i])
  BY <1>1 DEF CharsOf
<1>5. /\ seen.valid => file.valid
      /\ Begins(file.chars, seen.chars)
      /\ file \in SeenStates
      /\ k = Len(out) => file = seen
  BY <1>1, DecodedPrefix DEF Encoding!InFile
<1> HIDE DEF seen, file
<1>6. file.chars \in Seq(Int) /\ Len(file.chars) \in Nat /\ DOMAIN file.chars = 1..Len(file.chars)
  BY <1>5 DEF SeenStates
<1>7. file.valid /\ Len(file.chars) <= n
  BY <1>3, <1>4, <1>5 DEF Begins
<1>8. ASSUME NEW i \in DOMAIN file.chars
      PROVE  {b \in 0..255 : Encoding!Char(charset, b) = file.chars[i]} = {text[i]}
  <2>1. i \in 1..n
    BY <1>1, <1>6, <1>7
  <2>2. file.chars[i] = Encoding!Char(charset, text[i]) /\ Encoding!Char(charset, text[i]) # -1
    BY <1>2, <1>3, <1>4, <1>5, <1>6, <2>1 DEF Begins
  <2>3. i \in 1..Len(text) /\ n > 0
    BY <1>1, <2>1
  <2>4. text[i] \in Byte /\ charset \in Encoding!Charsets
    BY <1>1, <1>2, <2>3, ElementOfSeq
  <2>5. ASSUME NEW b \in Byte, Encoding!Char(charset, b) = Encoding!Char(charset, text[i])
        PROVE  b = text[i]
    BY <2>2, <2>4, <2>5, CharTellsByte
  <2>6. {b \in Byte : Encoding!Char(charset, b) = file.chars[i]} = {text[i]}
    BY <2>2, <2>4, <2>5
  <2>. QED
    BY <2>6 DEF Byte
<1>9. ASSUME status # "running", work.input, work.disk, charset \in Encoding!Charsets
      PROVE  /\ Len(file.chars) = n /\ file.lacks = 0
             /\ status = "done" => n = Len(text)
             /\ status = "failed" => Encoding!Char(charset, Encoding!NextByte) = -1
  BY <1>2, <1>3, <1>4, <1>5, <1>9
<1>. QED
  BY <1>7, <1>8, <1>9 DEF Encoding!TextRecoverable, Encoding!Undefined, file

(* Whatever is read, written or refused, the converter's file is UTF-8 of  *)
(* the beginning of the text, of all of it up to the end or to a byte of   *)
(* no character when no read or write has failed; and each charset has the *)
(* letters of the Russian alphabet.                                        *)
THEOREM TextsRecoverable == Spec => []TextRecoverable
<1>1. (Runs({"encoding"}) => EncodingInv) => TextRecoverable
  BY TextIsRecoverable, EveryLetter DEF TextRecoverable
<1>. QED
  BY <1>1, EncodingAlways, PTL

-----------------------------------------------------------------------------
(* hw6_1 file explorer *)

Charset == FileTree!Charset
Paths == Seq(Charset)
Entry == [path : Paths, dir : BOOLEAN]

\* The order of the sort: of the paths, followed by zeros, in lower case.
Letter(a, i) == FileTree!CharAt(a, i)
PathLess(a, b) ==
    \E k \in Nat \ {0} : /\ Letter(a, k) < Letter(b, k)
                         /\ \A i \in Nat \ {0} : i < k => Letter(a, i) = Letter(b, i)
EntryLess(x, y) == (x.dir /\ ~y.dir) \/ (x.dir = y.dir /\ PathLess(x.path, y.path))

\* A character of a path is not zero, and zeros follow it.
LEMMA Letters ==
    ASSUME NEW a \in Paths, NEW i \in Nat \ {0}
    PROVE  /\ Letter(a, i) \in Nat
           /\ Letter(a, i) = 0 <=> i > Len(a)
           /\ DOMAIN a = 1..Len(a) /\ Len(a) \in Nat
<1>1. DOMAIN a = 1..Len(a) /\ Len(a) \in Nat /\ \A j \in 1..Len(a) : a[j] \in Charset
  BY LenProperties, ElementOfSeq DEF Paths
<1>2. \A c \in Charset : Fold(c) \in Nat \ {0}
  BY DEF Charset, FileTree!Charset
<1>3. CASE i <= Len(a)
  <2>1. i \in DOMAIN a /\ Fold(a[i]) \in Nat \ {0}
    BY <1>1, <1>2, <1>3
  <2>. QED
    BY <1>1, <2>1, <1>3 DEF Letter, FileTree!CharAt
<1>4. CASE i > Len(a)
  BY <1>1, <1>4 DEF Letter, FileTree!CharAt
<1>. QED
  BY <1>1, <1>3, <1>4

\* What g_ascii_strncasecmp says of two paths.
LEMMA PathOrderIs ==
    ASSUME NEW a \in Paths, NEW b \in Paths
    PROVE  /\ FileTree!PathOrder(a, b) \in Int
           /\ FileTree!PathOrder(a, b) > 0 <=> PathLess(b, a)
<1> DEFINE differ == {i \in DOMAIN a : Letter(a, i) # Letter(b, i)}
           first == CHOOSE i \in differ : \A j \in differ : i <= j
<1>1. FileTree!PathOrder(a, b) = IF differ = {} THEN 0 ELSE Letter(a, first) - Letter(b, first)
  BY DEF FileTree!PathOrder, Letter
<1>2. DOMAIN a = 1..Len(a) /\ Len(a) \in Nat
  BY LenProperties DEF Paths
<1>3. \A i \in Nat \ {0} : /\ Letter(a, i) \in Nat /\ Letter(b, i) \in Nat
                           /\ Letter(a, i) = 0 <=> i > Len(a)
  BY Letters
<1>4. \A i \in Nat \ {0} : i \in differ \/ Letter(a, i) = Letter(b, i) \/ Letter(a, i) = 0
  BY <1>2, <1>3
<1>5. differ \subseteq Nat \ {0} /\ \A i \in differ : Letter(a, i) # Letter(b, i)
  BY <1>2
<1> HIDE DEF differ
<1>6. ASSUME NEW k \in Nat \ {0}, Letter(b, k) < Letter(a, k) PROVE k \in differ
  BY <1>3, <1>4, <1>6
<1>7. CASE differ = {}
  <2>1. ~PathLess(b, a)
    BY <1>6, <1>7 DEF PathLess
  <2>2. FileTree!PathOrder(a, b) = 0
    BY <1>1, <1>7
  <2>. QED
    BY <2>1, <2>2
<1>8. CASE differ # {}
  <2>1. \E i \in differ : \A j \in differ : i <= j
    BY <1>5, <1>8, NatMin
  <2>2. first \in differ /\ \A j \in differ : first <= j
    BY <2>1
  <2> HIDE DEF first
  <2>3. first \in Nat \ {0} /\ Letter(a, first) # Letter(b, first)
        /\ Letter(a, first) \in Nat /\ Letter(b, first) \in Nat
    BY <1>3, <1>5, <2>2
  <2>4. FileTree!PathOrder(a, b) = Letter(a, first) - Letter(b, first)
    BY <1>1, <1>8
  <2>5. ASSUME Letter(b, first) < Letter(a, first) PROVE PathLess(b, a)
    <3>1. ASSUME NEW i \in Nat \ {0}, i < first PROVE Letter(b, i) = Letter(a, i)
      <4>1. i \notin differ
        BY <2>2, <2>3, <3>1
      <4>2. CASE Letter(a, i) = 0
        <5>1. i > Len(a) /\ first > Len(a)
          BY <1>2, <1>3, <2>3, <3>1, <4>2
        <5>2. Letter(a, first) = 0
          BY <1>3, <2>3, <5>1
        <5>. QED
          BY <2>3, <2>5, <5>2
      <4>. QED
        BY <1>4, <4>1, <4>2
    <3>. QED
      BY <2>3, <2>5, <3>1 DEF PathLess
  <2>6. ASSUME PathLess(b, a) PROVE Letter(b, first) < Letter(a, first)
    <3>1. PICK k \in Nat \ {0} : /\ Letter(b, k) < Letter(a, k)
                                 /\ \A i \in Nat \ {0} : i < k => Letter(b, i) = Letter(a, i)
      BY <2>6 DEF PathLess
    <3>2. k \in differ /\ first <= k
      BY <1>6, <2>2, <3>1
    <3>3. first = k
      BY <2>3, <3>1, <3>2
    <3>. QED
      BY <3>1, <3>3
  <2>. QED
    BY <2>3, <2>4, <2>5, <2>6
<1>. QED
  BY <1>7, <1>8

\* Two paths that are not before each other go before and after the same paths.
LEMMA PathLessOrders ==
    /\ \A a, b \in Paths : PathLess(a, b) => ~PathLess(b, a)
    /\ \A a, b, c \in Paths : PathLess(a, c) => PathLess(a, b) \/ PathLess(b, c)
<1>1. \A a \in Paths : \A i \in Nat \ {0} : Letter(a, i) \in Nat
  BY Letters
<1>2. ASSUME NEW a \in Paths, NEW b \in Paths, PathLess(a, b), PathLess(b, a) PROVE FALSE
  <2>1. PICK k \in Nat \ {0} : /\ Letter(a, k) < Letter(b, k)
                               /\ \A i \in Nat \ {0} : i < k => Letter(a, i) = Letter(b, i)
    BY <1>2 DEF PathLess
  <2>2. PICK m \in Nat \ {0} : /\ Letter(b, m) < Letter(a, m)
                               /\ \A i \in Nat \ {0} : i < m => Letter(b, i) = Letter(a, i)
    BY <1>2 DEF PathLess
  <2>3. Letter(a, k) \in Nat /\ Letter(b, k) \in Nat /\ Letter(a, m) \in Nat /\ Letter(b, m) \in Nat
    BY <1>1
  <2>4. ~(k < m) /\ ~(m < k)
    BY <2>1, <2>2, <2>3
  <2>5. k = m
    BY <2>4
  <2>. QED
    BY <2>1, <2>2, <2>3, <2>5
<1>3. ASSUME NEW a \in Paths, NEW b \in Paths, NEW c \in Paths, PathLess(a, c), ~PathLess(a, b)
      PROVE  PathLess(b, c)
  <2>1. PICK k \in Nat \ {0} : /\ Letter(a, k) < Letter(c, k)
                               /\ \A i \in Nat \ {0} : i < k => Letter(a, i) = Letter(c, i)
    BY <1>3 DEF PathLess
  <2> DEFINE differ == {i \in Nat \ {0} : i <= k /\ Letter(a, i) # Letter(b, i)}
  <2>2. CASE differ = {}
    <3>1. \A i \in Nat \ {0} : i <= k => Letter(a, i) = Letter(b, i)
      BY <2>2
    <3>2. Letter(b, k) < Letter(c, k) /\ \A i \in Nat \ {0} : i < k => Letter(b, i) = Letter(c, i)
      BY <2>1, <3>1
    <3>. QED
      BY <3>2 DEF PathLess
  <2>3. CASE differ # {}
    <3>1. PICK m \in differ : \A j \in differ : m <= j
      BY <2>3, NatMin
    <3>2. m \in Nat \ {0} /\ m <= k /\ Letter(a, m) # Letter(b, m)
      BY <3>1
    <3>3. ASSUME NEW i \in Nat \ {0}, i < m PROVE Letter(a, i) = Letter(b, i)
      <4>1. i <= k /\ i \notin differ
        BY <3>1, <3>2, <3>3
      <4>. QED
        BY <4>1
    <3>4. Letter(a, m) \in Nat /\ Letter(b, m) \in Nat /\ Letter(c, m) \in Nat
          /\ Letter(a, k) \in Nat /\ Letter(b, k) \in Nat /\ Letter(c, k) \in Nat
      BY <1>1, <3>2
    <3>5. ~(Letter(a, m) < Letter(b, m))
      BY <1>3, <3>2, <3>3 DEF PathLess
    <3>6. Letter(b, m) < Letter(a, m)
      BY <3>2, <3>4, <3>5
    <3>7. Letter(b, m) < Letter(c, m)
      <4>1. CASE m = k
        BY <2>1, <3>4, <3>6, <4>1
      <4>2. CASE m < k
        BY <2>1, <3>2, <3>6, <4>2
      <4>. QED
        BY <3>2, <4>1, <4>2
    <3>8. ASSUME NEW i \in Nat \ {0}, i < m PROVE Letter(b, i) = Letter(c, i)
      BY <2>1, <3>2, <3>3, <3>8
    <3>. QED
      BY <3>2, <3>7, <3>8 DEF PathLess
  <2>. QED
    BY <2>2, <2>3
<1>. QED
  BY <1>2, <1>3

\* A path is before each that it is the beginning of.
LEMMA PrefixLess ==
    ASSUME NEW a \in Paths, NEW n \in 0..Len(a) - 1
    PROVE  SubSeq(a, 1, n) \in Paths /\ Len(SubSeq(a, 1, n)) = n /\ PathLess(SubSeq(a, 1, n), a)
<1> DEFINE p == SubSeq(a, 1, n)
<1>1. Len(a) \in Nat /\ n \in Nat /\ n < Len(a) /\ DOMAIN a = 1..Len(a)
  BY LenProperties DEF Paths
<1>2. p \in Paths /\ Len(p) = n /\ DOMAIN p = 1..n /\ \A i \in 1..n : p[i] = a[i]
  BY <1>1, SubSeqProperties, LenProperties DEF Paths
<1> HIDE DEF p
<1>3. n + 1 \in Nat \ {0} /\ Letter(p, n + 1) = 0 /\ Letter(a, n + 1) \in Nat /\ Letter(a, n + 1) # 0
  BY <1>1, <1>2, Letters
<1>4. ASSUME NEW i \in Nat \ {0}, i < n + 1 PROVE Letter(p, i) = Letter(a, i)
  <2>1. i \in DOMAIN p /\ i \in DOMAIN a /\ p[i] = a[i]
    BY <1>1, <1>2, <1>4
  <2>. QED
    BY <2>1 DEF Letter, FileTree!CharAt
<1>5. Letter(p, n + 1) < Letter(a, n + 1)
  BY <1>3
<1>6. PathLess(p, a)
  BY <1>3, <1>4, <1>5 DEF PathLess
<1>. QED
  BY <1>2, <1>6 DEF p

\* The same of entries: directories first.
LEMMA EntryLessOrders ==
    /\ \A x, y \in Entry : EntryLess(x, y) => ~EntryLess(y, x)
    /\ \A x, y, z \in Entry : EntryLess(x, z) => EntryLess(x, y) \/ EntryLess(y, z)
<1>1. \A x \in Entry : x.path \in Paths /\ x.dir \in BOOLEAN
  BY DEF Entry
<1>. QED
  BY <1>1, PathLessOrders DEF EntryLess

LEMMA SortFilesIs ==
    ASSUME NEW x \in Entry, NEW y \in Entry
    PROVE  /\ FileTree!sort_files(x, y) \in Int
           /\ FileTree!sort_files(x, y) > 0 <=> EntryLess(y, x)
<1>1. x.path \in Paths /\ y.path \in Paths /\ x.dir \in BOOLEAN /\ y.dir \in BOOLEAN
  BY DEF Entry
<1>2. /\ FileTree!PathOrder(x.path, y.path) \in Int
      /\ FileTree!PathOrder(x.path, y.path) > 0 <=> PathLess(y.path, x.path)
  BY <1>1, PathOrderIs
<1>3. CASE x.dir = y.dir
  BY <1>1, <1>2, <1>3 DEF FileTree!sort_files, EntryLess
<1>4. CASE x.dir # y.dir
  BY <1>1, <1>4 DEF FileTree!sort_files, FileTree!Flag, EntryLess
<1>. QED
  BY <1>3, <1>4

-----------------------------------------------------------------------------
\* g_list_sort: an element before another.
Precedes(s, i, j) == FileTree!Precedes(s, i, j)
Before(s, j) == FileTree!Before(s, j)

LEMMA SortedForm ==
    ASSUME NEW s \in Seq(Entry)
    PROVE  FileTree!Sorted(s) =
             LET rank == [j \in DOMAIN s |-> Cardinality(Before(s, j))]
             IN [k \in DOMAIN s |-> s[CHOOSE j \in DOMAIN s : rank[j] = k - 1]]
BY DEF FileTree!Sorted, Before, FileTree!Cardinality, Cardinality

LEMMA PrecedesIs ==
    ASSUME NEW s \in Seq(Entry), NEW i \in DOMAIN s, NEW j \in DOMAIN s
    PROVE  Precedes(s, i, j) <=> \/ EntryLess(s[i], s[j])
                                 \/ i < j /\ ~EntryLess(s[j], s[i])
<1>1. DOMAIN s \subseteq Nat /\ s[i] \in Entry /\ s[j] \in Entry
  BY LenProperties, ElementOfSeq
<1>2. /\ FileTree!sort_files(s[i], s[j]) \in Int /\ FileTree!sort_files(s[j], s[i]) \in Int
      /\ FileTree!sort_files(s[i], s[j]) > 0 <=> EntryLess(s[j], s[i])
      /\ FileTree!sort_files(s[j], s[i]) > 0 <=> EntryLess(s[i], s[j])
  BY <1>1, SortFilesIs
<1>3. EntryLess(s[i], s[j]) => ~EntryLess(s[j], s[i])
  BY <1>1, EntryLessOrders
<1>4. FileTree!sort_files(s[i], s[j]) <= 0 <=> ~EntryLess(s[j], s[i])
  BY <1>2
<1>. QED
  BY <1>2, <1>3, <1>4 DEF Precedes, FileTree!Precedes

\* Precedes is a strict total order of the places of a list.
LEMMA PrecedesOrders ==
    ASSUME NEW s \in Seq(Entry)
    PROVE  /\ \A i \in DOMAIN s : ~Precedes(s, i, i)
           /\ \A i, j \in DOMAIN s : i # j => Precedes(s, i, j) \/ Precedes(s, j, i)
           /\ \A i, j, k \in DOMAIN s : Precedes(s, i, j) /\ Precedes(s, j, k) => Precedes(s, i, k)
<1>1. DOMAIN s \subseteq Nat /\ \A i \in DOMAIN s : s[i] \in Entry
  BY LenProperties, ElementOfSeq
<1> DEFINE L(i, j) == EntryLess(s[i], s[j])
<1>2. \A i, j \in DOMAIN s : Precedes(s, i, j) <=> L(i, j) \/ (i < j /\ ~L(j, i))
  BY PrecedesIs
<1>3. /\ \A i, j \in DOMAIN s : L(i, j) => ~L(j, i)
      /\ \A i, j, k \in DOMAIN s : L(i, k) => L(i, j) \/ L(j, k)
  BY <1>1, EntryLessOrders
<1> HIDE DEF L
<1>4. \A i, j \in DOMAIN s : i # j => Precedes(s, i, j) \/ Precedes(s, j, i)
  BY <1>1, <1>2
<1>5. ASSUME NEW i \in DOMAIN s, NEW j \in DOMAIN s, NEW k \in DOMAIN s,
             Precedes(s, i, j), Precedes(s, j, k)
      PROVE  Precedes(s, i, k)
  <2>1. i \in Nat /\ j \in Nat /\ k \in Nat
    BY <1>1
  <2>2. (L(i, j) \/ (i < j /\ ~L(j, i))) /\ (L(j, k) \/ (j < k /\ ~L(k, j)))
    BY <1>2, <1>5
  <2>3. /\ L(k, i) => L(k, j) \/ L(j, i)
        /\ L(i, j) => L(i, k) \/ L(k, j)
        /\ L(j, k) => L(j, i) \/ L(i, k)
        /\ L(i, j) => ~L(j, i)
        /\ L(j, k) => ~L(k, j)
    BY <1>3
  <2>4. L(i, k) \/ (i < k /\ ~L(k, i))
    BY <2>1, <2>2, <2>3
  <2>. QED
    BY <1>2, <2>4
<1>6. ASSUME NEW i \in DOMAIN s PROVE ~Precedes(s, i, i)
  <2>1. i \in Nat
    BY <1>1
  <2>2. ~(i < i)
    BY <2>1
  <2>. QED
    BY <1>2, <1>3, <2>2
<1>. QED
  BY <1>4, <1>5, <1>6

\* A sequence of numbers below its length, none of them twice, has each.
LEMMA RanksAreAll ==
    ASSUME NEW n \in Nat, NEW rank \in [1..n -> Nat],
           \A j \in 1..n : rank[j] < n,
           \A i, j \in 1..n : rank[i] = rank[j] => i = j
    PROVE  \A k \in 1..n : \E j \in 1..n : rank[j] = k - 1
<1> DEFINE T == 0..n - 1
<1>1. IsFiniteSet(1..n) /\ Cardinality(1..n) = n /\ IsFiniteSet(T) /\ Cardinality(T) = n
  <2>1. IsFiniteSet(1..n) /\ Cardinality(1..n) = IF 1 > n THEN 0 ELSE n - 1 + 1
    BY FS_Interval
  <2>2. n - 1 \in Int /\ 0 \in Int
    OBVIOUS
  <2>3. IsFiniteSet(T) /\ Cardinality(T) = IF 0 > n - 1 THEN 0 ELSE n - 1 - 0 + 1
    BY <2>2, FS_Interval
  <2> HIDE DEF T
  <2>. QED
    BY <2>1, <2>3
<1>2. \A j \in 1..n : rank[j] \in T
  BY SMT
<1>3. rank \in [1..n -> T]
  BY <1>2
<1> HIDE DEF T
<1>4. rank \in Injection(1..n, T)
  BY <1>3 DEF Injection, IsInjective
<1>5. rank \in Surjection(1..n, T)
  BY <1>1, <1>4, FS_Injection
<1>6. \A t \in T : \E j \in 1..n : rank[j] = t
  BY <1>5 DEF Surjection
<1>7. \A k \in 1..n : k - 1 \in T
  BY DEF T
<1>. QED
  BY <1>6, <1>7

\* A sorted list: the same entries, none twice if none was, in order.
LEMMA SortedIs ==
    ASSUME NEW s \in Seq(Entry), NEW t, t = FileTree!Sorted(s)
    PROVE  \E at \in [DOMAIN s -> DOMAIN s] :
              /\ t = [k \in DOMAIN s |-> s[at[k]]]
              /\ \A j \in DOMAIN s : \E k \in DOMAIN s : at[k] = j
              /\ \A k, l \in DOMAIN s : k < l => Precedes(s, at[k], at[l])
<1> DEFINE n == Len(s)
           rank == [j \in DOMAIN s |-> Cardinality(Before(s, j))]
           at == [k \in DOMAIN s |-> CHOOSE j \in DOMAIN s : rank[j] = k - 1]
<1>1. n \in Nat /\ DOMAIN s = 1..n
  BY LenProperties
<1>2. t = [k \in DOMAIN s |-> s[CHOOSE j \in DOMAIN s : rank[j] = k - 1]]
  BY SortedForm
<1>3. IsFiniteSet(1..n) /\ Cardinality(1..n) = n
  BY <1>1, FS_Interval
<1>4. \A j \in DOMAIN s : IsFiniteSet(Before(s, j)) /\ Cardinality(Before(s, j)) \in Nat
  BY <1>1, <1>3, FS_Subset, FS_CardinalityType DEF Before, FileTree!Before
<1>5. ASSUME NEW i \in DOMAIN s, NEW j \in DOMAIN s, Precedes(s, i, j) PROVE rank[i] < rank[j]
  <2>1. i # j /\ i \in Before(s, j) /\ i \notin Before(s, i)
    BY <1>5, PrecedesOrders DEF Precedes, Before, FileTree!Before
  <2>2. Before(s, i) \subseteq Before(s, j)
    <3>1. ASSUME NEW k \in Before(s, i) PROVE k \in Before(s, j)
      <4>1. k \in DOMAIN s /\ Precedes(s, k, i)
        BY <3>1 DEF Precedes, Before, FileTree!Before
      <4>2. Precedes(s, k, j)
        BY <1>5, <4>1, PrecedesOrders
      <4>3. k # j
        BY <1>5, <4>1, <4>2, PrecedesOrders
      <4>. QED
        BY <4>1, <4>2, <4>3 DEF Precedes, Before, FileTree!Before
    <3>. QED
      BY <3>1
  <2>3. Cardinality(Before(s, i)) <= Cardinality(Before(s, j))
        /\ Cardinality(Before(s, i)) # Cardinality(Before(s, j))
    BY <1>4, <2>1, <2>2, FS_Subset
  <2>. QED
    BY <1>4, <2>3
<1>6. \A j \in DOMAIN s : rank[j] \in Nat /\ rank[j] < n
  <2>1. ASSUME NEW j \in DOMAIN s PROVE Cardinality(Before(s, j)) < n
    <3>1. Before(s, j) \subseteq 1..n /\ Before(s, j) # 1..n
      BY <1>1 DEF Before, FileTree!Before
    <3>2. Cardinality(Before(s, j)) <= n /\ Cardinality(Before(s, j)) # n
      BY <1>3, <3>1, FS_Subset
    <3>. QED
      BY <1>1, <1>4, <3>2
  <2>. QED
    BY <1>4, <2>1
<1>7. \A i, j \in DOMAIN s : rank[i] = rank[j] => i = j
  <2>1. ASSUME NEW i \in DOMAIN s, NEW j \in DOMAIN s, i # j PROVE rank[i] # rank[j]
    <3>1. Precedes(s, i, j) \/ Precedes(s, j, i)
      BY <2>1, PrecedesOrders
    <3>2. rank[i] < rank[j] \/ rank[j] < rank[i]
      BY <1>5, <3>1
    <3>. QED
      BY <1>6, <3>2
  <2>. QED
    BY <2>1
<1>8. DOMAIN rank = DOMAIN s
  OBVIOUS
<1>9. rank \in [1..n -> Nat]
  BY <1>1, <1>6
<1> HIDE DEF rank, n
<1>10. \A k \in DOMAIN s : \E j \in DOMAIN s : rank[j] = k - 1
  <2>1. \A j \in 1..n : rank[j] < n
    BY <1>1, <1>6
  <2>2. \A i, j \in 1..n : rank[i] = rank[j] => i = j
    BY <1>1, <1>7
  <2>3. \A k \in 1..n : \E j \in 1..n : rank[j] = k - 1
    BY <1>1, <1>9, <2>1, <2>2, RanksAreAll
  <2>. QED
    BY <1>1, <2>3
<1>11. \A k \in DOMAIN s : at[k] \in DOMAIN s /\ rank[at[k]] = k - 1
  BY <1>10
<1>12. t = [k \in DOMAIN s |-> s[at[k]]]
  BY <1>2
<1>13. at \in [DOMAIN s -> DOMAIN s]
  BY <1>11
<1> HIDE DEF at
<1>14. ASSUME NEW j \in DOMAIN s PROVE \E k \in DOMAIN s : at[k] = j
  <2>1. PICK k \in Nat : k = rank[j] + 1 /\ k \in DOMAIN s /\ k - 1 = rank[j]
    <3>1. rank[j] \in Nat /\ rank[j] < n
      BY <1>6
    <3>2. rank[j] + 1 \in Nat /\ rank[j] + 1 \in 1..n /\ (rank[j] + 1) - 1 = rank[j]
      BY <1>1, <3>1
    <3>. QED
      BY <1>1, <3>2
  <2>2. at[k] \in DOMAIN s /\ rank[at[k]] = rank[j]
    BY <1>11, <2>1
  <2>. QED
    BY <1>7, <2>1, <2>2
<1>15. ASSUME NEW k \in DOMAIN s, NEW l \in DOMAIN s, k < l PROVE Precedes(s, at[k], at[l])
  <2>1. k \in Nat /\ l \in Nat
    BY <1>1
  <2>2. at[k] \in DOMAIN s /\ at[l] \in DOMAIN s /\ rank[at[k]] = k - 1 /\ rank[at[l]] = l - 1
    BY <1>11
  <2>3. ~(rank[at[l]] < rank[at[k]]) /\ at[k] # at[l]
    BY <1>15, <2>1, <2>2
  <2>. QED
    BY <1>5, <2>2, <2>3, PrecedesOrders
<1>. QED
  BY <1>12, <1>13, <1>14, <1>15

\* What the rest of the proof needs of it.
NoneTwice(s) == \A i, j \in DOMAIN s : s[i] = s[j] => i = j
Ascending(s) == \A i, j \in DOMAIN s : i < j => ~EntryLess(s[j], s[i])

LEMMA SortedKeeps ==
    ASSUME NEW s \in Seq(Entry), NoneTwice(s), NEW t, t = FileTree!Sorted(s)
    PROVE  /\ t \in Seq(Entry) /\ Len(t) = Len(s) /\ ToSet(t) = ToSet(s)
           /\ NoneTwice(t) /\ Ascending(t)
<1>1. PICK at \in [DOMAIN s -> DOMAIN s] :
              /\ t = [k \in DOMAIN s |-> s[at[k]]]
              /\ \A j \in DOMAIN s : \E k \in DOMAIN s : at[k] = j
              /\ \A k, l \in DOMAIN s : k < l => Precedes(s, at[k], at[l])
  BY SortedIs
<1>2. Len(s) \in Nat /\ DOMAIN s = 1..Len(s) /\ \A i \in DOMAIN s : s[i] \in Entry
  BY LenProperties, ElementOfSeq
<1>3. DOMAIN t = 1..Len(s) /\ \A k \in DOMAIN s : at[k] \in DOMAIN s /\ t[k] = s[at[k]]
  BY <1>1, <1>2
<1>4. t \in [1..Len(s) -> Entry]
  BY <1>1, <1>2, <1>3
<1>5. t \in Seq(Entry)
  BY <1>2, <1>4, IsASeq
<1>6. Len(t) = Len(s)
  BY <1>2, <1>3, <1>5, LenProperties
<1>7. ToSet(t) = ToSet(s)
  BY <1>1, <1>2, <1>3 DEF ToSet
<1>8. Ascending(t)
  <2>1. ASSUME NEW k \in DOMAIN t, NEW l \in DOMAIN t, k < l PROVE ~EntryLess(t[l], t[k])
    <3>1. at[k] \in DOMAIN s /\ at[l] \in DOMAIN s /\ Precedes(s, at[k], at[l])
          /\ t[k] = s[at[k]] /\ t[l] = s[at[l]]
      BY <1>1, <1>2, <1>3, <2>1
    <3>2. EntryLess(s[at[k]], s[at[l]]) \/ ~EntryLess(s[at[l]], s[at[k]])
      BY <3>1, PrecedesIs
    <3>3. EntryLess(s[at[k]], s[at[l]]) => ~EntryLess(s[at[l]], s[at[k]])
      BY <1>2, <3>1, EntryLessOrders
    <3>. QED
      BY <3>1, <3>2, <3>3
  <2>. QED
    BY <2>1 DEF Ascending
<1>9. NoneTwice(t)
  <2>1. ASSUME NEW k \in DOMAIN t, NEW l \in DOMAIN t, k < l PROVE t[k] # t[l]
    <3>1. at[k] \in DOMAIN s /\ at[l] \in DOMAIN s /\ Precedes(s, at[k], at[l])
          /\ t[k] = s[at[k]] /\ t[l] = s[at[l]]
      BY <1>1, <1>2, <1>3, <2>1
    <3>2. at[k] # at[l]
      BY <3>1, PrecedesOrders
    <3>. QED
      BY <3>1, <3>2 DEF NoneTwice
  <2>2. \A k, l \in DOMAIN t : k # l => k < l \/ l < k
    BY <1>2, <1>3
  <2>3. \A k, l \in DOMAIN t : k # l => t[k] # t[l]
    BY <2>1, <2>2
  <2>. QED
    BY <2>3 DEF NoneTwice
<1>. QED
  BY <1>5, <1>6, <1>7, <1>8, <1>9

-----------------------------------------------------------------------------
\* The directory of a path ends in front of its last slash.
Up(p) == FileTree!Parent(p)
Slashes(p) == {i \in 1..Len(p) : p[i] = Slash}
IsLastSlash(p, k) == k \in Slashes(p) /\ \A i \in Slashes(p) : i <= k

LEMMA UpIs ==
    ASSUME NEW p \in Paths
    PROVE  \/ Slashes(p) = {} /\ Up(p) = <<>>
           \/ \E k \in Nat : IsLastSlash(p, k) /\ Up(p) = SubSeq(p, 1, k - 1)
<1>1. Len(p) \in Nat /\ Slashes(p) \subseteq Nat /\ \A i \in Slashes(p) : i <= Len(p)
  BY LenProperties DEF Paths, Slashes
<1>2. FileTree!Slashes(p) = Slashes(p)
  <2>1. DOMAIN p = 1..Len(p)
    BY LenProperties DEF Paths
  <2>. QED
    BY <2>1 DEF FileTree!Slashes, Slashes
<1>3. CASE Slashes(p) = {}
  BY <1>2, <1>3 DEF Up, FileTree!Parent
<1>4. CASE Slashes(p) # {}
  <2>1. PICK i \in Slashes(p) : \A j \in Slashes(p) : j <= i
    BY <1>1, <1>4, NatMax
  <2>2. \A j \in Slashes(p) : i >= j
    BY <1>1, <2>1
  <2> DEFINE k == FileTree!Max(Slashes(p))
  <2>3. k \in Slashes(p) /\ \A j \in Slashes(p) : k >= j
    BY <2>2 DEF FileTree!Max
  <2>4. Up(p) = SubSeq(p, 1, k - 1)
    BY <1>2, <1>4 DEF Up, FileTree!Parent
  <2> HIDE DEF k
  <2>. QED
    BY <1>1, <2>3, <2>4 DEF IsLastSlash
<1>. QED
  BY <1>3, <1>4

\* A path and the directories above it, as it is written.
Above(p) == FileTree!Above(p)

LEMMA AboveIs ==
    ASSUME NEW p \in Paths, NEW x
    PROVE  x \in Above(p) <=> x = p \/ \E i \in Slashes(p) : x = SubSeq(p, 1, i - 1)
<1>1. Len(p) \in Nat /\ DOMAIN p = 1..Len(p) /\ SubSeq(p, 1, Len(p)) = p
  BY LenProperties, SubSeqFull DEF Paths
<1> DEFINE Ends == {Len(p)} \cup {i - 1 : i \in Slashes(p)}
<1>2. Above(p) = {SubSeq(p, 1, n) : n \in Ends}
  BY <1>1 DEF Above, FileTree!Above, FileTree!Slashes, Slashes
<1>3. \A n : n \in Ends <=> n = Len(p) \/ \E i \in Slashes(p) : n = i - 1
  OBVIOUS
<1> HIDE DEF Ends
<1>. QED
  BY <1>1, <1>2, <1>3

\* What is above a path is above its directory, but for the path itself.
LEMMA AboveUp ==
    ASSUME NEW p \in Paths
    PROVE  /\ Up(p) \in Paths /\ Len(Up(p)) <= Len(p)
           /\ \A x : x \in Above(p) \/ x = <<>> <=> x = p \/ x \in Above(Up(p)) \/ x = <<>>
<1>1. Len(p) \in Nat /\ DOMAIN p = 1..Len(p) /\ \A i \in 1..Len(p) : p[i] \in Charset
  BY LenProperties, ElementOfSeq DEF Paths
<1>2. CASE Slashes(p) = {} /\ Up(p) = <<>>
  <2>1. <<>> \in Paths /\ Len(<<>>) = 0 /\ Slashes(<<>>) = {}
    BY EmptySeq DEF Paths, Slashes
  <2>2. \A x : x \in Above(p) <=> x = p
    BY <1>2, AboveIs
  <2>3. \A x : x \in Above(<<>>) <=> x = <<>>
    BY <2>1, AboveIs
  <2>. QED
    BY <1>1, <1>2, <2>1, <2>2, <2>3
<1>3. CASE \E k \in Nat : IsLastSlash(p, k) /\ Up(p) = SubSeq(p, 1, k - 1)
  <2>1. PICK k \in Nat : IsLastSlash(p, k) /\ Up(p) = SubSeq(p, 1, k - 1)
    BY <1>3
  <2> DEFINE q == SubSeq(p, 1, k - 1)
  <2>2. k \in 1..Len(p) /\ p[k] = Slash /\ k - 1 \in 0..Len(p) /\ k - 1 \in Nat
    BY <1>1, <2>1 DEF IsLastSlash, Slashes
  <2>3. q \in Paths /\ Len(q) = k - 1 /\ \A i \in 1..k - 1 : q[i] = p[i]
    BY <1>1, <2>2, SubSeqProperties DEF Paths
  <2> HIDE DEF q
  <2>4. \A i \in Slashes(q) : i \in Slashes(p)
    BY <1>1, <2>2, <2>3 DEF Slashes
  <2>5. \A i \in Slashes(p) : i = k \/ i \in Slashes(q)
    <3>1. ASSUME NEW i \in Slashes(p), i # k PROVE i \in Slashes(q)
      <4>1. i \in 1..Len(p) /\ p[i] = Slash /\ i <= k
        BY <2>1, <3>1 DEF IsLastSlash, Slashes
      <4>2. i \in 1..k - 1
        BY <1>1, <2>2, <3>1, <4>1
      <4>. QED
        BY <2>3, <4>1, <4>2 DEF Slashes
    <3>. QED
      BY <3>1
  <2>6. k \in Slashes(p)
    BY <2>1 DEF IsLastSlash
  <2>7. ASSUME NEW i \in Slashes(q) PROVE SubSeq(q, 1, i - 1) = SubSeq(p, 1, i - 1)
    <3>1. i \in 1..k - 1
      BY <2>3 DEF Slashes
    <3>2. i - 1 \in 0..k - 1 /\ i - 1 \in 0..Len(p) /\ i - 1 \in Nat
      BY <1>1, <2>2, <3>1
    <3>3. /\ SubSeq(q, 1, i - 1) \in Seq(Charset) /\ Len(SubSeq(q, 1, i - 1)) = i - 1
          /\ \A j \in 1..i - 1 : SubSeq(q, 1, i - 1)[j] = q[j]
      BY <2>3, <3>2, SubSeqProperties DEF Paths
    <3>4. /\ SubSeq(p, 1, i - 1) \in Seq(Charset) /\ Len(SubSeq(p, 1, i - 1)) = i - 1
          /\ \A j \in 1..i - 1 : SubSeq(p, 1, i - 1)[j] = p[j]
      BY <1>1, <3>2, SubSeqProperties DEF Paths
    <3>5. \A j \in 1..i - 1 : q[j] = p[j]
      BY <2>2, <2>3, <3>1
    <3>. QED
      BY <3>3, <3>4, <3>5, SeqEqual
  <2>8. \A x : x \in Above(p) <=> x = p \/ \E i \in Slashes(p) : x = SubSeq(p, 1, i - 1)
    BY AboveIs
  <2>9. \A x : x \in Above(q) <=> x = q \/ \E i \in Slashes(q) : x = SubSeq(q, 1, i - 1)
    BY <2>3, AboveIs
  <2>10. \A x : x \in Above(p) <=> x = p \/ x \in Above(q)
    BY <2>4, <2>5, <2>6, <2>7, <2>8, <2>9 DEF q
  <2>11. Up(p) = q
    BY <2>1 DEF q
  <2>. QED
    BY <1>1, <2>2, <2>3, <2>10, <2>11
<1>. QED
  BY <1>2, <1>3, UpIs

\* No path above another is longer.
LEMMA AboveShorter ==
    ASSUME NEW p \in Paths, NEW x \in Above(p)
    PROVE  x \in Paths /\ Len(x) <= Len(p)
<1>1. Len(p) \in Nat
  BY LenProperties DEF Paths
<1>2. CASE x = p
  BY <1>1, <1>2
<1>3. ASSUME NEW i \in Slashes(p), x = SubSeq(p, 1, i - 1) PROVE x \in Paths /\ Len(x) <= Len(p)
  <2>1. i - 1 \in 0..Len(p) /\ i - 1 <= Len(p) /\ i \in 1..Len(p)
    BY <1>1 DEF Slashes
  <2>2. x \in Paths /\ Len(x) = i - 1
    BY <1>1, <1>3, <2>1, SubSeqProperties DEF Paths
  <2>. QED
    BY <2>1, <2>2
<1>. QED
  BY <1>2, <1>3, AboveIs

-----------------------------------------------------------------------------
\* The trees the explorer is started on.
IsDir(entries, p) == \E f \in entries : f.dir /\ f.path = p
IsTree(base, entries) ==
    /\ base \in Paths /\ IsFiniteSet(entries) /\ entries \subseteq Entry
    /\ \A e, f \in entries : f.path = e.path => f = e
    /\ \A e \in entries :
        /\ Up(e.path) = base \/ IsDir(entries, Up(e.path))
        /\ Len(Up(e.path)) < Len(e.path) /\ Len(base) < Len(e.path)

LEMMA JobIsTree ==
    ASSUME FileTree!IsInput(job)
    PROVE  IsTree(job.base, job.entries)
<1> DEFINE base == job.base
           entries == job.entries
<1>1. base \in Paths /\ entries \subseteq Entry /\ \A e, f \in entries : f.path = e.path => f = e
  BY DEF FileTree!IsInput, Paths, Entry, Charset
<1>2. IsFiniteSet(entries)
  BY DEF FileTree!IsInput, FileTree!IsFiniteSet, IsFiniteSet
<1>3. ASSUME NEW e \in entries
      PROVE  (Up(e.path) = base \/ IsDir(entries, Up(e.path))) /\ Len(Up(e.path)) < Len(e.path)
  <2>1. PICK d \in {base} \cup {f.path : f \in {g \in entries : g.dir}} :
           FileTree!Parent(e.path) = d /\ Len(d) < Len(e.path)
    BY DEF FileTree!IsInput
  <2>2. d = base \/ IsDir(entries, d)
    BY <2>1 DEF IsDir
  <2>. QED
    BY <2>1, <2>2 DEF Up
<1> HIDE DEF base, entries
<1>4. Len(base) \in Nat /\ \A e \in entries : Len(e.path) \in Nat
  BY <1>1, LenProperties DEF Entry, Paths
<1> DEFINE Short == {Len(e.path) : e \in {f \in entries : Len(f.path) <= Len(base)}}
<1>5. Short = {}
  <2>1. SUFFICES ASSUME Short # {} PROVE FALSE
    OBVIOUS
  <2>2. Short \in SUBSET Nat
    BY <1>4
  <2>3. PICK n \in Short : \A m \in Short : n <= m
    BY <2>1, <2>2, NatMin
  <2>4. PICK e \in entries : Len(e.path) <= Len(base) /\ n = Len(e.path)
    BY <2>3
  <2>5. CASE Up(e.path) = base
    BY <1>3, <1>4, <2>4, <2>5
  <2>6. CASE IsDir(entries, Up(e.path))
    <3>1. PICK f \in entries : f.path = Up(e.path)
      BY <2>6 DEF IsDir
    <3>2. Len(f.path) < Len(e.path) /\ Len(f.path) \in Nat /\ Len(e.path) \in Nat
      BY <1>3, <1>4, <3>1
    <3>3. Len(f.path) \in Short
      BY <1>4, <2>4, <3>2
    <3>. QED
      BY <2>3, <2>4, <3>2, <3>3
  <2>. QED
    BY <1>3, <2>5, <2>6
<1>6. ASSUME NEW e \in entries PROVE Len(base) < Len(e.path)
  <2>1. Len(e.path) <= Len(base) => Len(e.path) \in Short
    OBVIOUS
  <2>2. ~(Len(e.path) <= Len(base))
    BY <1>5, <2>1
  <2>. QED
    BY <1>4, <2>2
<1>. QED
  BY <1>1, <1>2, <1>3, <1>6 DEF IsTree, base, entries

-----------------------------------------------------------------------------
\* The directories being read: in each there are entries of it left.
Below(entries, p) == {e \in entries : Up(e.path) = p}
Frame(entries) == [path : Paths, left : SUBSET entries]
Pending(open) == UNION {open[i].left : i \in DOMAIN open}
AreOpen(entries, open) ==
    /\ open \in Seq(Frame(entries))
    /\ \A i \in DOMAIN open : open[i].left \subseteq Below(entries, open[i].path)
    /\ \A i, j \in DOMAIN open : open[i].path = open[j].path => i = j

LEMMA OpenForm ==
    ASSUME NEW entries, NEW open, AreOpen(entries, open)
    PROVE  /\ Len(open) \in Nat /\ DOMAIN open = 1..Len(open)
           /\ open # <<>> => Len(open) \in DOMAIN open
           /\ \A i \in DOMAIN open : /\ open[i] = [path |-> open[i].path, left |-> open[i].left]
                                     /\ open[i].path \in Paths /\ open[i].left \subseteq entries
           /\ \A x : x \in Pending(open) <=> \E i \in DOMAIN open : x \in open[i].left
           /\ Pending(open) \subseteq entries
           /\ \A i, j \in DOMAIN open : \A x \in open[i].left : x \in open[j].left => i = j
<1>1. Len(open) \in Nat /\ DOMAIN open = 1..Len(open)
      /\ \A i \in DOMAIN open : open[i] \in Frame(entries)
  BY LenProperties, ElementOfSeq DEF AreOpen
<1>2. open # <<>> => Len(open) \in DOMAIN open
  BY <1>1, EmptySeq DEF AreOpen
<1>3. \A i \in DOMAIN open : /\ open[i] = [path |-> open[i].path, left |-> open[i].left]
                             /\ open[i].path \in Paths /\ open[i].left \subseteq entries
  BY <1>1 DEF Frame
<1>4. \A x : x \in Pending(open) <=> \E i \in DOMAIN open : x \in open[i].left
  BY DEF Pending
<1>5. ASSUME NEW i \in DOMAIN open, NEW j \in DOMAIN open,
             NEW x \in open[i].left, x \in open[j].left
      PROVE  i = j
  <2>1. Up(x.path) = open[i].path /\ Up(x.path) = open[j].path
    BY <1>5 DEF AreOpen, Below
  <2>. QED
    BY <2>1 DEF AreOpen
<1>. QED
  BY <1>1, <1>2, <1>3, <1>4, <1>5

LEMMA FrameLess ==
    ASSUME NEW entries, NEW r \in Frame(entries), NEW T
    PROVE  [r EXCEPT !.left = T] = [path |-> r.path, left |-> T]
BY DEF Frame

\* Some of the entries left in the innermost directory are dealt with; a
\* directory is opened; the innermost one is left.
Narrowed(entries, open, Q, rest) ==
    /\ AreOpen(entries, rest) /\ DOMAIN rest = DOMAIN open
    /\ \A i \in DOMAIN open : rest[i].path = open[i].path
    /\ Pending(rest) = Pending(open) \ Q
Deepened(entries, open, p, more) ==
    /\ AreOpen(entries, more)
    /\ \A i \in DOMAIN more : more[i].path = p \/ \E j \in DOMAIN open : more[i] = open[j]
    /\ Pending(more) = Pending(open) \cup Below(entries, p)
Climbed(entries, open, rest) ==
    /\ AreOpen(entries, rest)
    /\ \A i \in DOMAIN rest : i \in DOMAIN open /\ rest[i] = open[i]
    /\ Pending(rest) = Pending(open) \ open[Len(open)].left

LEMMA OpenLess ==
    ASSUME NEW entries, NEW open, AreOpen(entries, open), open # <<>>,
           NEW Q \in SUBSET open[Len(open)].left,
           NEW rest, rest = [open EXCEPT ![Len(open)].left = open[Len(open)].left \ Q]
    PROVE  Narrowed(entries, open, Q, rest)
<1> DEFINE n == Len(open)
<1>1. /\ n \in Nat /\ DOMAIN open = 1..n /\ n \in DOMAIN open
      /\ \A i \in DOMAIN open : /\ open[i] = [path |-> open[i].path, left |-> open[i].left]
                                /\ open[i].path \in Paths /\ open[i].left \subseteq entries
  BY OpenForm
<1>2. /\ \A x : x \in Pending(open) <=> \E i \in DOMAIN open : x \in open[i].left
      /\ \A i, j \in DOMAIN open : \A x \in open[i].left : x \in open[j].left => i = j
  BY OpenForm
<1>q. Q \subseteq open[n].left
  OBVIOUS
<1> HIDE DEF n
<1>3. /\ DOMAIN rest = 1..n
      /\ \A i \in 1..n : /\ rest[i].path = open[i].path
                         /\ rest[i].left = IF i = n THEN open[n].left \ Q ELSE open[i].left
                         /\ rest[i] = [path |-> rest[i].path, left |-> rest[i].left]
      /\ rest = [i \in 1..n |-> rest[i]]
  <2> DEFINE last == [path |-> open[n].path, left |-> open[n].left \ Q]
  <2>1. open = [i \in 1..n |-> open[i]]
    BY SeqForm DEF AreOpen, n
  <2>2. [open[n] EXCEPT !.left = open[n].left \ Q] = last
    <3>1. open[n] \in Frame(entries)
      BY <1>1 DEF Frame
    <3>2. [open[n] EXCEPT !.left = open[n].left \ Q] =
            [path |-> open[n].path, left |-> open[n].left \ Q]
      BY <3>1, FrameLess
    <3>. QED
      BY <3>2
  <2>3. rest = [i \in 1..n |-> IF i = n THEN last ELSE open[i]]
    BY <1>1, <2>1, <2>2 DEF n
  <2>4. last.path = open[n].path /\ last.left = open[n].left \ Q
    OBVIOUS
  <2> HIDE DEF last
  <2>5. \A i \in 1..n : rest[i] = IF i = n THEN last ELSE open[i]
    BY <2>3
  <2>6. last = [path |-> last.path, left |-> last.left]
    BY <2>4 DEF last
  <2>. QED
    BY <1>1, <2>3, <2>4, <2>5, <2>6
<1>4. rest \in Seq(Frame(entries)) /\ Len(rest) = n
  <2>1. \A i \in 1..n : rest[i] \in Frame(entries)
    BY <1>1, <1>3 DEF Frame
  <2>2. rest \in [1..n -> Frame(entries)] /\ n \in Nat
    BY <1>1, <1>3, <2>1
  <2>3. rest \in Seq(Frame(entries))
    BY ONLY <2>2, IsASeq
  <2>. QED
    BY <1>1, <1>3, <2>3, LenProperties
<1>5. AreOpen(entries, rest)
  <2>1. \A i \in DOMAIN open : open[i].left \subseteq Below(entries, open[i].path)
    BY DEF AreOpen
  <2>2. \A i, j \in DOMAIN open : open[i].path = open[j].path => i = j
    BY DEF AreOpen
  <2>3. \A i \in DOMAIN rest : rest[i].left \subseteq Below(entries, rest[i].path)
    BY <1>1, <1>3, <2>1
  <2>4. \A i, j \in DOMAIN rest : rest[i].path = rest[j].path => i = j
    BY <1>1, <1>3, <2>2
  <2>. QED
    BY <1>4, <2>3, <2>4 DEF AreOpen
<1>6. \A x : x \in Pending(rest) <=> \E i \in DOMAIN rest : x \in rest[i].left
  BY DEF Pending
<1>7. \A x : x \in Pending(rest) <=> x \in Pending(open) /\ x \notin Q
  <2>1. ASSUME NEW x, x \in Pending(rest) PROVE x \in Pending(open) /\ x \notin Q
    <3>1. PICK i \in 1..n : x \in rest[i].left
      BY <1>3, <1>6, <2>1
    <3>2. x \in open[i].left /\ (i = n => x \notin Q)
      BY <1>3, <3>1
    <3>3. i # n => x \notin open[n].left
      BY <1>1, <1>2, <3>2
    <3>. QED
      BY <1>1, <1>2, <1>q, <3>2, <3>3
  <2>2. ASSUME NEW x, x \in Pending(open), x \notin Q PROVE x \in Pending(rest)
    <3>1. PICK i \in 1..n : x \in open[i].left
      BY <1>1, <1>2, <2>2
    <3>2. x \in rest[i].left
      BY <1>3, <2>2, <3>1
    <3>. QED
      BY <1>3, <1>6, <3>2
  <2>. QED
    BY <2>1, <2>2
<1>. QED
  BY <1>1, <1>3, <1>5, <1>7 DEF Narrowed

LEMMA OpenMore ==
    ASSUME NEW entries, NEW open, AreOpen(entries, open),
           NEW p \in Paths, \A i \in DOMAIN open : open[i].path # p,
           NEW more, more = Append(open, [path |-> p, left |-> Below(entries, p)])
    PROVE  Deepened(entries, open, p, more)
<1> DEFINE n == Len(open)
           frame == [path |-> p, left |-> Below(entries, p)]
<1>1. /\ n \in Nat /\ DOMAIN open = 1..n
      /\ \A x : x \in Pending(open) <=> \E i \in DOMAIN open : x \in open[i].left
  BY OpenForm
<1>2. frame \in Frame(entries) /\ frame.path = p /\ frame.left = Below(entries, p)
  BY DEF Frame, Below
<1>3. open \in Seq(Frame(entries))
  BY DEF AreOpen
<1> HIDE DEF n, frame
<1>4. more \in Seq(Frame(entries)) /\ Len(more) = n + 1 /\ more[n + 1] = frame
      /\ \A i \in 1..n : more[i] = open[i]
  BY <1>1, <1>2, <1>3, AppendProperties DEF n, frame
<1>5. DOMAIN more = 1..n + 1 /\ \A i \in 1..n + 1 : i \in 1..n \/ i = n + 1
  BY <1>1, <1>4, LenProperties
<1>n. n + 1 \in 1..n + 1 /\ n + 1 \notin 1..n /\ \A i \in 1..n : i \in 1..n + 1
  BY <1>1
<1>6. AreOpen(entries, more)
  <2>1. /\ \A i \in DOMAIN open : open[i].left \subseteq Below(entries, open[i].path)
        /\ \A i, j \in DOMAIN open : open[i].path = open[j].path => i = j
    BY DEF AreOpen
  <2>2. \A i \in DOMAIN more : more[i].left \subseteq Below(entries, more[i].path)
    BY <1>1, <1>2, <1>4, <1>5, <2>1
  <2>3. \A i, j \in DOMAIN more : more[i].path = more[j].path => i = j
    BY <1>1, <1>2, <1>4, <1>5, <2>1
  <2>. QED
    BY <1>4, <2>2, <2>3 DEF AreOpen
<1>7. \A x : x \in Pending(more) <=> \E i \in DOMAIN more : x \in more[i].left
  BY DEF Pending
<1>8. \A x : x \in Pending(more) <=> x \in Pending(open) \/ x \in Below(entries, p)
  BY <1>1, <1>2, <1>4, <1>5, <1>7, <1>n
<1>. QED
  BY <1>1, <1>2, <1>4, <1>5, <1>6, <1>8 DEF Deepened

LEMMA OpenFewer ==
    ASSUME NEW entries, NEW open, AreOpen(entries, open), open # <<>>,
           NEW rest, rest = SubSeq(open, 1, Len(open) - 1)
    PROVE  Climbed(entries, open, rest)
<1> DEFINE n == Len(open)
<1>1. /\ n \in Nat /\ DOMAIN open = 1..n /\ n \in DOMAIN open
      /\ \A x : x \in Pending(open) <=> \E i \in DOMAIN open : x \in open[i].left
      /\ \A i, j \in DOMAIN open : \A x \in open[i].left : x \in open[j].left => i = j
  BY OpenForm
<1>2. open \in Seq(Frame(entries)) /\ rest = SubSeq(open, 1, n - 1)
  BY DEF AreOpen
<1> HIDE DEF n
<1>3. n - 1 \in 0..n /\ n - 1 \in Nat
  BY <1>1
<1>4. rest \in Seq(Frame(entries)) /\ Len(rest) = n - 1 /\ \A i \in 1..n - 1 : rest[i] = open[i]
  BY <1>1, <1>2, <1>3, SubSeqProperties DEF n
<1>5. DOMAIN rest = 1..n - 1 /\ \A i \in 1..n : i = n \/ i \in 1..n - 1
  BY <1>1, <1>4, LenProperties
<1>n. \A i \in 1..n - 1 : i \in 1..n /\ i # n
  BY <1>1
<1>6. AreOpen(entries, rest)
  <2>1. /\ \A i \in DOMAIN open : open[i].left \subseteq Below(entries, open[i].path)
        /\ \A i, j \in DOMAIN open : open[i].path = open[j].path => i = j
    BY DEF AreOpen
  <2>. QED
    BY <1>1, <1>4, <1>5, <1>n, <2>1 DEF AreOpen
<1>7. \A x : x \in Pending(rest) <=> \E i \in DOMAIN rest : x \in rest[i].left
  BY DEF Pending
<1>8. \A x : x \in Pending(rest) <=> x \in Pending(open) /\ x \notin open[n].left
  <2>1. ASSUME NEW x, NEW i \in 1..n - 1, x \in rest[i].left
        PROVE  x \in Pending(open) /\ x \notin open[n].left
    <3>1. i \in DOMAIN open /\ x \in open[i].left /\ i # n
      BY <1>1, <1>4, <1>n, <2>1
    <3>. QED
      BY <1>1, <3>1
  <2>2. ASSUME NEW x, NEW i \in 1..n, x \in open[i].left, x \notin open[n].left
        PROVE  x \in Pending(rest)
    <3>1. i \in 1..n - 1
      BY <1>5, <2>2
    <3>. QED
      BY <1>4, <1>5, <1>7, <2>2, <3>1
  <2>3. ASSUME NEW x, x \in Pending(rest) PROVE x \in Pending(open) /\ x \notin open[n].left
    <3>1. PICK i \in 1..n - 1 : x \in rest[i].left
      BY ONLY <1>5, <1>7, <2>3
    <3>. QED
      BY ONLY <2>1, <3>1
  <2>4. ASSUME NEW x, x \in Pending(open), x \notin open[n].left PROVE x \in Pending(rest)
    <3>1. PICK i \in 1..n : x \in open[i].left
      BY ONLY <1>1, <2>4
    <3>. QED
      BY ONLY <2>2, <2>4, <3>1
  <2>. QED
    BY ONLY <2>3, <2>4
<1>. QED
  BY <1>1, <1>4, <1>5, <1>6, <1>8, <1>n DEF n, Climbed

-----------------------------------------------------------------------------
\* Where an entry is: listed, still to be read, gone or below what was not read.
Seen(base, L, p) == p = base \/ IsDir(L, p)
Sorting(base, entries, L, P, G) ==
    /\ L \subseteq entries /\ P \subseteq entries /\ G \subseteq {e.path : e \in entries}
    /\ \A e \in entries :
        /\ ~(e \in L /\ e \in P) /\ ~(e \in L /\ e.path \in G) /\ ~(e \in P /\ e.path \in G)
        /\ e \in L \/ e \in P \/ e.path \in G <=> Seen(base, L, Up(e.path))

LEMMA SortingStarts ==
    ASSUME NEW base, NEW entries
    PROVE  Sorting(base, entries, {}, Below(entries, base), {})
BY DEF Sorting, Below, Seen, IsDir

LEMMA SortingGone ==
    ASSUME NEW base, NEW entries, NEW L, NEW P, NEW G, Sorting(base, entries, L, P, G),
           IsTree(base, entries), NEW Q \in SUBSET P
    PROVE  Sorting(base, entries, L, P \ Q, G \cup {e.path : e \in Q})
<1>1. \A e, f \in entries : f.path = e.path => f = e
  BY DEF IsTree
<1>2. P \subseteq entries
  BY DEF Sorting
<1>3. \A e \in entries : e.path \in {f.path : f \in Q} <=> e \in Q
  BY <1>1, <1>2
<1> DEFINE H == {f.path : f \in Q}
<1>4. H \subseteq {e.path : e \in entries}
  BY <1>2
<1> HIDE DEF H
<1>5. \A e \in entries : e.path \in H <=> e \in Q
  BY <1>3 DEF H
<1>6. Sorting(base, entries, L, P \ Q, G \cup H)
  BY <1>2, <1>4, <1>5 DEF Sorting
<1>. QED
  BY <1>6 DEF H

LEMMA SortingListed ==
    ASSUME NEW base, NEW entries, NEW L, NEW P, NEW G, Sorting(base, entries, L, P, G),
           IsTree(base, entries), NEW e \in P
    PROVE  /\ ~Seen(base, L, e.path)
           /\ ~e.dir => Sorting(base, entries, L \cup {e}, P \ {e}, G)
           /\ e.dir => Sorting(base, entries, L \cup {e}, (P \ {e}) \cup Below(entries, e.path), G)
<1>1. /\ \A x, y \in entries : y.path = x.path => y = x
      /\ \A x \in entries : /\ Len(Up(x.path)) < Len(x.path)
                            /\ Len(base) < Len(x.path)
                            /\ x.path \in Paths /\ Len(x.path) \in Nat
      /\ base \in Paths /\ Len(base) \in Nat
  BY LenProperties DEF IsTree, Entry, Paths
<1>2. e \in entries /\ L \subseteq entries /\ P \subseteq entries
  BY DEF Sorting
<1>3. e.path # base /\ e \notin L
  BY <1>1, <1>2 DEF Sorting
<1>4. ~Seen(base, L, e.path)
  BY <1>1, <1>2, <1>3 DEF Seen, IsDir
<1>5. \A p : Seen(base, L \cup {e}, p) <=> Seen(base, L, p) \/ (e.dir /\ e.path = p)
  BY DEF Seen, IsDir
<1>6. ASSUME ~e.dir PROVE Sorting(base, entries, L \cup {e}, P \ {e}, G)
  BY <1>2, <1>5, <1>6 DEF Sorting
<1>7. ASSUME e.dir
      PROVE  Sorting(base, entries, L \cup {e}, (P \ {e}) \cup Below(entries, e.path), G)
  <2>1. \A x \in entries : x \in Below(entries, e.path) <=> Up(x.path) = e.path
    BY DEF Below
  <2>2. Below(entries, e.path) \subseteq entries
    BY DEF Below
  <2>3. \A x \in Below(entries, e.path) : x \notin L /\ x \notin P /\ x.path \notin G
    BY <1>4, <2>1, <2>2 DEF Sorting
  <2>4. e \notin Below(entries, e.path)
    <3>1. Len(Up(e.path)) < Len(e.path) /\ Len(e.path) \in Nat
      BY <1>1, <1>2
    <3>2. Up(e.path) # e.path
      BY <3>1
    <3>. QED
      BY <3>2 DEF Below
  <2>5. \A x \in entries :
          /\ ~(x \in L \cup {e} /\ x \in (P \ {e}) \cup Below(entries, e.path))
          /\ ~(x \in L \cup {e} /\ x.path \in G)
          /\ ~(x \in (P \ {e}) \cup Below(entries, e.path) /\ x.path \in G)
    BY <1>2, <2>3, <2>4 DEF Sorting
  <2>6. \A x \in entries :
          x \in L \cup {e} \/ x \in (P \ {e}) \cup Below(entries, e.path) \/ x.path \in G
          <=> Seen(base, L, Up(x.path)) \/ Up(x.path) = e.path
    BY <1>2, <2>1 DEF Sorting
  <2>7. \A x \in entries :
          x \in L \cup {e} \/ x \in (P \ {e}) \cup Below(entries, e.path) \/ x.path \in G
          <=> Seen(base, L \cup {e}, Up(x.path))
    BY <1>5, <1>7, <2>6
  <2>8. L \cup {e} \subseteq entries /\ (P \ {e}) \cup Below(entries, e.path) \subseteq entries
        /\ G \subseteq {x.path : x \in entries}
    BY <1>2, <2>2 DEF Sorting
  <2>. QED
    BY <2>5, <2>7, <2>8 DEF Sorting
<1>. QED
  BY <1>4, <1>6, <1>7

\* When nothing is left to read, what is listed is what can be reached.
Reachable(entries, G) == {e \in entries : Above(e.path) \cap G = {}}

LEMMA ListedIsReached ==
    ASSUME NEW base, NEW entries, IsTree(base, entries),
           NEW L, NEW G, Sorting(base, entries, L, {}, G)
    PROVE  L = Reachable(entries, G)
<1> DEFINE Clean(p) == Above(p) \cap G = {}
<1>1. /\ \A x, y \in entries : y.path = x.path => y = x
      /\ \A x \in entries : /\ Up(x.path) = base \/ IsDir(entries, Up(x.path))
                            /\ Len(Up(x.path)) < Len(x.path)
                            /\ Len(base) < Len(x.path)
                            /\ x.path \in Paths /\ Len(x.path) \in Nat
      /\ base \in Paths /\ Len(base) \in Nat
  BY LenProperties DEF IsTree, Entry, Paths
<1>2. L \subseteq entries /\ \A x \in G : x \in Paths /\ Len(base) < Len(x)
  BY <1>1 DEF Sorting
<1>3. <<>> \notin G
  <2>1. Len(<<>>) = 0 /\ ~(Len(base) < 0)
    BY <1>1, EmptySeq
  <2>. QED
    BY <1>2, <2>1
<1>4. Clean(base)
  <2>1. ASSUME NEW x \in Above(base), x \in G PROVE FALSE
    <3>1. Len(x) <= Len(base) /\ Len(base) < Len(x) /\ Len(x) \in Nat
      BY <1>1, <1>2, <2>1, AboveShorter, LenProperties DEF Paths
    <3>. QED
      BY <1>1, <3>1
  <2>. QED
    BY <2>1
<1>5. ASSUME NEW e \in entries PROVE Clean(e.path) <=> e.path \notin G /\ Clean(Up(e.path))
  <2>1. \A x : x \in Above(e.path) \/ x = <<>> <=> x = e.path \/ x \in Above(Up(e.path)) \/ x = <<>>
    BY <1>1, AboveUp
  <2>2. \A x \in G : x \in Above(e.path) <=> x = e.path \/ x \in Above(Up(e.path))
    BY <1>3, <2>1
  <2>. QED
    BY <2>2
<1>6. \A e \in entries : /\ ~(e \in L /\ e.path \in G)
                         /\ e \in L \/ e.path \in G <=> Seen(base, L, Up(e.path))
  BY DEF Sorting
<1> HIDE DEF Clean
<1> DEFINE Bad == {Len(e.path) : e \in {f \in entries : ~(f \in L <=> Clean(f.path))}}
<1>7. Bad = {}
  <2>1. SUFFICES ASSUME Bad # {} PROVE FALSE
    OBVIOUS
  <2>2. Bad \in SUBSET Nat
    BY <1>1
  <2>3. PICK n \in Bad : \A m \in Bad : n <= m
    BY <2>1, <2>2, NatMin
  <2>4. PICK e \in entries : ~(e \in L <=> Clean(e.path)) /\ n = Len(e.path)
    BY <2>3
  <2>5. Clean(Up(e.path)) <=> Seen(base, L, Up(e.path))
    <3>1. CASE Up(e.path) = base
      BY <1>4, <3>1 DEF Seen
    <3>2. CASE Up(e.path) # base
      <4>1. PICK f \in entries : f.dir /\ f.path = Up(e.path)
        BY <1>1, <3>2 DEF IsDir
      <4>2. Len(f.path) < Len(e.path) /\ Len(f.path) \in Nat /\ Len(e.path) \in Nat
        BY <1>1, <4>1
      <4>3. f \in L <=> Clean(f.path)
        <5>1. ~(f \in L <=> Clean(f.path)) => Len(f.path) \in Bad
          OBVIOUS
        <5>2. ~(Len(f.path) \in Bad)
          BY <2>3, <2>4, <4>2
        <5>. QED
          BY <5>1, <5>2
      <4>4. Seen(base, L, f.path) <=> f \in L
        BY <1>1, <1>2, <3>2, <4>1 DEF Seen, IsDir
      <4>. QED
        BY <4>1, <4>3, <4>4
    <3>. QED
      BY <3>1, <3>2
  <2>. QED
    BY <1>5, <1>6, <2>4, <2>5
<1>8. ASSUME NEW e \in entries PROVE e \in L <=> Clean(e.path)
  <2>1. ~(e \in L <=> Clean(e.path)) => Len(e.path) \in Bad
    OBVIOUS
  <2>. QED
    BY <1>7, <2>1
<1>. QED
  BY <1>2, <1>8 DEF Reachable, Clean

LEMMA NoneTwiceAppend ==
    ASSUME NEW T, NEW s \in Seq(T), NoneTwice(s), NEW x \in T, x \notin ToSet(s)
    PROVE  Append(s, x) \in Seq(T) /\ NoneTwice(Append(s, x))
<1> DEFINE n == Len(s)
           r == Append(s, x)
<1>1. n \in Nat /\ DOMAIN s = 1..n /\ \A i \in 1..n : s[i] # x
  BY LenProperties DEF ToSet
<1>2. r \in Seq(T) /\ Len(r) = n + 1 /\ r[n + 1] = x /\ \A i \in 1..n : r[i] = s[i]
  BY <1>1, AppendProperties
<1> HIDE DEF n, r
<1>3. DOMAIN r = 1..n + 1 /\ \A i \in 1..n + 1 : i \in 1..n \/ i = n + 1
  BY <1>1, <1>2, LenProperties
<1>4. NoneTwice(r)
  BY <1>1, <1>2, <1>3 DEF NoneTwice
<1>. QED
  BY <1>2, <1>4 DEF r

-----------------------------------------------------------------------------
ScanWork(o, l, g, r) == [open |-> o, list |-> l, gone |-> g, rows |-> r]

\* Fields are assigned one after the other.
WithListOpen(w, x, y) == [w EXCEPT !.list = x, !.open = y]
WithOpenGone(w, x, y) == [w EXCEPT !.open = x, !.gone = y]
WithListRows(w, x, y) == [w EXCEPT !.list = x, !.rows = y]

LEMMA WorkExcept ==
    ASSUME NEW o, NEW l, NEW g, NEW r, NEW x, NEW y
    PROVE  /\ WithListOpen(ScanWork(o, l, g, r), x, y) = ScanWork(y, x, g, r)
           /\ WithOpenGone(ScanWork(o, l, g, r), x, y) = ScanWork(x, l, y, r)
           /\ WithListRows(ScanWork(o, l, g, r), x, y) = ScanWork(o, x, g, y)
<1>1. WithListOpen(ScanWork(o, l, g, r), x, y) = ScanWork(y, x, g, r)
  <2>1. [ScanWork(o, l, g, r) EXCEPT !.list = x] = ScanWork(o, x, g, r)
    BY DEF ScanWork
  <2>2. [ScanWork(o, x, g, r) EXCEPT !.open = y] = ScanWork(y, x, g, r)
    BY DEF ScanWork
  <2>3. [ScanWork(o, l, g, r) EXCEPT !.list = x, !.open = y]
        = [[ScanWork(o, l, g, r) EXCEPT !.list = x] EXCEPT !.open = y]
    OBVIOUS
  <2>. QED
    BY <2>1, <2>2, <2>3 DEF WithListOpen
<1>2. WithOpenGone(ScanWork(o, l, g, r), x, y) = ScanWork(x, l, y, r)
  <2>1. [ScanWork(o, l, g, r) EXCEPT !.open = x] = ScanWork(x, l, g, r)
    BY DEF ScanWork
  <2>2. [ScanWork(x, l, g, r) EXCEPT !.gone = y] = ScanWork(x, l, y, r)
    BY DEF ScanWork
  <2>3. [ScanWork(o, l, g, r) EXCEPT !.open = x, !.gone = y]
        = [[ScanWork(o, l, g, r) EXCEPT !.open = x] EXCEPT !.gone = y]
    OBVIOUS
  <2>. QED
    BY <2>1, <2>2, <2>3 DEF WithOpenGone
<1>3. WithListRows(ScanWork(o, l, g, r), x, y) = ScanWork(o, x, g, y)
  <2>1. [ScanWork(o, l, g, r) EXCEPT !.list = x] = ScanWork(o, x, g, r)
    BY DEF ScanWork
  <2>2. [ScanWork(o, x, g, r) EXCEPT !.rows = y] = ScanWork(o, x, g, y)
    BY DEF ScanWork
  <2>3. [ScanWork(o, l, g, r) EXCEPT !.list = x, !.rows = y]
        = [[ScanWork(o, l, g, r) EXCEPT !.list = x] EXCEPT !.rows = y]
    OBVIOUS
  <2>. QED
    BY <2>1, <2>2, <2>3 DEF WithListRows
<1>. QED
  BY <1>1, <1>2, <1>3

LEMMA ScanWorkIs ==
    ASSUME NEW o, NEW l, NEW g, NEW r, NEW w, w = ScanWork(o, l, g, r)
    PROVE  w.open = o /\ w.list = l /\ w.gone = g /\ w.rows = r
BY DEF ScanWork

\* While the tree is read.
ScanInv ==
    /\ IsTree(job.base, job.entries)
    /\ work = ScanWork(work.open, work.list, work.gone, <<>>)
    /\ work.list \in Seq(job.entries) /\ NoneTwice(work.list)
    /\ AreOpen(job.entries, work.open)
    /\ \A i \in DOMAIN work.open : Seen(job.base, ToSet(work.list), work.open[i].path)
    /\ Sorting(job.base, job.entries, ToSet(work.list), Pending(work.open), work.gone)

LEMMA ScanStarts ==
    ASSUME Init, Runs({"explorer"})
    PROVE  status = "running" /\ ScanInv
<1>1. /\ FileTree!IsInput(job) /\ work = FileTree!Start(job.base, job.entries)
      /\ status = "running"
  BY JobForms, FirstStates
<1>2. IsTree(job.base, job.entries)
  BY <1>1, JobIsTree
<1> DEFINE base == job.base
           entries == job.entries
           frame == [path |-> base, left |-> Below(entries, base)]
<1>3. work = ScanWork(<<frame>>, <<>>, {}, <<>>)
  BY <1>1 DEF FileTree!Start, Below, Up, ScanWork
<1>4. frame \in Frame(entries) /\ frame.path = base /\ frame.left = Below(entries, base)
  BY <1>2 DEF IsTree, Frame, Below
<1> HIDE DEF frame
<1>5. AreOpen(entries, <<frame>>) /\ DOMAIN <<frame>> = {1} /\ <<frame>>[1] = frame
  BY <1>4 DEF AreOpen
<1>6. \A x : x \in Pending(<<frame>>) <=> x \in Below(entries, base)
  BY <1>4, <1>5 DEF Pending
<1>7. ToSet(<<>>) = {} /\ <<>> \in Seq(entries) /\ NoneTwice(<<>>)
  BY DEF ToSet, NoneTwice
<1>8. Sorting(base, entries, {}, Pending(<<frame>>), {})
  <2>1. Pending(<<frame>>) = Below(entries, base)
    BY <1>6
  <2>. QED
    BY <2>1, SortingStarts
<1>9. Seen(base, {}, base)
  BY DEF Seen
<1>. QED
  <2>1. work.open = <<frame>> /\ work.list = <<>> /\ work.gone = {}
    BY <1>3, ScanWorkIs
  <2>. QED
    BY <1>1, <1>2, <1>3, <1>4, <1>5, <1>7, <1>8, <1>9, <2>1 DEF ScanInv

LEMMA ReadEntryKeeps ==
    ASSUME ScanInv, FileTree!ReadEntry, job' = job
    PROVE  status' = status /\ ScanInv'
<1> DEFINE base == job.base
           entries == job.entries
           open == work.open
           n == Len(open)
           L == ToSet(work.list)
           P == Pending(open)
           G == work.gone
<1>1. /\ status' = status /\ open # <<>>
      /\ \E e \in open[n].left :
           LET rest == [open EXCEPT ![n].left = open[n].left \ {e}]
           IN work' = [work EXCEPT
                  !.list = Append(work.list, e),
                  !.open = IF e.dir THEN Append(rest, [path |-> e.path, left |-> Below(entries, e.path)])
                           ELSE rest]
  BY DEF FileTree!ReadEntry, FileTree!Top, FileTree!Reading, FileTree!In, Below, Up
<1>2. /\ IsTree(base, entries) /\ work.list \in Seq(entries) /\ NoneTwice(work.list)
      /\ AreOpen(entries, open) /\ \A i \in DOMAIN open : Seen(base, L, open[i].path)
      /\ Sorting(base, entries, L, P, G)
      /\ work = ScanWork(open, work.list, G, <<>>)
  BY DEF ScanInv
<1>3. PICK e \in open[n].left :
           LET rest == [open EXCEPT ![n].left = open[n].left \ {e}]
           IN work' = [work EXCEPT
                  !.list = Append(work.list, e),
                  !.open = IF e.dir THEN Append(rest, [path |-> e.path, left |-> Below(entries, e.path)])
                           ELSE rest]
  BY <1>1
<1> DEFINE rest == [open EXCEPT ![n].left = open[n].left \ {e}]
           more == Append(rest, [path |-> e.path, left |-> Below(entries, e.path)])
           list == Append(work.list, e)
<1>4. work' = ScanWork(IF e.dir THEN more ELSE rest, list, G, <<>>)
  <2>1. work' = [work EXCEPT !.list = list, !.open = IF e.dir THEN more ELSE rest]
    BY <1>3
  <2> DEFINE old == work.list
             next == IF e.dir THEN more ELSE rest
  <2>2. work = ScanWork(open, old, G, <<>>)
    BY <1>2
  <2> HIDE DEF more, rest, list, open, G, old, next
  <2>3. WithListOpen(ScanWork(open, old, G, <<>>), list, next) = ScanWork(next, list, G, <<>>)
    BY WorkExcept
  <2>4. work' = WithListOpen(work, list, next)
    BY <2>1 DEF next, WithListOpen
  <2>5. work' = ScanWork(next, list, G, <<>>)
    BY <2>2, <2>3, <2>4
  <2>. QED
    BY <2>5 DEF next
<1>5. e \in P /\ e \in entries /\ e.path \in Paths
  <2>1. n \in DOMAIN open /\ e \in entries /\ e \in P
    BY <1>1, <1>2, OpenForm
  <2>. QED
    BY <1>2, <2>1 DEF IsTree, Entry
<1> HIDE DEF rest, more, list, base, entries, open, n, L, P, G
<1>6. /\ AreOpen(entries, rest) /\ DOMAIN rest = DOMAIN open
      /\ \A i \in DOMAIN open : rest[i].path = open[i].path
      /\ Pending(rest) = P \ {e}
  <2>1. {e} \in SUBSET open[Len(open)].left
    BY DEF n
  <2>2. rest = [open EXCEPT ![Len(open)].left = open[Len(open)].left \ {e}]
    BY DEF rest, n
  <2>. QED
    <3>1. AreOpen(entries, open) /\ open # <<>>
      BY <1>1, <1>2
    <3>2. Narrowed(entries, open, {e}, rest)
      BY ONLY <2>1, <2>2, <3>1, OpenLess
    <3>. QED
      BY <3>2 DEF P, Narrowed
<1>7. /\ ~Seen(base, L, e.path)
      /\ ~e.dir => Sorting(base, entries, L \cup {e}, P \ {e}, G)
      /\ e.dir => Sorting(base, entries, L \cup {e}, (P \ {e}) \cup Below(entries, e.path), G)
  BY <1>2, <1>5, SortingListed
<1>8. /\ AreOpen(entries, more)
      /\ \A i \in DOMAIN more : more[i].path = e.path \/ \E j \in DOMAIN rest : more[i] = rest[j]
      /\ Pending(more) = (P \ {e}) \cup Below(entries, e.path)
  <2>1. \A i \in DOMAIN rest : rest[i].path # e.path
    BY <1>2, <1>6, <1>7
  <2>. QED
    <3>1. /\ AreOpen(entries, rest) /\ e.path \in Paths
          /\ more = Append(rest, [path |-> e.path, left |-> Below(entries, e.path)])
      BY <1>5, <1>6 DEF more
    <3>2. Deepened(entries, rest, e.path, more)
      BY ONLY <2>1, <3>1, OpenMore
    <3>. QED
      BY <1>6, <3>2 DEF Deepened
<1>9. e \notin L
  BY <1>2, <1>5 DEF Sorting
<1>10. list \in Seq(entries) /\ NoneTwice(list) /\ ToSet(list) = L \cup {e}
  BY <1>2, <1>5, <1>9, NoneTwiceAppend, ToSetAppend DEF list, L
<1>11. \A p : Seen(base, L \cup {e}, p) <=> Seen(base, L, p) \/ (e.dir /\ e.path = p)
  BY DEF Seen, IsDir
<1>12. job'.base = base /\ job'.entries = entries
  BY DEF base, entries
<1>13. CASE e.dir
  <2>1. /\ work'.open = more /\ work'.list = list /\ work'.gone = G
        /\ work' = ScanWork(work'.open, work'.list, work'.gone, <<>>)
    <3>1. work' = ScanWork(more, list, G, <<>>)
      BY <1>4, <1>13
    <3>. QED
      BY <3>1, ScanWorkIs
  <2>2. \A i \in DOMAIN more : Seen(base, L \cup {e}, more[i].path)
    BY <1>2, <1>6, <1>8, <1>11, <1>13
  <2>. QED
    BY <1>1, <1>2, <1>7, <1>8, <1>10, <1>12, <1>13, <2>1, <2>2 DEF ScanInv
<1>14. CASE ~e.dir
  <2>1. /\ work'.open = rest /\ work'.list = list /\ work'.gone = G
        /\ work' = ScanWork(work'.open, work'.list, work'.gone, <<>>)
    <3>1. work' = ScanWork(rest, list, G, <<>>)
      BY <1>4, <1>14
    <3>. QED
      BY <3>1, ScanWorkIs
  <2>2. \A i \in DOMAIN rest : Seen(base, L \cup {e}, rest[i].path)
    BY <1>2, <1>6, <1>11
  <2>. QED
    BY <1>1, <1>2, <1>6, <1>7, <1>10, <1>12, <1>14, <2>1, <2>2 DEF ScanInv
<1>. QED
  BY <1>13, <1>14

LEMMA StatFailsKeeps ==
    ASSUME ScanInv, FileTree!StatFails, job' = job
    PROVE  status' = status /\ ScanInv'
<1> DEFINE base == job.base
           entries == job.entries
           open == work.open
           n == Len(open)
           list == work.list
           L == ToSet(list)
           P == Pending(open)
           G == work.gone
<1>1. /\ status' = status /\ open # <<>>
      /\ \E e \in open[n].left :
           work' = WithOpenGone(work, [open EXCEPT ![n].left = open[n].left \ {e}], G \cup {e.path})
  BY DEF FileTree!StatFails, FileTree!Top, WithOpenGone
<1>2. /\ IsTree(base, entries) /\ list \in Seq(entries) /\ NoneTwice(list)
      /\ AreOpen(entries, open) /\ \A i \in DOMAIN open : Seen(base, L, open[i].path)
      /\ Sorting(base, entries, L, P, G)
      /\ work = ScanWork(open, list, G, <<>>)
  BY DEF ScanInv
<1>3. PICK e \in open[n].left :
        work' = WithOpenGone(work, [open EXCEPT ![n].left = open[n].left \ {e}], G \cup {e.path})
  BY <1>1
<1> DEFINE Q == {e}
           rest == [open EXCEPT ![n].left = open[n].left \ Q]
<1>4. Q \in SUBSET open[Len(open)].left /\ rest = [open EXCEPT ![Len(open)].left = open[Len(open)].left \ Q]
  OBVIOUS
<1>5. {x.path : x \in Q} = {e.path}
  OBVIOUS
<1>6. n \in DOMAIN open /\ Q \in SUBSET P
  BY <1>1, <1>2, OpenForm
<1>7. work' = WithOpenGone(work, rest, G \cup {e.path})
  BY <1>3
<1>8. job'.base = base /\ job'.entries = entries
  OBVIOUS
<1>9. L = ToSet(list) /\ P = Pending(open)
  OBVIOUS
<1> HIDE DEF base, entries, open, n, list, L, P, G, Q, rest
<1>10. work' = ScanWork(rest, list, G \cup {e.path}, <<>>)
  BY <1>2, <1>7, WorkExcept
<1>11. /\ work'.open = rest /\ work'.list = list /\ work'.gone = G \cup {e.path}
       /\ work' = ScanWork(work'.open, work'.list, work'.gone, <<>>)
  BY <1>10, ScanWorkIs
<1>12. Narrowed(entries, open, Q, rest)
  <2>1. AreOpen(entries, open) /\ open # <<>>
    BY <1>1, <1>2
  <2>. QED
    BY ONLY <1>4, <2>1, OpenLess
<1>13. Sorting(base, entries, L, P \ Q, G \cup {e.path})
  <2>1. Sorting(base, entries, L, P \ Q, G \cup {x.path : x \in Q})
    BY <1>2, <1>6, SortingGone
  <2>. QED
    BY <1>5, <2>1
<1>14. /\ AreOpen(entries, rest) /\ Pending(rest) = P \ Q
       /\ \A i \in DOMAIN rest : Seen(base, L, rest[i].path)
  BY <1>2, <1>9, <1>12 DEF Narrowed
<1>. QED
  BY <1>1, <1>2, <1>8, <1>9, <1>11, <1>13, <1>14 DEF ScanInv

\* A directory that cannot be opened, and one that was read to its end.
LEMMA DirectoryEnds ==
    ASSUME ScanInv, job' = job, work.open # <<>>,
           NEW gone, gone = {e.path : e \in work.open[Len(work.open)].left},
           work' = WithOpenGone(work, SubSeq(work.open, 1, Len(work.open) - 1), work.gone \cup gone)
    PROVE  ScanInv'
<1> DEFINE base == job.base
           entries == job.entries
           open == work.open
           n == Len(open)
           list == work.list
           L == ToSet(list)
           P == Pending(open)
           G == work.gone
           Q == open[n].left
           rest == SubSeq(open, 1, Len(open) - 1)
<1>1. open # <<>> /\ gone = {e.path : e \in Q} /\ work' = WithOpenGone(work, rest, G \cup gone)
  OBVIOUS
<1>2. /\ IsTree(base, entries) /\ list \in Seq(entries) /\ NoneTwice(list)
      /\ AreOpen(entries, open) /\ \A i \in DOMAIN open : Seen(base, L, open[i].path)
      /\ Sorting(base, entries, L, P, G)
      /\ work = ScanWork(open, list, G, <<>>)
  BY DEF ScanInv
<1>3. n \in DOMAIN open /\ Q \in SUBSET P
  BY <1>1, <1>2, OpenForm
<1>4. job'.base = base /\ job'.entries = entries
  OBVIOUS
<1>5. L = ToSet(list) /\ P = Pending(open) /\ Q = open[Len(open)].left /\ rest = SubSeq(open, 1, Len(open) - 1)
  OBVIOUS
<1> HIDE DEF base, entries, open, n, list, L, P, G, Q, rest
<1>6. work' = ScanWork(rest, list, G \cup gone, <<>>)
  BY <1>1, <1>2, WorkExcept
<1>7. /\ work'.open = rest /\ work'.list = list /\ work'.gone = G \cup gone
      /\ work' = ScanWork(work'.open, work'.list, work'.gone, <<>>)
  BY ONLY <1>6, ScanWorkIs
<1>8. Climbed(entries, open, rest)
  <2>1. AreOpen(entries, open) /\ open # <<>>
    BY <1>1, <1>2
  <2>. QED
    BY ONLY <1>5, <2>1, OpenFewer
<1>9. Sorting(base, entries, L, P \ Q, G \cup gone)
  BY <1>1, <1>2, <1>3, SortingGone
<1>10. /\ AreOpen(entries, rest) /\ Pending(rest) = P \ Q
       /\ \A i \in DOMAIN rest : Seen(base, L, rest[i].path)
  BY <1>2, <1>5, <1>8 DEF Climbed
<1>. QED
  BY <1>2, <1>4, <1>5, <1>7, <1>9, <1>10 DEF ScanInv

LEMMA OpenFailsKeeps ==
    ASSUME ScanInv, FileTree!OpenFails, job' = job
    PROVE  status' = status /\ ScanInv'
<1>1. /\ status' = status /\ work.open # <<>>
      /\ work' = WithOpenGone(work, SubSeq(work.open, 1, Len(work.open) - 1),
                   work.gone \cup {e.path : e \in work.open[Len(work.open)].left})
  BY DEF FileTree!OpenFails, FileTree!Top, WithOpenGone
<1>. QED
  BY <1>1, DirectoryEnds

LEMMA CloseDirectoryKeeps ==
    ASSUME ScanInv, FileTree!CloseDirectory, job' = job
    PROVE  status' = status /\ ScanInv'
<1>1. /\ status' = status /\ work.open # <<>> /\ work.open[Len(work.open)].left = {}
      /\ work' = [work EXCEPT !.open = SubSeq(work.open, 1, Len(work.open) - 1)]
  BY DEF FileTree!CloseDirectory, FileTree!Top
<1> DEFINE gone == {e.path : e \in work.open[Len(work.open)].left}
           open == work.open
           list == work.list
           G == work.gone
           rest == SubSeq(work.open, 1, Len(work.open) - 1)
<1>2. gone = {}
  BY <1>1
<1>3. work = ScanWork(open, list, G, <<>>) /\ work' = [work EXCEPT !.open = rest]
  BY <1>1 DEF ScanInv
<1>4. work' = WithOpenGone(work, rest, G \cup gone)
  <2> HIDE DEF open, list, G, rest, gone
  <2>1. work' = ScanWork(rest, list, G, <<>>)
    BY <1>3 DEF ScanWork
  <2>2. G \cup gone = G
    BY <1>2
  <2>3. WithOpenGone(work, rest, G) = ScanWork(rest, list, G, <<>>)
    BY <1>3, WorkExcept
  <2>. QED
    BY <2>1, <2>2, <2>3
<1>. QED
  BY <1>1, <1>4, DirectoryEnds

\* The directory of a path is before the path.
LEMMA UpLess ==
    ASSUME NEW p \in Paths, Len(Up(p)) < Len(p)
    PROVE  Up(p) \in Paths /\ PathLess(Up(p), p)
<1>1. Len(p) \in Nat /\ DOMAIN p = 1..Len(p)
  BY LenProperties DEF Paths
<1>2. \E n \in 0..Len(p) - 1 : Up(p) = SubSeq(p, 1, n)
  <2>1. CASE Up(p) = <<>>
    <3>1. 0 \in 0..Len(p) - 1
      BY <1>1, <2>1, EmptySeq
    <3>2. SubSeq(p, 1, 0) = <<>>
      OBVIOUS
    <3>. QED
      BY <2>1, <3>1, <3>2
  <2>2. CASE \E k \in Nat : IsLastSlash(p, k) /\ Up(p) = SubSeq(p, 1, k - 1)
    <3>1. PICK k \in Nat : IsLastSlash(p, k) /\ Up(p) = SubSeq(p, 1, k - 1)
      BY <2>2
    <3>2. k \in 1..Len(p)
      BY <3>1 DEF IsLastSlash, Slashes
    <3>3. k - 1 \in 0..Len(p) - 1
      BY <1>1, <3>2
    <3>. QED
      BY <3>1, <3>3
  <2>. QED
    BY <2>1, <2>2, UpIs
<1>3. PICK n \in 0..Len(p) - 1 : Up(p) = SubSeq(p, 1, n)
  BY <1>2
<1>. QED
  BY <1>3, PrefixLess

\* The first of a list and the rest.
LEMMA HeadAndRest ==
    ASSUME NEW T, NEW s \in Seq(T), s # <<>>
    PROVE  /\ Head(s) = s[1] /\ Head(s) \in T /\ Len(s) \in Nat \ {0} /\ DOMAIN s = 1..Len(s)
           /\ Tail(s) \in Seq(T) /\ Len(Tail(s)) = Len(s) - 1
           /\ DOMAIN Tail(s) = 1..Len(s) - 1
           /\ \A i \in 1..Len(s) - 1 : Tail(s)[i] = s[i + 1]
           /\ ToSet(s) = {Head(s)} \cup ToSet(Tail(s))
<1>1. /\ Len(s) \in Nat /\ DOMAIN s = 1..Len(s) /\ Len(s) # 0
      /\ \A i \in 1..Len(s) : s[i] \in T
  BY LenProperties, EmptySeq, ElementOfSeq
<1>2. Head(s) = s[1]
  OBVIOUS
<1>3. /\ Tail(s) \in Seq(T) /\ Len(Tail(s)) = Len(s) - 1
      /\ \A i \in 1..Len(s) - 1 : Tail(s)[i] = s[i + 1]
  BY <1>1, HeadTailProperties
<1>4. DOMAIN Tail(s) = 1..Len(s) - 1
  BY <1>3, LenProperties
<1>5. ToSet(s) = {s[i] : i \in DOMAIN s} /\ ToSet(Tail(s)) = {Tail(s)[i] : i \in DOMAIN Tail(s)}
  BY DEF ToSet
<1>6. ASSUME NEW x PROVE x \in ToSet(s) <=> x = s[1] \/ x \in ToSet(Tail(s))
  <2>1. x \in ToSet(s) => x = s[1] \/ x \in ToSet(Tail(s))
    <3>1. SUFFICES ASSUME NEW i \in 1..Len(s), x = s[i], i # 1 PROVE x \in ToSet(Tail(s))
      BY <1>1, <1>5
    <3>2. i - 1 \in 1..Len(s) - 1 /\ (i - 1) + 1 = i
      BY <1>1, <3>1
    <3>3. Tail(s)[i - 1] = x
      BY <1>3, <3>1, <3>2
    <3>. QED
      BY <1>4, <1>5, <3>2, <3>3
  <2>2. x \in ToSet(Tail(s)) => x \in ToSet(s)
    <3>1. SUFFICES ASSUME NEW i \in 1..Len(s) - 1, x = Tail(s)[i] PROVE x \in ToSet(s)
      BY <1>4, <1>5
    <3>2. i + 1 \in 1..Len(s) /\ x = s[i + 1]
      BY <1>1, <1>3, <3>1
    <3>. QED
      BY <1>1, <1>5, <3>2
  <2>3. s[1] \in ToSet(s)
    BY <1>1, <1>5
  <2>. QED
    BY <2>1, <2>2, <2>3
<1>7. 1 \in 1..Len(s)
  BY <1>1
<1>. QED
  BY <1>1, <1>2, <1>3, <1>4, <1>6, <1>7

\* The rows of the view and the entries they show.
Row == [path : Paths, dir : BOOLEAN, parent : Nat]
Shown(R) == {[path |-> R[i].path, dir |-> R[i].dir] : i \in DOMAIN R}
UnderItsDirectory(base, R, i) ==
    IF Up(R[i].path) = base THEN R[i].parent = 0
    ELSE R[i].parent \in DOMAIN R /\ R[R[i].parent].path = Up(R[i].path)
AreRows(base, R) ==
    /\ R \in Seq(Row)
    /\ \A i, j \in DOMAIN R : R[i].path = R[j].path => i = j
    /\ \A i, j \in DOMAIN R : i < j /\ R[j].dir => R[i].dir
    /\ \A i \in DOMAIN R : UnderItsDirectory(base, R, i)

\* The entries to be shown: each has its directory among them.
AreEntries(base, S) ==
    /\ S \subseteq Entry
    /\ \A e, f \in S : e.path = f.path => e = f
    /\ \A e \in S : /\ Len(Up(e.path)) < Len(e.path)
                    /\ Up(e.path) = base \/ IsDir(S, Up(e.path))

\* Some of them have a row already, the others are listed in order.
Filling(base, S, l, R) ==
    /\ l \in Seq(Entry) /\ NoneTwice(l) /\ Ascending(l)
    /\ AreRows(base, R)
    /\ ToSet(l) \cup Shown(R) = S /\ ToSet(l) \cap Shown(R) = {}
    /\ \A e \in ToSet(l) : e.dir => \A i \in DOMAIN R : R[i].dir

LEMMA FillingStarts ==
    ASSUME NEW base, NEW S, NEW l \in Seq(Entry), NoneTwice(l), Ascending(l), ToSet(l) = S
    PROVE  Filling(base, S, l, <<>>)
<1>1. AreRows(base, <<>>) /\ Shown(<<>>) = {}
  BY DEF AreRows, Shown
<1>. QED
  BY <1>1 DEF Filling

\* The directory of the first entry has its row already.
LEMMA ItsDirectoryHasARow ==
    ASSUME NEW base, NEW S, AreEntries(base, S), NEW l, NEW R, Filling(base, S, l, R), l # <<>>,
           Up(Head(l).path) # base
    PROVE  \E i \in DOMAIN R : R[i].path = Up(Head(l).path)
<1> DEFINE e == Head(l)
<1>1. /\ l \in Seq(Entry) /\ Ascending(l)
      /\ ToSet(l) \cup Shown(R) = S
      /\ \A x \in S : /\ Len(Up(x.path)) < Len(x.path)
                      /\ Up(x.path) = base \/ IsDir(S, Up(x.path))
  BY DEF Filling, AreEntries
<1>2. /\ e = l[1] /\ e \in Entry /\ e \in ToSet(l) /\ DOMAIN l = 1..Len(l) /\ Len(l) \in Nat \ {0}
  BY <1>1, HeadAndRest
<1>3. e \in S /\ e.path \in Paths
  BY <1>1, <1>2 DEF Entry
<1>4. PICK f \in S : f.dir /\ f.path = Up(e.path)
  BY <1>1, <1>3 DEF IsDir
<1>5. f \notin ToSet(l)
  <2>1. SUFFICES ASSUME f \in ToSet(l) PROVE FALSE
    OBVIOUS
  <2>2. PICK j \in DOMAIN l : l[j] = f
    BY <2>1 DEF ToSet
  <2>3. PathLess(f.path, e.path)
    BY <1>1, <1>3, <1>4, UpLess
  <2>4. EntryLess(f, e)
    BY <1>2, <1>4, <2>3 DEF EntryLess, Entry
  <2>5. Len(f.path) # Len(e.path)
    BY <1>1, <1>3, <1>4, AboveUp, LenProperties DEF Paths
  <2>6. j # 1
    BY <1>2, <2>2, <2>5
  <2>7. 1 \in DOMAIN l /\ 1 < j
    BY <1>2, <2>2, <2>6
  <2>. QED
    BY <1>1, <1>2, <2>2, <2>4, <2>7 DEF Ascending
<1>6. PICK i \in DOMAIN R : f = [path |-> R[i].path, dir |-> R[i].dir]
  BY <1>1, <1>5 DEF Shown
<1>. QED
  BY <1>4, <1>6

RowIn(R, p) ==
    LET rows == {i \in DOMAIN R : R[i].path = p}
    IN IF rows = {} THEN 0 ELSE CHOOSE i \in rows : TRUE
RowFor(base, R, e) ==
    [path |-> e.path, dir |-> e.dir,
     parent |-> IF Up(e.path) = base THEN 0 ELSE RowIn(R, Up(e.path))]

\* A row is added after the others, under the row of its directory.
LEMMA RowsGrow ==
    ASSUME NEW base, NEW R, AreRows(base, R), NEW e \in Entry,
           \A i \in DOMAIN R : R[i].path # e.path,
           e.dir => \A i \in DOMAIN R : R[i].dir,
           Up(e.path) # base => \E i \in DOMAIN R : R[i].path = Up(e.path)
    PROVE  AreRows(base, Append(R, RowFor(base, R, e)))
<1> DEFINE row == RowFor(base, R, e)
           n == Len(R)
           Q == Append(R, row)
           above == IF Up(e.path) = base THEN 0 ELSE RowIn(R, Up(e.path))
<1>1. /\ R \in Seq(Row) /\ n \in Nat /\ DOMAIN R = 1..n
      /\ \A i \in 1..n : R[i] \in Row
  BY LenProperties, ElementOfSeq DEF AreRows
<1>2. above \in Nat /\ IF Up(e.path) = base THEN above = 0
                       ELSE above \in DOMAIN R /\ R[above].path = Up(e.path)
  BY <1>1 DEF RowIn
<1>3. /\ row = [path |-> e.path, dir |-> e.dir, parent |-> above]
      /\ row.path = e.path /\ row.dir = e.dir /\ row.parent = above
  BY DEF RowFor
<1> HIDE DEF row, above
<1>4. row \in Row
  BY <1>2, <1>3 DEF Row, Entry
<1>5. /\ Q \in Seq(Row) /\ Len(Q) = n + 1 /\ Q[n + 1] = row
      /\ \A i \in 1..n : Q[i] = R[i]
  BY <1>1, <1>4, AppendProperties
<1>6. DOMAIN Q = 1..n + 1
  BY <1>1, <1>5, LenProperties
<1> HIDE DEF Q, n
<1>7. \A i \in 1..n + 1 : i \in 1..n \/ i = n + 1
  BY <1>1
<1>8. ASSUME NEW i \in 1..n + 1, NEW j \in 1..n + 1, Q[i].path = Q[j].path
      PROVE  i = j
  BY <1>1, <1>3, <1>5, <1>7, <1>8 DEF AreRows
<1>9. ASSUME NEW i \in 1..n + 1, NEW j \in 1..n + 1, i < j, Q[j].dir
      PROVE  Q[i].dir
  <2>1. i \in 1..n
    BY <1>1, <1>9
  <2>2. CASE j \in 1..n
    BY <1>1, <1>5, <1>9, <2>1, <2>2 DEF AreRows
  <2>3. CASE j = n + 1
    BY <1>1, <1>3, <1>5, <1>9, <2>1, <2>3
  <2>. QED
    BY <1>7, <2>2, <2>3
<1>10. ASSUME NEW i \in 1..n + 1
       PROVE  UnderItsDirectory(base, Q, i)
  <2>1. 1..n \subseteq 1..n + 1
    BY <1>1
  <2>2. CASE i \in 1..n
    <3>1. UnderItsDirectory(base, R, i) /\ Q[i] = R[i]
      BY <1>1, <1>5, <2>2 DEF AreRows
    <3>. QED
      BY <1>1, <1>5, <1>6, <2>1, <3>1 DEF UnderItsDirectory
  <2>3. CASE i = n + 1
    <3>1. Q[i].path = e.path /\ Q[i].parent = above
      BY <1>3, <1>5, <2>3
    <3>. QED
      BY <1>1, <1>2, <1>5, <1>6, <2>1, <3>1 DEF UnderItsDirectory
  <2>. QED
    BY <1>7, <2>2, <2>3
<1>11. AreRows(base, Q)
  BY <1>5, <1>6, <1>8, <1>9, <1>10 DEF AreRows
<1>. QED
  BY <1>11 DEF Q, row

LEMMA ShownGrows ==
    ASSUME NEW R \in Seq(Row), NEW e \in Entry, NEW row \in Row,
           row.path = e.path, row.dir = e.dir
    PROVE  Shown(Append(R, row)) = Shown(R) \cup {e}
<1> DEFINE n == Len(R)
           Q == Append(R, row)
           Shows(x, r) == x = [path |-> r.path, dir |-> r.dir]
<1>1. n \in Nat /\ DOMAIN R = 1..n
  BY LenProperties
<1>2. Q \in Seq(Row) /\ Len(Q) = n + 1 /\ Q[n + 1] = row /\ \A i \in 1..n : Q[i] = R[i]
  BY <1>1, AppendProperties
<1>3. DOMAIN Q = 1..n + 1
  BY <1>1, <1>2, LenProperties
<1>4. Shows(e, row)
  BY DEF Entry
<1>5. /\ \A x : x \in Shown(R) <=> \E i \in 1..n : Shows(x, R[i])
      /\ \A x : x \in Shown(Q) <=> \E i \in 1..n + 1 : Shows(x, Q[i])
  BY <1>1, <1>3 DEF Shown
<1>6. \A x : Shows(x, row) <=> x = e
  BY <1>4
<1>7. \A i : i \in 1..n + 1 <=> i \in 1..n \/ i = n + 1
  BY <1>1
<1> HIDE DEF Q, n, Shows
<1>8. \A x : x \in Shown(Q) <=> x \in Shown(R) \/ x = e
  BY <1>2, <1>5, <1>6, <1>7
<1>. QED
  BY <1>8 DEF Q

LEMMA FillingGoesOn ==
    ASSUME NEW base, NEW S, AreEntries(base, S), NEW l, NEW R, Filling(base, S, l, R), l # <<>>
    PROVE  Filling(base, S, Tail(l), Append(R, RowFor(base, R, Head(l))))
<1> DEFINE e == Head(l)
           rest == Tail(l)
           row == RowFor(base, R, e)
           Q == Append(R, row)
<1>1. /\ l \in Seq(Entry) /\ NoneTwice(l) /\ Ascending(l) /\ AreRows(base, R)
      /\ ToSet(l) \cup Shown(R) = S /\ ToSet(l) \cap Shown(R) = {}
      /\ \A x \in ToSet(l) : x.dir => \A i \in DOMAIN R : R[i].dir
  BY DEF Filling
<1>2. /\ e = l[1] /\ e \in Entry /\ Len(l) \in Nat \ {0} /\ DOMAIN l = 1..Len(l)
      /\ rest \in Seq(Entry) /\ DOMAIN rest = 1..Len(l) - 1
      /\ \A i \in 1..Len(l) - 1 : rest[i] = l[i + 1]
      /\ ToSet(l) = {e} \cup ToSet(rest)
  BY <1>1, HeadAndRest
<1>3. \A x, y \in S : x.path = y.path => x = y
  BY DEF AreEntries
<1>4. Up(e.path) # base => \E i \in DOMAIN R : R[i].path = Up(e.path)
  BY ItsDirectoryHasARow
<1> HIDE DEF e, rest, row, Q
<1>5. ASSUME NEW i \in 1..Len(l) - 1 PROVE i \in 1..Len(l) /\ i + 1 \in 1..Len(l) /\ 1 \in 1..Len(l) /\ 1 < i + 1
  BY <1>2
<1>6. NoneTwice(rest)
  <2>1. SUFFICES ASSUME NEW i \in 1..Len(l) - 1, NEW j \in 1..Len(l) - 1, rest[i] = rest[j] PROVE i = j
    BY <1>2 DEF NoneTwice
  <2>2. l[i + 1] = l[j + 1] /\ i + 1 \in DOMAIN l /\ j + 1 \in DOMAIN l
    BY <1>2, <1>5, <2>1
  <2>3. i + 1 = j + 1
    BY <1>1, <2>2 DEF NoneTwice
  <2>. QED
    BY <2>3
<1>7. Ascending(rest)
  <2>1. SUFFICES ASSUME NEW i \in 1..Len(l) - 1, NEW j \in 1..Len(l) - 1, i < j
                 PROVE  ~EntryLess(rest[j], rest[i])
    BY <1>2 DEF Ascending
  <2>2. i + 1 \in DOMAIN l /\ j + 1 \in DOMAIN l /\ i + 1 < j + 1
    BY <1>2, <1>5, <2>1
  <2>. QED
    BY <1>1, <1>2, <2>2 DEF Ascending
<1>8. e \notin ToSet(rest)
  <2>1. SUFFICES ASSUME NEW i \in 1..Len(l) - 1, rest[i] = e PROVE FALSE
    BY <1>2 DEF ToSet
  <2>2. l[i + 1] = l[1] /\ i + 1 \in DOMAIN l /\ 1 \in DOMAIN l
    BY <1>2, <1>5, <2>1
  <2>3. i + 1 = 1
    BY <1>1, <2>2 DEF NoneTwice
  <2>. QED
    BY <2>3
<1>9. e \in ToSet(l) /\ e \in S
  BY <1>1, <1>2
<1>10. \A i \in DOMAIN R : R[i].path # e.path
  <2>1. SUFFICES ASSUME NEW i \in DOMAIN R, R[i].path = e.path PROVE FALSE
    OBVIOUS
  <2> DEFINE f == [path |-> R[i].path, dir |-> R[i].dir]
  <2>2. f \in Shown(R) /\ f.path = e.path
    BY <2>1 DEF Shown
  <2>3. f = e
    BY <1>1, <1>3, <1>9, <2>2
  <2>. QED
    BY <1>1, <1>9, <2>2, <2>3
<1>11. e.dir => \A i \in DOMAIN R : R[i].dir
  BY <1>1, <1>9
<1>12. AreRows(base, Q)
  BY <1>1, <1>2, <1>4, <1>10, <1>11, RowsGrow DEF Q, row
<1>13. R \in Seq(Row) /\ Q \in Seq(Row)
  BY <1>1, <1>12 DEF AreRows
<1>14. row \in Row /\ row.path = e.path /\ row.dir = e.dir
  <2>1. DOMAIN R = 1..Len(R) /\ Len(R) \in Nat
    BY <1>13, LenProperties
  <2>2. RowIn(R, Up(e.path)) \in Nat
    BY <2>1 DEF RowIn
  <2>. QED
    BY <1>2, <2>2 DEF row, RowFor, Row, Entry
<1>15. Shown(Q) = Shown(R) \cup {e}
  BY <1>2, <1>13, <1>14, ShownGrows DEF Q
<1>16. ToSet(rest) \cup Shown(Q) = S /\ ToSet(rest) \cap Shown(Q) = {}
  BY <1>1, <1>2, <1>8, <1>15
<1>17. ASSUME NEW x \in ToSet(rest), x.dir, NEW i \in DOMAIN Q PROVE Q[i].dir
  <2>1. x \in ToSet(l)
    BY <1>2, <1>17
  <2>2. e.dir
    <3>1. PICK j \in 1..Len(l) - 1 : x = rest[j]
      BY <1>2, <1>17 DEF ToSet
    <3>2. j + 1 \in DOMAIN l /\ 1 \in DOMAIN l /\ 1 < j + 1 /\ x = l[j + 1]
      BY <1>2, <1>5, <3>1
    <3>3. ~EntryLess(x, e)
      BY <1>1, <1>2, <3>2 DEF Ascending
    <3>. QED
      BY <1>17, <3>3 DEF EntryLess
  <2>3. \A j \in DOMAIN R : R[j].dir
    BY <1>11, <2>2
  <2>4. Len(R) \in Nat /\ DOMAIN R = 1..Len(R) /\ DOMAIN Q = 1..Len(Q)
    BY <1>13, LenProperties
  <2>5. Len(Q) = Len(R) + 1 /\ Q[Len(R) + 1] = row /\ \A j \in 1..Len(R) : Q[j] = R[j]
    BY <1>13, <1>14, <2>4, AppendProperties DEF Q
  <2>6. i \in 1..Len(R) \/ i = Len(R) + 1
    BY <1>17, <2>4, <2>5
  <2>. QED
    BY <1>14, <2>2, <2>3, <2>4, <2>5, <2>6
<1>18. Filling(base, S, rest, Q)
  BY <1>2, <1>6, <1>7, <1>12, <1>16, <1>17 DEF Filling
<1>. QED
  BY <1>18 DEF e, rest, row, Q

\* While the rows are filled, and after it.
FillInv ==
    /\ IsTree(job.base, job.entries)
    /\ work = ScanWork(work.open, work.list, work.gone, work.rows)
    /\ AreEntries(job.base, Reachable(job.entries, work.gone))
    /\ Filling(job.base, Reachable(job.entries, work.gone), work.list, work.rows)

\* The explorer, wherever it is.
TreeInv ==
    /\ status \in {"running", "filling", "done"}
    /\ status = "running" => ScanInv
    /\ status # "running" => FillInv
    /\ status = "done" => work.list = <<>>

\* What can be reached has its directory, and that can be reached.
LEMMA ReachableEntries ==
    ASSUME NEW base, NEW entries, IsTree(base, entries),
           NEW L, NEW G, Sorting(base, entries, L, {}, G)
    PROVE  L = Reachable(entries, G) /\ AreEntries(base, L)
<1>1. L = Reachable(entries, G)
  BY ListedIsReached
<1>2. L \subseteq entries /\ \A e \in L : Up(e.path) = base \/ IsDir(L, Up(e.path))
  BY DEF Sorting, Seen
<1>3. /\ entries \subseteq Entry
      /\ \A e, f \in entries : f.path = e.path => f = e
      /\ \A e \in entries : Len(Up(e.path)) < Len(e.path)
  BY DEF IsTree
<1>4. AreEntries(base, L)
  BY <1>2, <1>3 DEF AreEntries
<1>. QED
  BY <1>1, <1>4

LEMMA StartFillingKeeps ==
    ASSUME ScanInv, FileTree!StartFilling, job' = job
    PROVE  status' = "filling" /\ FillInv'
<1> DEFINE base == job.base
           entries == job.entries
           list == work.list
           L == ToSet(list)
           G == work.gone
           t == FileTree!Sorted(list)
           S == Reachable(entries, G)
<1>1. status' = "filling" /\ work.open = <<>> /\ work' = [work EXCEPT !.list = t]
  BY DEF FileTree!StartFilling
<1>2. /\ IsTree(base, entries) /\ list \in Seq(entries) /\ NoneTwice(list)
      /\ Sorting(base, entries, L, Pending(work.open), G)
      /\ work = ScanWork(work.open, list, G, <<>>)
  BY DEF ScanInv
<1>3. Pending(work.open) = {}
  BY <1>1 DEF Pending
<1>4. L = S /\ AreEntries(base, L)
  BY <1>2, <1>3, ReachableEntries
<1>5. list \in Seq(Entry)
  <2>1. entries \subseteq Entry
    BY <1>2 DEF IsTree
  <2>2. \A i \in 1..Len(list) : list[i] \in Entry
    BY <1>2, <2>1, ElementOfSeq
  <2>. QED
    BY <1>2, <2>2, SeqDef
<1>6. /\ t \in Seq(Entry) /\ ToSet(t) = L /\ NoneTwice(t) /\ Ascending(t)
  BY <1>2, <1>5, SortedKeeps
<1>7. Filling(base, S, t, <<>>)
  BY <1>4, <1>6, FillingStarts
<1>8. work' = ScanWork(<<>>, t, G, <<>>)
  <2> HIDE DEF list, G, t
  <2>1. work = ScanWork(<<>>, list, G, <<>>) /\ work' = [work EXCEPT !.list = t]
    BY <1>1, <1>2
  <2>. QED
    BY ONLY <2>1 DEF ScanWork
<1>9. job'.base = base /\ job'.entries = entries
  OBVIOUS
<1> HIDE DEF base, entries, list, L, G, t, S
<1>10. work'.open = <<>> /\ work'.list = t /\ work'.gone = G /\ work'.rows = <<>>
  BY ONLY <1>8, ScanWorkIs
<1>11. work' = ScanWork(work'.open, work'.list, work'.gone, work'.rows)
  BY <1>8, <1>10
<1>12. Reachable(job'.entries, work'.gone) = S
  BY <1>9, <1>10 DEF S
<1>. QED
  BY <1>1, <1>2, <1>4, <1>7, <1>9, <1>10, <1>11, <1>12 DEF FillInv

LEMMA AddRowKeeps ==
    ASSUME FillInv, FileTree!AddRow, job' = job
    PROVE  status' = "filling" /\ FillInv'
<1> DEFINE base == job.base
           entries == job.entries
           list == work.list
           R == work.rows
           G == work.gone
           S == Reachable(entries, G)
           e == Head(list)
           rest == Tail(list)
           more == Append(R, RowFor(base, R, e))
<1>1. status' = "filling" /\ list # <<>> /\ work' = WithListRows(work, rest, more)
  BY DEF FileTree!AddRow, FileTree!RowOf, FileTree!NoRow, RowFor, RowIn, Up, WithListRows
<1>2. /\ IsTree(base, entries) /\ AreEntries(base, S) /\ Filling(base, S, list, R)
      /\ work = ScanWork(work.open, list, G, R)
  BY DEF FillInv
<1>3. Filling(base, S, rest, more)
  BY <1>1, <1>2, FillingGoesOn
<1>4. job'.base = base /\ job'.entries = entries
  OBVIOUS
<1> DEFINE open == work.open
<1>5. S = Reachable(entries, G)
  OBVIOUS
<1>6. work = ScanWork(open, list, G, R)
  BY <1>2
<1> HIDE DEF base, entries, list, R, G, S, rest, more, open
<1>7. work' = ScanWork(open, rest, G, more)
  BY <1>1, <1>6, WorkExcept
<1>8. work'.open = open /\ work'.list = rest /\ work'.gone = G /\ work'.rows = more
  BY ONLY <1>7, ScanWorkIs
<1>9. work' = ScanWork(work'.open, work'.list, work'.gone, work'.rows)
  BY <1>7, <1>8
<1>10. Reachable(job'.entries, work'.gone) = S
  BY <1>4, <1>5, <1>8
<1>. QED
  BY <1>1, <1>2, <1>3, <1>4, <1>8, <1>9, <1>10 DEF FillInv

LEMMA TreeSteps == ASSUME TreeInv, FileTree!Next, job' = job PROVE TreeInv'
<1>1. CASE FileTree!ReadEntry
  <2>1. status = "running"
    BY <1>1 DEF FileTree!ReadEntry
  <2>. QED
    BY <1>1, <2>1, ReadEntryKeeps DEF TreeInv
<1>2. CASE FileTree!StatFails
  <2>1. status = "running"
    BY <1>2 DEF FileTree!StatFails
  <2>. QED
    BY <1>2, <2>1, StatFailsKeeps DEF TreeInv
<1>3. CASE FileTree!OpenFails
  <2>1. status = "running"
    BY <1>3 DEF FileTree!OpenFails
  <2>. QED
    BY <1>3, <2>1, OpenFailsKeeps DEF TreeInv
<1>4. CASE FileTree!CloseDirectory
  <2>1. status = "running"
    BY <1>4 DEF FileTree!CloseDirectory
  <2>. QED
    BY <1>4, <2>1, CloseDirectoryKeeps DEF TreeInv
<1>5. CASE FileTree!StartFilling
  <2>1. status = "running"
    BY <1>5 DEF FileTree!StartFilling
  <2>. QED
    BY <1>5, <2>1, StartFillingKeeps DEF TreeInv
<1>6. CASE FileTree!AddRow
  <2>1. status = "filling"
    BY <1>6 DEF FileTree!AddRow
  <2>. QED
    BY <1>6, <2>1, AddRowKeeps DEF TreeInv
<1>7. CASE FileTree!Filled
  <2>1. status = "filling" /\ work.list = <<>> /\ status' = "done" /\ work' = work
    BY <1>7 DEF FileTree!Filled
  <2>2. FillInv /\ FillInv'
    BY <2>1 DEF TreeInv, FillInv
  <2>. QED
    BY <2>1, <2>2 DEF TreeInv
<1>. QED
  BY <1>1, <1>2, <1>3, <1>4, <1>5, <1>6, <1>7 DEF FileTree!Next

LEMMA TreeAlways == Spec => [](Runs({"explorer"}) => TreeInv)
<1>1. Init => (Runs({"explorer"}) => TreeInv)
  BY ScanStarts DEF TreeInv
<1>2. (Runs({"explorer"}) => TreeInv) /\ [Next]_vars => (Runs({"explorer"}) => TreeInv)'
  <2>1. ASSUME Next, Runs({"explorer"}), TreeInv PROVE TreeInv'
    BY <2>1, JobStays, OwnSteps, TreeSteps
  <2>2. ASSUME UNCHANGED vars, TreeInv PROVE TreeInv'
    BY <2>2 DEF vars, TreeInv, ScanInv, FillInv
  <2>3. [Next]_vars => job' = job
    BY JobStays
  <2>. QED
    BY <2>1, <2>2, <2>3 DEF Runs
<1>. QED
  BY <1>1, <1>2, PTL DEF Spec

\* There are as many rows as entries they show.
LEMMA RowsCount ==
    ASSUME NEW base, NEW R, AreRows(base, R)
    PROVE  IsFiniteSet(Shown(R)) /\ Cardinality(Shown(R)) = Len(R)
<1> DEFINE n == Len(R)
           f == [i \in 1..n |-> [path |-> R[i].path, dir |-> R[i].dir]]
<1>1. n \in Nat /\ DOMAIN R = 1..n /\ \A i, j \in 1..n : R[i].path = R[j].path => i = j
  BY LenProperties DEF AreRows
<1>2. f \in [1..n -> Shown(R)] /\ \A x \in Shown(R) : \E i \in 1..n : f[i] = x
  BY <1>1 DEF Shown
<1>3. \A i, j \in 1..n : f[i] = f[j] => i = j
  <2>1. SUFFICES ASSUME NEW i \in 1..n, NEW j \in 1..n, f[i] = f[j] PROVE i = j
    OBVIOUS
  <2>2. f[i].path = R[i].path /\ f[j].path = R[j].path
    OBVIOUS
  <2>. QED
    BY <1>1, <2>1, <2>2
<1> HIDE DEF f
<1>4. ExistsBijection(1..n, Shown(R))
  <2>1. f \in Bijection(1..n, Shown(R))
    BY <1>2, <1>3 DEF Bijection, Injection, Surjection, IsInjective
  <2>. QED
    BY <2>1 DEF ExistsBijection
<1>5. IsFiniteSet(1..n) /\ Cardinality(1..n) = n
  BY <1>1, FS_Interval
<1>. QED
  BY <1>4, <1>5, FS_Bijection

LEMMA ViewMirrors == ASSUME TreeInv PROVE FileTree!ViewMirrorsDirectory
<1> DEFINE R == work.rows
           base == job.base
           S == Reachable(job.entries, work.gone)
<1>1. SUFFICES ASSUME status = "done" PROVE FileTree!ViewMirrorsDirectory
  BY DEF FileTree!ViewMirrorsDirectory
<1>2. FillInv /\ work.list = <<>>
  BY <1>1 DEF TreeInv
<1>3. /\ AreRows(base, R) /\ ToSet(work.list) \cup Shown(R) = S /\ S \subseteq Entry
  BY <1>2 DEF FillInv, Filling, AreEntries
<1>4. ToSet(work.list) = {}
  BY <1>2 DEF ToSet
<1>5. Shown(R) = S
  BY <1>3, <1>4
<1>6. FileTree!Reached = S
  BY DEF FileTree!Reached, Reachable, Above
<1>7. {r.path : r \in FileTree!Range(R)} = {e.path : e \in FileTree!Reached}
  <2>1. FileTree!Range(R) = {R[i] : i \in DOMAIN R}
    BY DEF FileTree!Range
  <2>2. {r.path : r \in FileTree!Range(R)} = {R[i].path : i \in DOMAIN R}
    BY <2>1
  <2>3. {e.path : e \in Shown(R)} = {R[i].path : i \in DOMAIN R}
    <3> DEFINE F(i) == [path |-> R[i].path, dir |-> R[i].dir]
    <3>1. Shown(R) = {F(i) : i \in DOMAIN R} /\ \A i : F(i).path = R[i].path
      BY DEF Shown
    <3> HIDE DEF F
    <3>. QED
      BY <3>1
  <2>. QED
    BY <1>5, <1>6, <2>2, <2>3
<1>8. Len(R) = FileTree!Cardinality(FileTree!Reached)
  BY <1>3, <1>5, <1>6, RowsCount DEF FileTree!Cardinality, Cardinality
<1>9. ASSUME NEW i \in DOMAIN R
      PROVE  IF FileTree!Parent(R[i].path) = base THEN R[i].parent = FileTree!NoRow
             ELSE /\ R[i].parent # FileTree!NoRow
                  /\ R[R[i].parent].path = FileTree!Parent(R[i].path)
  <2>1. UnderItsDirectory(base, R, i) /\ DOMAIN R = 1..Len(R) /\ Len(R) \in Nat
    BY <1>3, LenProperties DEF AreRows
  <2>. QED
    BY <2>1 DEF UnderItsDirectory, Up, FileTree!NoRow
<1>10. \A i, j \in DOMAIN R : i < j /\ R[i].parent = R[j].parent => ~(R[j].dir /\ ~R[i].dir)
  BY <1>3 DEF AreRows
<1>. QED
  BY <1>7, <1>8, <1>9, <1>10 DEF FileTree!ViewMirrorsDirectory

(* The rows of the explorer mirror the directory tree: one for each entry  *)
(* that could be read, under the row of its directory, whatever the order  *)
(* in which readdir returns the entries and whichever of them disappear.   *)
THEOREM ViewMirrorsTree == Spec => []ViewMirrorsDirectory
<1>1. (Runs({"explorer"}) => TreeInv) => ViewMirrorsDirectory
  BY ViewMirrors DEF ViewMirrorsDirectory
<1>. QED
  BY <1>1, TreeAlways, PTL
=============================================================================
