------------------------------ MODULE Exercises ------------------------------
(***************************************************************************)
(* The small programs of the repository side by side: a behaviour picks a  *)
(* job of one of them and runs it to its end, alone.  They share nothing   *)
(* but the three variables they are written with.                          *)
(***************************************************************************)
EXTENDS Integers, SequencesExt

CONSTANTS
    Jobs,               \* the jobs a behaviour may pick: the inputs of the programs
    Slash, Fold(_),     \* see FileTree
    MAX_BACK_OFFSET,    \* see ArchiveSearch
    MAX_EXACT,          \* see ColumnStats
    BUFFER_SIZE         \* see FigletClient

VARIABLES job, work, status
vars == <<job, work, status>>

Unwinding == INSTANCE Unwinding
Encoding == INSTANCE Encoding
FileTree == INSTANCE FileTree
ArchiveSearch == INSTANCE ArchiveSearch
ColumnStats == INSTANCE ColumnStats
FigletClient == INSTANCE FigletClient
ListPrograms == INSTANCE ListPrograms
Weather == INSTANCE Weather

IsJob(j) ==
    \/ Unwinding!IsInput(j) \/ Encoding!IsInput(j) \/ FileTree!IsInput(j)
    \/ ArchiveSearch!IsInput(j) \/ ColumnStats!IsInput(j) \/ FigletClient!IsInput(j)
    \/ ListPrograms!IsInput(j) \/ Weather!IsInput(j)
ASSUME JobAssumption == \A j \in Jobs : IsJob(j)
ASSUME BoundAssumption ==
    MAX_BACK_OFFSET \in Nat /\ MAX_EXACT \in Nat /\ BUFFER_SIZE \in Nat \ {0}

Starts(j) ==
    CASE j.program \in Unwinding!Programs -> [work |-> Unwinding!Start, status |-> "running"]
      [] j.program = "encoding" -> [work |-> Encoding!Start, status |-> "running"]
      [] j.program = "explorer" ->
            [work |-> FileTree!Start(j.base, j.entries), status |-> "running"]
      [] j.program = "rarjpeg" -> [work |-> ArchiveSearch!Start, status |-> "searching"]
      [] j.program = "column" -> [work |-> ColumnStats!Start, status |-> "running"]
      [] j.program = "figlet" ->
            [work |-> FigletClient!Start(j.banner), status |-> "connecting"]
      [] j.program \in {"list", "list_ref"} ->
            [work |-> ListPrograms!Start(j.data), status |-> "build"]
      [] j.program = "weather" -> [work |-> Weather!Start, status |-> "starting"]

Init ==
    /\ job \in Jobs
    /\ work = Starts(job).work
    /\ status = Starts(job).status

Next ==
    \/ Unwinding!Next \/ Encoding!Next \/ FileTree!Next \/ ArchiveSearch!Next
    \/ ColumnStats!Next \/ FigletClient!Next \/ ListPrograms!Next \/ Weather!Next

\* Each program is one thread that runs on; what the figlet client waits for
\* comes or the timeout does.
Spec == Init /\ [][Next]_vars /\ WF_vars(Next)

-----------------------------------------------------------------------------
Runs(programs) == job.program \in programs

(* Whatever fails, everything acquired is given back once: what the driver *)
(* registers, the sockets of the server, the map of a file, the handles of *)
(* the databases, the nodes of main_ref.c, the JSON document and the text  *)
(* of the weather.  Two things are left behind: the result of PostgreSQL   *)
(* when the column has no number, and the text of a weather it refuses.    *)
ResourcesReleased ==
    /\ Runs(Unwinding!Programs) => Unwinding!Unwound
    /\ Runs({"column"}) => ColumnStats!ColumnReleased
    /\ Runs({"list", "list_ref"}) => ListPrograms!NodesFreed
    /\ Runs({"weather"}) => Weather!WeatherReleased

(* The converter's file is UTF-8 from which the text, or its beginning when *)
(* a read or a write fails, can be recovered, and each charset has the     *)
(* letters of the Russian alphabet.                                        *)
TextRecoverable == Runs({"encoding"}) => Encoding!TextRecoverable /\ Encoding!LettersDefined

(* The rows of the explorer mirror the directory tree.                     *)
ViewMirrorsDirectory == Runs({"explorer"}) => FileTree!ViewMirrorsDirectory

(* Lists are printed whole and in order: the members of an archive behind  *)
(* a picture, up to a name its buffer does not hold, and the lists of hw3. *)
ListedInOrder ==
    /\ Runs({"rarjpeg"}) => ArchiveSearch!ArchiveListed
    /\ Runs({"list", "list_ref"}) => ListPrograms!ListsPrinted

(* The statistics of a column are those of its numbers, and a column that  *)
(* is not one of numbers is refused: README.md of hw15_db, lines 23 and 24.*)
StatsAsPromised == Runs({"column"}) => ColumnStats!StatsAsPromised

(* So they are for all columns but the two that the code overlooks.        *)
StatsRight == Runs({"column"}) => ColumnStats!StatsRight

(* What a server sends in parts is put together and printed: by the figlet *)
(* client from its second line on, by the weather program field by field.  *)
AnswerPrinted ==
    /\ Runs({"figlet"}) => FigletClient!AnswerPrinted
    /\ Runs({"weather"}) => Weather!WeatherPrinted

Ended ==
    /\ status \in {"failed", "done", "none", "empty", "bad", "undefined", "aborted"}
    /\ Runs(Unwinding!Programs) => work.plan = <<>>
    /\ Runs({"column"}) => work.at = "return"

(* Every program ends, also with a server that falls silent.               *)
EveryProgramEnds == <>Ended
=============================================================================
