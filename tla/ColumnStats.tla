---------------------------- MODULE ColumnStats ----------------------------
(***************************************************************************)
(* The statistics of a column of hw15 (main.c): one query to SQLite or to  *)
(* PostgreSQL computes the average, the extremes, the sum and the variance *)
(* of a sample.  A column is a sequence of cells of type "null", "integer",*)
(* "real" or "text" with a value, 0 where there is no number; reals are    *)
(* counted in a power of two, and a text is one that is no number.  A      *)
(* number that comes back is a fraction <<n, d>>, which stands for the     *)
(* double nearest to it, or Rounded where more than that was rounded.      *)
(***************************************************************************)
EXTENDS Integers, Sequences, FiniteSetsExt, Subsequences

CONSTANT MAX_EXACT    \* a double holds every integer up to this one

VARIABLES
    job,    \* [program, db: "sqlite", "postgres" or another, name: a valid identifier,
            \*  column: the cells]
    work,   \* [at: the place in the program, held: handles, a set, stats,
            \*  checked: whether the type could be looked at]
    status  \* "running", "failed" or "done"

CellTypes == {"null", "integer", "real", "text"}
IsInput(j) ==
    /\ j \in [program : {"column"}, db : STRING, name : BOOLEAN,
             column : Seq([type : CellTypes, value : Int])]
    /\ \A c \in Range(j.column) : c.type \in {"null", "text"} => c.value = 0

NoStats == [avg |-> <<0, 1>>, max |-> <<0, 1>>, min |-> <<0, 1>>, sum |-> <<0, 1>>, var |-> <<0, 1>>]
Start == [at |-> "main", held |-> {}, checked |-> TRUE, stats |-> NoStats]

SumOf(numbers) == SumFunction(numbers)
Squares(numbers) == [i \in DOMAIN numbers |-> numbers[i] * numbers[i]]
Values(cells) == [i \in DOMAIN cells |-> cells[i].value]
OfType(types, cells) == Chosen({c \in Range(cells) : c.type \in types}, cells)
Of(types) == OfType(types, job.column)
Present == Of({"integer", "real", "text"})

Fraction(n, d) == IF d = 0 THEN <<0, 1>> ELSE <<n, d>>
Rounded == <<0, 0>>

\* The sums of the numbers and of their squares, and their products, are exact.
Exact(numbers) == Len(numbers) * SumOf(Squares(numbers)) <= MAX_EXACT

\* The statistics of a sample.
Sample(numbers) ==
    LET n == Len(numbers)
        s == SumOf(numbers)
    IN [avg |-> Fraction(s, n), max |-> Fraction(Max(Range(numbers)), 1),
        min |-> Fraction(Min(Range(numbers)), 1), sum |-> Fraction(s, 1),
        var |-> Fraction(n * SumOf(Squares(numbers)) - s * s, n * (n - 1))]

\* The aggregates of both databases: no more than their result is rounded
\* while the sums are exact.
Aggregates(numbers) ==
    IF Exact(numbers) THEN Sample(numbers)
    ELSE [Sample(numbers) EXCEPT !.avg = Rounded, !.sum = Rounded, !.var = Rounded]

-----------------------------------------------------------------------------
(* process_sqlite *)

AllIntegers(cells) == \A c \in Range(cells) : c.type = "integer"

\* (slip) The sum of the squares is divided by n.
sqlite_variance_Population(cells) ==
    LET v == Values(cells)
        n == Len(v)
        s == SumOf(v)
    IN IF n = 1 THEN <<0, 1>> ELSE <<n * SumOf(Squares(v)) - s * s, n * n>>

\* "/" of two integers is an integer in SQL; of other numbers it is rounded,
\* when it is not exact, before the difference is taken.  A division by zero is
\* NULL, which sqlite3_column_double returns as 0.
sqlite_variance(cells) ==
    LET v == Values(cells)
        n == Len(v)
        s == SumOf(v)
        squares == SumOf(Squares(v))
    IN CASE n = 1 -> <<0, 1>>
         [] n > 1 /\ ~Exact(v) -> Rounded
         [] n > 1 /\ Exact(v) /\ AllIntegers(cells) ->
                <<(squares - ((s * s) \div n)) \div (n - 1), 1>>
         [] OTHER -> IF (s * s) % n = 0 THEN <<n * squares - s * s, n * (n - 1)>> ELSE Rounded

\* A text counts as 0 in the sums; it is above all numbers and read as 0.
sqlite_stats(cells) ==
    LET numbers == OfType({"integer", "real"}, cells)
        texts == Len(numbers) < Len(cells)
    IN [Aggregates(Values(cells)) EXCEPT
            !.var = sqlite_variance(cells),
            !.max = IF texts THEN <<0, 1>> ELSE @,
            !.min = IF numbers = <<>> THEN <<0, 1>> ELSE <<Min(Range(Values(numbers))), 1>>]

At(db, place) == status = "running" /\ job.db = db /\ work.at = place
Goto(place, held) == work' = [work EXCEPT !.at = place, !.held = held] /\ UNCHANGED <<job, status>>
Leave(result) == work' = [work EXCEPT !.at = "exit"] /\ status' = result /\ UNCHANGED job

\* The handle is there also when opening fails.
sqlite3_open ==
    /\ At("sqlite", "open")
    /\ status' \in {"running", "failed"}
    /\ work' = [work EXCEPT !.at = IF status' = "failed" THEN "exit" ELSE "check", !.held = {"db"}]
    /\ UNCHANGED job

FirstIsText == IF job.column = <<>> THEN FALSE ELSE job.column[1].type = "text"

\* The type of the first row is looked at; when sqlite3_step fails nothing is.
CheckType ==
    /\ At("sqlite", "check")
    /\ \/ Leave("failed")
       \/ /\ FirstIsText
          /\ work' = [work EXCEPT !.at = "exit", !.held = @ \cup {"statement"}]
          /\ status' = "failed"
          /\ UNCHANGED job
       \/ ~FirstIsText /\ Goto("query", work.held)
       \/ /\ work' = [work EXCEPT !.at = "query", !.checked = FALSE]
          /\ UNCHANGED <<job, status>>

PrepareQuery ==
    /\ At("sqlite", "query")
    /\ Leave("failed") \/ Goto("step", work.held \cup {"statement"})

StepQuery ==
    /\ At("sqlite", "step")
    /\ \/ Leave("failed")
       \/ /\ Present # <<>>
          /\ work' = [work EXCEPT !.at = "exit", !.stats = sqlite_stats(Present)]
          /\ status' = "done"
          /\ UNCHANGED job

sqlite_exit ==
    /\ job.db = "sqlite"
    /\ \/ /\ work.at = "exit"
          /\ work' = [work EXCEPT !.at = "close", !.held = @ \ {"statement"}]
       \/ /\ work.at = "close"
          /\ work' = [work EXCEPT !.at = "return", !.held = @ \ {"db"}]
    /\ UNCHANGED <<job, status>>

-----------------------------------------------------------------------------
(* process_postgres *)

PQconnectdb ==
    /\ At("postgres", "open")
    /\ status' \in {"running", "failed"}
    /\ work' = [work EXCEPT !.at = IF status' = "failed" THEN "exit" ELSE "exec", !.held = {"conn"}]
    /\ UNCHANGED job

\* A text that is no number fails the cast, and with it the query.
PQexec ==
    /\ At("postgres", "exec")
    /\ \/ Leave("failed")
       \/ /\ work' = [work EXCEPT !.at = "clear", !.held = @ \cup {"result"}]
          /\ status' = "failed"
          /\ UNCHANGED job
       \/ /\ Of({"text"}) = <<>>
          /\ Goto("tuples", work.held \cup {"result"})

\* With no data the code goes to exit, past PQclear.
PQgetvalue ==
    /\ At("postgres", "tuples")
    /\ \/ Present = <<>> /\ Leave("failed")
       \/ /\ Present # <<>>
          /\ work' = [work EXCEPT !.at = "clear", !.stats = Aggregates(Values(Present))]
          /\ status' = "done"
          /\ UNCHANGED job

postgres_exit ==
    /\ job.db = "postgres"
    /\ \/ /\ work.at = "clear"
          /\ work' = [work EXCEPT !.at = "exit", !.held = @ \ {"result"}]
       \/ /\ work.at = "exit"
          /\ work' = [work EXCEPT !.at = "return", !.held = @ \ {"conn"}]
    /\ UNCHANGED <<job, status>>

-----------------------------------------------------------------------------
\* main: is_valid_identifier of the names, then the function of the database.
main ==
    /\ status = "running" /\ work.at = "main"
    /\ IF job.name /\ job.db \in {"sqlite", "postgres"} THEN Goto("open", {})
       ELSE work' = [work EXCEPT !.at = "return"] /\ status' = "failed" /\ UNCHANGED job

Next ==
    /\ job.program = "column"
    /\ \/ main \/ sqlite3_open \/ CheckType \/ PrepareQuery \/ StepQuery \/ sqlite_exit
       \/ PQconnectdb \/ PQexec \/ PQgetvalue \/ postgres_exit

-----------------------------------------------------------------------------
\* Nothing is said of a number that was rounded on the way.
Equal(f, g) == f = Rounded \/ f[1] * g[2] = g[1] * f[2]

(* The five numbers printed are those of the numbers in the column, NULL    *)
(* left out; a column with a text in it, or without a number, is refused    *)
(* (when the check of the type does not fail itself).                       *)
StatsAsPromised ==
    status = "done" /\ work.checked =>
        LET truth == Sample(Values(Present))
        IN /\ Of({"text"}) = <<>> /\ Present # <<>>
           /\ \A field \in DOMAIN truth : Equal(work.stats[field], truth[field])

(* The same, but for the two columns of SQLite the code does not provide    *)
(* for: one with a text behind its first row, and one of several integers   *)
(* and no other number, whose variance is computed with integers.           *)
StatsRight ==
    (job.db = "sqlite" =>
        /\ Of({"text"}) = <<>> \/ FirstIsText
        /\ ~AllIntegers(Present) \/ Len(Present) <= 1)
    => StatsAsPromised

(* The handles are given back before the program ends, a statement of SQLite *)
(* before its database, which could not be closed with it.  One is not: a    *)
(* query of PostgreSQL that finds no number leaves its result behind.        *)
ColumnReleased ==
    job.program = "column" =>
        /\ "statement" \in work.held => "db" \in work.held
        /\ work.at = "return" =>
             \/ work.held = {}
             \/ work.held = {"result"} /\ job.db = "postgres" /\ status = "failed" /\ Present = <<>>
=============================================================================
