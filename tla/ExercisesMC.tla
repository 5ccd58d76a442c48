----------------------------- MODULE ExercisesMC -----------------------------
(***************************************************************************)
(* Small inputs of the small programs: every byte of every charset, trees  *)
(* of up to five entries with names that differ in case or sort before     *)
(* Slash, archives of two members, columns of three cells.                 *)
(***************************************************************************)
EXTENDS Exercises

UpTo(n, S) == UNION {[1..k -> S] : k \in 0..n}

EncodingJobs ==
    [program : {"encoding"}, charset : {"CP-1251", "KOI8-R", "ISO-8859-5", "UTF-16"},
     text : {<<b>> : b \in 0..255} \cup UpTo(3, {\h41, \h98, \hC9, \hE9})]

\* The characters of file names: ! / a A b.
MCSlash == 2
MCFold(c) == IF c = 4 THEN 3 ELSE c
Base == <<2, 5>>
Entry(path, dir) == [path |-> Base \o path, dir |-> dir]
Entries == {
    Entry(<<2, 3>>, TRUE), Entry(<<2, 4>>, TRUE), Entry(<<2, 3, 1>>, TRUE), Entry(<<2, 5>>, FALSE),
    Entry(<<2, 3, 2, 5>>, FALSE), Entry(<<2, 3, 2, 4>>, TRUE), Entry(<<2, 3, 2, 4, 2, 3>>, FALSE),
    Entry(<<2, 4, 2, 3>>, FALSE), Entry(<<2, 3, 1, 2, 3>>, FALSE)}
Trees == {T \in SUBSET Entries :
    /\ Cardinality(T) \in 1..5
    /\ \A e \in T : FileTree!Parent(e.path) \in {Base} \cup {d.path : d \in {f \in T : f.dir}}}
ExplorerJobs == [program : {"explorer"}, base : {Base}, entries : Trees]

Members == [name : {"n1", "n2"}, len : {2}, extra : 0..1, comment : 0..1]
           \cup [name : {"n3"}, len : {0, 255, 256}, extra : {0}, comment : {0}]
Other == ArchiveSearch!Rarjpeg(<<>>, <<[name |-> "other", len |-> 5, extra |-> 0, comment |-> 0]>>, 0)
RarjpegJobs ==
    {[program |-> "rarjpeg", members |-> m, archive |-> TRUE,
      file |-> ArchiveSearch!Rarjpeg(picture, m, comment)] :
        picture \in {<<>>, ArchiveSearch!Noise(2), Other}, m \in UpTo(2, Members), comment \in 0..3}
    \cup
    {[program |-> "rarjpeg", members |-> <<>>, archive |-> FALSE, file |-> f] :
        f \in {ArchiveSearch!Noise(n) : n \in 0..5} \cup
              {ArchiveSearch!Noise(n) \o <<ArchiveSearch!Cell("EOCDR_SIGNATURE")>> : n \in 0..2}}

CellOf(type, value) == [type |-> type, value |-> value]
ColumnJobs(db, columns) ==
    [program : {"column"}, db : {db}, name : BOOLEAN, column : columns]
Text == CellOf("text", 0)
Reals == {CellOf("null", 0), CellOf("real", 1), CellOf("real", 3), CellOf("real", -2)}
Cells == Reals \cup {CellOf("integer", 2), Text}
AllColumnJobs ==
    ColumnJobs("sqlite", UpTo(2, Cells) \cup UpTo(3, Reals))
    \cup ColumnJobs("postgres", UpTo(3, {CellOf("null", 0), CellOf("integer", 1),
                                         CellOf("real", 4), Text}))
    \cup ColumnJobs("mysql", {<<>>})

Answer == <<"e", "CRLF", "y", "CRLF", "z">>
FigletJobs ==
    [program : {"figlet"}, addresses : 1..2, banner : UpTo(2, {"x", "CRLF"}) \cup {<<"x", "x", "CRLF", "x", "x">>},
     answer : {SubSeq(Answer, 1, n) : n \in 0..5} \cup {SubSeq(Answer, 2, 5)}, closes : BOOLEAN]

\* Documents with one field or one section that is not as usual.
Usual == [f \in Weather!Current \cup Weather!Today |-> "short"]
WeatherJobs ==
    [program : {"weather"}, size : 0..3, json : BOOLEAN,
     sections : {Weather!Sections} \cup {Weather!Sections \ {s} : s \in Weather!Sections},
     fields : {[Usual EXCEPT ![f] = v] : f \in DOMAIN Usual, v \in {"short", "long", "absent", "number"}}]

MCJobs ==
    [program : Unwinding!Programs] \cup EncodingJobs \cup ExplorerJobs \cup RarjpegJobs
    \cup AllColumnJobs \cup FigletJobs \cup WeatherJobs
    \cup [program : {"list", "list_ref"}, data : UpTo(4, {4, 15, 23}) \ {<<>>}]

\* A column of integers, of which one is missing.
IntegerJobs ==
    ColumnJobs("sqlite", UpTo(3, {CellOf("null", 0), CellOf("integer", 1), CellOf("integer", 2)}))
=============================================================================
