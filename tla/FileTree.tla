------------------------------ MODULE FileTree ------------------------------
(***************************************************************************)
(* The file explorer of hw6_1 (main.c): scan_dir lists a directory tree,   *)
(* fill_tree_store sorts the list and fills the rows of the view, each     *)
(* under the row of its directory.                                         *)
(*                                                                         *)
(* A path is a sequence of characters, small numbers in their order; Slash *)
(* is one of them, and fold of a letter is the letter in lower case.       *)
(***************************************************************************)
EXTENDS Integers, Sequences, FiniteSetsExt

CONSTANTS Slash, Fold(_)

VARIABLES
    job,    \* [program, base: the current directory, entries: the tree below it]
    work,   \* [open: the directories being read, the innermost last, list: file_list,
            \*  gone: what stat or opendir did not reach, rows: the rows of the view]
    status  \* "running": scan_dir; "filling": fill_tree_store; "done"

\* An entry of the tree: its path and whether it is a directory.
Slashes(path) == {i \in DOMAIN path : path[i] = Slash}
Parent(path) == IF Slashes(path) = {} THEN <<>> ELSE SubSeq(path, 1, Max(Slashes(path)) - 1)
Charset == {c \in Nat : Fold(c) \in Nat \ {0}}
IsInput(j) ==
    /\ j.program = "explorer"
    /\ j.base \in Seq(Charset) /\ IsFiniteSet(j.entries)
    /\ \A e \in j.entries :
        /\ e \in [path : Seq(Charset), dir : BOOLEAN]
        /\ \A f \in j.entries : f.path = e.path => f = e
        /\ \E d \in {j.base} \cup {f.path : f \in {g \in j.entries : g.dir}} :
            Parent(e.path) = d /\ Len(d) < Len(e.path)

In(directory) == {e \in job.entries : Parent(e.path) = directory}

Reading(directory) == [path |-> directory, left |-> In(directory)]
Start(base, entries) ==
    [open |-> <<[path |-> base, left |-> {e \in entries : Parent(e.path) = base}]>>,
     list |-> <<>>, gone |-> {}, rows |-> <<>>]

-----------------------------------------------------------------------------
(* scan_dir *)

Top == work.open[Len(work.open)]

\* readdir returns the entries in any order.
ReadEntry ==
    /\ status = "running" /\ work.open # <<>>
    /\ \E e \in Top.left :
        LET rest == [work.open EXCEPT ![Len(work.open)].left = @ \ {e}]
        IN work' = [work EXCEPT
                !.list = Append(@, e),
                !.open = IF e.dir THEN Append(rest, Reading(e.path)) ELSE rest]
    /\ UNCHANGED <<job, status>>

\* stat fails: the file is gone, or a link that leads nowhere.
StatFails ==
    /\ status = "running" /\ work.open # <<>>
    /\ \E e \in Top.left :
        work' = [work EXCEPT !.open[Len(work.open)].left = @ \ {e}, !.gone = @ \cup {e.path}]
    /\ UNCHANGED <<job, status>>

\* opendir fails, before anything of the directory is read.
OpenFails ==
    /\ status = "running" /\ work.open # <<>> /\ Top.left = In(Top.path) /\ Top.left # {}
    /\ work' = [work EXCEPT !.open = SubSeq(@, 1, Len(@) - 1),
                            !.gone = @ \cup {e.path : e \in Top.left}]
    /\ UNCHANGED <<job, status>>

CloseDirectory ==
    /\ status = "running" /\ work.open # <<>> /\ Top.left = {}
    /\ work' = [work EXCEPT !.open = SubSeq(@, 1, Len(@) - 1)]
    /\ UNCHANGED <<job, status>>

-----------------------------------------------------------------------------
(* fill_tree_store *)

CharAt(path, i) == IF i \in DOMAIN path THEN Fold(path[i]) ELSE 0

\* g_ascii_strncasecmp of as many characters as the first path has.
PathOrder(a, b) ==
    LET differ == {i \in DOMAIN a : CharAt(a, i) # CharAt(b, i)}
        first == CHOOSE i \in differ : \A j \in differ : i <= j
    IN IF differ = {} THEN 0 ELSE CharAt(a, first) - CharAt(b, first)

Flag(b) == IF b THEN 1 ELSE 0

\* (slip) The arguments of the subtraction are exchanged: files come first.
sort_files_FilesFirst(a, b) ==
    IF a.dir # b.dir THEN Flag(a.dir) - Flag(b.dir) ELSE PathOrder(a.path, b.path)

sort_files(a, b) ==
    IF a.dir # b.dir THEN Flag(b.dir) - Flag(a.dir) ELSE PathOrder(a.path, b.path)

\* g_list_sort is stable: of two elements the first stays in front unless it follows.
Precedes(list, i, j) ==
    IF i < j THEN sort_files(list[i], list[j]) <= 0 ELSE sort_files(list[j], list[i]) > 0
Before(list, j) == {i \in DOMAIN list \ {j} : Precedes(list, i, j)}
Sorted(list) ==
    LET rank == [j \in DOMAIN list |-> Cardinality(Before(list, j))]
    IN [k \in DOMAIN list |-> list[CHOOSE j \in DOMAIN list : rank[j] = k - 1]]

StartFilling ==
    /\ status = "running" /\ work.open = <<>>
    /\ work' = [work EXCEPT !.list = Sorted(@)]
    /\ status' = "filling"
    /\ UNCHANGED job

NoRow == 0
\* path_hash: the row of a path that was added before.
RowOf(path) ==
    LET rows == {i \in DOMAIN work.rows : work.rows[i].path = path}
    IN IF rows = {} THEN NoRow ELSE CHOOSE i \in rows : TRUE

AddRow ==
    /\ status = "filling" /\ work.list # <<>>
    /\ LET e == Head(work.list)
           parent == IF Parent(e.path) = job.base THEN NoRow ELSE RowOf(Parent(e.path))
       IN work' = [work EXCEPT
                !.list = Tail(@),
                !.rows = Append(@, [path |-> e.path, dir |-> e.dir, parent |-> parent])]
    /\ UNCHANGED <<job, status>>

Filled ==
    /\ status = "filling" /\ work.list = <<>>
    /\ status' = "done"
    /\ UNCHANGED <<job, work>>

Next ==
    /\ job.program = "explorer"
    /\ \/ ReadEntry \/ StatFails \/ OpenFails \/ CloseDirectory
       \/ StartFilling \/ AddRow \/ Filled

-----------------------------------------------------------------------------
\* The entries that can be reached: neither they nor a directory above is gone.
Above(path) == {SubSeq(path, 1, n) :
                n \in {Len(path)} \cup {i - 1 : i \in Slashes(path)}}
Reached == {e \in job.entries : Above(e.path) \cap work.gone = {}}

(* The view mirrors the directory: one row for each entry that was reached, *)
(* under the row of its own directory and never at the top by mistake, and  *)
(* below each directory its directories before its files.                   *)
ViewMirrorsDirectory ==
    status = "done" =>
        /\ {r.path : r \in Range(work.rows)} = {e.path : e \in Reached}
        /\ Len(work.rows) = Cardinality(Reached)
        /\ \A i \in DOMAIN work.rows :
            LET r == work.rows[i]
            IN IF Parent(r.path) = job.base THEN r.parent = NoRow
               ELSE r.parent # NoRow /\ work.rows[r.parent].path = Parent(r.path)
        /\ \A i, j \in DOMAIN work.rows :
            i < j /\ work.rows[i].parent = work.rows[j].parent =>
                ~(work.rows[j].dir /\ ~work.rows[i].dir)
=============================================================================
