---------------------------- MODULE ListPrograms ----------------------------
(***************************************************************************)
(* The two programs of hw3 (main.c, "list", and main_ref.c, "list_ref"):   *)
(* the data become a list, the list is printed, its odd values become a    *)
(* second list that is printed too, and main_ref.c frees both.             *)
(***************************************************************************)
EXTENDS Integers, Sequences, Subsequences

VARIABLES
    job,    \* [program, data: the numbers]
    work,   \* [heap: the nodes, in the order of malloc, left: data still to add,
            \*  list, new_list, cursor: nodes, out: what is printed]
    status  \* the part of main that runs; "aborted" or "done"

IsInput(j) == j \in [program : {"list", "list_ref"}, data : Seq(Nat)]

NULL == 0
Start(data) == [heap |-> <<>>, left |-> data, list |-> NULL, new_list |-> NULL,
                cursor |-> NULL, out |-> <<>>]

Node(n) == work.heap[n]
is_odd(x) == x % 2 = 1

\* malloc, or abort when it fails.
add_element(n, v) ==
    Append(work.heap, [value |-> v, next |-> n, live |-> TRUE])
Newest == Len(work.heap) + 1

Abort ==
    /\ status \in {"build", "filter"}
    /\ status = "build" => work.left # <<>>
    /\ status = "filter" => work.cursor # NULL /\ is_odd(Node(work.cursor).value)
    /\ status' = "aborted"
    /\ UNCHANGED <<job, work>>

\* (slip) The data are added from the first on.
Build_Forward ==
    /\ status = "build" /\ work.left # <<>>
    /\ work' = [work EXCEPT !.heap = add_element(work.list, Head(work.left)),
                            !.list = Newest, !.left = Tail(@)]
    /\ UNCHANGED <<job, status>>

Build ==
    /\ status = "build" /\ work.left # <<>>
    /\ work' = [work EXCEPT !.heap = add_element(work.list, work.left[Len(work.left)]),
                            !.list = Newest, !.left = SubSeq(@, 1, Len(@) - 1)]
    /\ UNCHANGED <<job, status>>

Go(part, cursor) == work' = [work EXCEPT !.cursor = cursor] /\ status' = part /\ UNCHANGED job

Built == status = "build" /\ work.left = <<>> /\ Go("print", work.list)

\* m and map: the list from cursor on.
map ==
    /\ status \in {"print", "print_new"} /\ work.cursor # NULL
    /\ work' = [work EXCEPT !.out = Append(@, Node(work.cursor).value),
                            !.cursor = Node(@).next]
    /\ UNCHANGED <<job, status>>

NewLine ==
    /\ status \in {"print", "print_new"} /\ work.cursor = NULL
    /\ LET first == status = "print"
       IN /\ work' = [work EXCEPT !.out = Append(@, "\n"), !.cursor = work.list]
          /\ status' = CASE first -> "filter"
                         [] ~first /\ job.program = "list" -> "done"
                         [] ~first /\ job.program = "list_ref" -> "clear"
    /\ UNCHANGED job

\* f and filter put each odd value in front of those found before.
Filter ==
    /\ status = "filter" /\ work.cursor # NULL
    /\ LET node == Node(work.cursor)
       IN work' = IF is_odd(node.value)
                  THEN [work EXCEPT !.heap = add_element(work.new_list, node.value),
                                    !.new_list = Newest, !.cursor = node.next]
                  ELSE [work EXCEPT !.cursor = node.next]
    /\ UNCHANGED <<job, status>>

Filtered == status = "filter" /\ work.cursor = NULL /\ Go("print_new", work.new_list)

\* clear: the next node is read before the node is freed.
Clear ==
    /\ status \in {"clear", "clear_new"} /\ work.cursor # NULL
    /\ work' = [work EXCEPT !.heap[work.cursor].live = FALSE, !.cursor = Node(@).next]
    /\ UNCHANGED <<job, status>>

Cleared ==
    /\ status \in {"clear", "clear_new"} /\ work.cursor = NULL
    /\ IF status = "clear" THEN Go("clear_new", work.new_list) ELSE Go("done", NULL)

Next ==
    /\ job.program \in {"list", "list_ref"}
    /\ \/ Abort \/ Build \/ Built \/ map \/ NewLine \/ Filter \/ Filtered \/ Clear \/ Cleared

-----------------------------------------------------------------------------
Odd == Chosen({x \in Nat : is_odd(x)}, job.data)

(* The output is the data, and on the next line the odd numbers in reverse; *)
(* a program that aborts has printed the beginning of that.                 *)
ListsPrinted ==
    LET reversed == [i \in DOMAIN Odd |-> Odd[Len(Odd) - i + 1]]
        whole == job.data \o <<"\n">> \o reversed \o <<"\n">>
    IN /\ \E n \in 0..Len(whole) : work.out = SubSeq(whole, 1, n)
       /\ status \in {"done", "clear"} => work.out = whole

(* No node is touched after it was freed, and main_ref.c frees them all.    *)
NodesFreed ==
    /\ work.cursor # NULL => Node(work.cursor).live
    /\ status = "done" /\ job.program = "list_ref" => \A n \in DOMAIN work.heap : ~Node(n).live
=============================================================================
