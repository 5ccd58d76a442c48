------------------------------ MODULE Records ------------------------------
(***************************************************************************)
(* hw17_game/records.c: the table of the best results and its file.        *)
(***************************************************************************)
EXTENDS Integers, Sequences

CONSTANTS MAX_RECORDS, NoFile

ASSUME RecordsAssumption == MAX_RECORDS \in Nat \ {0}

Rows == 1..MAX_RECORDS

\* A row of the zeroed GameState, and one of a table without a file.
Zeroed == [name |-> <<>>, score |-> 0]
Dashes == [name |-> <<"-", "-", "-">>, score |-> 0]

\* What load_records makes of a file: none, or the records that are in it.
load_records(content) ==
    [k \in Rows |-> IF content = NoFile THEN Dashes
                    ELSE IF k <= Len(content) THEN content[k] ELSE Zeroed]

\* (slip) The row is overwritten.
Inserted_Over(list, at, record) == [list EXCEPT ![at] = record]

Inserted(list, at, record) ==
    [k \in Rows |-> IF k < at THEN list[k] ELSE IF k = at THEN record ELSE list[k - 1]]

\* Below the rows that are as good; not at all below the last.
add_record(list, name, score) ==
    LET worse == {k \in Rows : score > list[k].score} IN
    IF worse = {} THEN list
    ELSE Inserted(list, CHOOSE k \in worse : \A j \in worse : k <= j,
                  [name |-> name, score |-> score])
=============================================================================
