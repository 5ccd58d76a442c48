------------------------------ MODULE GameApp ------------------------------
(***************************************************************************)
(* hw17_game/main.c: the screens of the 2048 game and what the keys do on  *)
(* each.  The drawing is left out, and with it redraw and blink_on.        *)
(***************************************************************************)
EXTENDS Game2048, Records

CONSTANTS
    MAX_NAME_LEN,   \* bytes of name_buf
    Letters,        \* what may be typed, the space included
    NUL,
    OldFiles,       \* what records.dat may hold at the first start
    MaxScore,       \* bound: no move beyond this score
    MaxStarts       \* bound: starts of the program and of games

ASSUME NameAssumption ==
    MAX_NAME_LEN \in Nat \ {0, 1} /\ NUL \notin Letters /\ MaxScore \in Nat

\* The file is one that this program has written: the table, or its first rows.
Stored(content) ==
    /\ content \in Seq({content[k] : k \in DOMAIN content}) /\ Len(content) <= MAX_RECORDS
    /\ \A k \in 1..Len(content) : content[k].score \in Nat
    /\ \A j, k \in 1..Len(content) : j < k => content[j].score >= content[k].score

ASSUME FilesAssumption == \A content \in OldFiles : content = NoFile \/ Stored(content)

VARIABLES
    state,          \* AppState; "off" while the program does not run
    menu_sel,
    board, score,   \* Game
    final_score, name_buf, name_pos,
    leaders,
    file,           \* records.dat
    fours,          \* how many tiles of 4 the game was given
    spawned,        \* the sum of the tiles it was given
    starved,        \* whether an allocation failed in it
    given,          \* the scores entered since the records were loaded
    loaded,         \* the records that were loaded
    starts

game == <<board, score, fours, spawned, starved>>
dialogue == <<final_score, name_buf, name_pos>>
records == <<leaders, file, given, loaded>>
vars == <<state, menu_sel, game, dialogue, records, starts>>

NameBytes == 0..MAX_NAME_LEN - 1
NoTiles == [cell \in Cells |-> 0]
NoName == [k \in NameBytes |-> NUL]

\* A zeroed GameState.
NoRecords == [k \in Rows |-> Zeroed]

Init ==
    /\ state = "off" /\ menu_sel = 0 /\ board = NoTiles /\ score = 0
    /\ fours = 0 /\ spawned = 0 /\ starved = FALSE
    /\ final_score = 0 /\ name_buf = NoName /\ name_pos = 0
    /\ leaders = NoRecords /\ loaded = NoRecords /\ given = <<>>
    /\ file \in OldFiles /\ starts = 0

Launch ==
    /\ state = "off" /\ starts < MaxStarts /\ starts' = starts + 1
    /\ state' = "menu"
    /\ leaders' = load_records(file) /\ loaded' = leaders'
    /\ UNCHANGED <<menu_sel, game, dialogue, file, given>>

\* The program ends and its memory is lost.
Ended ==
    /\ state' = "off" /\ menu_sel' = 0 /\ board' = NoTiles /\ score' = 0
    /\ fours' = 0 /\ spawned' = 0 /\ starved' = FALSE
    /\ final_score' = 0 /\ name_buf' = NoName /\ name_pos' = 0
    /\ leaders' = NoRecords /\ loaded' = NoRecords /\ given' = <<>>

\* The window is closed.
Quit == state # "off" /\ Ended /\ UNCHANGED <<file, starts>>

Escape ==
    /\ state # "off" /\ state' = "menu"
    /\ UNCHANGED <<menu_sel, game, dialogue, records, starts>>

(***************************************************************************)
(* handle_menu_event.                                                      *)
(***************************************************************************)
MenuMove ==
    /\ state = "menu" /\ \E step \in {1, 2} : menu_sel' = (menu_sel + step) % 3
    /\ UNCHANGED <<state, game, dialogue, records, starts>>

\* init_game: a cleared board and two tiles.
init_game ==
    \E one \in WithTile(NoTiles) : \E two \in WithTile(one) :
       /\ board' = two /\ score' = 0 /\ starved' = FALSE
       /\ fours' = Cardinality({cell \in Cells : two[cell] = 4})
       /\ spawned' = Summed(two)

MenuEnter ==
    /\ state = "menu"
    /\ \/ /\ menu_sel = 0 /\ state' = "game" /\ init_game
          /\ starts < MaxStarts /\ starts' = starts + 1
          /\ UNCHANGED <<menu_sel, dialogue, records>>
       \/ /\ menu_sel = 1 /\ state' = "tops"
          /\ UNCHANGED <<menu_sel, game, dialogue, records, starts>>
       \/ menu_sel = 2 /\ Quit

(***************************************************************************)
(* handle_game_event.                                                      *)
(***************************************************************************)
\* After a move that changed something: a new tile and, when no move is left,
\* the dialogue.
NewTile(moved) ==
    /\ \E cell \in Empty(moved), v \in {2, 4} :
          /\ board' = [moved EXCEPT ![cell] = v]
          /\ spawned' = spawned + v /\ fours' = IF v = 4 THEN fours + 1 ELSE fours
    /\ IF can_move(board') THEN UNCHANGED <<state, dialogue>>
       ELSE /\ state' = "name" /\ final_score' = score'
            /\ name_buf' = NoName /\ name_pos' = 0

Arrow(dir) ==
    /\ state = "game"
    /\ \E memory \in [Lane -> Memory] :
          LET moved == move(board, dir, memory) IN
          /\ score' = score + moved.gained /\ score' <= MaxScore
          /\ starved' = (starved \/ \E n \in Lane : memory[n] # "both")
          /\ \/ moved.changed /\ NewTile(moved.board)
             \/ ~moved.changed /\ UNCHANGED <<state, board, fours, spawned, dialogue>>
    /\ UNCHANGED <<menu_sel, records, starts>>

(***************************************************************************)
(* handle_name_input_event.                                                *)
(***************************************************************************)
\* The C string that buf holds.
Text(buf) ==
    LET ends == {k \in NameBytes : buf[k] = NUL}
        n    == CHOOSE k \in ends : \A j \in ends : k <= j
    IN [k \in 1..n |-> buf[k - 1]]

\* Tables that fopen, fwrite and fclose may leave in the file.
Saved(list) ==
    {file, list} \cup {SubSeq(list, 1, n) : n \in 0..MAX_RECORDS}

\* (slip) Typing goes on to the end of the buffer.
NameRoom_OffByOne == name_pos < MAX_NAME_LEN

NameRoom == name_pos < MAX_NAME_LEN - 2

\* Enter: the record is added and the table saved.  The file may not be
\* writable, and the program may be killed before all of it was written.
NameEnter ==
    LET name == IF name_buf[0] = NUL THEN <<"P", "l", "a", "y", "e", "r">>
                ELSE Text(name_buf)
        list == add_record(leaders, name, final_score)
    IN /\ state = "name" /\ file' \in Saved(list)
       /\ \/ /\ state' = "tops" /\ leaders' = list
             /\ given' = Append(given, final_score)
             /\ UNCHANGED <<menu_sel, game, dialogue, loaded>>
          \/ Ended
       /\ UNCHANGED starts

CursorLeft ==
    /\ state = "name" /\ name_pos > 0 /\ name_pos' = name_pos - 1
    /\ UNCHANGED <<state, menu_sel, game, final_score, name_buf, records, starts>>

CursorRight ==
    /\ state = "name" /\ NameRoom /\ name_pos' = name_pos + 1
    /\ UNCHANGED <<state, menu_sel, game, final_score, name_buf, records, starts>>

Backspace ==
    /\ state = "name" /\ name_pos > 0 /\ name_pos' = name_pos - 1
    /\ name_buf' = [name_buf EXCEPT ![name_pos'] = NUL]
    /\ UNCHANGED <<state, menu_sel, game, final_score, records, starts>>

TypeLetter ==
    /\ state = "name" /\ NameRoom /\ name_pos' = name_pos + 1
    /\ \E ch \in Letters : name_buf' = [name_buf EXCEPT ![name_pos] = ch]
    /\ UNCHANGED <<state, menu_sel, game, final_score, records, starts>>

Next == \/ Launch \/ Quit \/ Escape \/ MenuMove \/ MenuEnter
        \/ \E dir \in Directions : Arrow(dir)
        \/ NameEnter \/ CursorLeft \/ CursorRight \/ Backspace \/ TypeLetter

Spec == Init /\ [][Next]_vars

(***************************************************************************)
(* Properties.                                                             *)
(***************************************************************************)
TypeOK ==
    /\ state \in {"off", "menu", "game", "tops", "name"} /\ menu_sel \in 0..2
    /\ board \in [Cells -> Nat] /\ score \in Nat /\ final_score \in Nat
    /\ DOMAIN name_buf = NameBytes /\ name_buf[MAX_NAME_LEN - 1] = NUL
    /\ name_pos \in NameBytes
    /\ \A k \in Rows : leaders[k].score \in Nat

\* What a tile and all tiles that were joined to make it have scored, had it
\* been made of twos.
Worth(v) ==
    LET worth[n \in 0..v] == IF n <= 2 THEN 0 ELSE 2 * worth[n \div 2] + n IN worth[v]

\* Moves neither lose nor make tiles: their sum is that of the tiles the game
\* has been given, also when an allocation fails in the middle of a move.
TilesConserved ==
    state \in {"game", "name"} => Summed(board) = spawned

\* The score is exactly what the tiles on the board took to be joined, unless
\* an allocation failed, which may add what was not joined but take nothing.
ScoreBalanced ==
    state \in {"game", "name"} =>
       LET due == Summed([c \in Cells |-> Worth(board[c])]) - 4 * fours IN
       IF starved THEN score >= due ELSE score = due

Alive(b) == \E dir \in Directions : move(b, dir, [n \in Lane |-> "both"]).changed

\* The player is never left on a board no key changes, and the game is not
\* called over while one does.
OverWhenStuck == /\ state = "game" => Alive(board)
                 /\ state = "name" => ~Alive(board)

AsGood(list, score_) == Cardinality({k \in DOMAIN list : list[k] >= score_})

\* README.md: the best results, in descending order.  The table holds the best
\* of what was loaded and what was entered since, whatever happened to the
\* file at earlier saves.
BestInOrder ==
    LET scores == [k \in Rows |-> leaders[k].score]
        old    == [k \in Rows |-> loaded[k].score]
    IN /\ \A j, k \in Rows : j < k => scores[j] >= scores[k]
       /\ \A v \in 1..MaxScore :
             AsGood(scores, v) = Min({MAX_RECORDS, AsGood(old, v) + AsGood(given, v)})
=============================================================================
