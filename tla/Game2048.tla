------------------------------ MODULE Game2048 ------------------------------
(***************************************************************************)
(* hw17_game/game_logic.c: what a move makes of the board, as functions.   *)
(* A board is a function from <<row, column>>.                             *)
(***************************************************************************)
EXTENDS Integers, Sequences, FiniteSets, FiniteSetsExt

CONSTANT GRID_SIZE

ASSUME GridAssumption == GRID_SIZE \in Nat \ {0, 1}

Lane == 1..GRID_SIZE
Cells == Lane \X Lane

Summed(f) == MapThenSumSet(LAMBDA x : f[x], DOMAIN f)

\* (slip) Taken or not.
Empty_Any(board) == Cells

Empty(board) == {cell \in Cells : board[cell] = 0}

\* The tiles of a line in their order: the loop that skips what is empty.
Tiles(line) ==
    LET front[n \in 0..GRID_SIZE] ==
          IF n = 0 THEN <<>>
          ELSE IF line[n] = 0 THEN front[n - 1] ELSE Append(front[n - 1], line[n])
    IN front[GRID_SIZE]

\* The tiles of a line at its front.
Padded(tiles) == [k \in Lane |-> IF k <= Len(tiles) THEN tiles[k] ELSE 0]
Shifted(line) == Padded(Tiles(line))

\* Tiles k and k + 1 made one.
Join(temp, k) ==
    [j \in Lane |-> IF j = k THEN 2 * temp[k] ELSE IF j = k + 1 THEN 0 ELSE temp[j]]

\* (slip) The score gets one of the two tiles.
Gain_One(v) == v

\* What the score gets for two tiles v.
Gain(v) == 2 * v

\* The loop that joins equal neighbours, and what it adds to the score.
Joined(line) ==
    LET after[k \in 0..GRID_SIZE - 1] ==
          IF k = 0 THEN [temp |-> line, gained |-> 0]
          ELSE LET before == after[k - 1]
                   temp   == before.temp
               IN IF temp[k] # 0 /\ temp[k] = temp[k + 1]
                  THEN [temp |-> Join(temp, k), gained |-> before.gained + Gain(temp[k])]
                  ELSE before
    IN after[GRID_SIZE - 1]

\* memory says which of the two allocations fails, if any.  The score is added
\* to before the second one.
process_line(line, memory) ==
    LET joined == Joined(Shifted(line))
        final  == Shifted(joined.temp)
    IN CASE memory = "none"  -> [line |-> line, gained |-> 0, changed |-> FALSE]
         [] memory = "first" -> [line |-> line, gained |-> joined.gained, changed |-> FALSE]
         [] memory = "both"  -> [line |-> final, gained |-> joined.gained,
                                 changed |-> line # final]

(* The rule of the game for a line, as it is told: from the front, two      *)
(* equal tiles that meet become one, and a tile is joined once only.       *)
Rule(tiles) ==
    LET rule[n \in 0..Len(tiles)] ==   \* of the last n tiles
          LET first == Len(tiles) - n + 1 IN
          IF n = 0 THEN <<>>
          ELSE IF n > 1 /\ tiles[first] = tiles[first + 1]
               THEN <<2 * tiles[first]>> \o rule[n - 2]
               ELSE <<tiles[first]>> \o rule[n - 1]
    IN rule[Len(tiles)]

Memory == {"none", "first", "both"}
Directions == {"up", "down", "left", "right"}

\* The k-th cell of line n in the order process_line gets them.
Cell(dir, n, k) ==
    CASE dir = "up"    -> <<k, n>>
      [] dir = "down"  -> <<GRID_SIZE + 1 - k, n>>
      [] dir = "left"  -> <<n, k>>
      [] dir = "right" -> <<n, GRID_SIZE + 1 - k>>

\* move_up, move_down, move_left and move_right.
move(board, dir, memory) ==
    LET done == [n \in Lane |->
                   process_line([k \in Lane |-> board[Cell(dir, n, k)]], memory[n])]
        at(cell) == CHOOSE p \in Cells : Cell(dir, p[1], p[2]) = cell
    IN [board   |-> [cell \in Cells |-> done[at(cell)[1]].line[at(cell)[2]]],
        gained  |-> Summed([n \in Lane |-> done[n].gained]),
        changed |-> \E n \in Lane : done[n].changed]

\* The boards add_random_tile may leave.
WithTile(board) ==
    IF Empty(board) = {} THEN {board}
    ELSE {[board EXCEPT ![cell] = v] : cell \in Empty(board), v \in {2, 4}}

\* (slip) Only neighbours in a row are looked at.
can_move_Rows(board) ==
    \E r, c \in Lane :
       \/ board[<<r, c>>] = 0
       \/ c < GRID_SIZE /\ board[<<r, c>>] = board[<<r, c + 1>>]

can_move(board) ==
    \E r, c \in Lane :
       \/ board[<<r, c>>] = 0
       \/ c < GRID_SIZE /\ board[<<r, c>>] = board[<<r, c + 1>>]
       \/ r < GRID_SIZE /\ board[<<r, c>>] = board[<<r + 1, c>>]
=============================================================================
