----------------------------- MODULE GameAppMC -----------------------------
(* Small instance of GameApp: a board of 2 x 2, a table of two rows.        *)
EXTENDS GameApp

\* A full table, and what a kill left of one.
Good == [name |-> <<"A">>, score |-> 8]
Poor == [name |-> <<"A">>, score |-> 4]
Files == {NoFile, <<Good, Poor>>, <<Poor>>}

\* States that differ only in a board or a dialogue that is never shown again
\* are one: init_game and the end of a game set all of it anew.
Shown ==
    <<state, menu_sel, records, starts,
      IF state \in {"game", "name"} THEN game ELSE <<>>,
      IF state = "name" THEN dialogue ELSE <<>>>>

\* process_line makes of lines of four what the rule of the game says.
Four == INSTANCE Game2048 WITH GRID_SIZE <- 4

ASSUME LinesFollowTheRule ==
    \A line \in [1..4 -> {0, 2, 4, 8}] :
       LET result == Four!process_line(line, "both")
           tiles  == Four!Rule(SelectSeq(line, LAMBDA v : v # 0))
       IN /\ result.line = [k \in 1..4 |-> IF k <= Len(tiles) THEN tiles[k] ELSE 0]
          /\ result.changed <=> result.line # line
=============================================================================
