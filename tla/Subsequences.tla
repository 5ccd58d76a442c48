---------------------------- MODULE Subsequences ----------------------------
(***************************************************************************)
(* What SelectSeq does for a test, for a set: the elements of a sequence   *)
(* that are in it, in their order, computed by a recursive function.       *)
(***************************************************************************)
EXTENDS Integers, Sequences

Chosen(S, s) ==
    LET front[n \in 0..Len(s)] ==
          IF n = 0 THEN <<>>
          ELSE IF s[n] \in S THEN Append(front[n - 1], s[n]) ELSE front[n - 1]
    IN front[Len(s)]
=============================================================================
