------------------------------ MODULE MCBoard -------------------------------
(***************************************************************************)
(* Every pattern of blocks on a small board and, from each, every sequence *)
(* of at most MaxPlayed moves of the two players in any order.             *)
(***************************************************************************)
EXTENDS Board

CONSTANT MaxPlayed

MCNext ==
  \/ \E row \in 0 .. (Rows - 1), col \in 0 .. (Cols - 1) : SetBlock(row, col)
  \/ /\ Len(played) < MaxPlayed
     /\ \E s \in Side : \E m \in Moves(s) : ApplyMove(s, m)
  \/ UndoMove

MCSpec == Init /\ [][MCNext]_vars

=============================================================================
