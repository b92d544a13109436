---------------------------- MODULE MCScoreBoard ----------------------------
(***************************************************************************)
(* Positions of the solve command, whose blocks initialize_board places    *)
(* row by row, and either player to move: every pattern of at most         *)
(* MaxBlocks blocks on the whole board, and every pattern of any number on *)
(* the board without its last column, which is blocked then.               *)
(***************************************************************************)
EXTENDS ScoreBoard

CONSTANT MaxBlocks

\* The last column is blocked in the rows above this one.
Narrow(row) == \A r \in 1 .. row : <<r, Cols>> \in Occupied

PlaceNext(row, col) ==
  /\ Narrow(row) \/ Cardinality(Occupied) < MaxBlocks
  /\ \A q \in Occupied : UpTo(q, <<row + 1, col + 1>>)
  /\ SetBlock(row, col)

MCNext == \E row \in 0 .. (Rows - 1), col \in 0 .. (Cols - 1) : PlaceNext(row, col)

MCSpec == Init /\ [][MCNext]_vars

-----------------------------------------------------------------------------
Confirmed(s, verdict) ==
  verdict.over => /\ verdict.score \in {5000, -5000}
                  /\ Game!Wins[Square \ Occupied][s] = (verdict.score = 5000)

(* "current player wins", "opponent wins" (score-board.h:31, 40): the packing
   is greedy and counts no moves out, yet the player it names wins with best
   play.                                                                      *)
VerdictIsRight ==
  \A s \in Side : Confirmed(s, IsGameOverExpensive(s))

=============================================================================
