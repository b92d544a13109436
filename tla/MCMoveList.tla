----------------------------- MODULE MCMoveList -----------------------------
\* Every pattern of blocks on a small board, with either player to move.
EXTENDS MoveList

=============================================================================
