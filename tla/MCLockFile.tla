----------------------------- MODULE MCLockFile -----------------------------
(***************************************************************************)
(* Files of three lines, of every kind in any order, and four processes.   *)
(***************************************************************************)
EXTENDS LockFile, TLC

MCPositions ==
  {[kind |-> "good",    mover |-> "V", winner |-> "V"],
   [kind |-> "good",    mover |-> "V", winner |-> "H"],
   [kind |-> "hard",    mover |-> "H", winner |-> "H"],
   [kind |-> "refused", mover |-> "H", winner |-> "H"],
   [kind |-> "garbled", mover |-> "H", winner |-> "H"]}

\* Processes that differ in nothing.
Alike == Permutations(Solver)

=============================================================================
