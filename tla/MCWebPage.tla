------------------------------ MODULE MCWebPage -----------------------------
(***************************************************************************)
(* Sessions of the page on small boards, compared with the solver's own    *)
(* view of the same boards (BoardOps).                                     *)
(***************************************************************************)
EXTENDS WebPage, BoardOps

\* A size leaves room for the border of a player's lines (30 of the 32 bits).
ASSUME LinesAssumption == Sizes \subseteq (1 .. MaxRows - 2) \X (1 .. MaxRows - 2)

SmallSizes == {<<3, 2>>, <<2, 4>>}

-----------------------------------------------------------------------------
(* A player's lines of a board, as Board keeps them: the border is occupied. *)
LinesOf(set, rows, columns) ==
  [l \in 0 .. MaxRows |->
     {b \in Idx : \/ l \in {0} \cup rows + 1 .. MaxRows
                  \/ b \in {0} \cup columns + 1 .. MaxRows
                  \/ <<l - 1, b - 1>> \in set}]

\* Line l is the page's row l - 1.
SumOver(Count(_, _), lines, rows) ==
  SumFunction([r \in 0 .. rows - 1 |-> Count(lines, r + 1)])

SolversCounts ==
  LET h == LinesOf(marks, height, width)
      v == LinesOf({<<q[2], q[1]>> : q \in marks}, width, height)
  IN [hsafe |-> SumOver(CountSafe, h, height), hreal |-> SumOver(CountReal, h, height),
      vsafe |-> SumOver(CountSafe, v, width), vreal |-> SumOver(CountReal, v, width)]

(* Unless a piece sticks out of the board, the page shows the pieces that lie
   on it, who is to move, and the safe and real moves that the solver counts
   for the same board: the page has counts of its own (get_safe, get_real and
   rotate), made from the marks for one player and from the moves for the
   other.                                                                    *)
PageIsCurrent ==
  Rotates(moves) => /\ counts = SolversCounts
                    /\ painted = [moves |-> moves, vertical |-> vertical]

=============================================================================
