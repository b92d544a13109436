-------------------------- MODULE PositionalValues --------------------------
(***************************************************************************)
(* src/obsequi/positional-values.cc: the tie-breaking value of a piece of  *)
(* a player with rows lines of cols squares.  The constructor fills one    *)
(* quadrant in five passes, each counting down from its own start, and     *)
(* SetValue copies a value to the three mirror images.                     *)
(***************************************************************************)
EXTENDS Integers, FiniteSets

\* The quadrant the passes run over.
Quadrant(rows, cols) == (1 .. ((rows + 1) \div 2)) \X (1 .. (cols \div 2))

(* The pass that sets a cell: the first one whose loop bounds and steps
   reach it, the later ones skip cells that are set.                         *)
Pass(cell) ==
  CASE cell[1] % 2 = 0 /\ cell[2] % 2 = 1 -> 1
    [] cell[1] % 2 = 0 /\ cell[2] % 2 = 0 -> 2
    [] cell[1] % 2 = 1 /\ cell[1] >= 3 /\ cell[2] % 2 = 1 -> 3
    [] cell[1] % 2 = 1 /\ cell[1] >= 3 /\ cell[2] % 2 = 0 -> 4
    [] cell[1] = 1 -> 5

Start == <<127, 90, 70, 50, 30>>

UpTo(a, b) == a[1] < b[1] \/ (a[1] = b[1] /\ a[2] <= b[2])

\* GetValue(row, col) of the first square of a piece.
PositionValue(rows, cols, row, col) ==
  LET mirror(n, size) == IF n <= size - n THEN n ELSE size - n
      cell == <<mirror(row, rows + 1), mirror(col, cols)>>
  IN  Start[Pass(cell)] -
        Cardinality({c \in Quadrant(rows, cols) : Pass(c) = Pass(cell) /\ UpTo(c, cell)})

=============================================================================
