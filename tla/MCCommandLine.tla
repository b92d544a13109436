---------------------------- MODULE MCCommandLine ---------------------------
(***************************************************************************)
(* The process with lines that are right and lines that are wrong in each  *)
(* of the ways get_solve_command knows.                                    *)
(***************************************************************************)
EXTENDS CommandLine

Command(form, rows, cols, bits, letter, blocks, turn) ==
  [stop |-> FALSE, form |-> form, rows |-> rows, cols |-> cols, bits |-> bits,
   letter |-> letter, blocks |-> blocks, turn |-> turn]

Right == {Command(4, 2, 3, 20, "V", <<>>, ""),
          Command(6, 2, 2, 20, "B", <<<<0, 1>>, <<1, 1>>>>, "H"),
          Command(5, 1, 2, 31, "H", <<>>, "")}   \* right when its end is cut off

Wrong == {Command(6, 2, 3, 20, "B", <<<<1, 0>>, <<0, 3>>>>, "H"),
          Command(6, 2, 2, 20, "B", <<<<0, 0>>, <<>>>>, "V"),
          Command(6, 2, 3, 20, "B", <<<<0, 2>>>>, "?"),
          Command(6, 2, 2, 20, "?", <<<<1, 0>>>>, "H"),
          Command(4, 2, 2, 14, "H", <<>>, "")}

\* Without a check for negative numbers and for numbers wider than an int these
\* are taken too: one block is lost in column 29 of the row above, one is read
\* modulo the width of an int.
Crooked == {Command(6, 2, 3, 20, "B", <<<<1, -1>>, <<0, 1>>>>, "H"),
            Command(6, 2, 2, 20, "B", <<<<0, 2048>>>>, "V")}

\* And this is taken or refused, or ends the process.
Beside == {Command(6, 2, 2, 20, "B", <<<<-1, 0>>, <<1, 1>>>>, "H")}

\* A size that only Board() refuses; the product is more than an int.
BadSize == {Command(4, -64, -64, 20, "V", <<>>, "")}

Stop == [stop |-> TRUE, form |-> 0]

MCLine == Right \cup Wrong \cup Crooked \cup Beside \cup BadSize \cup {Stop}

\* Lines like these that are only looked at here.
OtherWrong == {Command(4, 31, 2, 20, "H", <<>>, ""), Command(2, 2, 2, 0, "", <<>>, "")}

OtherCrooked == {Command(6, 2, 30, 20, "B", <<<<1, -1>>>>, "V")}   \* as if it were 0,29

OtherBadSize == {Command(4, 12, 12, 20, "H", <<>>, ""), Command(4, -1, -2, 20, "H", <<>>, "")}

AnyLine == MCLine \cup OtherWrong \cup OtherCrooked \cup OtherBadSize

\* What a line is when its end is cut off (ReadLast).
Cut == {[line EXCEPT !.form = @ - 1] : line \in {l \in AnyLine : l.form > 0}}

\* A right line whose last field can be read without its last character is taken.
Shortened == {[line EXCEPT !.form = 4] : line \in {r \in Right : r.form = 5}}

\* Of the lines that are taken, some have blocks that are not on the board.
ASSUME LET Whole   == {line \in Right : line.form \in {4, 6}} \cup Shortened
           Twisted == Crooked \cup OtherCrooked \cup Beside
       IN /\ {line \in AnyLine \cup Cut : HasFormat(line)} = Whole
          /\ {line \in AnyLine \cup Cut : Accepts(line)}
               = Whole \cup Twisted \cup BadSize \cup OtherBadSize
          /\ {line \in AnyLine \cup Cut : Accepts(line) /\ ~ OnTheBoard(line)} = Twisted
          /\ {line \in AnyLine \cup Cut : WritesBeside(line)} = Beside

=============================================================================
