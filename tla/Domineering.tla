---------------------------- MODULE Domineering -----------------------------
(***************************************************************************)
(* The game obsequi solves, without bitboards or counts: players "H" and   *)
(* "V" lay dominoes on free squares of a board, one along the rows, the    *)
(* other along the columns.  A program that looks ahead takes dominoes     *)
(* back in the opposite order.                                             *)
(***************************************************************************)
EXTENDS Integers, Sequences

CONSTANTS Rows, Cols

Square == (1 .. Rows) \X (1 .. Cols)

\* The dominoes of a player, as sets of two squares.
Dominoes(side) ==
  IF side = "H"
    THEN {{<<r, c>>, <<r, c + 1>>} : r \in 1 .. Rows, c \in 1 .. (Cols - 1)}
    ELSE {{<<r, c>>, <<r + 1, c>>} : r \in 1 .. (Rows - 1), c \in 1 .. Cols}

VARIABLES occupied,  \* the squares that are not free
          laid       \* the dominoes on the board, in the order they were laid

vars == <<occupied, laid>>

Init == occupied = {} /\ laid = <<>>

\* A square is blocked before the game starts.
Block == /\ laid = <<>>
         /\ \E q \in Square \ occupied : occupied' = occupied \cup {q}
         /\ UNCHANGED laid

Lay == \E side \in {"H", "V"} : \E d \in Dominoes(side) :
         /\ d \cap occupied = {}
         /\ occupied' = occupied \cup d
         /\ laid' = Append(laid, d)

TakeBack == /\ laid # <<>>
            /\ occupied' = occupied \ laid[Len(laid)]
            /\ laid' = SubSeq(laid, 1, Len(laid) - 1)

Next == Block \/ Lay \/ TakeBack

Spec == Init /\ [][Next]_vars

-----------------------------------------------------------------------------
(* With these free squares, which side wins if it is to move: one that has a
   move after which the opponent, to move, loses; without a move it loses.   *)
Wins[free \in SUBSET Square] ==
  [side \in {"H", "V"} |->
     \E d \in Dominoes(side) :
       /\ d \subseteq free
       /\ ~ Wins[free \ d][IF side = "H" THEN "V" ELSE "H"]]

=============================================================================
