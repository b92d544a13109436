------------------------------ MODULE MCSearch ------------------------------
(***************************************************************************)
(* Searches of every small position by either player, with tables of four  *)
(* and of one place and with horizons too near to decide.                  *)
(***************************************************************************)
EXTENDS Search

CONSTANT MaxBlocks   \* on the board before the search

MCNext == \/ Setup /\ Cardinality(Occupied) < MaxBlocks
          \/ \E s \in Side : SearchForMove(s)
          \/ Run

MCSpec == Init /\ SearchInit /\ [][MCNext]_allVars /\ Running

MCHorizons == {<<1, 45>>, <<1, 3>>}

\* All squares share one place; or the columns are spread over the places.
MCZobrists == {[b \in Bit |-> {}], [b \in Bit |-> {h \in HashBits : (b \div 2 ^ h) % 2 = 1}]}

-----------------------------------------------------------------------------
(* "Winner found" (negamax.cc:86), "winner" (obsequi.cc:149): the player the
   search names wins with best play, and the move it names wins.              *)
ResultIsRight ==
  pc = "done" =>
    LET free == Square \ Occupied
    IN  /\ value >= 5000  => Game!Wins[free][turn]
        /\ value <= -5000 => ~ Game!Wins[free][turn]
        /\ chosen # NoMove =>
             /\ Squares(turn, chosen) \subseteq free
             /\ ~ Game!Wins[free \ Squares(turn, chosen)][Opp(turn)]

\* The position of a key, and who is to move in it in this search.
FreeSquares(key) == {q \in Square : (q[1] - 1) * Cols + (q[2] - 1) \notin key}
MoverAt(key) ==
  LET moves == (Cardinality(key) - (Cardinality(Occupied) - 2 * Len(played))) \div 2
  IN  IF moves % 2 = 0 THEN turn ELSE Opp(turn)

(* The key of a result does not say whose turn it is, a result may be only a
   bound, and it answers for mirror images, from other windows and for another
   distance to the horizon: yet a result that names a winner is right for the
   player who moves in that position.                                         *)
TableIsRight ==
  \A i \in SUBSET HashBits :
    LET e == table[i]
    IN  e.depth > 0 =>
          /\ e.value = 5000  => Game!Wins[FreeSquares(e.key)][MoverAt(e.key)]
          /\ e.value = -5000 => ~ Game!Wins[FreeSquares(e.key)][MoverAt(e.key)]

=============================================================================
