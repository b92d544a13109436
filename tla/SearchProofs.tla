--------------------------- MODULE SearchProofs ---------------------------
(***************************************************************************)
(* For every size of board: when the solver stops looking ahead, and what  *)
(* its search does until then. IsGameOver of board.h, which compares two   *)
(* counts, names the player that wins with best play; the three passes of  *)
(* score-board.cc count no square twice, and the bounds they yield, the    *)
(* verdict and the estimate of score-board.h are good for what is claimed  *)
(* of them; and the search of transposition.cc stays within its types,     *)
(* always has a step to take, plays a move that fits the board, and        *)
(* decides once it looks far enough ahead.                                 *)
(***************************************************************************)
EXTENDS Search, BoardProofs

-----------------------------------------------------------------------------
(* The game: who wins is well defined, move by move.                         *)

LEMMA DominoFacts ==
  ASSUME NEW s \in Side, NEW d \in Game!Dominoes(s)
  PROVE  IsFiniteSet(d) /\ d # {} /\ Cardinality(d) = 2
<1>1. \E x, y : x # y /\ d = {x, y}
  <2>1. CASE s = "H"
    <3>1. PICK r \in 1 .. Rows, c \in 1 .. (Cols - 1) : d = {<<r, c>>, <<r, c + 1>>}
      BY <2>1 DEF Game!Dominoes
    <3>2. <<r, c>> # <<r, c + 1>>
      BY <3>1, SizeFacts
    <3> QED
      BY <3>1, <3>2
  <2>2. CASE s = "V"
    <3>1. PICK r \in 1 .. (Rows - 1), c \in 1 .. Cols : d = {<<r, c>>, <<r + 1, c>>}
      BY <2>2 DEF Game!Dominoes
    <3>2. <<r, c>> # <<r + 1, c>>
      BY <3>1, SizeFacts
    <3> QED
      BY <3>1, <3>2
  <2> QED
    BY <2>1, <2>2 DEF Side
<1>2. PICK x, y : x # y /\ d = {x, y}
  BY <1>1
<1> QED
  BY <1>2, TwoElements

\* Who wins with these free squares, if W says who wins after a move.
Outcome(W, free) ==
  [side \in {"H", "V"} |->
     \E d \in Game!Dominoes(side) :
       /\ d \subseteq free
       /\ ~ W[free \ d][IF side = "H" THEN "V" ELSE "H"]]

\* After a move fewer squares are free.
LEMMA FewerFree ==
  ASSUME NEW F \in SUBSET Square, NEW s \in Side, NEW d \in Game!Dominoes(s), d \subseteq F
  PROVE  /\ F \ d \in SUBSET Square
         /\ Cardinality(F \ d) \in Nat /\ Cardinality(F) \in Nat
         /\ Cardinality(F \ d) < Cardinality(F)
<1>1. IsFiniteSet(F) /\ Cardinality(F) \in Nat
  BY FiniteSquares, FS_Subset, FS_CardinalityType
<1>2. IsFiniteSet(F \ d) /\ Cardinality(F \ d) = Cardinality(F) - Cardinality(d)
  BY <1>1, RemovedSubset
<1>3. Cardinality(F \ d) \in Nat
  BY <1>2, FS_CardinalityType
<1> QED
  BY <1>1, <1>2, <1>3, DominoFacts

LEMMA OutcomeLooksAhead ==
  ASSUME NEW F \in SUBSET Square, NEW V, NEW W,
         \A G \in SUBSET Square : Cardinality(G) < Cardinality(F) => V[G] = W[G]
  PROVE  Outcome(V, F) = Outcome(W, F)
<1>1. \A s \in {"H", "V"} : \A d \in Game!Dominoes(s) : d \subseteq F => V[F \ d] = W[F \ d]
  BY FewerFree DEF Side
<1> QED
  BY <1>1 DEF Outcome

LEMMA WinsExists == \E W : W = [F \in SUBSET Square |-> Outcome(W, F)]
<1> DEFINE Good(n, W) == /\ W \in [SUBSET Square -> [{"H", "V"} -> BOOLEAN]]
                         /\ \A F \in SUBSET Square :
                              Cardinality(F) < n => W[F] = Outcome(W, F)
           T == {n \in Nat : \E W : Good(n, W)}
<1>0. \A F \in SUBSET Square : Cardinality(F) \in Nat
  BY FiniteSquares, FS_Subset, FS_CardinalityType
<1>1. 0 \in T
  <2>1. Good(0, [F \in SUBSET Square |-> [s \in {"H", "V"} |-> TRUE]])
    BY <1>0
  <2> QED
    BY <2>1
<1>2. ASSUME NEW n \in T
      PROVE  n + 1 \in T
  <2>1. PICK W : Good(n, W)
    OBVIOUS
  <2> DEFINE V == [F \in SUBSET Square |-> IF Cardinality(F) = n THEN Outcome(W, F) ELSE W[F]]
  <2>2. V \in [SUBSET Square -> [{"H", "V"} -> BOOLEAN]]
    <3>1. \A F \in SUBSET Square : Outcome(W, F) \in [{"H", "V"} -> BOOLEAN]
      BY DEF Outcome
    <3> QED
      BY <2>1, <3>1
  <2>3. ASSUME NEW F \in SUBSET Square, Cardinality(F) < n + 1
        PROVE  V[F] = Outcome(V, F)
    <3>1. \A G \in SUBSET Square : Cardinality(G) < Cardinality(F) => V[G] = W[G]
      BY <1>0, <2>3
    <3>2. V[F] = Outcome(W, F)
      BY <1>0, <2>1, <2>3
    <3> HIDE DEF V
    <3>3. Outcome(V, F) = Outcome(W, F)
      BY <3>1, OutcomeLooksAhead
    <3> QED
      BY <3>2, <3>3
  <2> HIDE DEF V
  <2>4. Good(n + 1, V)
    BY <2>2, <2>3
  <2> QED
    BY <2>4
<1>3. T = Nat
  <2>1. T \in SUBSET Nat
    OBVIOUS
  <2> HIDE DEF T
  <2> QED
    BY <1>1, <1>2, <2>1, InductiveSet
<1> DEFINE all == Cardinality(Square) + 1
<1>4. all \in Nat /\ \A F \in SUBSET Square : Cardinality(F) < all
  <2>1. \A F \in SUBSET Square : Cardinality(F) <= Cardinality(Square)
    BY FiniteSquares, FS_Subset
  <2> QED
    BY <1>0, <2>1
<1> HIDE DEF all
<1>5. PICK W : Good(all, W)
  <2>1. all \in T
    BY <1>3, <1>4
  <2> QED
    BY <2>1
<1>6. \A F \in SUBSET Square : W[F] = Outcome(W, F)
  BY <1>4, <1>5
<1>7. W = [F \in SUBSET Square |-> W[F]]
  BY <1>5
<1>8. W = [F \in SUBSET Square |-> Outcome(W, F)]
  BY <1>6, <1>7, Zenon
<1> QED
  BY <1>8

LEMMA WinsIsOutcome ==
  ASSUME NEW F \in SUBSET Square, NEW s \in Side
  PROVE  Game!Wins[F][s] <=> \E d \in Game!Dominoes(s) : d \subseteq F /\ ~ Game!Wins[F \ d][Opp(s)]
<1>1. Game!Wins = CHOOSE W : W = [G \in SUBSET Square |-> Outcome(W, G)]
  BY Zenon DEF Game!Wins, Outcome, Game!Square, Square
<1>2. Game!Wins = [G \in SUBSET Square |-> Outcome(Game!Wins, G)]
  BY <1>1, WinsExists, Zenon
<1>3. Game!Wins[F] = Outcome(Game!Wins, F)
  BY <1>2, Zenon
<1> QED
  BY <1>3 DEF Outcome, Opp, Side

-----------------------------------------------------------------------------
(* A player whose safe dominoes outnumber what the opponent can still lay
   wins: the argument IsGameOver rests on.                                   *)

\* The squares next to q that a domino of the other player on q could take.
Across(s, q) ==
  IF s = "H" THEN {<<q[1] - 1, q[2]>>, <<q[1] + 1, q[2]>>}
             ELSE {<<q[1], q[2] - 1>>, <<q[1], q[2] + 1>>}

\* Dominoes of player s that can all be laid on the free squares F.
Packing(s, F) ==
  {P \in SUBSET Game!Dominoes(s) :
     /\ \A d \in P : d \subseteq F
     /\ \A d, e \in P : d # e => d \cap e = {}}

\* Those whose squares the opponent cannot take.
SafePacking(s, F) ==
  {P \in Packing(s, F) : \A d \in P : \A q \in d : Across(s, q) \cap F = {}}

\* Some safe packing of s is larger, or not smaller, than any the opponent has.
Ahead(s, F) ==
  \E P \in SafePacking(s, F) :
    \A Q \in Packing(Opp(s), F) : Cardinality(P) > Cardinality(Q)
NotBehind(s, F) ==
  \E P \in SafePacking(s, F) :
    \A Q \in Packing(Opp(s), F) : Cardinality(P) >= Cardinality(Q)

LEMMA FinitePackings ==
  ASSUME NEW F \in SUBSET Square, NEW s \in Side, NEW P \in Packing(s, F)
  PROVE  IsFiniteSet(P) /\ Cardinality(P) \in Nat
<1>1. P \in SUBSET (SUBSET Square)
  BY DEF Packing
<1>2. IsFiniteSet(SUBSET Square)
  BY FiniteSquares, FS_SUBSET
<1>3. IsFiniteSet(P)
  BY <1>1, <1>2, FS_Subset
<1> QED
  BY <1>3, FS_CardinalityType

\* Laying a safe domino: the others stay safe, the opponent gains nothing.
LEMMA LayingASafeOne ==
  ASSUME NEW F \in SUBSET Square, NEW s \in Side, Ahead(s, F)
  PROVE  \E d \in Game!Dominoes(s) : d \subseteq F /\ NotBehind(s, F \ d)
<1>1. PICK P \in SafePacking(s, F) :
        \A Q \in Packing(Opp(s), F) : Cardinality(P) > Cardinality(Q)
  BY DEF Ahead
<1>2. P \in Packing(s, F)
  BY DEF SafePacking
<1>3. IsFiniteSet(P) /\ Cardinality(P) \in Nat
  BY <1>2, FinitePackings
<1>4. P # {}
  <2>1. {} \in Packing(Opp(s), F)
    BY DEF Packing
  <2>2. Cardinality({}) = 0
    BY FS_EmptySet
  <2> QED
    BY <1>1, <1>3, <2>1, <2>2
<1>5. PICK d \in P : TRUE
  BY <1>4
<1>6. d \in Game!Dominoes(s) /\ d \subseteq F
  BY <1>2 DEF Packing
<1>7. Cardinality(P \ {d}) = Cardinality(P) - 1
  BY <1>3, FS_RemoveElement
<1>8. P \ {d} \in SafePacking(s, F \ d)
  <2>1. P \ {d} \in Packing(s, F \ d)
    BY <1>2 DEF Packing
  <2>2. \A e \in P \ {d} : \A q \in e : Across(s, q) \cap (F \ d) = {}
    BY DEF SafePacking
  <2> QED
    BY <2>1, <2>2 DEF SafePacking
<1>9. ASSUME NEW Q \in Packing(Opp(s), F \ d)
      PROVE  Cardinality(P \ {d}) >= Cardinality(Q)
  <2>1. Q \in Packing(Opp(s), F)
    BY DEF Packing
  <2>2. Cardinality(Q) \in Nat
    BY <2>1, OppFacts, FinitePackings
  <2> QED
    BY <1>1, <1>3, <1>7, <2>1, <2>2
<1> QED
  BY <1>6, <1>8, <1>9 DEF NotBehind

\* A domino of the opponent meets no safe one and costs the opponent a move.
LEMMA OpponentLays ==
  ASSUME NEW F \in SUBSET Square, NEW s \in Side, NotBehind(s, F),
         NEW d \in Game!Dominoes(Opp(s)), d \subseteq F
  PROVE  Ahead(s, F \ d)
<1>1. PICK P \in SafePacking(s, F) :
        \A Q \in Packing(Opp(s), F) : Cardinality(P) >= Cardinality(Q)
  BY DEF NotBehind
<1>2. P \in Packing(s, F)
  BY DEF SafePacking
<1>3. Cardinality(P) \in Nat
  BY <1>2, FinitePackings
<1>4. \A q \in d : Across(s, q) \cap d # {}
  <2>1. CASE s = "H"
    <3>1. PICK r \in 1 .. (Rows - 1), c \in 1 .. Cols : d = {<<r, c>>, <<r + 1, c>>}
      BY <2>1 DEF Game!Dominoes, Opp
    <3>2. r \in Int /\ r = (r + 1) - 1
      BY SizeFacts
    <3>3. <<r + 1, c>> \in Across(s, <<r, c>>) /\ <<r, c>> \in Across(s, <<r + 1, c>>)
      BY <2>1, <3>2 DEF Across
    <3> QED
      BY <3>1, <3>3
  <2>2. CASE s = "V"
    <3>1. PICK r \in 1 .. Rows, c \in 1 .. (Cols - 1) : d = {<<r, c>>, <<r, c + 1>>}
      BY <2>2 DEF Game!Dominoes, Opp
    <3>2. c \in Int /\ c = (c + 1) - 1
      BY SizeFacts
    <3>3. <<r, c + 1>> \in Across(s, <<r, c>>) /\ <<r, c>> \in Across(s, <<r, c + 1>>)
      BY <2>2, <3>2 DEF Across
    <3> QED
      BY <3>1, <3>3
  <2> QED
    BY <2>1, <2>2 DEF Side
<1>5. \A p \in P : p \cap d = {}
  BY <1>4 DEF SafePacking
<1>6. P \in SafePacking(s, F \ d)
  <2>1. P \in Packing(s, F \ d)
    BY <1>2, <1>5 DEF Packing
  <2>2. \A e \in P : \A q \in e : Across(s, q) \cap (F \ d) = {}
    BY DEF SafePacking
  <2> QED
    BY <2>1, <2>2 DEF SafePacking
<1>7. ASSUME NEW Q \in Packing(Opp(s), F \ d)
      PROVE  Cardinality(P) > Cardinality(Q)
  <2>1. d # {}
    BY OppFacts, DominoFacts
  <2>2. d \notin Q
    BY <2>1 DEF Packing
  <2>3. Q \in Packing(Opp(s), F)
    BY DEF Packing
  <2>4. IsFiniteSet(Q) /\ Cardinality(Q) \in Nat
    BY <2>3, OppFacts, FinitePackings
  <2>5. Cardinality(Q \cup {d}) = Cardinality(Q) + 1
    BY <2>2, <2>4, FS_AddElement
  <2>6. Q \cup {d} \in Packing(Opp(s), F)
    <3>1. \A e \in Q : e \cap d = {} /\ d \cap e = {}
      BY DEF Packing
    <3> QED
      BY <3>1 DEF Packing
  <2> QED
    BY <1>1, <1>3, <2>4, <2>5, <2>6
<1> QED
  BY <1>6, <1>7 DEF Ahead

LEMMA CountsDecide ==
  ASSUME NEW F \in SUBSET Square, NEW s \in Side
  PROVE  /\ Ahead(s, F) => Game!Wins[F][s]
         /\ NotBehind(s, F) => ~ Game!Wins[F][Opp(s)]
<1> DEFINE Right(G) == /\ Ahead(s, G) => Game!Wins[G][s]
                       /\ NotBehind(s, G) => ~ Game!Wins[G][Opp(s)]
           T == {Cardinality(G) : G \in {H \in SUBSET Square : ~ Right(H)}}
<1> SUFFICES ASSUME ~ Right(F)
             PROVE  FALSE
  OBVIOUS
<1>1. \A G \in SUBSET Square : Cardinality(G) \in Nat
  BY FiniteSquares, FS_Subset, FS_CardinalityType
<1>2. PICK n \in T : \A k \in T : n <= k
  <2>1. T \in SUBSET Nat /\ T # {}
    BY <1>1
  <2> HIDE DEF T
  <2> QED
    BY <2>1, LeastNumber
<1>3. PICK G \in SUBSET Square : ~ Right(G) /\ Cardinality(G) = n
  OBVIOUS
<1>4. \A H \in SUBSET Square : Cardinality(H) < Cardinality(G) => Right(H)
  BY <1>1, <1>2, <1>3
<1>5. ASSUME Ahead(s, G)
      PROVE  Game!Wins[G][s]
  <2>1. PICK d \in Game!Dominoes(s) : d \subseteq G /\ NotBehind(s, G \ d)
    BY <1>5, LayingASafeOne
  <2>2. Right(G \ d) /\ G \ d \in SUBSET Square
    BY <1>4, <2>1, FewerFree
  <2>3. ~ Game!Wins[G \ d][Opp(s)]
    BY <2>1, <2>2
  <2> QED
    BY <2>1, <2>3, WinsIsOutcome
<1>6. ASSUME NotBehind(s, G), Game!Wins[G][Opp(s)]
      PROVE  FALSE
  <2>1. Opp(s) \in Side /\ Opp(Opp(s)) = s
    BY OppFacts
  <2>2. PICK d \in Game!Dominoes(Opp(s)) : d \subseteq G /\ ~ Game!Wins[G \ d][s]
    BY <1>6, <2>1, WinsIsOutcome
  <2>3. Right(G \ d)
    BY <1>4, <2>1, <2>2, FewerFree
  <2>4. Ahead(s, G \ d)
    BY <1>6, <2>2, OpponentLays
  <2> QED
    BY <2>2, <2>3, <2>4
<1> QED
  BY <1>3, <1>5, <1>6

-----------------------------------------------------------------------------
(* Pieces of the words and dominoes of the game.                             *)

\* The square that bit b of line l stands for in the view of player s.
SquareAt(s, l, b) == IF s = "H" THEN <<l, b>> ELSE <<b, l>>

\* The squares of the piece at bit p[2] of line p[1] of a mask.
Piece(s, p) == {SquareAt(s, p[1], p[2] - 1), SquareAt(s, p[1], p[2])}

FreeSquares == Square \ Occupied

\* A bit that is not set stands for a free square, and only such a bit.
LEMMA FreeBit ==
  ASSUME board \in [Side -> [Idx -> SUBSET Idx]], ViewsAgree,
         NEW s \in Side, NEW l \in Int, NEW b \in Int
  PROVE  SquareAt(s, l, b) \in FreeSquares
           <=> l \in Lines(s) /\ b \in Lines(Opp(s)) /\ b \notin board[s][l]
<1>1. CASE s = "H"
  <2>1. SquareAt(s, l, b) \in Square <=> l \in Lines(s) /\ b \in Lines(Opp(s))
    BY <1>1 DEF SquareAt, Square, Lines, NumRows, Opp
  <2>2. ASSUME l \in Lines(s), b \in Lines(Opp(s))
        PROVE  SquareAt(s, l, b) \in Occupied <=> b \in board[s][l]
    <3>1. l \in 1 .. Rows /\ b \in 1 .. Cols
      BY <1>1, <2>2 DEF Lines, NumRows, Opp
    <3> QED
      BY <1>1, <3>1, OccupiedBit DEF SquareAt
  <2> QED
    BY <2>1, <2>2 DEF FreeSquares
<1>2. CASE s = "V"
  <2>1. SquareAt(s, l, b) \in Square <=> l \in Lines(s) /\ b \in Lines(Opp(s))
    BY <1>2 DEF SquareAt, Square, Lines, NumRows, Opp
  <2>2. ASSUME l \in Lines(s), b \in Lines(Opp(s))
        PROVE  SquareAt(s, l, b) \in Occupied <=> b \in board[s][l]
    <3>1. l \in 1 .. Cols /\ b \in 1 .. Rows
      BY <1>2, <2>2 DEF Lines, NumRows, Opp
    <3> QED
      BY <1>2, <3>1, OccupiedBit DEF SquareAt
  <2> QED
    BY <2>1, <2>2 DEF FreeSquares
<1> QED
  BY <1>1, <1>2 DEF Side

LEMMA LinesInIdx ==
  ASSUME NEW s \in Side
  PROVE  Lines(s) \subseteq Idx /\ Idx \subseteq Int /\ 0 \notin Lines(s)
BY SizeFacts DEF Lines, NumRows, Side, Idx

\* A one of a mask of real moves is a domino of the game on free squares.
LEMMA PieceIsDomino ==
  ASSUME board \in [Side -> [Idx -> SUBSET Idx]], ViewsAgree,
         NEW s \in Side, NEW l \in Lines(s), NEW b \in RealMask(board[s], l)
  PROVE  /\ Piece(s, <<l, b>>) \in Game!Dominoes(s)
         /\ Piece(s, <<l, b>>) \subseteq FreeSquares
<1>1. l \in Idx /\ l \in Int /\ b \in Idx /\ b \in Int /\ b \notin board[s][l]
  BY LinesInIdx DEF RealMask, Not
<1>2. b - 1 \notin board[s][l]
  BY <1>1 DEF RealMask, Not, Shl
<1>3. \A k \in Idx : k \notin board[s][l] => k \in Lines(Opp(s))
  BY <1>1 DEF ViewsAgree
<1>4. b \in Lines(Opp(s)) /\ b # 0
  BY <1>1, <1>3, OppFacts, LinesInIdx
<1>5. b - 1 \in Idx
  BY <1>1, <1>4, SizeFacts DEF Idx
<1>6. b - 1 \in Lines(Opp(s)) /\ b - 1 \in Int
  BY <1>1, <1>2, <1>3, <1>5
<1>7. SquareAt(s, l, b - 1) \in FreeSquares /\ SquareAt(s, l, b) \in FreeSquares
  BY <1>1, <1>2, <1>4, <1>6, FreeBit
<1>8. Piece(s, <<l, b>>) \in Game!Dominoes(s)
  <2>1. CASE s = "H"
    <3>1. l \in 1 .. Rows /\ b - 1 \in 1 .. (Cols - 1) /\ b = (b - 1) + 1
      BY <1>1, <1>4, <1>6, <2>1, SizeFacts DEF Lines, NumRows, Opp
    <3>2. Piece(s, <<l, b>>) = {<<l, b - 1>>, <<l, (b - 1) + 1>>}
      BY <2>1, <3>1 DEF Piece, SquareAt
    <3> QED
      BY <2>1, <3>1, <3>2 DEF Game!Dominoes
  <2>2. CASE s = "V"
    <3>1. l \in 1 .. Cols /\ b - 1 \in 1 .. (Rows - 1) /\ b = (b - 1) + 1
      BY <1>1, <1>4, <1>6, <2>2, SizeFacts DEF Lines, NumRows, Opp
    <3>2. Piece(s, <<l, b>>) = {<<b - 1, l>>, <<(b - 1) + 1, l>>}
      BY <2>2, <3>1 DEF Piece, SquareAt
    <3> QED
      BY <2>2, <3>1, <3>2 DEF Game!Dominoes
  <2> QED
    BY <2>1, <2>2 DEF Side
<1> QED
  BY <1>7, <1>8 DEF Piece

\* And every domino on free squares is a one of such a mask.
LEMMA DominoIsPiece ==
  ASSUME board \in [Side -> [Idx -> SUBSET Idx]], ViewsAgree,
         NEW s \in Side, NEW d \in Game!Dominoes(s), d \subseteq FreeSquares
  PROVE  \E l \in Lines(s), b \in Idx : b \in RealMask(board[s], l) /\ d = Piece(s, <<l, b>>)
<1>1. \E l, b \in Int : d = {SquareAt(s, l, b - 1), SquareAt(s, l, b)}
  <2>1. CASE s = "H"
    <3>1. PICK r \in 1 .. Rows, c \in 1 .. (Cols - 1) : d = {<<r, c>>, <<r, c + 1>>}
      BY <2>1 DEF Game!Dominoes
    <3>2. r \in Int /\ c + 1 \in Int /\ c = (c + 1) - 1
      BY SizeFacts
    <3> QED
      BY <2>1, <3>1, <3>2 DEF SquareAt
  <2>2. CASE s = "V"
    <3>1. PICK r \in 1 .. (Rows - 1), c \in 1 .. Cols : d = {<<r, c>>, <<r + 1, c>>}
      BY <2>2 DEF Game!Dominoes
    <3>2. c \in Int /\ r + 1 \in Int /\ r = (r + 1) - 1
      BY SizeFacts
    <3> QED
      BY <2>2, <3>1, <3>2 DEF SquareAt
  <2> QED
    BY <2>1, <2>2 DEF Side
<1>2. PICK l, b \in Int : d = {SquareAt(s, l, b - 1), SquareAt(s, l, b)}
  BY <1>1
<1>3. /\ l \in Lines(s)
      /\ b \in Lines(Opp(s)) /\ b \notin board[s][l]
      /\ b - 1 \notin board[s][l]
  BY <1>2, FreeBit
<1>4. b \in Idx /\ l \in Idx
  BY <1>3, OppFacts, LinesInIdx
<1>5. b \in RealMask(board[s], l)
  BY <1>3, <1>4 DEF RealMask, Not, Shl
<1> QED
  BY <1>2, <1>3, <1>4, <1>5 DEF Piece

\* Pieces meet only on one line and at neighbouring bits.
LEMMA PiecesMeet ==
  ASSUME NEW s \in Side, NEW p \in Idx \X Idx, NEW q \in Idx \X Idx
  PROVE  Piece(s, p) \cap Piece(s, q) # {}
           <=> p[1] = q[1] /\ p[2] - q[2] \in {-1, 0, 1}
<1>1. p[1] \in Int /\ p[2] \in Int /\ q[1] \in Int /\ q[2] \in Int
  BY DEF Idx
<1>2. \A k, l, b, c \in Int : SquareAt(s, k, b) = SquareAt(s, l, c) <=> k = l /\ b = c
  BY DEF SquareAt
<1>3. Piece(s, p) \cap Piece(s, q) # {} <=>
        \/ SquareAt(s, p[1], p[2] - 1) = SquareAt(s, q[1], q[2] - 1)
        \/ SquareAt(s, p[1], p[2] - 1) = SquareAt(s, q[1], q[2])
        \/ SquareAt(s, p[1], p[2]) = SquareAt(s, q[1], q[2] - 1)
        \/ SquareAt(s, p[1], p[2]) = SquareAt(s, q[1], q[2])
  BY Zenon DEF Piece
<1>4. @ <=> \/ p[1] = q[1] /\ p[2] - 1 = q[2] - 1
            \/ p[1] = q[1] /\ p[2] - 1 = q[2]
            \/ p[1] = q[1] /\ p[2] = q[2] - 1
            \/ p[1] = q[1] /\ p[2] = q[2]
  BY <1>1, <1>2
<1>5. @ <=> p[1] = q[1] /\ p[2] - q[2] \in {-1, 0, 1}
  BY <1>1
<1> QED
  BY <1>3, <1>4, <1>5

LEMMA FinitePieces ==
  ASSUME NEW s \in Side, NEW w
  PROVE  IsFiniteSet(SafePieces(s, w)) /\ IsFiniteSet(RealPieces(s, w))
<1>1. IsFiniteSet(Lines(s) \X Idx)
  BY FiniteIdx, FS_Product
<1> QED
  BY <1>1, FS_Subset DEF SafePieces, RealPieces

\* Two counted pieces do not share a square.
LEMMA CountedPiecesApart ==
  ASSUME NEW s \in Side, NEW l \in Lines(s), NEW k \in Lines(s), NEW M \in [Lines(s) -> SUBSET Idx],
         NEW b \in NonOverlapping(M[l]), NEW c \in NonOverlapping(M[k]), <<l, b>> # <<k, c>>
  PROVE  Piece(s, <<l, b>>) \cap Piece(s, <<k, c>>) = {}
<1>1. /\ l \in Idx /\ k \in Idx /\ b \in Idx /\ c \in Idx
      /\ b \in Int /\ c \in Int
  BY LinesInIdx DEF NonOverlapping
<1> SUFFICES ASSUME l = k, b - c \in {-1, 0, 1}
             PROVE  FALSE
  BY <1>1, PiecesMeet
<1>2. M[l] \in SUBSET Idx
  OBVIOUS
<1>3. b + 1 \notin NonOverlapping(M[l]) /\ c + 1 \notin NonOverlapping(M[l])
  BY <1>2, CountedApart
<1>4. b # c
  OBVIOUS
<1>5. b = c + 1 \/ c = b + 1
  BY <1>1, <1>4
<1> QED
  BY <1>3, <1>5

\* The safe pieces that are counted are dominoes the player can keep for last.
LEMMA SafePiecesPack ==
  ASSUME board \in [Side -> [Idx -> SUBSET Idx]], ViewsAgree, NEW s \in Side
  PROVE  \E P \in SafePacking(s, FreeSquares) :
           Cardinality(P) = Cardinality(SafePieces(s, board))
<1> DEFINE S == SafePieces(s, board)
           P == {Piece(s, p) : p \in S}
           M == [l \in Lines(s) |-> SafeMask(board[s], l)]
<1>1. M \in [Lines(s) -> SUBSET Idx]
  BY MaskType
<1>2. \A p \in S : /\ p[1] \in Lines(s) /\ p[2] \in Idx /\ p = <<p[1], p[2]>>
                   /\ p[2] \in NonOverlapping(M[p[1]])
                   /\ p[2] \in SafeMask(board[s], p[1])
                   /\ p[2] \in RealMask(board[s], p[1])
  BY DEF SafePieces, NonOverlapping, SafeMask
<1>3. \A p \in S : Piece(s, p) \in Game!Dominoes(s) /\ Piece(s, p) \subseteq FreeSquares
  BY <1>2, PieceIsDomino
<1> HIDE DEF M, S
<1>4. \A p, q \in S : p # q => Piece(s, p) \cap Piece(s, q) = {}
  <2> SUFFICES ASSUME NEW p \in S, NEW q \in S, p # q
               PROVE  Piece(s, p) \cap Piece(s, q) = {}
    OBVIOUS
  <2>1. <<p[1], p[2]>> # <<q[1], q[2]>>
    BY <1>2
  <2>2. Piece(s, <<p[1], p[2]>>) \cap Piece(s, <<q[1], q[2]>>) = {}
    BY <1>1, <1>2, <2>1, CountedPiecesApart
  <2> QED
    BY <1>2, <2>2
<1>5. P \in Packing(s, FreeSquares)
  BY <1>3, <1>4 DEF Packing
<1>6. ASSUME NEW p \in S, NEW q \in Piece(s, p)
      PROVE  Across(s, q) \cap FreeSquares = {}
  <2> DEFINE l == p[1]
  <2>1. l \in Idx /\ l \in Int /\ p[2] \in Idx /\ p[2] \in Int
    BY <1>2, LinesInIdx
  <2>2. PICK b \in {p[2] - 1, p[2]} : q = SquareAt(s, l, b)
    BY DEF Piece
  <2>3. b \in Int /\ b \in board[s][l - 1] /\ b \in board[s][l + 1]
    BY <1>2, <2>1, <2>2, SafeMaskBit
  <2>4. Across(s, q) = {SquareAt(s, l - 1, b), SquareAt(s, l + 1, b)}
    BY <2>2 DEF Across, SquareAt, Side
  <2>5. l - 1 \in Int /\ l + 1 \in Int
    BY <2>1
  <2>6. SquareAt(s, l - 1, b) \notin FreeSquares /\ SquareAt(s, l + 1, b) \notin FreeSquares
    BY <2>3, <2>5, FreeBit
  <2> QED
    BY <2>4, <2>6
<1>7. P \in SafePacking(s, FreeSquares)
  BY <1>5, <1>6 DEF SafePacking
<1>8. Cardinality(P) = Cardinality(S)
  <2> DEFINE f == [p \in S |-> Piece(s, p)]
  <2>1. f \in [S -> P] /\ \A t \in P : \E p \in S : f[p] = t
    OBVIOUS
  <2>2. \A p, q \in S : f[p] = f[q] => p = q
    <3>1. \A p \in S : Piece(s, p) # {}
      BY DEF Piece
    <3> QED
      BY <1>4, <3>1
  <2>3. IsFiniteSet(S)
    BY FinitePieces DEF S
  <2> HIDE DEF f, P
  <2> QED
    BY <2>1, <2>2, <2>3, AsMany
<1> QED
  BY <1>7, <1>8 DEF S

(* A player cannot lay more dominoes than the real pieces that are counted:
   each takes a counted piece or the one after it.                           *)
LEMMA PackingIsCounted ==
  ASSUME board \in [Side -> [Idx -> SUBSET Idx]], ViewsAgree, NEW s \in Side,
         NEW Q \in Packing(s, FreeSquares)
  PROVE  Cardinality(Q) <= Cardinality(RealPieces(s, board))
<1> DEFINE at == [d \in Q |-> CHOOSE p \in Lines(s) \X Idx :
                                p[2] \in RealMask(board[s], p[1]) /\ d = Piece(s, p)]
           N(l) == NonOverlapping(RealMask(board[s], l))
           f == [d \in Q |-> IF at[d][2] \in N(at[d][1])
                               THEN at[d] ELSE <<at[d][1], at[d][2] - 1>>]
<1>1. \A d \in Q : /\ at[d] \in Lines(s) \X Idx
                   /\ at[d][2] \in RealMask(board[s], at[d][1]) /\ d = Piece(s, at[d])
  <2> SUFFICES ASSUME NEW d \in Q
               PROVE  \E p \in Lines(s) \X Idx :
                        p[2] \in RealMask(board[s], p[1]) /\ d = Piece(s, p)
    BY Zenon
  <2>1. d \in Game!Dominoes(s) /\ d \subseteq FreeSquares
    BY DEF Packing
  <2>2. PICK l \in Lines(s), b \in Idx : b \in RealMask(board[s], l) /\ d = Piece(s, <<l, b>>)
    BY <2>1, DominoIsPiece
  <2> QED
    BY <2>2
<1> HIDE DEF at
<1>2. f \in [Q -> RealPieces(s, board)]
  <2> SUFFICES ASSUME NEW d \in Q
               PROVE  f[d] \in RealPieces(s, board)
    BY DEF f
  <2> DEFINE l == at[d][1]
             b == at[d][2]
  <2>1. l \in Lines(s) /\ b \in RealMask(board[s], l) /\ at[d] = <<l, b>>
    BY <1>1
  <2>2. RealMask(board[s], l) \in SUBSET Idx
    BY MaskType
  <2>3. N(l) \subseteq Idx /\ (b \in N(l) \/ b - 1 \in N(l))
    <3>1. N(l) \subseteq Idx
      BY <2>2, CountType
    <3>2. b \in N(l) \/ b - 1 \in N(l)
      BY <2>1, <2>2, CountedOrNextTo
    <3> QED
      BY <3>1, <3>2
  <2>4. f[d] = IF b \in N(l) THEN <<l, b>> ELSE <<l, b - 1>>
    BY <2>1
  <2> QED
    BY <2>1, <2>3, <2>4 DEF RealPieces
<1>3. ASSUME NEW d \in Q, NEW e \in Q, f[d] = f[e], d # e
      PROVE  FALSE
  <2>1. /\ at[d] \in Idx \X Idx /\ at[e] \in Idx \X Idx
        /\ at[d][2] \in Int /\ at[e][2] \in Int
    BY <1>1, LinesInIdx
  <2>2. f[d][1] = at[d][1] /\ f[e][1] = at[e][1]
    BY <2>1
  <2>3. f[d][2] \in {at[d][2], at[d][2] - 1} /\ f[e][2] \in {at[e][2], at[e][2] - 1}
    BY <2>1
  <2> HIDE DEF f
  <2>4. at[d][1] = at[e][1] /\ at[d][2] - at[e][2] \in {-1, 0, 1}
    <3>1. at[d][1] = at[e][1]
      BY <1>3, <2>2
    <3>2. f[e][2] \in {at[d][2], at[d][2] - 1} /\ f[e][2] \in {at[e][2], at[e][2] - 1}
      BY <1>3, <2>3
    <3>3. at[d][2] - at[e][2] \in {-1, 0, 1}
      <4>1. \A x, y \in Int : \A z : z \in {x, x - 1} /\ z \in {y, y - 1} => x - y \in {-1, 0, 1}
        OBVIOUS
      <4> QED
        BY <2>1, <3>2, <4>1
    <3> QED
      BY <3>1, <3>3
  <2>5. Piece(s, at[d]) \cap Piece(s, at[e]) # {}
    <3>1. \A p, q \in Idx \X Idx :
            p[1] = q[1] /\ p[2] - q[2] \in {-1, 0, 1} => Piece(s, p) \cap Piece(s, q) # {}
      BY PiecesMeet
    <3> QED
      BY <2>1, <2>4, <3>1
  <2>6. d \cap e # {}
    BY <1>1, <2>5
  <2> QED
    BY <1>3, <2>6 DEF Packing
<1> HIDE DEF f
<1>4. \A d, e \in Q : f[d] = f[e] => d = e
  BY <1>3
<1> QED
  BY <1>2, <1>4, FinitePieces, AtMostAsMany

-----------------------------------------------------------------------------
LEMMA CountsOfTheBoard ==
  ASSUME IInv, NEW s \in Side
  PROVE  /\ totalSafe[s] > totalReal[Opp(s)] => Ahead(s, FreeSquares)
         /\ totalSafe[s] >= totalReal[Opp(s)] => NotBehind(s, FreeSquares)
<1>1. board \in [Side -> [Idx -> SUBSET Idx]] /\ ViewsAgree /\ TotalsExact
  BY DEF IInv, Typed
<1>2. Opp(s) \in Side
  BY OppFacts
<1>3. PICK P \in SafePacking(s, FreeSquares) : Cardinality(P) = totalSafe[s]
  BY <1>1, SafePiecesPack DEF TotalsExact
<1>4. \A Q \in Packing(Opp(s), FreeSquares) : Cardinality(Q) <= totalReal[Opp(s)]
  BY <1>1, <1>2, PackingIsCounted DEF TotalsExact
<1>5. \A Q \in Packing(Opp(s), FreeSquares) : Cardinality(Q) \in Nat
  BY <1>2, FinitePackings DEF FreeSquares
<1>6. totalSafe[s] \in Int /\ totalReal[Opp(s)] \in Int
  BY <1>2 DEF IInv, Typed
<1>7. ASSUME totalSafe[s] > totalReal[Opp(s)], NEW Q \in Packing(Opp(s), FreeSquares)
      PROVE  Cardinality(P) > Cardinality(Q)
  BY <1>3, <1>4, <1>5, <1>6, <1>7
<1>8. ASSUME totalSafe[s] >= totalReal[Opp(s)], NEW Q \in Packing(Opp(s), FreeSquares)
      PROVE  Cardinality(P) >= Cardinality(Q)
  BY <1>3, <1>4, <1>5, <1>6, <1>8
<1> QED
  BY <1>7, <1>8 DEF Ahead, NotBehind

LEMMA CountsAreRight == IInv => GameOverIsRight
<1> SUFFICES ASSUME IInv, NEW s \in Side
             PROVE  /\ IsGameOver(s) = 5000 => Game!Wins[FreeSquares][s]
                    /\ IsGameOver(s) = -5000 => ~ Game!Wins[FreeSquares][s]
  BY DEF GameOverIsRight, FreeSquares
<1>1. Opp(s) \in Side /\ Opp(Opp(s)) = s /\ FreeSquares \in SUBSET Square
  BY OppFacts DEF FreeSquares
<1>2. ASSUME IsGameOver(s) = 5000
      PROVE  Game!Wins[FreeSquares][s]
  <2>1. totalSafe[s] > totalReal[Opp(s)]
    BY <1>2 DEF IsGameOver
  <2> QED
    BY <1>1, <2>1, CountsOfTheBoard, CountsDecide
<1>3. ASSUME IsGameOver(s) = -5000
      PROVE  ~ Game!Wins[FreeSquares][s]
  <2>1. totalSafe[Opp(s)] >= totalReal[s]
    BY <1>3 DEF IsGameOver
  <2>2. NotBehind(Opp(s), FreeSquares)
    BY <1>1, <2>1, CountsOfTheBoard
  <2>3. ~ Game!Wins[FreeSquares][Opp(Opp(s))]
    BY <1>1, <2>2, CountsDecide
  <2> QED
    BY <1>1, <2>3
<1> QED
  BY <1>2, <1>3

(* On a board of any size, after any calls: when IsGameOver (board.h:90) decides
   on the two counts, the player it names wins with best play, so a search that
   stops there loses nothing.                                                 *)
THEOREM BoardGameOverIsRight == Spec => []GameOverIsRight
BY Invariance, CountsAreRight, PTL

-----------------------------------------------------------------------------
(* Verdicts and estimates from two pairs of bounds.                          *)

Bounds == [lower : Int, upper : Int]

LEMMA HalfIsClose ==
  ASSUME NEW x \in Int
  PROVE  Quot(x, 2) \in Int /\ x - 1 <= 2 * Quot(x, 2) /\ 2 * Quot(x, 2) <= x + 1
BY DEF Quot

LEMMA HalfOfPositive ==
  ASSUME NEW x \in Int, NEW k \in Nat, x >= 2 * k
  PROVE  Quot(x, 2) \in Int /\ Quot(x, 2) >= k
BY DEF Quot

LEMMA PartOfHundred ==
  ASSUME NEW part \in Nat, NEW whole \in Nat \ {0}, part <= whole
  PROVE  Quot(100 * part, whole) \in 0 .. 100
<1> DEFINE q == (100 * part) \div whole
           r == (100 * part) % whole
<1>1. q \in Int /\ r \in 0 .. (whole - 1) /\ 100 * part = whole * q + r
  OBVIOUS
<1>2. q >= 0
  BY <1>1
<1>3. q <= 100
  BY <1>1
<1> QED
  BY <1>2, <1>3, <1>1 DEF Quot

-----------------------------------------------------------------------------
(* The estimate of bounds that decide nothing lies between -100 and 100, and
   its divisor is positive where it is used.                                  *)
LEMMA EstimateIsSmall ==
  ASSUME NEW curr \in Bounds, NEW opp \in Bounds,
         curr.lower <= curr.upper, opp.lower < opp.upper
  PROVE  Estimate(curr, opp) \in -100 .. 100
<1> DEFINE width   == (opp.upper - curr.lower) + (curr.upper - opp.lower)
           currAvg == Quot(opp.upper + curr.lower, 2)
           oppAvg  == Quot(curr.upper + opp.lower, 2)
           avgLen  == Quot(width, 2)
           overlap == (curr.upper + 1) - curr.lower
           overlapOpp == opp.upper - opp.lower
<1>1. /\ curr.lower \in Int /\ curr.upper \in Int
      /\ opp.lower \in Int /\ opp.upper \in Int
  BY DEF Bounds
<1>2. /\ currAvg \in Int /\ opp.upper + curr.lower - 1 <= 2 * currAvg
      /\ 2 * currAvg <= opp.upper + curr.lower + 1
  BY <1>1, HalfIsClose
<1>3. /\ oppAvg \in Int /\ curr.upper + opp.lower - 1 <= 2 * oppAvg
      /\ 2 * oppAvg <= curr.upper + opp.lower + 1
  BY <1>1, HalfIsClose
<1> HIDE DEF currAvg, oppAvg
<1>4. CASE currAvg > oppAvg + 2
  <2>1. width \in Int /\ overlap \in Nat /\ width >= 2 * (overlap + 1)
    BY <1>1, <1>2, <1>3, <1>4
  <2>2. overlap + 1 \in Nat
    BY <2>1
  <2> HIDE DEF width, overlap
  <2>3. avgLen \in Int /\ avgLen >= overlap + 1
    BY <2>1, <2>2, HalfOfPositive
  <2>4. Quot(100 * overlap, avgLen) \in 0 .. 100
    BY <2>1, <2>3, PartOfHundred
  <2>5. Estimate(curr, opp) = 100 - Quot(100 * overlap, avgLen)
    BY <1>4 DEF Estimate, currAvg, oppAvg, width, overlap
  <2> HIDE DEF avgLen
  <2> QED
    BY <2>4, <2>5
<1>5. CASE ~ (currAvg > oppAvg + 2) /\ oppAvg > currAvg + 2
  <2>1. width \in Int /\ overlapOpp \in Nat /\ width >= 2 * (overlapOpp + 1)
    BY <1>1, <1>2, <1>3, <1>5
  <2>2. overlapOpp + 1 \in Nat
    BY <2>1
  <2> HIDE DEF width, overlapOpp
  <2>3. avgLen \in Int /\ avgLen >= overlapOpp + 1
    BY <2>1, <2>2, HalfOfPositive
  <2>4. Quot(100 * overlapOpp, avgLen) \in 0 .. 100
    BY <2>1, <2>3, PartOfHundred
  <2>5. Estimate(curr, opp) = -(100 - Quot(100 * overlapOpp, avgLen))
    BY <1>5 DEF Estimate, currAvg, oppAvg, width, overlapOpp
  <2> HIDE DEF avgLen
  <2> QED
    BY <2>4, <2>5
<1>6. CASE ~ (currAvg > oppAvg + 2) /\ ~ (oppAvg > currAvg + 2)
  <2>1. Estimate(curr, opp) = currAvg - oppAvg
    BY <1>6 DEF Estimate, currAvg, oppAvg
  <2> QED
    BY <1>2, <1>3, <1>6, <2>1
<1> QED
  BY <1>4, <1>5, <1>6

-----------------------------------------------------------------------------
(* pack_prot                                                                 *)

(* A view with its border: bits that are not set are squares of its n lines. *)
View(n, rows) ==
  /\ n \in 1 .. (MaxRows - 2)
  /\ rows \in [Idx -> SUBSET Idx]
  /\ \A l \in Idx, b \in Idx : b \notin rows[l] => l \in 1 .. n /\ b \in 1 .. (MaxRows - 2)

\* The scratch board, and the squares taken on it.
Scratch(n) == [0 .. (n + 1) -> SUBSET Idx]
Taken(n, packed) == HeldPairs(0 .. (n + 1), Idx, packed)

OnFreeSquares(n, rows, packed) == \A l \in 0 .. (n + 1) : packed[l] \cap rows[l] = {}

LEMMA ViewFacts ==
  ASSUME NEW n, NEW rows, View(n, rows)
  PROVE  /\ n \in Nat /\ n >= 1 /\ n + 1 \in Idx /\ Idx \subseteq Int
         /\ \A l \in 0 .. (n + 1) : l \in Idx /\ rows[l] \in SUBSET Idx
         /\ IsFiniteSet(0 .. (n + 1)) /\ IsFiniteSet(Idx)
<1>1. n \in 1 .. (MaxRows - 2) /\ MaxRows \in Nat
  BY SizeFacts DEF View
<1>2. IsFiniteSet(0 .. (n + 1)) /\ IsFiniteSet(Idx)
  BY <1>1, FS_Interval DEF Idx
<1> QED
  BY <1>1, <1>2 DEF View, Idx

\* p2 has taken these squares beyond those of packed.
Took(n, rows, packed, new, p2) ==
  /\ p2 \in Scratch(n)
  /\ OnFreeSquares(n, rows, p2)
  /\ Cardinality(new) \in Nat /\ Cardinality(Taken(n, packed)) \in Nat
  /\ Cardinality(Taken(n, p2)) = Cardinality(Taken(n, packed)) + Cardinality(new)

\* Squares of one line that are neither occupied nor taken yet add up.
LEMMA LineTaken ==
  ASSUME NEW n, NEW rows, View(n, rows), NEW packed \in Scratch(n),
         OnFreeSquares(n, rows, packed),
         NEW l \in 0 .. (n + 1), NEW new \in SUBSET Idx, new \cap (rows[l] \cup packed[l]) = {},
         NEW p2, p2 = [packed EXCEPT ![l] = packed[l] \cup new]
  PROVE  Took(n, rows, packed, new, p2)
<1> DEFINE N == 0 .. (n + 1)
<1>1. IsFiniteSet(N) /\ IsFiniteSet(Idx)
  BY ViewFacts
<1>2. p2 \in [N -> SUBSET Idx] /\ packed \in [N -> SUBSET Idx] /\ l \in N
  BY DEF Scratch
<1>3. OnFreeSquares(n, rows, p2)
  BY <1>2 DEF OnFreeSquares
<1>4. p2[l] = packed[l] \cup new /\ \A i \in N : i # l => p2[i] = packed[i]
  BY <1>2
<1> DEFINE line == {l} \X new
<1>5. Taken(n, p2) = Taken(n, packed) \cup line
  <2>1. \A i \in N, b \in Idx : b \in p2[i] <=> b \in packed[i] \/ (i = l /\ b \in new)
    BY <1>2, <1>4
  <2> HIDE DEF N
  <2> QED
    BY <1>2, <2>1 DEF Taken, HeldPairs, N
<1>6. Taken(n, packed) \cap line = {}
  BY DEF Taken, HeldPairs
<1>7. IsFiniteSet(Taken(n, packed)) /\ Cardinality(Taken(n, packed)) \in Nat
  <2>1. IsFiniteSet(N \X Idx)
    BY <1>1, FS_Product
  <2>2. Taken(n, packed) \subseteq N \X Idx
    BY DEF Taken, HeldPairs
  <2> QED
    BY <2>1, <2>2, FS_Subset, FS_CardinalityType
<1>8. IsFiniteSet(line) /\ Cardinality(line) = Cardinality(new) /\ Cardinality(new) \in Nat
  <2>1. IsFiniteSet(new) /\ Cardinality(new) \in Nat
    BY <1>1, FS_Subset, FS_CardinalityType
  <2>2. IsFiniteSet({l}) /\ Cardinality({l}) = 1
    BY FS_Singleton
  <2>3. IsFiniteSet(line) /\ Cardinality(line) = 1 * Cardinality(new)
    BY <2>1, <2>2, FS_Product
  <2> QED
    BY <2>1, <2>3
<1>9. Cardinality(Taken(n, p2)) = Cardinality(Taken(n, packed)) + Cardinality(line)
  BY <1>5, <1>6, <1>7, <1>8, AddedSubset
<1> QED
  BY <1>2, <1>3, <1>7, <1>8, <1>9 DEF Took, Scratch

\* Areas of two squares, no two of them sharing one, have twice as many squares.
LEMMA TwoSquaresEach ==
  ASSUME NEW x \in SUBSET Idx, \A a \in x : a + 1 \in Idx \ x
  PROVE  /\ Pairs(x) \in SUBSET Idx /\ Cardinality(x) \in Nat
         /\ IsFiniteSet(Pairs(x)) /\ Cardinality(Pairs(x)) = 2 * Cardinality(x)
<1> DEFINE f == [a \in x |-> a + 1]
<1>1. Idx \subseteq Int
  BY DEF Idx
<1>2. IsFiniteSet(x) /\ Cardinality(x) \in Nat
  BY FiniteIdx, FS_Subset, FS_CardinalityType
<1>3. f \in [x -> Shl(x)]
  BY <1>1 DEF Shl
<1>4. \A a, b \in x : f[a] = f[b] => a = b
  BY <1>1
<1>5. \A t \in Shl(x) : \E a \in x : f[a] = t
  <2> SUFFICES ASSUME NEW t \in Shl(x)
               PROVE  f[t - 1] = t /\ t - 1 \in x
    OBVIOUS
  <2> QED
    BY <1>1 DEF Shl
<1> HIDE DEF f
<1>6. IsFiniteSet(Shl(x)) /\ Cardinality(Shl(x)) = Cardinality(x)
  BY <1>2, <1>3, <1>4, <1>5, AsMany
<1>7. x \cap Shl(x) = {}
  <2> SUFFICES ASSUME NEW b \in x, b \in Shl(x)
               PROVE  FALSE
    OBVIOUS
  <2>1. b - 1 \in x /\ b \in Int
    BY <1>1 DEF Shl
  <2>2. (b - 1) + 1 = b
    BY <2>1
  <2> QED
    BY <2>1, <2>2
<1>8. Cardinality(x \cup Shl(x)) = Cardinality(x) + Cardinality(Shl(x)) /\ IsFiniteSet(x \cup Shl(x))
  BY <1>2, <1>6, <1>7, AddedSubset
<1> QED
  BY <1>2, <1>6, <1>8 DEF Pairs, Shl

-----------------------------------------------------------------------------
(* pack_prot                                                                 *)

\* What it may have found: areas of four free squares each.
ProtFound(n, rows) ==
  {p \in [packed : Scratch(n), prot : Nat] :
     /\ OnFreeSquares(n, rows, p.packed)
     /\ Cardinality(Taken(n, p.packed)) = 4 * p.prot}

LEMMA ProtAreasFree ==
  ASSUME NEW n, NEW rows, View(n, rows), NEW packed \in Scratch(n), NEW l \in 1 .. (n - 1),
         NEW a \in ProtAreas(rows, packed, l)
  PROVE  /\ a \in Idx /\ a + 1 \in Idx \ ProtAreas(rows, packed, l)
         /\ {a, a + 1} \cap (rows[l] \cup packed[l]) = {}
         /\ {a, a + 1} \cap (rows[l + 1] \cup packed[l + 1]) = {}
<1> DEFINE mask == Walls(rows, l) \ Interference(rows, packed, l)
<1>1. l - 1 \in Idx /\ l \in Idx /\ l + 1 \in Idx /\ l + 2 \in Idx /\ MaxRows \in Nat
  BY SizeFacts DEF View, Idx
<1>2. mask \in SUBSET Idx
  BY DEF Walls, Shr
<1>3. a \in mask /\ a + 1 \notin NonOverlapping(mask)
  <2>1. a \in NonOverlapping(mask)
    BY DEF ProtAreas
  <2>2. a \in mask
    BY <2>1 DEF NonOverlapping
  <2> QED
    BY <1>2, <2>1, <2>2, CountedApart
<1>4. a \in Idx /\ a \notin Interference(rows, packed, l)
  BY <1>2, <1>3
<1>5. {a, a + 1} \cap (rows[l] \cup packed[l]) = {} /\ {a, a + 1} \cap (rows[l + 1] \cup packed[l + 1]) = {}
  BY <1>4 DEF Interference, Shr
<1>6. a + 1 \in Idx
  BY <1>1, <1>4, <1>5 DEF View, Idx
<1> QED
  BY <1>3, <1>4, <1>5, <1>6 DEF ProtAreas

LEMMA ProtLineKeeps ==
  ASSUME NEW n, NEW rows, View(n, rows), NEW l \in 1 .. (n - 1), NEW p \in ProtFound(n, rows)
  PROVE  ProtLine(rows, l, p) \in ProtFound(n, rows)
<1> DEFINE areas == ProtAreas(rows, p.packed, l)
           two   == Pairs(areas)
           p1    == [p.packed EXCEPT ![l] = p.packed[l] \cup two]
           p2    == [p1 EXCEPT ![l + 1] = p1[l + 1] \cup two]
<1>1. /\ p.packed \in Scratch(n) /\ p.prot \in Nat
      /\ OnFreeSquares(n, rows, p.packed)
      /\ Cardinality(Taken(n, p.packed)) = 4 * p.prot
  BY DEF ProtFound
<1>2. l \in 0 .. (n + 1) /\ l + 1 \in 0 .. (n + 1) /\ l # l + 1
  BY ViewFacts
<1>3. areas \in SUBSET Idx /\ \A a \in areas : a + 1 \in Idx \ areas
  BY <1>1, ProtAreasFree
<1>4. two \in SUBSET Idx /\ Cardinality(areas) \in Nat /\ Cardinality(two) = 2 * Cardinality(areas)
  BY <1>3, TwoSquaresEach
<1>5. two \cap (rows[l] \cup p.packed[l]) = {} /\ two \cap (rows[l + 1] \cup p.packed[l + 1]) = {}
  <2> SUFFICES ASSUME NEW b \in two
               PROVE  b \notin rows[l] \cup p.packed[l] /\ b \notin rows[l + 1] \cup p.packed[l + 1]
    OBVIOUS
  <2>1. PICK a \in areas : b \in {a, a + 1}
    <3>1. b \in areas \/ b - 1 \in areas
      BY DEF Pairs, Shl
    <3>2. b \in Int
      BY <1>4 DEF Idx
    <3> QED
      BY <3>1, <3>2
  <2> QED
    BY <1>1, <2>1, ProtAreasFree
<1>6. p1[l + 1] = p.packed[l + 1]
  BY <1>1, <1>2 DEF Scratch
<1>7. ProtLine(rows, l, p) = [packed |-> p2, prot |-> p.prot + Cardinality(areas)]
  BY <1>2, <1>1 DEF ProtLine, Scratch
<1> HIDE DEF areas, two
<1>8. Took(n, rows, p.packed, two, p1)
  <2> DEFINE q == p.packed
  <2>1. q \in Scratch(n) /\ OnFreeSquares(n, rows, q) /\ two \cap (rows[l] \cup q[l]) = {}
    BY <1>1, <1>5
  <2>2. p1 = [q EXCEPT ![l] = q[l] \cup two]
    BY DEF p1
  <2> HIDE DEF q, p1
  <2>3. Took(n, rows, q, two, p1)
    BY <1>2, <1>4, <2>1, <2>2, LineTaken
  <2> QED
    BY <2>3 DEF q
<1>9. two \cap (rows[l + 1] \cup p1[l + 1]) = {}
  BY <1>5, <1>6
<1> HIDE DEF p1
<1>10. Took(n, rows, p1, two, p2)
  <2> DEFINE k == l + 1
  <2>1. p2 = [p1 EXCEPT ![k] = p1[k] \cup two] /\ k \in 0 .. (n + 1)
    BY <1>2
  <2>2. p1 \in Scratch(n) /\ OnFreeSquares(n, rows, p1) /\ two \cap (rows[k] \cup p1[k]) = {}
    BY <1>8, <1>9 DEF Took
  <2> HIDE DEF p2, k
  <2> QED
    BY <1>4, <2>1, <2>2, LineTaken
<1>11. Cardinality(Taken(n, p2)) = 4 * (p.prot + Cardinality(areas))
  BY <1>1, <1>4, <1>8, <1>10 DEF Took
<1> HIDE DEF p2
<1> QED
  BY <1>1, <1>4, <1>7, <1>10, <1>11 DEF ProtFound, Took

LEMMA NothingTaken ==
  ASSUME NEW n
  PROVE  LET none == [i \in 0 .. (n + 1) |-> {}]
         IN  /\ none \in Scratch(n) /\ Cardinality(Taken(n, none)) = 0
             /\ \A rows : OnFreeSquares(n, rows, none)
<1> DEFINE none == [i \in 0 .. (n + 1) |-> {}]
<1>1. none \in Scratch(n)
  BY DEF Scratch
<1>2. Taken(n, none) = {}
  BY DEF Taken, HeldPairs
<1>3. \A rows : OnFreeSquares(n, rows, none)
  BY DEF OnFreeSquares
<1> QED
  BY <1>1, <1>2, <1>3, FS_EmptySet

LEMMA PackProtFinds ==
  ASSUME NEW n, NEW rows, View(n, rows)
  PROVE  PackProt(n, rows) \in ProtFound(n, rows)
<1> DEFINE first == [packed |-> [i \in 0 .. (n + 1) |-> {}], prot |-> 0]
           found == ProtFound(n, rows)
           S     == [l \in 0 .. (n - 1) |-> found]
           step  == [l \in 1 .. (n - 1) |-> [p \in found |-> ProtLine(rows, l, p)]]
           Solves(g) == g = [l \in 0 .. (n - 1) |->
                               IF l = 0 THEN first ELSE ProtLine(rows, l, g[l - 1])]
<1>1. n \in Nat /\ n >= 1
  BY ViewFacts
<1>2. first \in found
  <2> DEFINE none == [i \in 0 .. (n + 1) |-> {}]
  <2>1. none \in Scratch(n) /\ Cardinality(Taken(n, none)) = 0 /\ OnFreeSquares(n, rows, none)
    BY NothingTaken
  <2> HIDE DEF none
  <2>2. [packed |-> none, prot |-> 0] \in ProtFound(n, rows)
    BY <2>1 DEF ProtFound
  <2> QED
    BY <2>2 DEF none
<1>3. \A l \in 1 .. (n - 1) : \A p \in found : ProtLine(rows, l, p) \in found
  BY ProtLineKeeps
<1> HIDE DEF first, found
<1>4. \E g : Solves(g)
  <2>1. 0 \in Int /\ n - 1 \in Int
    BY <1>1
  <2>2. Recursion(0, n - 1, S, first, step)
    BY <1>1, <1>2, <1>3 DEF Recursion
  <2> HIDE DEF S, step
  <2>3. PICK g : Follows(0, n - 1, S, first, step, g)
    BY <2>1, <2>2, RecursionExists
  <2>4. ASSUME NEW l \in 1 .. (n - 1)
        PROVE  g[l] = ProtLine(rows, l, g[l - 1])
    <3>1. l \in (0 + 1) .. (n - 1) /\ l - 1 \in 0 .. (n - 1)
      BY <1>1
    <3>2. g[l - 1] \in found
      BY <2>3, <3>1 DEF S, Follows
    <3>3. step[l][g[l - 1]] = ProtLine(rows, l, g[l - 1])
      BY <3>2 DEF step
    <3> QED
      BY <2>3, <3>1, <3>3 DEF Follows
  <2>5. \A l \in 0 .. (n - 1) : g[l] = IF l = 0 THEN first ELSE ProtLine(rows, l, g[l - 1])
    BY <1>1, <2>3, <2>4 DEF Follows
  <2>6. Solves(g)
    BY <2>3, <2>5 DEF Follows
  <2> QED
    BY <2>6
<1> DEFINE after == CHOOSE g : Solves(g)
<1>5. Solves(after)
  BY <1>4
<1> HIDE DEF after
<1>6. \A l \in 0 .. (n - 1) : after[l] \in found
  <2> DEFINE T == {l \in 0 .. (n - 1) : after[l] \in found}
  <2>1. 0 \in T
    BY <1>1, <1>2, <1>5
  <2>2. \A l \in 1 .. (n - 1) : l - 1 \in T => l \in T
    <3> SUFFICES ASSUME NEW l \in 1 .. (n - 1), after[l - 1] \in found
                 PROVE  after[l] \in found
      BY <1>1
    <3>1. after[l] = ProtLine(rows, l, after[l - 1])
      BY <1>1, <1>5
    <3> QED
      BY <1>3, <3>1
  <2> HIDE DEF T
  <2>3. \A l \in 0 .. (n - 1) : l \in T
    BY <1>1, <2>1, <2>2, HandedOnFromZero
  <2> QED
    BY <2>3 DEF T
<1>7. PackProt(n, rows) = after[n - 1]
  BY DEF PackProt, after, first
<1> QED
  BY <1>1, <1>6, <1>7 DEF found

-----------------------------------------------------------------------------
(* The scan of a line in pack_vuln.                                          *)

LEMMA NextStates ==
  /\ \A i \in 0 .. 4 : NextState(i, "occupied") = 0
  /\ /\ NextState(0, "protected") = 1 /\ NextState(1, "protected") = 0
     /\ NextState(2, "protected") = 3 /\ NextState(3, "protected") = 4
     /\ NextState(4, "protected") = 3
  /\ /\ NextState(0, "open") = 2 /\ NextState(1, "open") = 0
     /\ NextState(2, "open") = 0 /\ NextState(3, "open") = 2
     /\ NextState(4, "open") = 2
BY DEF NextState

\* From where on nothing is counted yet when square b has been seen.
Limit(b, s) == IF s.state = 0 THEN b + 1 ELSE s.from

(* What the scan knows when it has seen square b: the areas and single squares
   it has counted are free, apart from each other, and end before the squares
   it still holds open, from .. b, which are free as well.                    *)
SeenUpTo(free, b) ==
  {s \in [state : 0 .. 4, from : Int,
          vuln : SUBSET Idx, withProt : SUBSET Idx, unused : SUBSET Idx] :
     /\ \A a \in s.vuln \cup s.withProt :
          /\ a + 1 < Limit(b, s) /\ {a, a + 1} \subseteq free
          /\ a + 1 \notin s.vuln \cup s.withProt
          /\ {a, a + 1} \cap s.unused = {}
     /\ \A u \in s.unused : u < Limit(b, s) /\ u \in free
     /\ s.state # 0 => s.from \in 0 .. b /\ s.from .. b \subseteq free
     /\ s.state \in {1, 2} => s.from = b
     /\ s.state \in {3, 4} => s.from + 1 <= b}

\* What was counted stays behind a limit that does not move back.
LEMMA NothingCounted ==
  ASSUME NEW free \in SUBSET Idx, NEW b \in Idx, NEW s \in SeenUpTo(free, b - 1),
         NEW t \in [state : 0 .. 4, from : Int,
                    vuln : SUBSET Idx, withProt : SUBSET Idx, unused : SUBSET Idx],
         t.vuln = s.vuln, t.withProt = s.withProt, t.unused = s.unused,
         Limit(b - 1, s) <= Limit(b, t),
         t.state # 0 => t.from \in 0 .. b /\ t.from .. b \subseteq free,
         t.state \in {1, 2} => t.from = b,
         t.state \in {3, 4} => t.from + 1 <= b
  PROVE  t \in SeenUpTo(free, b)
<1>1. b \in Int /\ Idx \subseteq Int
  BY DEF Idx
<1>2. Limit(b - 1, s) \in Int /\ Limit(b, t) \in Int
  BY <1>1 DEF Limit, SeenUpTo
<1>3. \A a \in t.vuln \cup t.withProt :
        /\ a + 1 < Limit(b, t) /\ {a, a + 1} \subseteq free
        /\ a + 1 \notin t.vuln \cup t.withProt
        /\ {a, a + 1} \cap t.unused = {}
  <2> SUFFICES ASSUME NEW a \in s.vuln \cup s.withProt
               PROVE  /\ a + 1 < Limit(b, t) /\ {a, a + 1} \subseteq free
                      /\ a + 1 \notin s.vuln \cup s.withProt
                      /\ {a, a + 1} \cap s.unused = {}
    OBVIOUS
  <2>1. /\ a + 1 < Limit(b - 1, s) /\ {a, a + 1} \subseteq free
        /\ a + 1 \notin s.vuln \cup s.withProt
        /\ {a, a + 1} \cap s.unused = {} /\ a \in Int
    BY <1>1 DEF SeenUpTo
  <2> QED
    BY <1>2, <2>1
<1>4. \A u \in t.unused : u < Limit(b, t) /\ u \in free
  <2> SUFFICES ASSUME NEW u \in s.unused
               PROVE  u < Limit(b, t) /\ u \in free
    OBVIOUS
  <2>1. u < Limit(b - 1, s) /\ u \in free /\ u \in Int
    BY <1>1 DEF SeenUpTo
  <2> QED
    BY <1>2, <2>1
<1> QED
  BY <1>3, <1>4 DEF SeenUpTo

\* An area that begins where the limit was.
LEMMA AreaCounted ==
  ASSUME NEW free \in SUBSET Idx, NEW b \in Idx, NEW s \in SeenUpTo(free, b - 1), s.state # 0,
         NEW t \in [state : 0 .. 4, from : Int,
                    vuln : SUBSET Idx, withProt : SUBSET Idx, unused : SUBSET Idx],
         t.vuln \cup t.withProt = s.vuln \cup s.withProt \cup {s.from}, t.unused = s.unused,
         {s.from, s.from + 1} \subseteq free,
         s.from + 1 < Limit(b, t),
         t.state # 0 => t.from \in 0 .. b /\ t.from .. b \subseteq free,
         t.state \in {1, 2} => t.from = b,
         t.state \in {3, 4} => t.from + 1 <= b
  PROVE  t \in SeenUpTo(free, b)
<1>1. b \in Int /\ Idx \subseteq Int
  BY DEF Idx
<1>2. Limit(b - 1, s) = s.from /\ s.from \in Int /\ Limit(b, t) \in Int
  BY <1>1 DEF Limit, SeenUpTo
<1>3. ASSUME NEW a \in s.vuln \cup s.withProt
      PROVE  /\ a + 1 < s.from /\ {a, a + 1} \subseteq free /\ a \in Int
             /\ a + 1 \notin s.vuln \cup s.withProt
             /\ {a, a + 1} \cap s.unused = {}
  BY <1>1, <1>2 DEF SeenUpTo
<1>4. ASSUME NEW u \in s.unused
      PROVE  u < s.from /\ u \in free /\ u \in Int
  BY <1>1, <1>2 DEF SeenUpTo
<1>5. \A a \in t.vuln \cup t.withProt :
        /\ a + 1 < Limit(b, t) /\ {a, a + 1} \subseteq free
        /\ a + 1 \notin t.vuln \cup t.withProt
        /\ {a, a + 1} \cap t.unused = {}
  <2> SUFFICES ASSUME NEW a \in s.vuln \cup s.withProt \cup {s.from}
               PROVE  /\ a + 1 < Limit(b, t) /\ {a, a + 1} \subseteq free
                      /\ a + 1 \notin s.vuln \cup s.withProt \cup {s.from}
                      /\ {a, a + 1} \cap s.unused = {}
    OBVIOUS
  <2>1. CASE a = s.from
    <3>1. a + 1 \notin s.vuln \cup s.withProt \cup {s.from}
      BY <1>2, <1>3, <2>1
    <3>2. {a, a + 1} \cap s.unused = {}
      BY <1>2, <1>4, <2>1
    <3> QED
      BY <2>1, <3>1, <3>2
  <2>2. CASE a \in s.vuln \cup s.withProt
    BY <1>2, <1>3, <2>2
  <2> QED
    BY <2>1, <2>2
<1>6. \A u \in t.unused : u < Limit(b, t) /\ u \in free
  BY <1>2, <1>4
<1> QED
  BY <1>5, <1>6 DEF SeenUpTo

LEMMA ScanKeeps ==
  ASSUME NEW free \in SUBSET Idx, NEW guarded, NEW b \in Idx, NEW s \in SeenUpTo(free, b - 1)
  PROVE  Scanned(s, b, SquareKind(free, guarded, b)) \in SeenUpTo(free, b)
<1> DEFINE square == SquareKind(free, guarded, b)
           t      == Scanned(s, b, square)
<1> SUFFICES t \in SeenUpTo(free, b)
  OBVIOUS
<1>1. b \in Int /\ b >= 0 /\ Idx \subseteq Int
  BY DEF Idx
<1>2. /\ square \in {"occupied", "protected", "open"}
      /\ b \in free <=> square # "occupied"
  BY DEF SquareKind
<1> HIDE DEF square
<1>3. /\ s.state \in 0 .. 4 /\ s.from \in Int
      /\ s.vuln \in SUBSET Idx /\ s.withProt \in SUBSET Idx /\ s.unused \in SUBSET Idx
      /\ s.state # 0 => s.from \in 0 .. (b - 1) /\ s.from .. (b - 1) \subseteq free
      /\ s.state \in {1, 2} => s.from = b - 1
      /\ s.state \in {3, 4} => s.from + 1 <= b - 1
  BY DEF SeenUpTo
<1>4. s.state # 0 => s.from \in free
  BY <1>1, <1>3
<1>5. s.state \in {3, 4} => s.from + 1 \in free
  BY <1>1, <1>3
<1>6. square # "occupied" /\ s.state # 0 => s.from .. b \subseteq free
  <2> SUFFICES ASSUME square # "occupied", s.state # 0, NEW c \in s.from .. b
               PROVE  c \in free
    OBVIOUS
  <2>1. c = b \/ c \in s.from .. (b - 1)
    BY <1>1, <1>3
  <2> QED
    BY <1>2, <1>3, <2>1
<1>7. b .. b \subseteq free \/ square = "occupied"
  BY <1>1, <1>2
<1>8. /\ t.state = NextState(s.state, square)
      /\ t.from = IF s.state = 0 \/ (s.state \in {3, 4} /\ square = "open") THEN b ELSE s.from
      /\ t.vuln = IF s.state = 2 /\ square = "open" THEN s.vuln \cup {s.from} ELSE s.vuln
      /\ t.withProt = IF \/ s.state = 1 /\ square = "open"
                         \/ s.state = 3 /\ square # "protected"
                        THEN s.withProt \cup {s.from} ELSE s.withProt
      /\ t.unused = IF s.state = 1 /\ square = "occupied"
                      THEN s.unused \cup {s.from} ELSE s.unused
      /\ t = [state |-> t.state, from |-> t.from, vuln |-> t.vuln,
              withProt |-> t.withProt, unused |-> t.unused]
  BY DEF Scanned
<1> HIDE DEF t
<1>9. t.state \in 0 .. 4
  BY <1>2, <1>3, <1>8, NextStates
<1>10. t \in [state : 0 .. 4, from : Int,
              vuln : SUBSET Idx, withProt : SUBSET Idx, unused : SUBSET Idx]
  <2>1. s.state # 0 => s.from \in Idx
    BY <1>4
  <2>2. t.from \in Int /\ t.vuln \in SUBSET Idx /\ t.withProt \in SUBSET Idx /\ t.unused \in SUBSET Idx
    BY <1>1, <1>3, <1>8, <2>1
  <2> QED
    BY <1>8, <1>9, <2>2
<1>11. /\ t.state # 0 => t.from \in 0 .. b /\ t.from .. b \subseteq free
       /\ t.state \in {1, 2} => t.from = b
       /\ t.state \in {3, 4} => t.from + 1 <= b
  <2>1. CASE square = "occupied"
    BY <1>3, <1>8, <2>1, NextStates
  <2>2. CASE square = "protected"
    BY <1>1, <1>3, <1>6, <1>7, <1>8, <2>2, NextStates
  <2>3. CASE square = "open"
    BY <1>1, <1>3, <1>6, <1>7, <1>8, <2>3, NextStates
  <2> QED
    BY <1>2, <2>1, <2>2, <2>3
<1>12. CASE s.state \in {1, 2} /\ square = "open"
  <2>1. t.vuln \cup t.withProt = s.vuln \cup s.withProt \cup {s.from} /\ t.unused = s.unused
    BY <1>8, <1>12
  <2>2. t.state = 0 /\ s.from + 1 = b /\ s.from + 1 \in free
    BY <1>1, <1>2, <1>3, <1>8, <1>12, NextStates
  <2>3. s.from + 1 < Limit(b, t)
    BY <1>1, <2>2 DEF Limit
  <2> QED
    BY <1>4, <1>10, <1>11, <1>12, <2>1, <2>2, <2>3, AreaCounted
<1>13. CASE s.state = 3 /\ square # "protected"
  <2>1. t.vuln \cup t.withProt = s.vuln \cup s.withProt \cup {s.from} /\ t.unused = s.unused
    BY <1>8, <1>13
  <2>2. s.from + 1 < Limit(b, t)
    BY <1>1, <1>2, <1>3, <1>8, <1>13, NextStates DEF Limit
  <2> QED
    BY <1>4, <1>5, <1>10, <1>11, <1>13, <2>1, <2>2, AreaCounted
<1>14. CASE s.state = 1 /\ square = "occupied"
  <2>1. t.vuln = s.vuln /\ t.withProt = s.withProt /\ t.unused = s.unused \cup {s.from}
    BY <1>8, <1>14
  <2>2. t.state = 0 /\ Limit(b, t) = b + 1 /\ s.from = b - 1 /\ Limit(b - 1, s) = s.from
    BY <1>3, <1>8, <1>14, NextStates DEF Limit
  <2>3. ASSUME NEW a \in s.vuln \cup s.withProt
        PROVE  /\ a + 1 < s.from /\ {a, a + 1} \subseteq free /\ a \in Int
               /\ a + 1 \notin s.vuln \cup s.withProt
               /\ {a, a + 1} \cap s.unused = {}
    BY <1>1, <2>2 DEF SeenUpTo
  <2>4. ASSUME NEW u \in s.unused
        PROVE  u < s.from /\ u \in free /\ u \in Int
    BY <1>1, <2>2 DEF SeenUpTo
  <2>5. \A a \in t.vuln \cup t.withProt :
          /\ a + 1 < Limit(b, t) /\ {a, a + 1} \subseteq free
          /\ a + 1 \notin t.vuln \cup t.withProt
          /\ {a, a + 1} \cap t.unused = {}
    <3> SUFFICES ASSUME NEW a \in s.vuln \cup s.withProt
                 PROVE  /\ a + 1 < b + 1 /\ {a, a + 1} \subseteq free
                        /\ a + 1 \notin s.vuln \cup s.withProt
                        /\ {a, a + 1} \cap (s.unused \cup {s.from}) = {}
      BY <2>1, <2>2
    <3> QED
      BY <1>1, <2>2, <2>3
  <2>6. \A u \in t.unused : u < Limit(b, t) /\ u \in free
    BY <1>1, <1>4, <1>14, <2>1, <2>2, <2>4
  <2> QED
    BY <1>10, <1>11, <2>5, <2>6 DEF SeenUpTo
<1>15. CASE /\ ~ (s.state \in {1, 2} /\ square = "open")
            /\ ~ (s.state = 3 /\ square # "protected")
            /\ ~ (s.state = 1 /\ square = "occupied")
  <2>1. t.vuln = s.vuln /\ t.withProt = s.withProt /\ t.unused = s.unused
    BY <1>8, <1>15
  <2>2. Limit(b - 1, s) <= Limit(b, t)
    <3>1. CASE square = "occupied"
      BY <1>1, <1>3, <1>8, <3>1, NextStates DEF Limit
    <3>2. CASE square = "protected"
      BY <1>1, <1>3, <1>8, <3>2, NextStates DEF Limit
    <3>3. CASE square = "open"
      BY <1>1, <1>3, <1>8, <3>3, NextStates DEF Limit
    <3> QED
      BY <1>2, <3>1, <3>2, <3>3
  <2> QED
    BY <1>10, <1>11, <2>1, <2>2, NothingCounted
<1> QED
  BY <1>2, <1>3, <1>12, <1>13, <1>14, <1>15

LEMMA ScanFinds ==
  ASSUME NEW free \in SUBSET Idx, NEW guarded
  PROVE  Scan(free, guarded) \in SeenUpTo(free, MaxRows - 1)
<1> DEFINE first == [state |-> 0, from |-> -1, vuln |-> {}, withProt |-> {}, unused |-> {}]
           kind(b) == SquareKind(free, guarded, b)
           hi    == MaxRows - 1
           S     == [b \in -1 .. hi |-> SeenUpTo(free, b)]
           step  == [b \in 0 .. hi |-> [s \in SeenUpTo(free, b - 1) |-> Scanned(s, b, kind(b))]]
           Solves(g) == g = [b \in Idx \cup {-1} |->
                               IF b = -1 THEN first ELSE Scanned(g[b - 1], b, kind(b))]
<1>1. hi \in Nat /\ -1 \in Int /\ Idx \cup {-1} = -1 .. hi /\ 0 .. hi = Idx
  BY SizeFacts DEF Idx
<1>2. first \in SeenUpTo(free, -1)
  BY DEF SeenUpTo
<1>3. \A b \in 0 .. hi : \A s \in SeenUpTo(free, b - 1) : Scanned(s, b, kind(b)) \in SeenUpTo(free, b)
  BY <1>1, ScanKeeps
<1> HIDE DEF first, kind, hi
<1>4. \E g : Solves(g)
  <2>1. Recursion(-1, hi, S, first, step)
    <3>1. first \in S[-1] /\ -1 <= hi
      BY <1>1, <1>2
    <3>2. ASSUME NEW b \in (-1 + 1) .. hi
          PROVE  step[b] \in [S[b - 1] -> S[b]]
      <4>1. b \in 0 .. hi /\ b \in -1 .. hi /\ b - 1 \in -1 .. hi
        BY <1>1
      <4>2. S[b - 1] = SeenUpTo(free, b - 1) /\ S[b] = SeenUpTo(free, b)
        BY <4>1
      <4>3. step[b] = [s \in SeenUpTo(free, b - 1) |-> Scanned(s, b, kind(b))]
        BY <4>1
      <4> HIDE DEF S, step
      <4> QED
        BY <1>3, <4>1, <4>2, <4>3
    <3> QED
      BY <3>1, <3>2 DEF Recursion
  <2> HIDE DEF S, step
  <2>2. PICK g : Follows(-1, hi, S, first, step, g)
    BY <1>1, <2>1, RecursionExists
  <2>3. ASSUME NEW b \in 0 .. hi
        PROVE  g[b] = Scanned(g[b - 1], b, kind(b))
    <3>1. b \in (-1 + 1) .. hi /\ b - 1 \in -1 .. hi
      BY <1>1
    <3>2. g[b - 1] \in SeenUpTo(free, b - 1)
      BY <2>2, <3>1 DEF S, Follows
    <3>3. step[b][g[b - 1]] = Scanned(g[b - 1], b, kind(b))
      BY <3>2 DEF step
    <3> QED
      BY <2>2, <3>1, <3>3 DEF Follows
  <2>4. g = [b \in -1 .. hi |-> g[b]] /\ g[-1] = first
    BY <2>2 DEF Follows
  <2>5. \A b \in -1 .. hi : g[b] = IF b = -1 THEN first ELSE Scanned(g[b - 1], b, kind(b))
    BY <1>1, <2>3, <2>4
  <2>6. Solves(g)
    BY <1>1, <2>4, <2>5
  <2> QED
    BY <2>6
<1> DEFINE after == CHOOSE g : Solves(g)
<1>5. Solves(after)
  BY <1>4
<1> HIDE DEF after
<1>6. \A b \in -1 .. hi : after[b] \in SeenUpTo(free, b)
  <2> DEFINE T == {b \in -1 .. hi : after[b] \in SeenUpTo(free, b)}
  <2>1. -1 \in T
    BY <1>1, <1>2, <1>5
  <2>2. \A b \in 0 .. hi : b - 1 \in T => b \in T
    <3> SUFFICES ASSUME NEW b \in 0 .. hi, after[b - 1] \in SeenUpTo(free, b - 1)
                 PROVE  after[b] \in SeenUpTo(free, b)
      BY <1>1
    <3>1. after[b] = Scanned(after[b - 1], b, kind(b))
      BY <1>1, <1>5
    <3> QED
      BY <1>3, <3>1
  <2> HIDE DEF T
  <2>3. \A b \in -1 .. hi : b \in T
    BY <1>1, <2>1, <2>2, HandedOnFromBelow
  <2> QED
    BY <2>3 DEF T
<1>7. Scan(free, guarded) = after[hi]
  BY DEF Scan, after, first, kind, hi
<1> QED
  BY <1>1, <1>6, <1>7 DEF hi

-----------------------------------------------------------------------------
(* pack_vuln                                                                 *)

\* What it may have found beside prot areas of four squares.
VulnFound(n, rows, prot) ==
  {p \in [packed : Scratch(n), vuln2 : Nat, vuln2WithProt : Nat,
          vuln1 : Nat, vuln1WithProt : Nat, unused : Nat] :
     /\ OnFreeSquares(n, rows, p.packed)
     /\ Cardinality(Taken(n, p.packed)) = 4 * prot + 2 * (p.vuln2 + p.vuln1) + p.unused}

\* Areas next to something and the others are all of them.
LEMMA TwoKinds ==
  ASSUME NEW x \in SUBSET Idx, NEW next
  PROVE  LET two == {a \in x : {a, a + 1} \cap next # {}}
         IN  /\ Cardinality(two) \in Nat /\ Cardinality(x \ two) \in Nat
             /\ Cardinality(x) = Cardinality(two) + Cardinality(x \ two)
<1> DEFINE two == {a \in x : {a, a + 1} \cap next # {}}
<1>1. IsFiniteSet(x) /\ two \subseteq x
  BY FiniteIdx, FS_Subset
<1> HIDE DEF two
<1>2. IsFiniteSet(two) /\ IsFiniteSet(x \ two)
  BY <1>1, FS_Subset
<1>3. Cardinality(x \ two) = Cardinality(x) - Cardinality(two)
  BY <1>1, RemovedSubset
<1>4. Cardinality(two) \in Nat /\ Cardinality(x \ two) \in Nat /\ Cardinality(x) \in Nat
  BY <1>1, <1>2, FS_CardinalityType
<1>5. Cardinality(x) = Cardinality(two) + Cardinality(x \ two)
  BY <1>3, <1>4
<1> QED
  BY <1>4, <1>5 DEF two

LEMMA VulnLineKeeps ==
  ASSUME NEW n, NEW rows, View(n, rows), NEW prot \in Nat, NEW l \in 1 .. n,
         NEW p \in VulnFound(n, rows, prot)
  PROVE  VulnLine(rows, l, p) \in VulnFound(n, rows, prot)
<1> DEFINE q      == p.packed
           free   == StillFree(rows, q, l)
           found  == Scan(free, Guard(rows, l))
           next   == NextPrevRow(rows, q, l)
           two(x) == {a \in x : {a, a + 1} \cap next # {}}
           all    == found.vuln \cup found.withProt
           new    == Pairs(all) \cup found.unused
           p2     == [q EXCEPT ![l] = q[l] \cup new]
<1>1. /\ q \in Scratch(n) /\ OnFreeSquares(n, rows, q)
      /\ p.vuln2 \in Nat /\ p.vuln2WithProt \in Nat /\ p.vuln1 \in Nat /\ p.vuln1WithProt \in Nat
      /\ p.unused \in Nat
      /\ Cardinality(Taken(n, q)) = 4 * prot + 2 * (p.vuln2 + p.vuln1) + p.unused
  BY DEF VulnFound
<1>2. l \in 0 .. (n + 1)
  BY ViewFacts
<1>3. free \in SUBSET Idx /\ free \cap (rows[l] \cup q[l]) = {}
  BY DEF StillFree, Not
<1>4. found \in SeenUpTo(free, MaxRows - 1)
  <2> HIDE DEF free
  <2> QED
    BY <1>3, ScanFinds
<1> HIDE DEF found, free, next
<1>5. /\ found.vuln \in SUBSET Idx /\ found.withProt \in SUBSET Idx /\ found.unused \in SUBSET Idx
      /\ all \in SUBSET Idx
      /\ \A a \in all : /\ {a, a + 1} \subseteq free /\ a + 1 \notin all
                        /\ {a, a + 1} \cap found.unused = {}
      /\ found.unused \subseteq free
  BY <1>4 DEF SeenUpTo
<1> HIDE DEF all
<1>6. /\ Pairs(all) \in SUBSET Idx /\ Cardinality(all) \in Nat
      /\ IsFiniteSet(Pairs(all)) /\ Cardinality(Pairs(all)) = 2 * Cardinality(all)
  <2>1. \A a \in all : a + 1 \in Idx \ all
    BY <1>3, <1>5
  <2> QED
    BY <1>5, <2>1, TwoSquaresEach
<1>7. \A b \in Pairs(all) : \E a \in all : b \in {a, a + 1}
  <2> SUFFICES ASSUME NEW b \in Pairs(all)
               PROVE  \E a \in all : b \in {a, a + 1}
    OBVIOUS
  <2>1. b \in all \/ b - 1 \in all
    BY DEF Pairs, Shl
  <2>2. b \in Int
    BY <1>6 DEF Idx
  <2> QED
    BY <2>1, <2>2
<1>8. Pairs(all) \cap found.unused = {} /\ Pairs(all) \subseteq free
  BY <1>5, <1>7
<1>9. IsFiniteSet(found.unused) /\ Cardinality(found.unused) \in Nat
  BY <1>5, FiniteIdx, FS_Subset, FS_CardinalityType
<1>10. Cardinality(new) = 2 * Cardinality(all) + Cardinality(found.unused)
  BY <1>6, <1>8, <1>9, AddedSubset
<1>11. new \in SUBSET Idx /\ new \cap (rows[l] \cup q[l]) = {}
  BY <1>3, <1>5, <1>6, <1>8
<1> HIDE DEF new
<1>12. Took(n, rows, q, new, p2)
  <2>1. p2 = [q EXCEPT ![l] = q[l] \cup new]
    OBVIOUS
  <2> HIDE DEF q, p2
  <2> QED
    BY <1>1, <1>2, <1>11, <2>1, LineTaken
<1>13. \A x \in SUBSET Idx :
         /\ Cardinality(two(x)) \in Nat /\ Cardinality(x \ two(x)) \in Nat
         /\ Cardinality(x) = Cardinality(two(x)) + Cardinality(x \ two(x))
  BY TwoKinds
<1> DEFINE v2 == p.vuln2 + Cardinality(two(all))
           w2 == p.vuln2WithProt + Cardinality(two(found.withProt))
           v1 == p.vuln1 + Cardinality(all \ two(all))
           w1 == p.vuln1WithProt + Cardinality(found.withProt \ two(found.withProt))
           u  == p.unused + Cardinality(found.unused)
<1>15. VulnLine(rows, l, p) =
         [packed |-> p2, vuln2 |-> v2, vuln2WithProt |-> w2,
          vuln1 |-> v1, vuln1WithProt |-> w1, unused |-> u]
  <2>1. q[l] \cup Pairs(all) \cup found.unused = q[l] \cup new
    BY DEF new
  <2>2. p2 = [p.packed EXCEPT ![l] = @ \cup Pairs(all) \cup found.unused]
    BY <2>1
  <2> HIDE DEF p2
  <2> QED
    BY <2>2 DEF VulnLine, found, free, next, all
<1> HIDE DEF p2, two
<1>14. /\ Cardinality(two(all)) \in Nat /\ Cardinality(all \ two(all)) \in Nat
       /\ Cardinality(all) = Cardinality(two(all)) + Cardinality(all \ two(all))
       /\ Cardinality(two(found.withProt)) \in Nat
       /\ Cardinality(found.withProt \ two(found.withProt)) \in Nat
  BY <1>5, <1>13
<1>16. Cardinality(Taken(n, p2)) = 4 * prot + 2 * (v2 + v1) + u
  BY <1>1, <1>6, <1>9, <1>10, <1>12, <1>14 DEF Took
<1>17. p2 \in Scratch(n) /\ OnFreeSquares(n, rows, p2)
  BY <1>12 DEF Took
<1>18. v2 \in Nat /\ w2 \in Nat /\ v1 \in Nat /\ w1 \in Nat /\ u \in Nat
  BY <1>1, <1>9, <1>14
<1> HIDE DEF v2, w2, v1, w1, u
<1> QED
  BY <1>15, <1>16, <1>17, <1>18 DEF VulnFound

LEMMA PackVulnFinds ==
  ASSUME NEW n, NEW rows, View(n, rows), NEW packed \in Scratch(n), NEW prot \in Nat,
         OnFreeSquares(n, rows, packed), Cardinality(Taken(n, packed)) = 4 * prot
  PROVE  PackVuln(n, rows, packed) \in VulnFound(n, rows, prot)
<1> DEFINE first == [packed |-> packed, vuln2 |-> 0, vuln2WithProt |-> 0,
                     vuln1 |-> 0, vuln1WithProt |-> 0, unused |-> 0]
           found == VulnFound(n, rows, prot)
           S     == [l \in 0 .. n |-> found]
           step  == [l \in 1 .. n |-> [p \in found |-> VulnLine(rows, l, p)]]
           Solves(g) == g = [l \in 0 .. n |-> IF l = 0 THEN first ELSE VulnLine(rows, l, g[l - 1])]
<1>1. n \in Nat /\ n >= 1
  BY ViewFacts
<1>2. first \in found
  BY DEF VulnFound
<1>3. \A l \in 1 .. n : \A p \in found : VulnLine(rows, l, p) \in found
  BY VulnLineKeeps
<1> HIDE DEF first, found
<1>4. \E g : Solves(g)
  <2>1. Recursion(0, n, S, first, step)
    BY <1>1, <1>2, <1>3 DEF Recursion
  <2> HIDE DEF S, step
  <2>2. PICK g : Follows(0, n, S, first, step, g)
    BY <1>1, <2>1, RecursionExists
  <2>3. ASSUME NEW l \in 1 .. n
        PROVE  g[l] = VulnLine(rows, l, g[l - 1])
    <3>1. l \in (0 + 1) .. n /\ l - 1 \in 0 .. n
      BY <1>1
    <3>2. g[l - 1] \in found
      BY <2>2, <3>1 DEF S, Follows
    <3>3. step[l][g[l - 1]] = VulnLine(rows, l, g[l - 1])
      BY <3>2 DEF step
    <3> QED
      BY <2>2, <3>1, <3>3 DEF Follows
  <2>4. \A l \in 0 .. n : g[l] = IF l = 0 THEN first ELSE VulnLine(rows, l, g[l - 1])
    <3>1. g[0] = first /\ \A l \in 0 .. n : l = 0 \/ l \in 1 .. n
      BY <1>1, <2>2 DEF Follows
    <3> QED
      BY <2>3, <3>1
  <2>5. Solves(g)
    BY <2>2, <2>4 DEF Follows
  <2> QED
    BY <2>5
<1> DEFINE after == CHOOSE g : Solves(g)
<1>5. Solves(after)
  BY <1>4
<1> HIDE DEF after
<1>6. \A l \in 0 .. n : after[l] \in found
  <2> DEFINE T == {l \in 0 .. n : after[l] \in found}
  <2>1. 0 \in T
    BY <1>1, <1>2, <1>5
  <2>2. \A l \in 1 .. n : l - 1 \in T => l \in T
    <3> SUFFICES ASSUME NEW l \in 1 .. n, after[l - 1] \in found
                 PROVE  after[l] \in found
      BY <1>1
    <3>1. after[l] = VulnLine(rows, l, after[l - 1])
      BY <1>1, <1>5
    <3> QED
      BY <1>3, <3>1
  <2> HIDE DEF T
  <2>3. \A l \in 0 .. n : l \in T
    BY <1>1, <2>1, <2>2, HandedOnFromZero
  <2> QED
    BY <2>3 DEF T
<1>7. PackVuln(n, rows, packed) = after[n]
  BY DEF PackVuln, after, first
<1> QED
  BY <1>1, <1>6, <1>7 DEF found

-----------------------------------------------------------------------------
(* pack_safe                                                                 *)

\* Squares that are not in taken have become options.
OptionsBeside(taken) ==
  {s \in [curr : SUBSET Int, options : SUBSET Idx] :
     taken \subseteq s.curr /\ s.options \cap taken = {}}

LEMMA OptionsFree ==
  ASSUME NEW n, NEW rows, View(n, rows), NEW packed \in Scratch(n), NEW l \in 1 .. n
  PROVE  /\ Options(rows, packed, l) \in SUBSET Idx
         /\ Options(rows, packed, l) \cap (rows[l] \cup packed[l]) = {}
<1> DEFINE taken  == rows[l] \cup packed[l]
           moves  == SafeMoves(rows, taken, l)
           beside == packed[l - 1] \cup packed[l + 1]
           first  == [curr |-> taken, options |-> {}]
           hi     == MaxRows - 1
           seen   == OptionsBeside(taken)
           Next1(b, s) == IF b \notin NonOverlapping(moves) THEN s ELSE Optioned(moves, beside, b, s)
           S      == [b \in -1 .. hi |-> seen]
           step   == [b \in 0 .. hi |-> [s \in seen |-> Next1(b, s)]]
           Solves(g) == g = [b \in Idx \cup {-1} |->
                               IF b = -1 THEN first
                               ELSE IF b \notin NonOverlapping(moves) THEN g[b - 1]
                               ELSE Optioned(moves, beside, b, g[b - 1])]
<1>1. hi \in Nat /\ -1 \in Int /\ Idx \cup {-1} = -1 .. hi /\ 0 .. hi = Idx /\ Idx \subseteq Int
  BY SizeFacts DEF Idx
<1>2. l \in 0 .. (n + 1) /\ l \in Idx
  BY ViewFacts
<1>3. taken \in SUBSET Idx
  BY <1>2, ViewFacts DEF Scratch
<1>4. ASSUME NEW b \in NonOverlapping(moves)
      PROVE  b \in Int /\ b - 1 \in Idx /\ b + 2 \in Idx
  <2>1. b \in moves
    BY DEF NonOverlapping
  <2>2. b \in Idx /\ b \notin taken /\ (b + 1 \notin taken \/ b \notin Idx)
    BY <2>1 DEF SafeMoves, Not, Shr
  <2>3. \A c \in Idx : c \notin taken => c \in 1 .. (MaxRows - 2)
    BY <1>2 DEF View
  <2>4. b \in 1 .. (MaxRows - 2)
    BY <2>2, <2>3
  <2> HIDE DEF taken
  <2>5. b + 1 \in Idx /\ b - 1 \in Idx
    BY <2>4, SizeFacts DEF Idx
  <2>6. b + 1 \in 1 .. (MaxRows - 2)
    BY <2>2, <2>3, <2>5
  <2> QED
    BY <2>4, <2>5, <2>6, SizeFacts DEF Idx
<1>5. first \in seen
  BY <1>1, <1>3 DEF OptionsBeside
<1> HIDE DEF first, hi, taken, moves, beside
<1>6. ASSUME NEW b \in 0 .. hi, NEW s \in seen
      PROVE  Next1(b, s) \in seen
  <2>1. CASE b \notin NonOverlapping(moves)
    BY <2>1
  <2>2. CASE b \in NonOverlapping(moves)
    <3> DEFINE curr   == s.curr \cup {b, b + 1}
               left   == {m \in moves : m > b + 1}
               option == IF b - 1 \notin curr \cup beside THEN {b - 1}
                         ELSE IF b + 2 \notin left \cup curr \cup beside THEN {b + 2}
                         ELSE {}
    <3>1. /\ s.curr \in SUBSET Int /\ s.options \in SUBSET Idx
          /\ taken \subseteq s.curr /\ s.options \cap taken = {}
      BY DEF OptionsBeside
    <3>2. b \in Int /\ b - 1 \in Idx /\ b + 2 \in Idx /\ b + 1 \in Int
      BY <1>4, <2>2
    <3>3. curr \in SUBSET Int /\ taken \subseteq curr
      BY <3>1, <3>2
    <3> HIDE DEF curr, left
    <3>4. option \in SUBSET Idx /\ option \cap curr = {}
      BY <3>2
    <3>5. Next1(b, s) = [curr |-> curr \cup option, options |-> s.options \cup option]
      BY <2>2 DEF Optioned, curr, left
    <3> HIDE DEF option, Next1
    <3>6. curr \cup option \in SUBSET Int /\ s.options \cup option \in SUBSET Idx
      BY <1>1, <3>1, <3>3, <3>4
    <3>7. taken \subseteq curr \cup option /\ (s.options \cup option) \cap taken = {}
      BY <3>1, <3>3, <3>4
    <3> QED
      BY <3>5, <3>6, <3>7 DEF OptionsBeside
  <2> QED
    BY <2>1, <2>2
<1> HIDE DEF seen
<1>7. \E g : Solves(g)
  <2>1. Recursion(-1, hi, S, first, step)
    <3>1. first \in S[-1] /\ -1 <= hi
      BY <1>1, <1>5
    <3>2. ASSUME NEW b \in (-1 + 1) .. hi
          PROVE  step[b] \in [S[b - 1] -> S[b]]
      <4>1. b \in 0 .. hi /\ b \in -1 .. hi /\ b - 1 \in -1 .. hi
        BY <1>1
      <4>2. S[b - 1] = seen /\ S[b] = seen
        BY <4>1
      <4>3. step[b] = [s \in seen |-> Next1(b, s)]
        BY <4>1
      <4> HIDE DEF S, step, Next1
      <4> QED
        BY <1>6, <4>1, <4>2, <4>3
    <3> QED
      BY <3>1, <3>2 DEF Recursion
  <2> HIDE DEF S, step
  <2>2. PICK g : Follows(-1, hi, S, first, step, g)
    BY <1>1, <2>1, RecursionExists
  <2>3. ASSUME NEW b \in 0 .. hi
        PROVE  g[b] = Next1(b, g[b - 1])
    <3>1. b \in (-1 + 1) .. hi /\ b - 1 \in -1 .. hi
      BY <1>1
    <3>2. g[b - 1] \in seen
      BY <2>2, <3>1 DEF S, Follows
    <3>3. step[b][g[b - 1]] = Next1(b, g[b - 1])
      BY <3>2 DEF step
    <3> HIDE DEF Next1
    <3> QED
      BY <2>2, <3>1, <3>3 DEF Follows
  <2>4. g = [b \in -1 .. hi |-> g[b]] /\ g[-1] = first
    BY <2>2 DEF Follows
  <2>5. \A b \in -1 .. hi : g[b] = IF b = -1 THEN first
                                   ELSE IF b \notin NonOverlapping(moves) THEN g[b - 1]
                                   ELSE Optioned(moves, beside, b, g[b - 1])
    <3>1. \A b \in -1 .. hi : b = -1 \/ b \in 0 .. hi
      BY <1>1
    <3> QED
      BY <2>3, <2>4, <3>1
  <2>6. Solves(g)
    BY <1>1, <2>4, <2>5
  <2> QED
    BY <2>6
<1> DEFINE after == CHOOSE g : Solves(g)
<1>8. Solves(after)
  BY <1>7
<1> HIDE DEF after
<1>9. \A b \in -1 .. hi : after[b] \in seen
  <2> DEFINE T == {b \in -1 .. hi : after[b] \in seen}
  <2>1. -1 \in T
    BY <1>1, <1>5, <1>8
  <2>2. \A b \in 0 .. hi : b - 1 \in T => b \in T
    <3> SUFFICES ASSUME NEW b \in 0 .. hi, after[b - 1] \in seen
                 PROVE  after[b] \in seen
      BY <1>1
    <3>1. after[b] = Next1(b, after[b - 1])
      BY <1>1, <1>8
    <3> HIDE DEF Next1, Solves
    <3>2. \A s \in seen : Next1(b, s) \in seen
      BY <1>6
    <3> QED
      BY <3>1, <3>2
  <2> HIDE DEF T, S, step, Next1, Solves
  <2>3. \A b \in -1 .. hi : b \in T
    BY <1>1, <2>1, <2>2, HandedOnFromBelow
  <2> QED
    BY <2>3 DEF T
<1>10. Options(rows, packed, l) = after[hi].options
  BY DEF Options, after, first, hi, taken, moves, beside
<1>11. after[hi] \in seen
  BY <1>1, <1>9
<1> QED
  BY <1>10, <1>11 DEF seen, OptionsBeside, taken

\* What pack_safe may have found beside base squares.
SafeFound(n, rows, base) ==
  {p \in [packed : Scratch(n), op : [0 .. 2 -> Nat]] :
     /\ OnFreeSquares(n, rows, p.packed)
     /\ Cardinality(Taken(n, p.packed)) = base + p.op[2] + p.op[1] + p.op[0]}

\* An option has none, one or two openings.
LEMMA OpeningsUpToTwo ==
  ASSUME NEW rows, NEW l, NEW b
  PROVE  Openings(rows, l, b) \in 0 .. 2
<1> DEFINE both   == {-1, 1}
           beside == {d \in both : b \notin rows[l + d] /\ b \in rows[l + 2 * d]}
<1>1. IsFiniteSet(both) /\ Cardinality(both) = 2
  <2> DEFINE before == -1
             behind == 1
  <2>1. before # behind /\ both = {before, behind}
    OBVIOUS
  <2> HIDE DEF before, behind, both
  <2>2. IsFiniteSet({before, behind}) /\ Cardinality({before, behind}) = 2
    BY <2>1, TwoElements
  <2> QED
    BY <2>1, <2>2
<1>2. beside \subseteq both
  OBVIOUS
<1>3. Openings(rows, l, b) = Cardinality(beside)
  BY DEF Openings
<1> HIDE DEF beside, both
<1>4. IsFiniteSet(beside) /\ Cardinality(beside) <= Cardinality(both)
  BY <1>1, <1>2, FS_Subset
<1>5. Cardinality(beside) \in Nat
  BY <1>4, FS_CardinalityType
<1> QED
  BY <1>1, <1>3, <1>4, <1>5

LEMMA ByOpenings ==
  ASSUME NEW rows, NEW l, NEW x \in SUBSET Idx
  PROVE  LET with(k) == {b \in x : Openings(rows, l, b) = k}
         IN  /\ \A k \in 0 .. 2 : Cardinality(with(k)) \in Nat
             /\ Cardinality(x) = Cardinality(with(2)) + Cardinality(with(1)) + Cardinality(with(0))
<1> DEFINE with(k) == {b \in x : Openings(rows, l, b) = k}
<1>1. \A k : IsFiniteSet(with(k)) /\ Cardinality(with(k)) \in Nat
  BY FiniteIdx, FS_Subset, FS_CardinalityType
<1>2. x = (with(2) \cup with(1)) \cup with(0)
  BY OpeningsUpToTwo
<1>3. with(2) \cap with(1) = {} /\ (with(2) \cup with(1)) \cap with(0) = {}
  OBVIOUS
<1> DEFINE two == with(2)
           one == with(1)
           none == with(0)
<1>4. IsFiniteSet(two) /\ IsFiniteSet(one) /\ IsFiniteSet(none) /\ Cardinality(two) \in Nat
      /\ Cardinality(one) \in Nat /\ Cardinality(none) \in Nat
  BY <1>1
<1>5. two \cap one = {} /\ (two \cup one) \cap none = {} /\ x = (two \cup one) \cup none
  BY <1>2, <1>3
<1> HIDE DEF two, one, none, with
<1>6. IsFiniteSet(two \cup one) /\ Cardinality(two \cup one) = Cardinality(two) + Cardinality(one)
  BY <1>4, <1>5, AddedSubset
<1>7. Cardinality(x) = Cardinality(two) + Cardinality(one) + Cardinality(none)
  <2>1. Cardinality((two \cup one) \cup none) = Cardinality(two \cup one) + Cardinality(none)
    BY <1>4, <1>5, <1>6, AddedSubset
  <2> QED
    BY <1>5, <1>6, <2>1
<1> QED
  BY <1>1, <1>7 DEF two, one, none, with

LEMMA SafeLineKeeps ==
  ASSUME NEW n, NEW rows, View(n, rows), NEW base \in Nat, NEW l \in 1 .. n,
         NEW p \in SafeFound(n, rows, base)
  PROVE  SafeLine(rows, l, p) \in SafeFound(n, rows, base)
<1> DEFINE q       == p.packed
           new     == Options(rows, q, l)
           with(k) == {b \in new : Openings(rows, l, b) = k}
           p2      == [q EXCEPT ![l] = q[l] \cup new]
           op      == [k \in 0 .. 2 |-> p.op[k] + Cardinality(with(k))]
<1>1. /\ q \in Scratch(n) /\ OnFreeSquares(n, rows, q) /\ p.op \in [0 .. 2 -> Nat]
      /\ Cardinality(Taken(n, q)) = base + p.op[2] + p.op[1] + p.op[0]
  BY DEF SafeFound
<1>2. l \in 0 .. (n + 1)
  BY ViewFacts
<1>3. SafeLine(rows, l, p) = [packed |-> p2, op |-> op]
  BY DEF SafeLine
<1>4. new \in SUBSET Idx /\ new \cap (rows[l] \cup q[l]) = {}
  <2> HIDE DEF q
  <2> QED
    BY <1>1, OptionsFree
<1> HIDE DEF new
<1>5. Took(n, rows, q, new, p2)
  <2>1. p2 = [q EXCEPT ![l] = q[l] \cup new]
    OBVIOUS
  <2> HIDE DEF q, p2
  <2> QED
    BY <1>1, <1>2, <1>4, <2>1, LineTaken
<1>6. /\ \A k \in 0 .. 2 : Cardinality(with(k)) \in Nat
      /\ Cardinality(new) = Cardinality(with(2)) + Cardinality(with(1)) + Cardinality(with(0))
  <2>1. \A x \in SUBSET Idx :
          LET with1(k) == {b \in x : Openings(rows, l, b) = k}
          IN  /\ \A k \in 0 .. 2 : Cardinality(with1(k)) \in Nat
              /\ Cardinality(x) = Cardinality(with1(2)) + Cardinality(with1(1))
                                    + Cardinality(with1(0))
    BY ByOpenings
  <2> QED
    BY <1>4, <2>1
<1> HIDE DEF with, p2
<1>7. /\ op \in [0 .. 2 -> Nat]
      /\ \A k \in 0 .. 2 : op[k] = p.op[k] + Cardinality(with(k)) /\ p.op[k] \in Nat
  BY <1>1, <1>6
<1> HIDE DEF op
<1>8. Cardinality(Taken(n, p2)) = base + op[2] + op[1] + op[0]
  BY <1>1, <1>5, <1>6, <1>7 DEF Took
<1> QED
  BY <1>3, <1>5, <1>7, <1>8 DEF SafeFound, Took

LEMMA PackSafeFinds ==
  ASSUME NEW n, NEW rows, View(n, rows), NEW packed \in Scratch(n), NEW base \in Nat,
         OnFreeSquares(n, rows, packed), Cardinality(Taken(n, packed)) = base
  PROVE  PackSafe(n, rows, packed) \in SafeFound(n, rows, base)
<1> DEFINE first == [packed |-> packed, op |-> [k \in 0 .. 2 |-> 0]]
           found == SafeFound(n, rows, base)
           S     == [l \in 0 .. n |-> found]
           step  == [l \in 1 .. n |-> [p \in found |-> SafeLine(rows, l, p)]]
           Solves(g) == g = [l \in 0 .. n |-> IF l = 0 THEN first ELSE SafeLine(rows, l, g[l - 1])]
<1>1. n \in Nat /\ n >= 1
  BY ViewFacts
<1>2. first \in found
  BY DEF SafeFound
<1>3. \A l \in 1 .. n : \A p \in found : SafeLine(rows, l, p) \in found
  BY SafeLineKeeps
<1> HIDE DEF first, found
<1>4. \E g : Solves(g)
  <2>1. Recursion(0, n, S, first, step)
    BY <1>1, <1>2, <1>3 DEF Recursion
  <2> HIDE DEF S, step
  <2>2. PICK g : Follows(0, n, S, first, step, g)
    BY <1>1, <2>1, RecursionExists
  <2>3. ASSUME NEW l \in 1 .. n
        PROVE  g[l] = SafeLine(rows, l, g[l - 1])
    <3>1. l \in (0 + 1) .. n /\ l - 1 \in 0 .. n
      BY <1>1
    <3>2. g[l - 1] \in found
      BY <2>2, <3>1 DEF S, Follows
    <3>3. step[l][g[l - 1]] = SafeLine(rows, l, g[l - 1])
      BY <3>2 DEF step
    <3> QED
      BY <2>2, <3>1, <3>3 DEF Follows
  <2>4. \A l \in 0 .. n : g[l] = IF l = 0 THEN first ELSE SafeLine(rows, l, g[l - 1])
    <3>1. g[0] = first /\ \A l \in 0 .. n : l = 0 \/ l \in 1 .. n
      BY <1>1, <2>2 DEF Follows
    <3> QED
      BY <2>3, <3>1
  <2>5. Solves(g)
    BY <2>2, <2>4 DEF Follows
  <2> QED
    BY <2>5
<1> DEFINE after == CHOOSE g : Solves(g)
<1>5. Solves(after)
  BY <1>4
<1> HIDE DEF after
<1>6. \A l \in 0 .. n : after[l] \in found
  <2> DEFINE T == {l \in 0 .. n : after[l] \in found}
  <2>1. 0 \in T
    BY <1>1, <1>2, <1>5
  <2>2. \A l \in 1 .. n : l - 1 \in T => l \in T
    <3> SUFFICES ASSUME NEW l \in 1 .. n, after[l - 1] \in found
                 PROVE  after[l] \in found
      BY <1>1
    <3>1. after[l] = SafeLine(rows, l, after[l - 1])
      BY <1>1, <1>5
    <3> QED
      BY <1>3, <3>1
  <2> HIDE DEF T
  <2>3. \A l \in 0 .. n : l \in T
    BY <1>1, <2>1, <2>2, HandedOnFromZero
  <2> QED
    BY <2>3 DEF T
<1>7. PackSafe(n, rows, packed) = after[n]
  BY DEF PackSafe, after, first
<1> QED
  BY <1>1, <1>6, <1>7 DEF found

-----------------------------------------------------------------------------
(* The three passes together.                                                *)

LEMMA BoardIsView ==
  ASSUME IInv, NEW s \in Side
  PROVE  View(NumRows(s), board[s])
<1>1. board \in [Side -> [Idx -> SUBSET Idx]]
  BY DEF IInv, Typed
<1>2. \A t \in Side : NumRows(t) \in 1 .. (MaxRows - 2)
  BY SizeFacts DEF NumRows, Side
<1>3. \A l \in Idx, b \in Idx : b \notin board[s][l] => l \in Lines(s) /\ b \in Lines(Opp(s))
  BY DEF IInv, ViewsAgree
<1>4. Lines(Opp(s)) \subseteq 1 .. (MaxRows - 2) /\ Lines(s) = 1 .. NumRows(s)
  <2>1. Opp(s) \in Side
    BY OppFacts
  <2>2. NumRows(Opp(s)) \in 1 .. (MaxRows - 2)
    BY <1>2, <2>1
  <2> QED
    BY <2>2, SizeFacts DEF Lines
<1> QED
  BY <1>1, <1>2, <1>3, <1>4 DEF View

\* What calculate_score_metrics counts, with the scratch board in P.
Figures(P) ==
  [safe : Int, oppReal : Int, empty : Int, prot : Nat,
   vuln2 : Nat, vuln2WithProt : Int, vuln1 : Nat, vuln1WithProt : Int, unused : Int,
   safeOp2 : Int, safeOp1 : Int, safeOp0 : Int, packed : P]

LEMMA MetricsFound ==
  ASSUME IInv, NEW s \in Side
  PROVE  /\ Metrics(s) \in Figures(Scratch(NumRows(s)))
         /\ Metrics(s).safe = totalSafe[s] /\ Metrics(s).oppReal = totalReal[Opp(s)]
         /\ PackedOnce(s, Metrics(s))
<1> DEFINE n     == NumRows(s)
           rows  == board[s]
           prots == PackProt(n, rows)
           vulns == PackVuln(n, rows, prots.packed)
           safes == PackSafe(n, rows, vulns.packed)
           m     == Counted(s, prots, vulns, safes)
           base  == 4 * prots.prot + 2 * (vulns.vuln2 + vulns.vuln1) + vulns.unused
<1>1. View(n, rows)
  BY BoardIsView
<1>2. Metrics(s) = m
  BY DEF Metrics
<1>3. totalSafe[s] \in Int /\ totalReal[Opp(s)] \in Int /\ emptySquares \in Int
  BY OppFacts DEF IInv, Typed
<1> HIDE DEF n, rows
<1>4. prots \in ProtFound(n, rows)
  BY <1>1, PackProtFinds
<1> HIDE DEF prots
<1>5. /\ prots.packed \in Scratch(n) /\ prots.prot \in Nat
      /\ OnFreeSquares(n, rows, prots.packed)
      /\ Cardinality(Taken(n, prots.packed)) = 4 * prots.prot
  BY <1>4 DEF ProtFound
<1>6. vulns \in VulnFound(n, rows, prots.prot)
  <2> DEFINE packed == prots.packed
             prot   == prots.prot
  <2>1. /\ packed \in Scratch(n) /\ prot \in Nat /\ OnFreeSquares(n, rows, packed)
        /\ Cardinality(Taken(n, packed)) = 4 * prot
    BY <1>5
  <2> HIDE DEF packed, prot
  <2>2. PackVuln(n, rows, packed) \in VulnFound(n, rows, prot)
    BY <1>1, <2>1, PackVulnFinds
  <2> QED
    BY <2>2 DEF packed, prot
<1> HIDE DEF vulns
<1>7. /\ vulns.packed \in Scratch(n) /\ vulns.vuln2 \in Nat /\ vulns.vuln2WithProt \in Nat
      /\ vulns.vuln1 \in Nat /\ vulns.vuln1WithProt \in Nat /\ vulns.unused \in Nat
      /\ OnFreeSquares(n, rows, vulns.packed)
      /\ Cardinality(Taken(n, vulns.packed)) = base
  BY <1>6 DEF VulnFound
<1>8. base \in Nat
  BY <1>5, <1>7
<1> HIDE DEF base
<1>9. safes \in SafeFound(n, rows, base)
  <2> DEFINE packed == vulns.packed
  <2>1. /\ packed \in Scratch(n) /\ OnFreeSquares(n, rows, packed)
        /\ Cardinality(Taken(n, packed)) = base
    BY <1>7
  <2> HIDE DEF packed
  <2>2. PackSafe(n, rows, packed) \in SafeFound(n, rows, base)
    BY <1>1, <1>8, <2>1, PackSafeFinds
  <2> QED
    BY <2>2 DEF packed
<1> HIDE DEF safes
<1>10. /\ safes.packed \in Scratch(n) /\ safes.op \in [0 .. 2 -> Nat]
       /\ OnFreeSquares(n, rows, safes.packed)
       /\ Cardinality(Taken(n, safes.packed)) = base + safes.op[2] + safes.op[1] + safes.op[0]
  BY <1>9 DEF SafeFound
<1>11. safes.op[2] \in Nat /\ safes.op[1] \in Nat /\ safes.op[0] \in Nat
  BY <1>10
<1>12. m \in Figures(Scratch(n)) /\ m.safe = totalSafe[s] /\ m.oppReal = totalReal[Opp(s)]
  BY <1>3, <1>5, <1>7, <1>10, <1>11 DEF Counted, Figures
<1>13. PackedOnce(s, m)
  <2> DEFINE packed == {q \in (0 .. (NumRows(s) + 1)) \X Idx : q[2] \in m.packed[q[1]]}
  <2>1. m.packed = safes.packed
    BY DEF Counted
  <2>2. packed = Taken(n, safes.packed)
    BY <2>1 DEF Taken, HeldPairs, n
  <2>3. \A q \in packed : q[2] \notin board[s][q[1]]
    BY <1>10, <2>1 DEF OnFreeSquares, n, rows
  <2>4. /\ m.prot = prots.prot /\ m.vuln2 = vulns.vuln2 /\ m.vuln1 = vulns.vuln1
        /\ m.unused = vulns.unused /\ m.safeOp2 = safes.op[2] /\ m.safeOp1 = safes.op[1]
        /\ m.safeOp0 = safes.op[0]
    BY DEF Counted
  <2> HIDE DEF m, packed
  <2>5. Cardinality(packed) = 4 * m.prot + 2 * (m.vuln2 + m.vuln1) + m.unused
                                + m.safeOp2 + m.safeOp1 + m.safeOp0
    BY <1>10, <2>2, <2>4 DEF base
  <2> QED
    BY <2>3, <2>5 DEF PackedOnce, packed
<1> QED
  BY <1>2, <1>12, <1>13 DEF n

(* score-board.cc: on a board of any size, in any position, each square of the
   scratch board that the three passes take is free and belongs to one area: the
   squares of all areas together are as many as the counts say.               *)
THEOREM PackingCountsOnce == Spec => []AreasAreDisjoint
<1>1. IInv => AreasAreDisjoint
  BY MetricsFound DEF AreasAreDisjoint
<1> QED
  BY <1>1, Invariance, PTL

-----------------------------------------------------------------------------
(* The bounds.                                                               *)

LEMMA QuotType ==
  ASSUME NEW a \in Int, NEW d \in Nat \ {0}
  PROVE  Quot(a, d) \in Int
BY DEF Quot

\* What MoveFirst and MoveBounds change leaves a record of figures.
LEMMA ChangedFigures ==
  ASSUME NEW P, NEW m \in Figures(P), NEW v \in Int, NEW w \in Int
  PROVE  /\ [m EXCEPT !.safeOp2 = v, !.unused = w] \in Figures(P)
         /\ [m EXCEPT !.safeOp1 = v, !.unused = w] \in Figures(P)
         /\ [m EXCEPT !.safeOp0 = v, !.unused = w] \in Figures(P)
         /\ [m EXCEPT !.safeOp2 = v, !.safeOp1 = w] \in Figures(P)
         /\ [m EXCEPT !.safeOp1 = v, !.safeOp0 = w] \in Figures(P)
         /\ [m EXCEPT !.unused = v] \in Figures(P)
<1>1. [m EXCEPT !.safeOp2 = v, !.unused = w] \in Figures(P)
  BY DEF Figures
<1>2. [m EXCEPT !.safeOp1 = v, !.unused = w] \in Figures(P)
  BY DEF Figures
<1>3. [m EXCEPT !.safeOp0 = v, !.unused = w] \in Figures(P)
  BY DEF Figures
<1>4. [m EXCEPT !.safeOp2 = v, !.safeOp1 = w] \in Figures(P)
  BY DEF Figures
<1>5. [m EXCEPT !.safeOp1 = v, !.safeOp0 = w] \in Figures(P)
  BY DEF Figures
<1>6. [m EXCEPT !.unused = v] \in Figures(P)
  BY DEF Figures
<1> QED
  BY <1>1, <1>2, <1>3, <1>4, <1>5, <1>6

LEMMA SecuredFigures ==
  ASSUME NEW P, NEW m \in Figures(P), NEW n \in Nat, NEW v \in Int, NEW w \in Int
  PROVE  /\ [m EXCEPT !.vuln2 = n, !.safe = v, !.vuln2WithProt = w] \in Figures(P)
         /\ [m EXCEPT !.vuln1 = n, !.safe = v, !.vuln1WithProt = w] \in Figures(P)
         /\ [m EXCEPT !.prot = n, !.safe = v, !.oppReal = w] \in Figures(P)
         /\ [m EXCEPT !.prot = n, !.safe = v] \in Figures(P)
<1>1. [m EXCEPT !.vuln2 = n, !.safe = v, !.vuln2WithProt = w] \in Figures(P)
  BY DEF Figures
<1>2. [m EXCEPT !.vuln1 = n, !.safe = v, !.vuln1WithProt = w] \in Figures(P)
  BY DEF Figures
<1>3. [m EXCEPT !.prot = n, !.safe = v, !.oppReal = w] \in Figures(P)
  BY DEF Figures
<1>4. [m EXCEPT !.prot = n, !.safe = v] \in Figures(P)
  BY DEF Figures
<1> QED
  BY <1>1, <1>2, <1>3, <1>4

LEMMA FirstMoveHelps ==
  ASSUME NEW P, NEW m \in Figures(P)
  PROVE  /\ MoveFirst(m) \in Figures(P)
         /\ MoveFirst(m).safe >= m.safe /\ MoveFirst(m).oppReal <= m.oppReal
<1> DEFINE Good(x) == x \in Figures(P) /\ x.safe >= m.safe /\ x.oppReal <= m.oppReal
           lower2  == Lower(m.vuln2WithProt, m.vuln2 - 1)
           lower1  == Lower(m.vuln1WithProt, m.vuln1 - 1)
<1>1. /\ m.safe \in Int /\ m.oppReal \in Int /\ m.prot \in Nat
      /\ m.vuln2 \in Nat /\ m.vuln2WithProt \in Int
      /\ m.vuln1 \in Nat /\ m.vuln1WithProt \in Int
      /\ m.unused \in Int /\ m.safeOp2 \in Int /\ m.safeOp1 \in Int /\ m.safeOp0 \in Int
  BY DEF Figures
<1>2. /\ m.safe + 1 \in Int /\ m.safe + 2 \in Int /\ m.oppReal - 2 \in Int
      /\ m.safeOp2 - 1 \in Int /\ m.safeOp1 - 1 \in Int /\ m.safeOp0 - 1 \in Int
      /\ m.unused + 3 \in Int /\ m.unused + 2 \in Int /\ m.unused + 1 \in Int
      /\ lower2 \in Int /\ lower1 \in Int
      /\ (m.prot > 0 => m.prot - 1 \in Nat)
      /\ (m.vuln2 > 0 => m.vuln2 - 1 \in Nat) /\ (m.vuln1 > 0 => m.vuln1 - 1 \in Nat)
  BY <1>1 DEF Lower
<1>3. m.vuln2 > 0 => Good(Secure2(m))
  <2> SUFFICES ASSUME m.vuln2 > 0
               PROVE  Good(Secure2(m))
    OBVIOUS
  <2> DEFINE x == [m EXCEPT !.vuln2 = m.vuln2 - 1, !.safe = m.safe + 1, !.vuln2WithProt = lower2]
  <2>1. Secure2(m) = x
    BY DEF Secure2
  <2>2. x \in Figures(P)
    <3> HIDE DEF lower2
    <3> QED
      BY <1>2, SecuredFigures
  <2>3. x.safe = m.safe + 1 /\ x.oppReal = m.oppReal
    BY DEF Figures
  <2> HIDE DEF x
  <2> QED
    BY <1>1, <2>1, <2>2, <2>3
<1>4. m.vuln1 > 0 => Good(Secure1(m))
  <2> SUFFICES ASSUME m.vuln1 > 0
               PROVE  Good(Secure1(m))
    OBVIOUS
  <2> DEFINE x == [m EXCEPT !.vuln1 = m.vuln1 - 1, !.safe = m.safe + 1, !.vuln1WithProt = lower1]
  <2>1. Secure1(m) = x
    BY DEF Secure1
  <2>2. x \in Figures(P)
    <3> HIDE DEF lower1
    <3> QED
      BY <1>2, SecuredFigures
  <2>3. x.safe = m.safe + 1 /\ x.oppReal = m.oppReal
    BY DEF Figures
  <2> HIDE DEF x
  <2> QED
    BY <1>1, <2>1, <2>2, <2>3
<1> HIDE DEF lower2, lower1
<1>5. m.prot > 0 => Good([m EXCEPT !.prot = @ - 1, !.safe = @ + 2, !.oppReal = @ - 2])
  <2> SUFFICES ASSUME m.prot > 0
               PROVE  Good([m EXCEPT !.prot = @ - 1, !.safe = @ + 2, !.oppReal = @ - 2])
    OBVIOUS
  <2> DEFINE x == [m EXCEPT !.prot = m.prot - 1, !.safe = m.safe + 2, !.oppReal = m.oppReal - 2]
  <2>1. x \in Figures(P)
    BY <1>2, SecuredFigures
  <2>2. x.safe = m.safe + 2 /\ x.oppReal = m.oppReal - 2
    BY DEF Figures
  <2>3. x = [m EXCEPT !.prot = @ - 1, !.safe = @ + 2, !.oppReal = @ - 2]
    OBVIOUS
  <2> HIDE DEF x
  <2>4. Good(x)
    BY <1>1, <2>1, <2>2
  <2> QED
    BY <2>3, <2>4 DEF x
<1>6. m.prot > 0 => Good([m EXCEPT !.prot = @ - 1, !.safe = @ + 2])
  <2> SUFFICES ASSUME m.prot > 0
               PROVE  Good([m EXCEPT !.prot = @ - 1, !.safe = @ + 2])
    OBVIOUS
  <2> DEFINE x == [m EXCEPT !.prot = m.prot - 1, !.safe = m.safe + 2]
  <2>1. x \in Figures(P)
    BY <1>2, SecuredFigures
  <2>2. x.safe = m.safe + 2 /\ x.oppReal = m.oppReal
    BY DEF Figures
  <2>3. x = [m EXCEPT !.prot = @ - 1, !.safe = @ + 2]
    OBVIOUS
  <2> HIDE DEF x
  <2>4. Good(x)
    BY <1>1, <2>1, <2>2
  <2> QED
    BY <2>3, <2>4 DEF x
<1>7. /\ Good([m EXCEPT !.safeOp2 = @ - 1, !.unused = @ + 3])
      /\ Good([m EXCEPT !.safeOp1 = @ - 1, !.unused = @ + 2])
      /\ Good([m EXCEPT !.safeOp0 = @ - 1, !.unused = @ + 1])
  <2> DEFINE x2 == [m EXCEPT !.safeOp2 = m.safeOp2 - 1, !.unused = m.unused + 3]
             x1 == [m EXCEPT !.safeOp1 = m.safeOp1 - 1, !.unused = m.unused + 2]
             x0 == [m EXCEPT !.safeOp0 = m.safeOp0 - 1, !.unused = m.unused + 1]
  <2>1. x2 \in Figures(P)
    BY <1>2, ChangedFigures
  <2>2. x1 \in Figures(P)
    BY <1>2, ChangedFigures
  <2>3. x0 \in Figures(P)
    BY <1>2, ChangedFigures
  <2>4. x2.safe = m.safe /\ x2.oppReal = m.oppReal
    BY DEF Figures
  <2>5. x1.safe = m.safe /\ x1.oppReal = m.oppReal
    BY DEF Figures
  <2>6. x0.safe = m.safe /\ x0.oppReal = m.oppReal
    BY DEF Figures
  <2>7. Good(x2)
    <3> HIDE DEF x2
    <3> QED
      BY <1>1, <2>1, <2>4
  <2>8. Good(x1)
    <3> HIDE DEF x1
    <3> QED
      BY <1>1, <2>2, <2>5
  <2>9. Good(x0)
    <3> HIDE DEF x0
    <3> QED
      BY <1>1, <2>3, <2>6
  <2> HIDE DEF Good
  <2> QED
    BY <2>7, <2>8, <2>9
<1>8. Good(m)
  BY <1>1
<1> HIDE DEF Good
<1>9. /\ m.vuln2 % 3 # 0 => m.vuln2 > 0
      /\ m.vuln1 % 2 # 0 => m.vuln1 > 0
      /\ m.prot % 2 = 1 => m.prot > 0
  BY <1>1
<1>10. Good(MoveFirst(m))
  BY <1>3, <1>4, <1>5, <1>6, <1>7, <1>8, <1>9 DEF MoveFirst
<1> QED
  BY <1>10 DEF Good

(* The bounds are numbers: at least the safe moves for the player, at most its
   real moves for the opponent.                                               *)
LEMMA BoundsOfFigures ==
  ASSUME NEW P, NEW m \in Figures(P)
  PROVE  /\ MoveBounds(m) \in Bounds
         /\ MoveBounds(m).lower >= m.safe /\ MoveBounds(m).upper <= m.oppReal
<1> DEFINE k     == Paired(m)
           rest2 == k.vuln2 % 3 # 0
           rest1 == k.vuln1 % 2 # 0
           moves == k.prot + k.vuln2 \div 3 + k.vuln1 \div 2 + k.safe
                      + (IF rest2 /\ rest1 THEN 1 ELSE 0)
           used  == IF rest2 /\ rest1 THEN [k EXCEPT !.unused = @ - 1] ELSE k
           final == IF rest2 = rest1 THEN Lowered(used) ELSE OddOption(used)
           half  == Quot(k.empty - moves * 2 - UnusedSquares(final), 2)
<1>1. k \in Figures(P) /\ k.safe = m.safe /\ k.oppReal = m.oppReal
  <2>1. CASE m.prot % 2 = 1
    <3> DEFINE x == [m EXCEPT !.prot = m.prot - 1, !.vuln2 = m.vuln2 + 2]
    <3>1. m.prot \in Nat /\ m.vuln2 \in Nat
      BY DEF Figures
    <3>2. m.prot - 1 \in Nat /\ m.vuln2 + 2 \in Nat
      BY <2>1, <3>1
    <3>3. x \in Figures(P)
      <4>1. \A v, w \in Nat : [m EXCEPT !.prot = v, !.vuln2 = w] \in Figures(P)
        BY DEF Figures
      <4> QED
        BY <3>2, <4>1
    <3>4. x.safe = m.safe /\ x.oppReal = m.oppReal
      BY DEF Figures
    <3>5. k = x
      BY <2>1 DEF Paired
    <3> HIDE DEF x, k
    <3> QED
      BY <3>3, <3>4, <3>5
  <2>2. CASE ~ (m.prot % 2 = 1)
    BY <2>2 DEF Paired
  <2> QED
    BY <2>1, <2>2
<1>2. MoveBounds(m) = [lower |-> moves, upper |-> Lower(half, k.oppReal - k.prot)]
  BY DEF MoveBounds
<1> HIDE DEF k
<1>3. /\ k.safe \in Int /\ k.oppReal \in Int /\ k.empty \in Int /\ k.prot \in Nat
      /\ k.vuln2 \in Nat /\ k.vuln1 \in Nat
      /\ k.unused \in Int /\ k.safeOp2 \in Int /\ k.safeOp1 \in Int /\ k.safeOp0 \in Int
  BY <1>1 DEF Figures
<1>4. moves \in Int /\ moves >= k.safe
  <2>1. k.vuln2 \div 3 \in Nat /\ k.vuln1 \div 2 \in Nat
    BY <1>3
  <2> QED
    BY <1>3, <2>1
<1>5. used \in Figures(P)
  <2>1. k.unused - 1 \in Int
    BY <1>3
  <2>2. [k EXCEPT !.unused = k.unused - 1] \in Figures(P)
    BY <1>1, <2>1, ChangedFigures
  <2> QED
    BY <1>1, <2>2
<1> HIDE DEF used, moves
<1>6. \A x \in Figures(P) : Lowered(x) \in Figures(P) /\ OddOption(x) \in Figures(P)
  <2>1. \A x \in Figures(P) :
          /\ x.safeOp2 - 1 \in Int /\ x.safeOp1 - 1 \in Int
          /\ x.safeOp1 + 1 \in Int /\ x.safeOp0 + 1 \in Int
          /\ x.unused + 3 \in Int /\ x.unused + 2 \in Int /\ x.unused + 1 \in Int
    BY DEF Figures
  <2>2. \A x \in Figures(P) :
          [x EXCEPT !.safeOp2 = x.safeOp2 - 1, !.safeOp1 = x.safeOp1 + 1] \in Figures(P)
    BY <2>1, ChangedFigures
  <2>3. \A x \in Figures(P) :
          [x EXCEPT !.safeOp1 = x.safeOp1 - 1, !.safeOp0 = x.safeOp0 + 1] \in Figures(P)
    BY <2>1, ChangedFigures
  <2>4. \A x \in Figures(P) : /\ [x EXCEPT !.unused = x.unused + 3] \in Figures(P)
                              /\ [x EXCEPT !.unused = x.unused + 2] \in Figures(P)
                              /\ [x EXCEPT !.unused = x.unused + 1] \in Figures(P)
    BY <2>1, ChangedFigures
  <2> SUFFICES ASSUME NEW x \in Figures(P)
               PROVE  Lowered(x) \in Figures(P) /\ OddOption(x) \in Figures(P)
    OBVIOUS
  <2>5. Lowered(x) \in Figures(P)
    BY <2>2, <2>3 DEF Lowered
  <2>6. OddOption(x) \in Figures(P)
    BY <2>3, <2>4 DEF OddOption
  <2> QED
    BY <2>5, <2>6
<1>7. final \in Figures(P)
  BY <1>5, <1>6
<1> HIDE DEF final
<1>8. UnusedSquares(final) \in Int
  BY <1>7 DEF UnusedSquares, Figures
<1>9. half \in Int
  BY <1>3, <1>4, <1>8, QuotType
<1> HIDE DEF half
<1>10. /\ Lower(half, k.oppReal - k.prot) \in Int
       /\ Lower(half, k.oppReal - k.prot) <= k.oppReal
  BY <1>3, <1>9 DEF Lower
<1> QED
  BY <1>1, <1>2, <1>4, <1>10 DEF Bounds

LEMMA BoundsOfTheBoard ==
  ASSUME IInv, NEW s \in Side
  PROVE  /\ CurrPlayer(s) \in Bounds /\ NextPlayer(s) \in Bounds
         /\ CurrPlayer(s).lower >= totalSafe[s] /\ CurrPlayer(s).upper <= totalReal[Opp(s)]
         /\ NextPlayer(s).lower >= totalSafe[s] /\ NextPlayer(s).upper <= totalReal[Opp(s)]
<1> DEFINE P == Scratch(NumRows(s))
           m == Metrics(s)
           f == MoveFirst(m)
<1>1. m \in Figures(P) /\ m.safe = totalSafe[s] /\ m.oppReal = totalReal[Opp(s)]
  BY MetricsFound
<1>2. CurrPlayer(s) = MoveBounds(f) /\ NextPlayer(s) = MoveBounds(m)
  BY DEF CurrPlayer, NextPlayer
<1> HIDE DEF P, m
<1>3. f \in Figures(P) /\ f.safe >= m.safe /\ f.oppReal <= m.oppReal
  BY <1>1, FirstMoveHelps
<1> HIDE DEF f
<1>4. /\ MoveBounds(f) \in Bounds
      /\ MoveBounds(f).lower >= f.safe /\ MoveBounds(f).upper <= f.oppReal
  BY <1>3, BoundsOfFigures
<1>5. /\ MoveBounds(m) \in Bounds
      /\ MoveBounds(m).lower >= m.safe /\ MoveBounds(m).upper <= m.oppReal
  BY <1>1, BoundsOfFigures
<1>6. /\ m.safe \in Int /\ m.oppReal \in Int /\ f.safe \in Int /\ f.oppReal \in Int
      /\ MoveBounds(f).lower \in Int /\ MoveBounds(f).upper \in Int
  BY <1>1, <1>3, <1>4 DEF Figures, Bounds
<1> QED
  BY <1>1, <1>2, <1>3, <1>4, <1>5, <1>6

LEMMA EstimatesAreSmall ==
  ASSUME IInv
  PROVE  EstimateIsNoVerdict
<1> SUFFICES ASSUME NEW s \in Side, ~ IsGameOverExpensive(s).over
             PROVE  IsGameOverExpensive(s).score \in -100 .. 100
  BY DEF EstimateIsNoVerdict
<1> DEFINE curr == CurrPlayer(s)
           opp  == NextPlayer(Opp(s))
<1>1. curr \in Bounds /\ opp \in Bounds
  BY BoundsOfTheBoard, OppFacts
<1>2. IsGameOverExpensive(s) = Verdict(curr, opp)
  BY DEF IsGameOverExpensive
<1> HIDE DEF curr, opp
<1>3. /\ curr.lower \in Int /\ curr.upper \in Int
      /\ opp.lower \in Int /\ opp.upper \in Int
  BY <1>1 DEF Bounds
<1>4. curr.lower <= curr.upper /\ opp.lower < opp.upper
  BY <1>2, <1>3 DEF Verdict
<1>5. IsGameOverExpensive(s).score = Estimate(curr, opp)
  BY <1>2, <1>3, <1>4 DEF Verdict
<1> QED
  BY <1>1, <1>4, <1>5, EstimateIsSmall

(* score-board.h:47-63: in every position, on a board of any size, an estimate
   is far from the 5000 that negamax.cc:85 takes for a win.                   *)
THEOREM EstimatesAreNoVerdicts == Spec => []EstimateIsNoVerdict
<1>1. IInv => EstimateIsNoVerdict
  BY EstimatesAreSmall
<1> QED
  BY <1>1, Invariance, PTL

(* negamax.cc:144, 152: a position that the simple counts decide is decided by
   the bounds, and a win by the counts is the same win by the bounds.         *)
THEOREM BoundsDecideToo ==
  Spec => [](\A s \in Side :
               /\ IsGameOver(s) # 0 => IsGameOverExpensive(s).over
               /\ IsGameOver(s) = 5000 => IsGameOverExpensive(s).score = 5000)
<1>1. ASSUME IInv, NEW s \in Side
      PROVE  /\ IsGameOver(s) # 0 => IsGameOverExpensive(s).over
             /\ IsGameOver(s) = 5000 => IsGameOverExpensive(s).score = 5000
  <2> DEFINE o    == Opp(s)
             curr == CurrPlayer(s)
             opp  == NextPlayer(o)
  <2>1. o \in Side /\ Opp(o) = s
    BY <1>1, OppFacts
  <2>2. /\ totalSafe[s] \in Int /\ totalReal[s] \in Int
        /\ totalSafe[o] \in Int /\ totalReal[o] \in Int
    BY <1>1, <2>1 DEF IInv, Typed
  <2>3. /\ curr \in Bounds
        /\ curr.lower >= totalSafe[s] /\ curr.upper <= totalReal[o]
    BY <1>1, BoundsOfTheBoard
  <2> HIDE DEF o
  <2>4. /\ opp \in Bounds
        /\ opp.lower >= totalSafe[o] /\ opp.upper <= totalReal[s]
    BY <1>1, <2>1, BoundsOfTheBoard
  <2>5. /\ IsGameOverExpensive(s) = Verdict(curr, opp)
        /\ IsGameOver(s) = IF totalSafe[s] > totalReal[o] THEN 5000
                           ELSE IF totalSafe[o] >= totalReal[s] THEN -5000
                           ELSE 0
    BY DEF IsGameOverExpensive, IsGameOver, o
  <2> HIDE DEF curr, opp
  <2>6. curr.lower \in Int /\ curr.upper \in Int /\ opp.lower \in Int /\ opp.upper \in Int
    BY <2>3, <2>4 DEF Bounds
  <2>7. CASE totalSafe[s] > totalReal[o]
    <3>1. curr.lower > curr.upper
      BY <2>2, <2>3, <2>6, <2>7
    <3> QED
      BY <2>5, <3>1 DEF Verdict
  <2>8. CASE ~ (totalSafe[s] > totalReal[o]) /\ totalSafe[o] >= totalReal[s]
    <3>1. opp.lower >= opp.upper
      BY <2>2, <2>4, <2>6, <2>8
    <3>2. IsGameOver(s) # 5000
      BY <2>5, <2>8
    <3> QED
      BY <2>5, <3>1, <3>2 DEF Verdict
  <2>9. CASE ~ (totalSafe[s] > totalReal[o]) /\ ~ (totalSafe[o] >= totalReal[s])
    BY <2>5, <2>9
  <2> QED
    BY <2>7, <2>8, <2>9
<1>2. IInv => \A s \in Side :
                /\ IsGameOver(s) # 0 => IsGameOverExpensive(s).over
                /\ IsGameOver(s) = 5000 => IsGameOverExpensive(s).score = 5000
  BY <1>1
<1> QED
  BY <1>2, Invariance, PTL

-----------------------------------------------------------------------------
(* The search.                                                               *)

Result == [key : SUBSET Bit, nodes : Nat, value : Values, depth : Nat]

FrameType == [side : Side, remaining : Nat \ {0}, alpha : Values, beta : Values,
              moves : Seq(Entry), next : Nat, startNodes : Nat]

\* Whose move it is in frame i of a search for player t.
SideOf(i, t) == IF i % 2 = 1 THEN t ELSE Opp(t)

Ended == pc \in {"cutoff", "done"}

(* Frame i of a search of player t with the horizon h, when n nodes have been
   counted.                                                                   *)
Fine(i, f, t, h, n) ==
  /\ f.side = SideOf(i, t)
  /\ f.remaining = h - (i - 1)
  /\ f.moves # <<>>
  /\ \A k \in DOMAIN f.moves : Where(f.moves[k]) \in Moves(f.side)
  /\ f.next <= Len(f.moves)
  /\ f.startNodes <= n

SearchTyped ==
  /\ zobrist \in [Bit -> SUBSET HashBits]
  /\ horizons \in Seq(Nat \ {0}) /\ horizons # <<>>
  /\ table \in [SUBSET HashBits -> Result]
  /\ nodeCount \in Nat /\ turn \in Side /\ value \in Values
  /\ stack \in Seq(FrameType)
  /\ pc \in {"idle", "loop", "call", "return", "cutoff", "done"}

\* A window is empty only when its frame has ended.
Windows ==
  \A i \in 1 .. Len(stack) : stack[i].alpha < stack[i].beta \/ (Ended /\ i = Len(stack))

Frames ==
  /\ stack = <<>> => pc \in {"idle", "done"}
  /\ pc = "idle" => stack = <<>>
  /\ stack # <<>> => iteration \in 1 .. Len(horizons)
  /\ \A i \in 1 .. Len(stack) : Fine(i, stack[i], turn, horizons[iteration], nodeCount)
  /\ Windows

\* A move has been played for each frame that is waiting for a call.
OneMoveAFrame ==
  Len(played) = IF stack = <<>> THEN 0
                ELSE IF pc \in {"call", "return"} THEN Len(stack) ELSE Len(stack) - 1

SearchInv == IInv /\ KeysExact /\ SearchTyped /\ Frames /\ OneMoveAFrame

LEMMA SearchInvType == SearchInv => SearchTypeOK
<1> SUFFICES ASSUME SearchInv
             PROVE  SearchTypeOK
  OBVIOUS
<1>1. \A i \in SUBSET HashBits :
        table[i] \in [key : SUBSET Bit, nodes : Nat, value : Values, depth : Nat]
  BY DEF SearchInv, SearchTyped, Result
<1>2. value \in Values /\ stack \in Seq(FrameType)
  BY DEF SearchInv, SearchTyped
<1>3. ASSUME NEW i \in DOMAIN stack
      PROVE  LET f == stack[i]
             IN  /\ f.side = (IF i % 2 = 1 THEN turn ELSE Opp(turn))
                 /\ f.alpha \in Values /\ f.beta \in Values
                 /\ f.alpha < f.beta \/ (pc \in {"cutoff", "done"} /\ i = Len(stack))
                 /\ f.next \in 0 .. Len(f.moves)
  <2>1. i \in 1 .. Len(stack) /\ stack[i] \in FrameType
    BY <1>2
  <2>2. Fine(i, stack[i], turn, horizons[iteration], nodeCount)
        /\ (stack[i].alpha < stack[i].beta \/ (pc \in {"cutoff", "done"} /\ i = Len(stack)))
    BY <2>1 DEF SearchInv, Frames, Windows, Ended
  <2>3. stack[i].next \in Nat /\ Len(stack[i].moves) \in Nat
    BY <2>1 DEF FrameType
  <2> QED
    BY <2>1, <2>2, <2>3 DEF Fine, FrameType, SideOf
<1>4. Len(stack) > 0 => Len(played) = Len(stack) - (IF pc \in {"call", "return"} THEN 0 ELSE 1)
  <2>1. stack # <<>> => Len(played) = IF pc \in {"call", "return"} THEN Len(stack) ELSE Len(stack) - 1
    BY DEF SearchInv, OneMoveAFrame
  <2>2. Len(stack) > 0 => stack # <<>>
    OBVIOUS
  <2>3. Len(stack) \in Nat
    BY <1>2
  <2> QED
    BY <2>1, <2>2, <2>3
<1> QED
  BY <1>1, <1>2, <1>3, <1>4 DEF SearchTypeOK

LEMMA SearchInitEstablishes == Init /\ SearchInit => SearchInv
<1> SUFFICES ASSUME Init, SearchInit
             PROVE  SearchInv
  OBVIOUS
<1>1. IInv /\ KeysExact /\ played = <<>>
  BY InitEstablishes, InitKeys DEF Init
<1>2. horizons \in Seq(Nat \ {0}) /\ horizons # <<>> /\ zobrist \in [Bit -> SUBSET HashBits]
  BY SearchAssumption DEF SearchInit
<1>3. table \in [SUBSET HashBits -> Result]
  BY DEF SearchInit, EmptyTable, Result, Values
<1> QED
  BY <1>1, <1>2, <1>3
     DEF SearchInit, SearchInv, SearchTyped, Frames, Windows, OneMoveAFrame, Side, Values

-----------------------------------------------------------------------------
(* Helpers.                                                                  *)

LEMMA Verdicts ==
  ASSUME IInv, NEW s \in Side
  PROVE  IsGameOver(s) \in Values /\ IsGameOverExpensive(s).score \in Values
         /\ (IsGameOver(s) # 0 => IsGameOver(s) \in {5000, -5000})
         /\ (IsGameOverExpensive(s).over => IsGameOverExpensive(s).score \in {5000, -5000})
<1>1. IsGameOver(s) \in {5000, -5000, 0}
  BY DEF IsGameOver
<1>2. IsGameOverExpensive(s).over => IsGameOverExpensive(s).score \in {5000, -5000}
  BY DEF IsGameOverExpensive, Verdict
<1>3. ~ IsGameOverExpensive(s).over => IsGameOverExpensive(s).score \in -100 .. 100
  BY EstimatesAreSmall DEF EstimateIsNoVerdict
<1> DEFINE v == IsGameOver(s)
           e == IsGameOverExpensive(s)
<1>4. v \in {5000, -5000, 0} /\ (e.score \in {5000, -5000} \/ e.score \in -100 .. 100)
  BY <1>1, <1>2, <1>3
<1> HIDE DEF v, e
<1>5. v \in Values /\ (v # 0 => v \in {5000, -5000})
  BY <1>4 DEF Values
<1>6. e.score \in Values
  BY <1>4 DEF Values
<1> QED
  BY <1>2, <1>5, <1>6 DEF v, e

\* The moves a frame is entered with.
LEMMA MovesOfAFrame ==
  ASSUME IInv, NEW s \in Side, IsGameOver(s) = 0,
         NEW ms, ms = AllMoves(s) \/ ms = StagedMoves(s)
  PROVE  /\ ms \in Seq(Entry) /\ ms # <<>>
         /\ \A k \in DOMAIN ms :
              Where(ms[k]) \in Moves(s) /\ Squares(s, Where(ms[k])) \cap Occupied = {}
<1>1. board \in Words /\ Bordered(board)
  BY WordsHere
<1>2. ListedOn(board, s) # {}
  BY NoMoveMeansDecided, MovesHere
<1>3. Covers(ms, ListedOn(board, s))
  BY <1>1, <1>2, OrdersHere, OrdersCover
<1>4. ms \in Seq(Entry)
  BY <1>3 DEF Covers
<1>5. ms # <<>>
  BY <1>2, <1>3 DEF Covers
<1>6. ASSUME NEW k \in DOMAIN ms
      PROVE  Where(ms[k]) \in Moves(s) /\ Squares(s, Where(ms[k])) \cap Occupied = {}
  <2>0. PlaceOf(ms[k]) \in ListedOn(board, s)
    BY <1>3 DEF Covers
  <2>1. PlaceOf(ms[k]) \in PlacesOf(s)
    BY <1>1, <2>0, StagesArePlaces
  <2>2. Where(ms[k]) = [array_index |-> PlaceOf(ms[k])[1], mask_index |-> PlaceOf(ms[k])[2]]
    BY DEF Where, PlaceOf
  <2>3. Where(ms[k]) \in Moves(s)
    BY <2>1, <2>2, PlacesArePairs
  <2>4. /\ PlaceOf(ms[k])[2] \notin board[s][PlaceOf(ms[k])[1]]
        /\ PlaceOf(ms[k])[2] + 1 \notin board[s][PlaceOf(ms[k])[1]]
    BY <1>1, <2>0, ListedAreMoves
  <2>5. Fits(s, Where(ms[k]))
    BY <2>2, <2>4 DEF Fits
  <2> QED
    BY <2>3, <2>5, MoveSquares DEF IInv
<1> QED
  BY <1>4, <1>5, <1>6

\* The keys are sets of the bits of squares, one for each occupied square.
LEMMA KeysOfTheBoard ==
  ASSUME KeysExact, NEW f \in Flip
  PROVE  /\ hashkey[f] \in SUBSET Bit
         /\ Cardinality(hashkey[f]) = Cardinality(Occupied)
<1> DEFINE bit == [q \in Occupied |-> FlippedBit(f, KeyBit(q))]
           key == hashkey[f]
<1>1. key = {FlippedBit(f, KeyBit(q)) : q \in Occupied}
  BY DEF KeysExact, KeyBit
<1>2. Occupied \in SUBSET Square
  BY DEF Occupied
<1>3. ASSUME NEW q \in Occupied
      PROVE  FlippedBit(f, KeyBit(q)) \in Bit
  <2>1. /\ FlippedBit(f, KeyBit(q)) = FlipRow(f, q) * Cols + FlipCol(f, q)
        /\ FlipRow(f, q) \in Nat /\ FlipCol(f, q) \in 0 .. (Cols - 1)
    BY <1>2, FlippedSquare
  <2>2. FlipRow(f, q) <= Rows - 1
    BY <1>2, SizeFacts DEF FlipRow, Square
  <2> DEFINE r == FlipRow(f, q)
             c == FlipCol(f, q)
  <2>3. r \in Nat /\ r <= Rows - 1 /\ c \in 0 .. (Cols - 1)
    BY <2>1, <2>2
  <2> HIDE DEF r, c
  <2>4. r * Cols <= (Rows - 1) * Cols /\ r * Cols \in Nat
    BY <2>3, SizeFacts
  <2>5. (Rows - 1) * Cols = Rows * Cols - Cols /\ Rows * Cols \in Nat
    BY SizeFacts
  <2>6. r * Cols + c \in 0 .. (Rows * Cols - 1)
    BY <2>3, <2>4, <2>5, SizeFacts
  <2> QED
    BY <2>1, <2>6 DEF Bit, r, c
<1>4. key \in SUBSET Bit
  BY <1>1, <1>3
<1>5. IsFiniteSet(Occupied)
  BY <1>2, FiniteSquares, FS_Subset
<1>6. /\ bit \in [Occupied -> key]
      /\ \A p, q \in Occupied : bit[p] = bit[q] => p = q
      /\ \A b \in key : \E q \in Occupied : bit[q] = b
  BY <1>1, <1>2, BitsApart
<1> HIDE DEF bit, key
<1>7. Cardinality(key) = Cardinality(Occupied)
  BY <1>5, <1>6, AsMany
<1> QED
  BY <1>4, <1>7 DEF key

-----------------------------------------------------------------------------
(* Stacks of frames.                                                         *)

LEMMA TopChanged ==
  ASSUME NEW S, NEW st \in Seq(S), st # <<>>, NEW g \in S,
         NEW st2, st2 = [st EXCEPT ![Len(st)] = g]
  PROVE  /\ st2 \in Seq(S) /\ st2 # <<>> /\ Len(st2) = Len(st)
         /\ st2[Len(st)] = g
         /\ \A i \in 1 .. Len(st) : i # Len(st) => st2[i] = st[i]
<1> DEFINE n == Len(st)
<1>1. n \in Nat /\ n \in 1 .. n /\ st \in [1 .. n -> S]
  OBVIOUS
<1>2. st2 = [st EXCEPT ![n] = g]
  OBVIOUS
<1> HIDE DEF n
<1>3. st2 \in [1 .. n -> S] /\ st2[n] = g /\ \A i \in 1 .. n : i # n => st2[i] = st[i]
  BY <1>1, <1>2
<1>4. st2 \in Seq(S) /\ Len(st2) = n
  BY <1>1, <1>3
<1>5. st2 # <<>>
  BY <1>1, <1>4
<1> QED
  BY <1>3, <1>4, <1>5 DEF n

LEMMA Pushed ==
  ASSUME NEW S, NEW st \in Seq(S), NEW g \in S, NEW st2, st2 = Append(st, g)
  PROVE  /\ st2 \in Seq(S) /\ st2 # <<>> /\ Len(st2) = Len(st) + 1
         /\ st2[Len(st) + 1] = g
         /\ \A i \in 1 .. Len(st) : st2[i] = st[i]
BY AppendProperties

LEMMA Popped ==
  ASSUME NEW S, NEW st \in Seq(S), Len(st) > 1, NEW st2, st2 = SubSeq(st, 1, Len(st) - 1)
  PROVE  /\ st2 \in Seq(S) /\ st2 # <<>> /\ Len(st2) = Len(st) - 1
         /\ \A i \in 1 .. (Len(st) - 1) : st2[i] = st[i]
<1> DEFINE n == Len(st) - 1
<1>1. n \in Nat /\ n >= 1 /\ n <= Len(st)
  OBVIOUS
<1>2. st2 = SubSeq(st, 1, n)
  OBVIOUS
<1> HIDE DEF n
<1>3. st2 \in Seq(S) /\ Len(st2) = n /\ \A i \in 1 .. n : st2[i] = st[i]
  BY <1>1, <1>2
<1>4. st2 # <<>>
  <2>1. Len(st2) # 0
    BY <1>1, <1>3
  <2> QED
    BY <2>1
<1> QED
  BY <1>3, <1>4 DEF n

LEMMA TopFacts ==
  ASSUME SearchInv, stack # <<>>
  PROVE  /\ Len(stack) \in Nat /\ Len(stack) >= 1 /\ Len(stack) \in 1 .. Len(stack)
         /\ Top = stack[Len(stack)] /\ Top \in FrameType
         /\ Fine(Len(stack), Top, turn, horizons[iteration], nodeCount)
         /\ ~ Ended => Top.alpha < Top.beta
         /\ Top.side \in Side /\ Top.alpha \in Values /\ Top.beta \in Values
         /\ Top.remaining \in Nat \ {0} /\ Top.next \in Nat /\ Top.startNodes \in Nat
         /\ Top.moves \in Seq(Entry)
         /\ Top.next <= Len(Top.moves)
         /\ \A k \in 1 .. Len(Top.moves) : Where(Top.moves[k]) \in Moves(Top.side)
<1>1. stack \in Seq(FrameType)
  BY DEF SearchInv, SearchTyped
<1>2. Len(stack) \in Nat /\ Len(stack) >= 1 /\ Len(stack) \in 1 .. Len(stack)
  BY <1>1
<1>3. Top = stack[Len(stack)] /\ Top \in FrameType
  BY <1>1, <1>2 DEF Top
<1>4. Fine(Len(stack), Top, turn, horizons[iteration], nodeCount)
      /\ (~ Ended => Top.alpha < Top.beta)
  BY <1>2, <1>3 DEF SearchInv, Frames, Windows
<1>5. /\ Top.side \in Side /\ Top.alpha \in Values /\ Top.beta \in Values
      /\ Top.remaining \in Nat \ {0} /\ Top.next \in Nat /\ Top.startNodes \in Nat
      /\ Top.moves \in Seq(Entry)
  BY <1>3 DEF FrameType
<1>6. Top.next <= Len(Top.moves) /\ \A k \in 1 .. Len(Top.moves) : Where(Top.moves[k]) \in Moves(Top.side)
  BY <1>4, <1>5 DEF Fine
<1> QED
  BY <1>2, <1>3, <1>4, <1>5, <1>6

\* The other frames stay as they are while the search stays in its iteration.
LEMMA FramesStay ==
  ASSUME SearchInv, stack # <<>>,
         stack' \in Seq(FrameType), stack' # <<>>,
         Len(stack') <= Len(stack) + 1,
         \A i \in 1 .. Len(stack') : i < Len(stack) => stack'[i] = stack[i],
         \A i \in 1 .. Len(stack') : i >= Len(stack) =>
           /\ Fine(i, stack'[i], turn, horizons[iteration], nodeCount')
           /\ stack'[i].alpha < stack'[i].beta \/ (Ended' /\ i = Len(stack')),
         turn' = turn, horizons' = horizons, iteration' = iteration,
         nodeCount' \in Nat, nodeCount' >= nodeCount, pc' # "idle"
  PROVE  Frames'
<1>1. Len(stack) \in Nat /\ Len(stack') \in Nat /\ nodeCount \in Nat
  BY TopFacts DEF SearchInv, SearchTyped
<1>2. ASSUME NEW i \in 1 .. Len(stack')
      PROVE  /\ Fine(i, stack'[i], turn, horizons[iteration], nodeCount')
             /\ stack'[i].alpha < stack'[i].beta \/ (Ended' /\ i = Len(stack'))
  <2>1. CASE i < Len(stack)
    <3>1. i \in 1 .. Len(stack) /\ stack'[i] = stack[i]
      BY <1>1, <2>1
    <3>2. stack[i].alpha < stack[i].beta
      BY <1>1, <2>1, <3>1 DEF SearchInv, Frames, Windows
    <3>3. Fine(i, stack[i], turn, horizons[iteration], nodeCount)
      BY <3>1 DEF SearchInv, Frames
    <3>4. stack[i].startNodes \in Nat
      <4>1. stack \in Seq(FrameType)
        BY DEF SearchInv, SearchTyped
      <4>2. stack[i] \in FrameType
        BY <3>1, <4>1
      <4> QED
        BY <4>2 DEF FrameType
    <3>5. Fine(i, stack[i], turn, horizons[iteration], nodeCount')
      BY <1>1, <3>3, <3>4 DEF Fine
    <3> QED
      BY <3>1, <3>2, <3>5
  <2>2. CASE i >= Len(stack)
    BY <2>2
  <2> QED
    BY <1>1, <2>1, <2>2
<1>3. Windows'
  BY <1>2 DEF Windows
<1> QED
  BY <1>2, <1>3 DEF Frames, SearchInv

-----------------------------------------------------------------------------
(* Steps of the board below a search.                                        *)

BoardInv == IInv /\ KeysExact

LEMMA BoardMoved ==
  ASSUME BoardInv, NEW s \in Side, NEW m \in Moves(s), ApplyMove(s, m)
  PROVE  /\ BoardInv' /\ emptySquares' = emptySquares - 2
         /\ Len(played') = Len(played) + 1 /\ Len(played) \in Nat
<1>1. [Next]_vars
  BY DEF Next
<1>2. IInv' /\ KeysExact'
  BY <1>1, ApplyMoveKeeps, KeysStayExact DEF BoardInv
<1>3. played \in Seq([side : Side, move : UNION {Moves(t) : t \in Side}])
  BY DEF BoardInv, IInv, Typed
<1>4. played' = Append(played, [side |-> s, move |-> m]) /\ emptySquares' = emptySquares - 2
  BY DEF ApplyMove
<1>5. Len(played') = Len(played) + 1 /\ Len(played) \in Nat
  <2> DEFINE S == [side : Side, move : UNION {Moves(t) : t \in Side}]
             e == [side |-> s, move |-> m]
  <2>1. e \in S /\ played \in Seq(S) /\ played' = Append(played, e)
    BY <1>3, <1>4
  <2> HIDE DEF S, e
  <2> QED
    BY <2>1
<1> QED
  BY <1>2, <1>4, <1>5 DEF BoardInv

LEMMA BoardUnmoved ==
  ASSUME BoardInv, UndoMove
  PROVE  /\ BoardInv' /\ emptySquares' = emptySquares + 2
         /\ Len(played') = Len(played) - 1 /\ Len(played) \in Nat
<1>1. [Next]_vars
  BY DEF Next
<1>2. IInv' /\ KeysExact'
  BY <1>1, UndoMoveKeeps, KeysStayExact DEF BoardInv
<1>3. played' = SubSeq(played, 1, Len(played) - 1) /\ emptySquares' = emptySquares + 2
      /\ played # <<>>
  BY DEF UndoMove
<1>4. Len(played') = Len(played) - 1 /\ Len(played) \in Nat
  <2> DEFINE S == [side : Side, move : UNION {Moves(t) : t \in Side}]
  <2>1. played \in Seq(S)
    BY DEF BoardInv, IInv, Typed
  <2> HIDE DEF S
  <2>2. Len(played) \in Nat /\ Len(played) >= 1
    BY <1>3, <2>1
  <2> DEFINE k == Len(played) - 1
  <2>3. k \in Nat /\ k <= Len(played)
    BY <2>2
  <2> HIDE DEF k
  <2>4. Len(SubSeq(played, 1, k)) = k
    BY <2>1, <2>2, <2>3
  <2> QED
    BY <1>3, <2>2, <2>4 DEF k
<1> QED
  BY <1>2, <1>3, <1>4 DEF BoardInv

LEMMA BoardStays ==
  ASSUME BoardInv, UNCHANGED vars
  PROVE  BoardInv' /\ emptySquares' = emptySquares /\ played' = played
<1>1. emptySquares' = emptySquares /\ played' = played
  BY DEF vars, figures
<1>2. IInv' /\ KeysExact'
  BY KeysStayExact
     DEF BoardInv, vars, figures, IInv, Typed, ViewsAgree, LinesExact, TotalsExact, EmptyExact,
         PlayedPresent, Occupied
<1> QED
  BY <1>1, <1>2 DEF BoardInv

-----------------------------------------------------------------------------
(* The steps of the search.                                                  *)

(* The empty squares of the position the search started from, while it stays
   in its iteration.                                                          *)
RootEmpty == emptySquares + 2 * Len(played)

SameDepth == RootEmpty' = RootEmpty /\ UNCHANGED <<horizons, iteration>>

SameWindow(f, g) == f.alpha = g.alpha /\ f.beta = g.beta

LEMMA RootStays ==
  ASSUME BoardInv,
         \/ emptySquares' = emptySquares - 2 /\ Len(played') = Len(played) + 1
         \/ emptySquares' = emptySquares + 2 /\ Len(played') = Len(played) - 1
         \/ emptySquares' = emptySquares /\ played' = played
  PROVE  RootEmpty' = RootEmpty
<1>1. emptySquares \in Int /\ Len(played) \in Int
  <2>1. played \in Seq([side : Side, move : UNION {Moves(t) : t \in Side}])
    BY DEF BoardInv, IInv, Typed
  <2> DEFINE S == [side : Side, move : UNION {Moves(t) : t \in Side}]
  <2>2. played \in Seq(S)
    BY <2>1
  <2> HIDE DEF S
  <2>3. Len(played) \in Int
    BY <2>2
  <2> QED
    BY <2>3 DEF BoardInv, IInv, Typed
<1> QED
  BY <1>1 DEF RootEmpty

LEMMA SetupKeeps ==
  ASSUME SearchInv, Setup
  PROVE  SearchInv'
<1>1. PICK row \in 0 .. (Rows - 1), col \in 0 .. (Cols - 1) : SetBlock(row, col)
  BY DEF Setup
<1>2. IInv' /\ KeysExact'
  <2>1. [Next]_vars
    BY <1>1 DEF Next
  <2> QED
    BY <1>1, <2>1, SetBlockKeeps, KeysStayExact DEF SearchInv
<1>3. played' = played
  BY <1>1 DEF SetBlock
<1> QED
  BY <1>2, <1>3
     DEF Setup, searchVars, SearchInv, SearchTyped, Frames, Windows, Ended, OneMoveAFrame

\* A frame that has just been entered.
LEMMA NewFrame ==
  ASSUME NEW s \in Side, NEW h \in Nat \ {0}, NEW a \in Values, NEW b \in Values,
         NEW ms \in Seq(Entry), NEW n \in Nat, NEW f, f = Frame(s, h, a, b, ms, n)
  PROVE  f \in FrameType /\ f.alpha = a /\ f.beta = b /\ f.next = 0 /\ f.moves = ms
BY DEF Frame, FrameType

LEMMA NewFrameFine ==
  ASSUME NEW s \in Side, NEW h \in Nat \ {0}, NEW a \in Values, NEW b \in Values,
         NEW ms \in Seq(Entry), ms # <<>>, \A k \in DOMAIN ms : Where(ms[k]) \in Moves(s),
         NEW n \in Nat, NEW f, f = Frame(s, h, a, b, ms, n),
         NEW i, NEW t, s = SideOf(i, t), NEW hh, h = hh - (i - 1)
  PROVE  Fine(i, f, t, hh, n)
<1>1. f.side = s /\ f.remaining = h /\ f.moves = ms /\ f.next = 0 /\ f.startNodes = n
  BY DEF Frame
<1>2. 0 <= Len(ms)
  OBVIOUS
<1> QED
  BY <1>1, <1>2 DEF Fine

LEMMA SearchForMoveKeeps ==
  ASSUME SearchInv, NEW s \in Side, SearchForMove(s)
  PROVE  SearchInv'
<1>1. BoardInv' /\ played' = played
  BY BoardStays DEF SearchForMove, SearchInv, BoardInv
<1>2. stack = <<>> /\ Len(played) = 0
  BY DEF SearchForMove, SearchInv, Frames, OneMoveAFrame
<1>3. CASE IsGameOver(s) # 0
  <2>1. value' \in Values /\ pc' = "done" /\ stack' = <<>>
    BY <1>2, <1>3, Verdicts DEF SearchForMove, SearchInv
  <2>2. /\ UNCHANGED <<zobrist, horizons, table, nodeCount>> /\ turn' = s
    BY DEF SearchForMove
  <2> QED
    BY <1>1, <1>2, <2>1, <2>2
       DEF SearchInv, SearchTyped, Frames, Windows, Ended, OneMoveAFrame, BoardInv
<1>4. CASE IsGameOver(s) = 0
  <2> DEFINE f == Frame(s, horizons[1], -5000, 5000, AllMoves(s), 0)
  <2>1. /\ stack' = <<f>> /\ iteration' = 1 /\ pc' = "loop" /\ value' = value /\ turn' = s
        /\ UNCHANGED <<zobrist, horizons, table, nodeCount>>
    BY <1>4 DEF SearchForMove
  <2>2. /\ AllMoves(s) \in Seq(Entry) /\ AllMoves(s) # <<>>
        /\ \A k \in DOMAIN AllMoves(s) : Where(AllMoves(s)[k]) \in Moves(s)
    BY <1>4, MovesOfAFrame DEF SearchInv
  <2>3. horizons[1] \in Nat \ {0} /\ 1 \in 1 .. Len(horizons) /\ nodeCount \in Nat
    BY DEF SearchInv, SearchTyped
  <2>4. -5000 \in Values /\ 5000 \in Values /\ 0 \in Nat
    BY DEF Values
  <2> HIDE DEF f
  <2>5. horizons[1] = horizons[1] - (1 - 1) /\ s = SideOf(1, s)
    BY <2>3 DEF SideOf
  <2>6. f \in FrameType /\ f.alpha = -5000 /\ f.beta = 5000 /\ Fine(1, f, s, horizons[1], 0)
    <3> DEFINE h == horizons[1]
               ms == AllMoves(s)
               lo == -5000
               hi == 5000
    <3>1. /\ h \in Nat \ {0} /\ h = h - (1 - 1) /\ lo \in Values /\ hi \in Values
          /\ ms \in Seq(Entry) /\ ms # <<>> /\ \A k \in DOMAIN ms : Where(ms[k]) \in Moves(s)
          /\ f = Frame(s, h, lo, hi, ms, 0) /\ 0 \in Nat
      BY <2>2, <2>3, <2>4, <2>5 DEF f
    <3> HIDE DEF h, ms, lo, hi
    <3>2. Fine(1, f, s, h, 0)
      BY <2>5, <3>1, NewFrameFine
    <3>3. f = Frame(s, h, lo, hi, ms, 0)
      BY <3>1
    <3>4. f.alpha = lo /\ f.beta = hi
      BY <3>3 DEF Frame
    <3>5. f \in FrameType
      BY <3>1, <3>3 DEF Frame, FrameType
    <3> QED
      BY <3>2, <3>4, <3>5 DEF h, lo, hi
  <2>7. stack' \in Seq(FrameType) /\ stack' # <<>> /\ Len(stack') = 1 /\ stack'[1] = f
    BY <2>1, <2>6
  <2>8. Fine(1, f, s, horizons[1], nodeCount)
    BY <2>3, <2>6 DEF Fine, FrameType
  <2>9. Frames'
    BY <2>1, <2>3, <2>6, <2>7, <2>8 DEF Frames, Windows
  <2>10. SearchTyped' /\ OneMoveAFrame'
    BY <1>1, <1>2, <2>1, <2>7 DEF SearchInv, SearchTyped, OneMoveAFrame
  <2> QED
    BY <1>1, <2>9, <2>10 DEF SearchInv, BoardInv
<1> QED
  BY <1>3, <1>4

LEMMA TryKeeps ==
  ASSUME SearchInv, Try
  PROVE  /\ SearchInv' /\ SameDepth
         /\ Len(stack') = Len(stack)
         /\ \A i \in 1 .. Len(stack) : SameWindow(stack'[i], stack[i])
         /\ \A i \in 1 .. Len(stack) : stack'[i].moves = stack[i].moves
         /\ \A i \in 1 .. Len(stack) : i # Len(stack) => stack'[i] = stack[i]
         /\ stack'[Len(stack)].next = Top.next + 1
<1> DEFINE n == Len(stack)
           g == [Top EXCEPT !.next = Top.next + 1]
<1>1. stack # <<>> /\ pc = "loop" /\ pc' = "call"
  BY DEF Try, SearchInv, Frames
<1>2. Where(Top.moves[Top.next + 1]) \in Moves(Top.side) /\ Top.next + 1 <= Len(Top.moves)
  <2>1. Top.next + 1 \in 1 .. Len(Top.moves)
    BY <1>1, TopFacts DEF Try
  <2> QED
    BY <1>1, <2>1, TopFacts
<1>3. BoardInv' /\ Len(played') = Len(played) + 1 /\ emptySquares' = emptySquares - 2
  BY <1>1, <1>2, TopFacts, BoardMoved DEF Try, SearchInv, BoardInv
<1>4. g \in FrameType /\ g.alpha = Top.alpha /\ g.beta = Top.beta
      /\ g.moves = Top.moves /\ g.next = Top.next + 1
  BY <1>1, TopFacts DEF FrameType
<1>5. Fine(n, g, turn, horizons[iteration], nodeCount)
  <2>1. g.side = Top.side /\ g.remaining = Top.remaining /\ g.moves = Top.moves
        /\ g.next = Top.next + 1 /\ g.startNodes = Top.startNodes
    BY <1>1, TopFacts DEF FrameType
  <2> HIDE DEF g
  <2> QED
    BY <1>1, <1>2, <2>1, TopFacts DEF Fine
<1>6. stack' = [stack EXCEPT ![n] = g]
  BY DEF Try, Top
<1> HIDE DEF g
<1>7. /\ stack' \in Seq(FrameType) /\ stack' # <<>> /\ Len(stack') = n /\ stack'[n] = g
      /\ \A i \in 1 .. n : i # n => stack'[i] = stack[i]
  BY <1>1, <1>4, <1>6, TopChanged DEF SearchInv, SearchTyped
<1>8. n \in Nat /\ Top.alpha < Top.beta /\ nodeCount \in Nat
  BY <1>1, TopFacts DEF Ended, SearchInv, SearchTyped
<1>9. UNCHANGED <<zobrist, horizons, table, nodeCount, turn, iteration, value>>
  BY DEF Try
<1> HIDE DEF n
<1>10. Frames'
  <2>1. Len(stack') <= n + 1
    BY <1>7, <1>8
  <2>2. \A i \in 1 .. Len(stack') : i < n => stack'[i] = stack[i]
    BY <1>7, <1>8
  <2>3. \A i \in 1 .. Len(stack') : i >= n =>
           /\ Fine(i, stack'[i], turn, horizons[iteration], nodeCount')
           /\ stack'[i].alpha < stack'[i].beta
    BY <1>4, <1>5, <1>7, <1>8, <1>9
  <2> QED
    BY <1>1, <1>7, <1>8, <1>9, <2>1, <2>2, <2>3, FramesStay DEF n
<1>11. SearchTyped' /\ OneMoveAFrame'
  BY <1>1, <1>3, <1>7, <1>8, <1>9 DEF SearchInv, SearchTyped, OneMoveAFrame, n
<1>12. SearchInv'
  BY <1>3, <1>10, <1>11 DEF SearchInv, BoardInv
<1>13. SameDepth
  BY <1>3, <1>9, RootStays DEF Try, SameDepth, SearchInv, BoardInv
<1>14. \A i \in 1 .. n : SameWindow(stack'[i], stack[i])
  <2>1. \A i \in 1 .. n : i = n \/ stack'[i] = stack[i]
    BY <1>7
  <2>2. Top = stack[n]
    BY DEF Top, n
  <2> QED
    BY <1>4, <1>7, <2>1, <2>2 DEF SameWindow
<1>15. \A i \in 1 .. n : stack'[i].moves = stack[i].moves
  <2>1. \A i \in 1 .. n : i = n \/ stack'[i] = stack[i]
    BY <1>7
  <2>2. Top = stack[n]
    BY DEF Top, n
  <2> QED
    BY <1>4, <1>7, <2>1, <2>2
<1> QED
  BY <1>4, <1>7, <1>12, <1>13, <1>14, <1>15 DEF n

-----------------------------------------------------------------------------
(* The table.                                                                *)

LEMMA FirstImage ==
  ASSUME NEW S \in SUBSET (DOMAIN FlipOrder), S # {}
  PROVE  Min(S) \in S /\ FlipOrder[Min(S)] \in Flip
<1>1. DOMAIN FlipOrder = 1 .. 4 /\ \A i \in 1 .. 4 : FlipOrder[i] \in Flip
  BY DEF FlipOrder, Flip
<1>2. S \in SUBSET Nat
  BY <1>1
<1>3. \E x \in S : \A y \in S : x <= y
  BY <1>2, LeastNumber
<1>4. Min(S) \in S
  BY <1>3 DEF Min
<1> QED
  BY <1>1, <1>4

LEMMA StoreKeeps ==
  ASSUME table \in [SUBSET HashBits -> Result], KeysExact,
         NEW d \in Nat, NEW n \in Nat, NEW v \in Values, Store(d, n, v)
  PROVE  /\ table' \in [SUBSET HashBits -> Result]
         /\ \A i \in SUBSET HashBits :
              table'[i] = table[i] \/ \E f \in Flip :
                 table'[i] = [key |-> hashkey[f], nodes |-> n, value |-> v, depth |-> d]
<1> DEFINE place(i) == Slot(hashkey[FlipOrder[i]])
           cheaper  == {i \in DOMAIN FlipOrder : table[place(i)].nodes <= n}
           first    == Min(cheaper)
           f        == FlipOrder[first]
           e        == [key |-> hashkey[f], nodes |-> n, value |-> v, depth |-> d]
<1>1. CASE cheaper = {}
  BY <1>1 DEF Store
<1>2. CASE cheaper # {}
  <2>1. table' = [table EXCEPT ![place(first)] = e]
    BY <1>2 DEF Store
  <2>2. cheaper \in SUBSET (DOMAIN FlipOrder)
    OBVIOUS
  <2> HIDE DEF cheaper
  <2>3. f \in Flip
    BY <1>2, <2>2, FirstImage
  <2> HIDE DEF f
  <2>4. e \in Result
    BY <2>3, KeysOfTheBoard DEF Result
  <2>5. place(first) \in SUBSET HashBits
    BY DEF Slot
  <2> HIDE DEF place, first
  <2>6. \E g \in Flip : e = [key |-> hashkey[g], nodes |-> n, value |-> v, depth |-> d]
    BY <2>3
  <2> HIDE DEF e
  <2> QED
    BY <2>1, <2>4, <2>5, <2>6
<1> QED
  BY <1>1, <1>2

LEMMA LookupFinds ==
  ASSUME table \in [SUBSET HashBits -> Result], NEW d \in Nat, Hits(d) # {}
  PROVE  /\ LookupValue(d) \in Values
         /\ \E i \in SUBSET HashBits : \E f \in Flip :
              table[i].value = LookupValue(d) /\ table[i].key = hashkey[f] /\ table[i].depth >= d
<1> DEFINE first == Min(Hits(d))
           f == FlipOrder[first]
           i == Slot(hashkey[f])
<1>1. Hits(d) \in SUBSET (DOMAIN FlipOrder)
  BY DEF Hits
<1>2. first \in Hits(d) /\ f \in Flip
  BY <1>1, FirstImage
<1>3. table[i].key = hashkey[f] /\ table[i].depth >= d
  BY <1>2 DEF Hits
<1>4. i \in SUBSET HashBits
  BY DEF Slot
<1>5. table[i].value = LookupValue(d)
  BY DEF LookupValue
<1> HIDE DEF first, f, i
<1>6. table[i] \in Result
  BY <1>4
<1>7. LookupValue(d) \in Values
  BY <1>5, <1>6 DEF Result
<1> QED
  BY <1>2, <1>3, <1>4, <1>5, <1>7

-----------------------------------------------------------------------------
(* The steps of a call.                                                      *)

LEMMA OppositeValue ==
  ASSUME NEW v \in Values
  PROVE  v \in Int /\ -v \in Values
<1>1. v \in Int /\ v <= 5000 /\ v >= -5000
  BY DEF Values
<1>2. -v <= 5000 /\ -v >= -5000 /\ -v \in Int
  BY <1>1
<1> QED
  BY <1>1, <1>2 DEF Values

LEMMA OppositeWindow ==
  ASSUME NEW x \in Values, NEW y \in Values, x < y
  PROVE  -y \in Values /\ -x \in Values /\ -y < -x
<1>1. x \in Int /\ y \in Int /\ -x \in Values /\ -y \in Values
  BY OppositeValue
<1> QED
  BY <1>1

\* What a call without moves of its own returns.
LEMMA AnswerIsValue ==
  ASSUME SearchInv, stack # <<>>, Answer
  PROVE  value' \in Values /\ pc' = "return" /\ stack' = stack
<1>1. Mover \in Side
  BY TopFacts, OppFacts DEF Mover
<1>2. Remaining \in Int
  BY TopFacts DEF Remaining
<1>3. ASSUME Remaining > 0, Hits(Remaining) # {}
      PROVE  LookupValue(Remaining) \in Values
  BY <1>2, <1>3, LookupFinds DEF SearchInv, SearchTyped
<1>4. /\ IsGameOver(Mover) \in Values /\ IsGameOverExpensive(Mover).score \in Values
  BY <1>1, Verdicts DEF SearchInv
<1> QED
  BY <1>3, <1>4 DEF Answer, Return

LEMMA CallKeeps ==
  ASSUME SearchInv, Call
  PROVE  /\ SearchInv' /\ SameDepth
         /\ \A i \in 1 .. Len(stack) : stack'[i] = stack[i]
         /\ Answer => stack' = stack
         /\ Expand => /\ Len(stack') = Len(stack) + 1
                      /\ stack'[Len(stack) + 1].alpha = -Top.beta
                      /\ stack'[Len(stack) + 1].beta = -Top.alpha
                      /\ stack'[Len(stack) + 1].next = 0
                      /\ stack'[Len(stack) + 1].moves = StagedMoves(Mover)
<1> DEFINE n == Len(stack)
<1>1. stack # <<>> /\ pc = "call"
  BY DEF Call, SearchInv, Frames
<1>2. BoardInv' /\ played' = played /\ emptySquares' = emptySquares
  BY BoardStays DEF Call, SearchInv, BoardInv
<1>3. n \in Nat /\ n >= 1 /\ Top = stack[n] /\ Top.alpha < Top.beta /\ Top \in FrameType
      /\ Fine(n, Top, turn, horizons[iteration], nodeCount) /\ nodeCount \in Nat
  BY <1>1, TopFacts DEF Ended, SearchInv, SearchTyped
<1>4. /\ nodeCount' = nodeCount + 1
      /\ UNCHANGED <<zobrist, horizons, table, turn, iteration>>
  BY DEF Call
<1>5. Fine(n, Top, turn, horizons[iteration], nodeCount')
  BY <1>3, <1>4 DEF Fine, FrameType
<1>6. SameDepth
  BY <1>2, <1>4, RootStays DEF Call, SameDepth, SearchInv, BoardInv
<1>7. ASSUME Answer
      PROVE  SearchInv' /\ stack' = stack
  <2>1. value' \in Values /\ pc' = "return" /\ stack' = stack
    BY <1>1, <1>7, AnswerIsValue
  <2>2. Frames'
    <3>1. stack \in Seq(FrameType)
      BY DEF SearchInv, SearchTyped
    <3>2. \A i \in 1 .. Len(stack') : i >= n =>
            /\ Fine(i, stack'[i], turn, horizons[iteration], nodeCount')
            /\ stack'[i].alpha < stack'[i].beta
      BY <1>3, <1>5, <2>1
    <3> HIDE DEF n
    <3>3. nodeCount' \in Nat /\ nodeCount' >= nodeCount /\ Len(stack') <= Len(stack) + 1
      BY <1>3, <1>4, <2>1 DEF n
    <3> QED
      BY <1>1, <1>4, <2>1, <3>1, <3>2, <3>3, FramesStay DEF n
  <2>3. SearchTyped' /\ OneMoveAFrame'
    BY <1>1, <1>2, <1>3, <1>4, <2>1 DEF SearchInv, SearchTyped, OneMoveAFrame
  <2> QED
    BY <1>2, <2>1, <2>2, <2>3 DEF SearchInv, BoardInv
<1>8. ASSUME Expand
      PROVE  /\ SearchInv' /\ Len(stack') = n + 1
             /\ stack'[n + 1].alpha = -Top.beta /\ stack'[n + 1].beta = -Top.alpha
             /\ stack'[n + 1].next = 0 /\ stack'[n + 1].moves = StagedMoves(Mover)
             /\ \A i \in 1 .. n : stack'[i] = stack[i]
  <2> DEFINE a == -Top.beta
             b == -Top.alpha
             ms == StagedMoves(Mover)
             h == Remaining
             f == Frame(Mover, h, a, b, ms, nodeCount')
  <2>1. stack' = Append(stack, f) /\ pc' = "loop" /\ value' = value
        /\ h > 0 /\ IsGameOver(Mover) = 0
    BY <1>8 DEF Expand
  <2>2. Mover \in Side /\ Mover = SideOf(n + 1, turn)
    <3>1. Top.side \in Side /\ Top.side = SideOf(n, turn) /\ turn \in Side
      BY <1>1, <1>3, TopFacts DEF Fine, SearchInv, SearchTyped
    <3>2. (n + 1) % 2 = 1 <=> n % 2 # 1
      BY <1>3
    <3>3. Opp(Opp(turn)) = turn /\ Opp(Top.side) \in Side
      BY <3>1, OppFacts
    <3> QED
      BY <3>1, <3>2, <3>3 DEF Mover, SideOf
  <2>3. a \in Values /\ b \in Values /\ a < b
    <3>1. Top.alpha \in Values /\ Top.beta \in Values
      BY <1>1, TopFacts
    <3> QED
      BY <1>3, <3>1, OppositeWindow
  <2>4. h \in Nat \ {0} /\ h = horizons[iteration] - ((n + 1) - 1)
    <3>1. Top.remaining = horizons[iteration] - (n - 1) /\ Top.remaining \in Nat
      BY <1>1, <1>3, TopFacts DEF Fine
    <3>2. iteration \in 1 .. Len(horizons) /\ horizons \in Seq(Nat \ {0})
      BY <1>1 DEF SearchInv, Frames, SearchTyped
    <3>3. horizons[iteration] \in Nat
      BY <3>2
    <3> QED
      BY <1>3, <2>1, <3>1, <3>3 DEF Remaining
  <2>5. /\ ms \in Seq(Entry) /\ ms # <<>>
        /\ \A k \in DOMAIN ms : Where(ms[k]) \in Moves(Mover)
    BY <2>1, <2>2, MovesOfAFrame DEF SearchInv
  <2>6. nodeCount' \in Nat
    BY <1>3, <1>4
  <2>7. f = Frame(Mover, h, a, b, ms, nodeCount')
    OBVIOUS
  <2> HIDE DEF a, b, ms, h, f
  <2>8. f \in FrameType /\ f.alpha = a /\ f.beta = b /\ f.next = 0 /\ f.moves = ms
    <3> DEFINE s == Mover
               c == nodeCount'
    <3>1. s \in Side /\ c \in Nat /\ f = Frame(s, h, a, b, ms, c)
      BY <2>2, <2>6, <2>7
    <3> HIDE DEF s, c
    <3> QED
      BY <2>3, <2>4, <2>5, <3>1, NewFrame
  <2>9. Fine(n + 1, f, turn, horizons[iteration], nodeCount')
    <3> DEFINE k == n + 1
               hh == horizons[iteration]
               s == Mover
               c == nodeCount'
    <3>1. /\ s \in Side /\ s = SideOf(k, turn) /\ h = hh - (k - 1) /\ c \in Nat
          /\ f = Frame(s, h, a, b, ms, c) /\ \A j \in DOMAIN ms : Where(ms[j]) \in Moves(s)
      BY <2>2, <2>4, <2>5, <2>6, <2>7
    <3> HIDE DEF k, hh, s, c
    <3>2. Fine(k, f, turn, hh, c)
      BY <2>3, <2>4, <2>5, <3>1, NewFrameFine
    <3> QED
      BY <3>2 DEF k, hh, c
  <2>10. /\ stack' \in Seq(FrameType) /\ stack' # <<>> /\ Len(stack') = n + 1
         /\ stack'[n + 1] = f
         /\ \A i \in 1 .. n : stack'[i] = stack[i]
    <3>1. stack \in Seq(FrameType) /\ stack' = Append(stack, f)
      BY <2>1 DEF SearchInv, SearchTyped
    <3> DEFINE st == stack
               st2 == stack'
    <3>2. st \in Seq(FrameType) /\ st2 = Append(st, f)
      BY <3>1
    <3> HIDE DEF n
    <3>3. n = Len(st)
      BY DEF n
    <3> HIDE DEF st, st2
    <3>4. /\ st2 \in Seq(FrameType) /\ st2 # <<>> /\ Len(st2) = n + 1
          /\ st2[n + 1] = f /\ \A i \in 1 .. n : st2[i] = st[i]
      BY <2>8, <3>2, <3>3, Pushed
    <3> QED
      BY <3>4 DEF st, st2
  <2>11. Frames'
    <3> HIDE DEF n
    <3>1. \A i \in 1 .. Len(stack') : i >= n =>
            /\ Fine(i, stack'[i], turn, horizons[iteration], nodeCount')
            /\ stack'[i].alpha < stack'[i].beta
      <4> TAKE i \in 1 .. Len(stack')
      <4>1. i >= n => i = n \/ i = n + 1
        BY <1>3, <2>10
      <4>2. n \in 1 .. n
        BY <1>3
      <4> QED
        BY <1>3, <1>5, <2>3, <2>8, <2>9, <2>10, <4>1, <4>2
    <3>2. \A i \in 1 .. Len(stack') : i < n => stack'[i] = stack[i]
      BY <1>3, <2>10
    <3>3. Len(stack') <= n + 1 /\ nodeCount' >= nodeCount
      BY <1>3, <1>4, <2>10
    <3>4. pc' # "idle"
      BY <2>1
    <3> QED
      BY <1>1, <1>4, <2>6, <2>10, <3>1, <3>2, <3>3, <3>4, FramesStay DEF n
  <2>12. SearchTyped' /\ OneMoveAFrame'
    BY <1>1, <1>2, <1>3, <1>4, <2>1, <2>6, <2>10 DEF SearchInv, SearchTyped, OneMoveAFrame
  <2>13. SearchInv'
    BY <1>2, <2>11, <2>12 DEF SearchInv, BoardInv
  <2> QED
    BY <2>8, <2>10, <2>13 DEF a, b, ms
<1>9. Answer \/ Expand
  BY DEF Call
<1>10. SearchInv' /\ \A i \in 1 .. Len(stack) : stack'[i] = stack[i]
  BY <1>7, <1>8, <1>9
<1> QED
  BY <1>6, <1>7, <1>8, <1>10

LEMMA Quotient ==
  ASSUME NEW a \in Nat, NEW u \in Nat, u # 0
  PROVE  a \div u \in Nat
<1> DEFINE q == a \div u
           r == a % u
<1>1. q \in Int /\ r \in 0 .. (u - 1) /\ a = u * q + r
  OBVIOUS
<1> HIDE DEF q, r
<1>2. ASSUME q <= -1
      PROVE  FALSE
  <2>1. u * q <= u * (-1)
    BY <1>1, <1>2
  <2> QED
    BY <1>1, <2>1
<1>3. q \in Nat
  BY <1>1, <1>2
<1> QED
  BY <1>3 DEF q

LEMMA ResumeKeeps ==
  ASSUME SearchInv, Resume
  PROVE  /\ SearchInv' /\ SameDepth
         /\ Len(stack') = Len(stack)
         /\ \A i \in 1 .. Len(stack) : i # Len(stack) => stack'[i] = stack[i]
         /\ stack'[Len(stack)].alpha = (IF -value > Top.alpha THEN -value ELSE Top.alpha)
         /\ stack'[Len(stack)].beta = Top.beta
         /\ stack'[Len(stack)].next = Top.next
         /\ stack'[Len(stack)].moves = Top.moves
<1> DEFINE n == Len(stack)
           v == -value
           a == IF v > Top.alpha THEN v ELSE Top.alpha
           g == [Top EXCEPT !.alpha = a]
<1>1. stack # <<>> /\ pc = "return"
  BY DEF Resume, SearchInv, Frames
<1>2. BoardInv' /\ Len(played') = Len(played) - 1 /\ emptySquares' = emptySquares + 2
  BY BoardUnmoved DEF Resume, SearchInv, BoardInv
<1>3. n \in Nat /\ n >= 1 /\ Top = stack[n] /\ Top.alpha < Top.beta /\ Top \in FrameType
      /\ Fine(n, Top, turn, horizons[iteration], nodeCount) /\ nodeCount \in Nat
      /\ Top.alpha \in Values /\ Top.beta \in Values
  BY <1>1, TopFacts DEF Ended, SearchInv, SearchTyped
<1>4. v \in Values
  BY OppositeValue DEF SearchInv, SearchTyped
<1>5. /\ value' = v /\ stack' = [stack EXCEPT ![n] = g]
      /\ pc' = IF v >= Top.beta THEN "cutoff" ELSE "loop"
      /\ UNCHANGED <<zobrist, horizons, table, nodeCount, turn, iteration>>
  BY DEF Resume, Top
<1> HIDE DEF v
<1>6. a \in Values /\ (a < Top.beta \/ pc' = "cutoff")
  <2>1. v \in Int /\ Top.alpha \in Int /\ Top.beta \in Int
    BY <1>3, <1>4, OppositeValue
  <2> QED
    BY <1>3, <1>4, <1>5, <2>1
<1> HIDE DEF a
<1>7. /\ g \in FrameType /\ g.alpha = a /\ g.beta = Top.beta /\ g.side = Top.side
      /\ g.remaining = Top.remaining /\ g.moves = Top.moves /\ g.next = Top.next
      /\ g.startNodes = Top.startNodes
  BY <1>3, <1>6 DEF FrameType
<1> HIDE DEF g
<1>8. Fine(n, g, turn, horizons[iteration], nodeCount)
  BY <1>3, <1>7 DEF Fine
<1>9. /\ stack' \in Seq(FrameType) /\ stack' # <<>> /\ Len(stack') = n /\ stack'[n] = g
      /\ \A i \in 1 .. n : i # n => stack'[i] = stack[i]
  BY <1>1, <1>5, <1>7, TopChanged DEF SearchInv, SearchTyped
<1> HIDE DEF n
<1>10. Frames'
  <2>1. Len(stack') <= n + 1 /\ nodeCount' \in Nat /\ nodeCount' >= nodeCount /\ pc' # "idle"
    BY <1>3, <1>5, <1>9
  <2>2. \A i \in 1 .. Len(stack') : i < n => stack'[i] = stack[i]
    BY <1>3, <1>9
  <2>3. \A i \in 1 .. Len(stack') : i >= n =>
           /\ Fine(i, stack'[i], turn, horizons[iteration], nodeCount')
           /\ stack'[i].alpha < stack'[i].beta \/ (Ended' /\ i = Len(stack'))
    <3> TAKE i \in 1 .. Len(stack')
    <3>1. i >= n => i = n
      BY <1>3, <1>9
    <3>2. pc' = "cutoff" => Ended'
      BY DEF Ended
    <3> QED
      BY <1>3, <1>5, <1>6, <1>7, <1>8, <1>9, <3>1, <3>2
  <2> QED
    BY <1>1, <1>5, <1>9, <2>1, <2>2, <2>3, FramesStay DEF n
<1>11. SearchTyped' /\ OneMoveAFrame'
  BY <1>1, <1>2, <1>3, <1>4, <1>5, <1>9 DEF SearchInv, SearchTyped, OneMoveAFrame, n
<1>12. SearchInv'
  BY <1>2, <1>10, <1>11 DEF SearchInv, BoardInv
<1>13. SameDepth
  BY <1>2, <1>5, RootStays DEF SameDepth, SearchInv, BoardInv
<1> QED
  BY <1>7, <1>9, <1>12, <1>13 DEF n, a, v

LEMMA FinishKeeps ==
  ASSUME SearchInv, Finish
  PROVE  /\ SearchInv' /\ SameDepth
         /\ stack' # <<>> /\ Len(stack') = Len(stack) - 1
         /\ \A i \in 1 .. (Len(stack) - 1) : stack'[i] = stack[i]
         /\ \A i \in SUBSET HashBits :
              table'[i] = table[i] \/ \E f \in Flip, c \in Nat :
                 table'[i] = [key |-> hashkey[f], nodes |-> c,
                              value |-> Top.alpha, depth |-> Top.remaining]
<1> DEFINE n == Len(stack)
           c == (nodeCount - Top.startNodes) \div NodeUnit
<1>1. stack # <<>> /\ pc \in {"cutoff", "loop"}
  BY DEF Finish, LoopEnded, SearchInv, SearchTyped
<1>2. BoardInv' /\ played' = played /\ emptySquares' = emptySquares
  BY BoardStays DEF Finish, SearchInv, BoardInv
<1>3. n \in Nat /\ n > 1 /\ nodeCount \in Nat /\ Top.startNodes \in Nat
      /\ Top.startNodes <= nodeCount /\ Top.alpha \in Values /\ Top.remaining \in Nat
  BY <1>1, TopFacts DEF Fine, Finish, SearchInv, SearchTyped
<1>4. c \in Nat
  <2>1. nodeCount - Top.startNodes \in Nat /\ NodeUnit \in Nat /\ NodeUnit # 0
    BY <1>3, SearchAssumption
  <2> QED
    BY <2>1, Quotient
<1> HIDE DEF c
<1>5. Store(Top.remaining, c, Top.alpha)
  BY DEF Finish, c
<1>6. /\ value' = Top.alpha /\ stack' = SubSeq(stack, 1, n - 1) /\ pc' = "return"
      /\ UNCHANGED <<zobrist, horizons, nodeCount, turn, iteration>>
  BY DEF Finish
<1>7. /\ table' \in [SUBSET HashBits -> Result]
      /\ \A i \in SUBSET HashBits :
           table'[i] = table[i] \/ \E f \in Flip :
              table'[i] = [key |-> hashkey[f], nodes |-> c,
                           value |-> Top.alpha, depth |-> Top.remaining]
  <2> DEFINE d == Top.remaining
             v == Top.alpha
  <2>1. d \in Nat /\ v \in Values /\ Store(d, c, v)
    BY <1>3, <1>5
  <2> HIDE DEF d, v
  <2>2. table \in [SUBSET HashBits -> Result] /\ KeysExact
    BY DEF SearchInv, SearchTyped
  <2>3. table' \in [SUBSET HashBits -> Result]
    BY <1>4, <2>1, <2>2, StoreKeeps
  <2>4. \A i \in SUBSET HashBits :
          table'[i] = table[i] \/ \E f \in Flip :
             table'[i] = [key |-> hashkey[f], nodes |-> c, value |-> v, depth |-> d]
    BY <1>4, <2>1, <2>2, StoreKeeps
  <2> QED
    BY <2>3, <2>4 DEF d, v
<1>8. /\ stack' \in Seq(FrameType) /\ stack' # <<>> /\ Len(stack') = n - 1
      /\ \A i \in 1 .. (n - 1) : stack'[i] = stack[i]
  <2> DEFINE st == stack
             st2 == stack'
  <2>1. st \in Seq(FrameType) /\ Len(st) > 1 /\ st2 = SubSeq(st, 1, Len(st) - 1) /\ n = Len(st)
    BY <1>3, <1>6 DEF SearchInv, SearchTyped
  <2> HIDE DEF st, st2, n
  <2>2. /\ st2 \in Seq(FrameType) /\ st2 # <<>> /\ Len(st2) = n - 1
        /\ \A i \in 1 .. (n - 1) : st2[i] = st[i]
    BY <2>1, Popped
  <2> QED
    BY <2>2 DEF st, st2
<1> HIDE DEF n
<1>9. Frames'
  <2>1. Len(stack') <= n + 1 /\ nodeCount' \in Nat /\ nodeCount' >= nodeCount /\ pc' # "idle"
    BY <1>3, <1>6, <1>8
  <2>2. \A i \in 1 .. Len(stack') : i < n /\ stack'[i] = stack[i]
    BY <1>3, <1>8
  <2>3. \A i \in 1 .. Len(stack') : i >= n =>
           /\ Fine(i, stack'[i], turn, horizons[iteration], nodeCount')
           /\ stack'[i].alpha < stack'[i].beta \/ (Ended' /\ i = Len(stack'))
    BY <1>3, <1>8
  <2> QED
    BY <1>1, <1>6, <1>8, <2>1, <2>2, <2>3, FramesStay DEF n
<1>10. SearchTyped' /\ OneMoveAFrame'
  BY <1>1, <1>2, <1>3, <1>6, <1>7, <1>8 DEF SearchInv, SearchTyped, OneMoveAFrame, n
<1>11. SearchInv'
  BY <1>2, <1>9, <1>10 DEF SearchInv, BoardInv
<1>12. SameDepth
  BY <1>2, <1>6, RootStays DEF SameDepth, SearchInv, BoardInv
<1> QED
  BY <1>4, <1>7, <1>8, <1>11, <1>12 DEF n

LEMMA NextIterationKeeps ==
  ASSUME SearchInv, NextIteration
  PROVE  /\ SearchInv'
         /\ pc' = "loop" => /\ Len(stack') = 1 /\ stack'[1].next = 0
                            /\ stack'[1].alpha = -5000 /\ stack'[1].beta = 5000
                            /\ stack'[1].moves = Top.moves
<1>1. stack # <<>> /\ pc \in {"cutoff", "loop"} /\ Len(stack) = 1
  BY DEF NextIteration, LoopEnded, SearchInv, SearchTyped, Frames
<1>2. BoardInv' /\ played' = played
  BY BoardStays DEF NextIteration, SearchInv, BoardInv
<1>3. UNCHANGED <<zobrist, horizons, table, turn, value>>
  BY DEF NextIteration
<1>4. CASE value >= 5000 \/ iteration = Len(horizons)
  <2>1. pc' = "done" /\ UNCHANGED <<stack, iteration, nodeCount>>
    BY <1>4 DEF NextIteration
  <2>2. Windows'
    <3>1. \A i \in 1 .. Len(stack) : i = Len(stack)
      BY <1>1
    <3>2. Ended'
      BY <2>1 DEF Ended
    <3> QED
      BY <2>1, <3>1, <3>2 DEF Windows
  <2>3. Frames'
    BY <1>1, <1>3, <2>1, <2>2 DEF SearchInv, Frames
  <2>4. pc' # "loop"
    BY <2>1
  <2> QED
    BY <1>1, <1>2, <1>3, <2>1, <2>3, <2>4 DEF SearchInv, SearchTyped, OneMoveAFrame, BoardInv
<1>5. CASE ~ (value >= 5000 \/ iteration = Len(horizons))
  <2> DEFINE h  == horizons[iteration + 1]
             ms == Top.moves
             lo == -5000
             hi == 5000
             f  == Frame(turn, h, lo, hi, ms, 0)
  <2>1. /\ iteration' = iteration + 1 /\ nodeCount' = 0 /\ pc' = "loop"
        /\ stack' = <<f>>
    BY <1>5 DEF NextIteration
  <2>2. /\ Fine(1, Top, turn, horizons[iteration], nodeCount)
        /\ ms \in Seq(Entry) /\ turn \in Side
    BY <1>1, TopFacts DEF SearchInv, SearchTyped
  <2>3. ms # <<>> /\ (\A k \in DOMAIN ms : Where(ms[k]) \in Moves(turn)) /\ turn = SideOf(1, turn)
    BY <2>2 DEF Fine, SideOf
  <2>4. iteration + 1 \in 1 .. Len(horizons) /\ h \in Nat \ {0} /\ h = h - (1 - 1)
    <3>1. iteration \in 1 .. Len(horizons) /\ iteration # Len(horizons)
      BY <1>1, <1>5 DEF SearchInv, Frames
    <3>2. horizons \in Seq(Nat \ {0})
      BY DEF SearchInv, SearchTyped
    <3> DEFINE k == iteration + 1
    <3>3. k \in 1 .. Len(horizons)
      BY <3>1, <3>2
    <3> HIDE DEF k
    <3>4. horizons[k] \in Nat \ {0}
      BY <3>2, <3>3
    <3> QED
      BY <3>3, <3>4 DEF k
  <2>5. lo \in Values /\ hi \in Values /\ lo < hi /\ 0 \in Nat
    BY DEF Values
  <2>6. f = Frame(turn, h, lo, hi, ms, 0)
    OBVIOUS
  <2> HIDE DEF h, ms, lo, hi, f
  <2>7. f \in FrameType /\ f.alpha = lo /\ f.beta = hi /\ f.next = 0 /\ f.moves = ms
    BY <2>2, <2>4, <2>5, <2>6, NewFrame
  <2>8. Fine(1, f, turn, h, 0)
    BY <2>2, <2>3, <2>4, <2>5, <2>6, NewFrameFine
  <2>9. stack' \in Seq(FrameType) /\ stack' # <<>> /\ Len(stack') = 1 /\ stack'[1] = f
    BY <2>1, <2>7
  <2>10. Windows'
    BY <2>5, <2>7, <2>9 DEF Windows
  <2>11. \A i \in 1 .. Len(stack') : Fine(i, stack'[i], turn', horizons'[iteration'], nodeCount')
    BY <1>3, <2>1, <2>8, <2>9 DEF h
  <2>12. Frames'
    BY <1>3, <2>1, <2>4, <2>9, <2>10, <2>11 DEF Frames
  <2>13. SearchTyped' /\ OneMoveAFrame'
    BY <1>1, <1>2, <1>3, <2>1, <2>9 DEF SearchInv, SearchTyped, OneMoveAFrame
  <2>14. SearchInv'
    BY <1>2, <2>12, <2>13 DEF SearchInv, BoardInv
  <2> QED
    BY <2>7, <2>9, <2>14 DEF lo, hi, ms
<1> QED
  BY <1>4, <1>5

LEMMA SearchStepKeeps == SearchInv /\ [SearchNext]_allVars => SearchInv'
<1> SUFFICES ASSUME SearchInv, [SearchNext]_allVars
             PROVE  SearchInv'
  OBVIOUS
<1>1. CASE UNCHANGED allVars
  <2>1. BoardInv' /\ played' = played /\ UNCHANGED searchVars
    BY <1>1, BoardStays DEF allVars, SearchInv, BoardInv
  <2> QED
    BY <2>1 DEF searchVars, SearchInv, SearchTyped, Frames, Windows, Ended, OneMoveAFrame, BoardInv
<1> QED
  BY <1>1, SetupKeeps, SearchForMoveKeeps, TryKeeps, CallKeeps, ResumeKeeps, FinishKeeps,
     NextIterationKeeps DEF SearchNext, Run

(* The windows of the search are never empty while it runs, the players take
   turns along the stack and exactly one move is on the board for each frame
   that is waiting for an answer.                                             *)
THEOREM SearchTypeCorrect == SearchSpec => []SearchTypeOK
<1>1. Init /\ SearchInit => SearchInv
  BY SearchInitEstablishes
<1>2. SearchInv /\ [SearchNext]_allVars => SearchInv'
  BY SearchStepKeeps
<1>3. SearchInv => SearchTypeOK
  BY SearchInvType
<1> QED
  BY <1>1, <1>2, <1>3, PTL DEF SearchSpec

-----------------------------------------------------------------------------
(* A search with more depth than its position has moves decides.             *)

Decided(v) == v \in {5000, -5000}

Deep == 2 * horizons[iteration] > RootEmpty

\* A result of more depth than its position has moves is no estimate.
TableDecides ==
  \A i \in SUBSET HashBits :
    2 * table[i].depth > Rows * Cols - Cardinality(table[i].key) => Decided(table[i].value)

\* The window of a frame is still the widest there is, or the frame has won.
WideOrWon(f) == f.beta = 5000 /\ (f.alpha = -5000 \/ f.alpha = 5000)

\* A value has been returned to the top frame, or one of its own is to be returned.
HasValue == \/ pc \in {"return", "cutoff", "done"}
            \/ pc = "loop" /\ Top.next > 0

FramesDecide ==
  stack # <<>> /\ Deep =>
    /\ \A i \in 1 .. Len(stack) : WideOrWon(stack[i])
    /\ HasValue => Decided(value)

DecideInv == SearchInv /\ TableDecides /\ FramesDecide /\ SearchDecides

\* A frame that has not ended has the whole window.
LEMMA WholeWindow ==
  ASSUME NEW f \in FrameType, WideOrWon(f), f.alpha < f.beta
  PROVE  f.alpha = -5000 /\ f.beta = 5000
BY DEF WideOrWon

LEMMA SameWindowWide ==
  ASSUME NEW f, NEW g, SameWindow(f, g), WideOrWon(g)
  PROVE  WideOrWon(f)
BY DEF SameWindow, WideOrWon

LEMMA DeepStays ==
  ASSUME SameDepth
  PROVE  Deep' = Deep
BY DEF SameDepth, Deep

LEMMA EmptyCount ==
  ASSUME BoardInv
  PROVE  emptySquares = Rows * Cols - Cardinality(Occupied) /\ emptySquares \in Nat
<1>1. Cardinality(Square) = Rows * Cols
  <2>1. IsFiniteSet(1 .. Rows) /\ Cardinality(1 .. Rows) = Rows
    BY SizeFacts, FirstNumbers
  <2>2. IsFiniteSet(1 .. Cols) /\ Cardinality(1 .. Cols) = Cols
    BY SizeFacts, FirstNumbers
  <2>3. Cardinality((1 .. Rows) \X (1 .. Cols)) = Cardinality(1 .. Rows) * Cardinality(1 .. Cols)
    BY <2>1, <2>2, FS_Product
  <2> QED
    BY <2>1, <2>2, <2>3 DEF Square
<1>2. Square \cap Occupied = Occupied
  BY DEF Occupied
<1>3. IsFiniteSet(Square \ Occupied)
      /\ Cardinality(Square \ Occupied) = Cardinality(Square) - Cardinality(Occupied)
  BY <1>2, FiniteSquares, FS_Difference
<1>4. emptySquares = Cardinality(Square \ Occupied)
  BY DEF BoardInv, IInv, EmptyExact
<1> QED
  BY <1>1, <1>3, <1>4, FS_CardinalityType

\* The position a key of the board stands for has the empty squares of the board.
LEMMA KeyLeavesEmpty ==
  ASSUME BoardInv, NEW f \in Flip
  PROVE  Rows * Cols - Cardinality(hashkey[f]) = emptySquares
<1>1. Cardinality(hashkey[f]) = Cardinality(Occupied)
  BY KeysOfTheBoard DEF BoardInv
<1> QED
  BY <1>1, EmptyCount

\* How much depth is left, in a search that is deep, whenever a frame acts.
LEMMA DepthOfFrame ==
  ASSUME SearchInv, stack # <<>>, pc \notin {"call", "return"}, 2 * Top.remaining > emptySquares
  PROVE  Deep
<1>1. /\ Top.remaining = horizons[iteration] - (Len(stack) - 1)
      /\ Top.remaining \in Nat /\ Len(stack) \in Nat
  BY TopFacts DEF Fine
<1>2. Len(played) = Len(stack) - 1
  BY DEF SearchInv, OneMoveAFrame
<1>3. horizons[iteration] \in Nat /\ emptySquares \in Nat
  <2>1. iteration \in 1 .. Len(horizons) /\ horizons \in Seq(Nat \ {0})
    BY DEF SearchInv, Frames, SearchTyped
  <2> QED
    BY <2>1, EmptyCount DEF SearchInv, BoardInv
<1> DEFINE h == horizons[iteration]
           n == Len(stack)
           e == emptySquares
           r == Top.remaining
<1>4. h \in Nat /\ n \in Nat /\ e \in Nat /\ r = h - (n - 1) /\ 2 * r > e
  BY <1>1, <1>3
<1>5. Deep <=> 2 * h > e + 2 * (n - 1)
  BY <1>2 DEF Deep, RootEmpty
<1> HIDE DEF h, n, e, r
<1> QED
  BY <1>4, <1>5

LEMMA DepthOfCall ==
  ASSUME SearchInv, stack # <<>>, pc = "call", Deep
  PROVE  2 * Remaining > emptySquares /\ Remaining > 0 /\ Remaining \in Nat
<1>1. /\ Top.remaining = horizons[iteration] - (Len(stack) - 1)
      /\ Top.remaining \in Nat /\ Len(stack) \in Nat
  BY TopFacts DEF Fine
<1>2. Len(played) = Len(stack)
  BY DEF SearchInv, OneMoveAFrame
<1>3. horizons[iteration] \in Nat /\ emptySquares \in Nat
  <2>1. iteration \in 1 .. Len(horizons) /\ horizons \in Seq(Nat \ {0})
    BY DEF SearchInv, Frames, SearchTyped
  <2> QED
    BY <2>1, EmptyCount DEF SearchInv, BoardInv
<1> DEFINE h == horizons[iteration]
           n == Len(stack)
           e == emptySquares
           r == Remaining
<1>4. h \in Nat /\ n \in Nat /\ e \in Nat /\ r = h - n
  BY <1>1, <1>3 DEF Remaining
<1>5. 2 * h > e + 2 * n
  BY <1>2 DEF Deep, RootEmpty
<1> HIDE DEF h, n, e, r
<1>6. 2 * r > e /\ r > 0 /\ r \in Nat
  BY <1>4, <1>5
<1> QED
  BY <1>6 DEF r, e

LEMMA DecideInit == Init /\ SearchInit => DecideInv
<1> SUFFICES ASSUME Init, SearchInit
             PROVE  DecideInv
  OBVIOUS
<1>1. SearchInv
  BY SearchInitEstablishes
<1>2. TableDecides
  <2> SUFFICES ASSUME NEW i \in SUBSET HashBits
               PROVE  ~ (2 * table[i].depth > Rows * Cols - Cardinality(table[i].key))
    BY DEF TableDecides
  <2>1. table[i].depth = 0 /\ table[i].key = {}
    BY DEF SearchInit, EmptyTable
  <2>2. Cardinality({}) = 0 /\ Rows * Cols \in Nat
    BY FS_EmptySet, SizeFacts
  <2> QED
    BY <2>1, <2>2
<1>3. stack = <<>> /\ pc = "idle"
  BY DEF SearchInit
<1> QED
  BY <1>1, <1>2, <1>3 DEF DecideInv, FramesDecide, SearchDecides

\* While a search runs, nothing is claimed of its end; and the table stays.
LEMMA RunningDecides ==
  ASSUME DecideInv, SearchInv', pc' # "done", table' = table, FramesDecide'
  PROVE  DecideInv'
BY DEF DecideInv, TableDecides, SearchDecides

LEMMA SetupDecides ==
  ASSUME DecideInv, Setup
  PROVE  DecideInv'
<1>1. SearchInv' /\ pc' = "idle" /\ table' = table /\ stack' = stack /\ pc = "idle"
  BY SetupKeeps DEF DecideInv, Setup, searchVars
<1>2. stack' = <<>>
  BY <1>1 DEF DecideInv, SearchInv, Frames
<1>3. FramesDecide'
  BY <1>2 DEF FramesDecide
<1> QED
  BY <1>1, <1>3, RunningDecides

LEMMA SearchForMoveDecides ==
  ASSUME DecideInv, NEW s \in Side, SearchForMove(s)
  PROVE  DecideInv'
<1>1. SearchInv' /\ table' = table /\ pc = "idle"
  BY SearchForMoveKeeps DEF DecideInv, SearchForMove
<1>2. stack = <<>>
  BY <1>1 DEF DecideInv, SearchInv, Frames
<1>3. CASE IsGameOver(s) # 0
  <2>1. pc' = "done" /\ stack' = <<>> /\ value' = IsGameOver(s)
    BY <1>2, <1>3 DEF SearchForMove
  <2>2. value' \in {5000, -5000}
    BY <1>3, <2>1, Verdicts DEF DecideInv, SearchInv
  <2> QED
    BY <1>1, <2>1, <2>2 DEF DecideInv, TableDecides, FramesDecide, SearchDecides
<1>4. CASE IsGameOver(s) = 0
  <2> DEFINE f == Frame(s, horizons[1], -5000, 5000, AllMoves(s), 0)
  <2>1. stack' = <<f>> /\ pc' = "loop"
    BY <1>4 DEF SearchForMove
  <2>2. f.alpha = -5000 /\ f.beta = 5000 /\ f.next = 0
    BY DEF Frame
  <2> HIDE DEF f
  <2>3. Len(stack') = 1 /\ stack'[1] = f /\ Top' = f
    BY <2>1 DEF Top
  <2>4. \A i \in 1 .. Len(stack') : WideOrWon(stack'[i])
    BY <2>2, <2>3 DEF WideOrWon
  <2>5. ~ HasValue'
    BY <2>1, <2>2, <2>3 DEF HasValue
  <2>6. FramesDecide'
    BY <2>4, <2>5 DEF FramesDecide
  <2> QED
    BY <1>1, <2>1, <2>6, RunningDecides
<1> QED
  BY <1>3, <1>4

LEMMA TryDecides ==
  ASSUME DecideInv, Try
  PROVE  DecideInv'
<1>1. /\ SearchInv' /\ SameDepth /\ Len(stack') = Len(stack)
      /\ \A i \in 1 .. Len(stack) : SameWindow(stack'[i], stack[i])
  BY TryKeeps DEF DecideInv
<1>2. table' = table /\ pc' = "call" /\ pc = "loop"
  BY DEF Try
<1>3. stack # <<>> /\ (Deep' => Deep)
  BY <1>1, <1>2, DeepStays DEF DecideInv, SearchInv, Frames
<1>4. ASSUME Deep', NEW i \in 1 .. Len(stack')
      PROVE  WideOrWon(stack'[i])
  <2>1. WideOrWon(stack[i])
    BY <1>1, <1>3, <1>4 DEF DecideInv, FramesDecide
  <2> QED
    BY <1>1, <1>4, <2>1, SameWindowWide
<1>5. ~ HasValue'
  BY <1>2 DEF HasValue
<1>6. FramesDecide'
  BY <1>4, <1>5 DEF FramesDecide
<1> QED
  BY <1>1, <1>2, <1>6, RunningDecides

LEMMA AnswerDecides ==
  ASSUME DecideInv, stack # <<>>, pc = "call", Deep, Answer
  PROVE  Decided(value')
<1>1. 2 * Remaining > emptySquares /\ Remaining > 0 /\ Remaining \in Nat
  BY DepthOfCall DEF DecideInv
<1>2. Mover \in Side
  BY TopFacts, OppFacts DEF Mover, DecideInv
<1>3. /\ IsGameOver(Mover) # 0 => Decided(IsGameOver(Mover))
      /\ IsGameOverExpensive(Mover).over => Decided(IsGameOverExpensive(Mover).score)
  BY <1>2, Verdicts DEF Decided, DecideInv, SearchInv
<1>4. ASSUME Hits(Remaining) # {}
      PROVE  Decided(LookupValue(Remaining))
  <2>1. table \in [SUBSET HashBits -> Result]
    BY DEF DecideInv, SearchInv, SearchTyped
  <2>2. PICK i \in SUBSET HashBits : \E f \in Flip :
          /\ table[i].value = LookupValue(Remaining) /\ table[i].key = hashkey[f]
          /\ table[i].depth >= Remaining
    BY <1>1, <1>4, <2>1, LookupFinds
  <2>3. PICK f \in Flip : table[i].key = hashkey[f]
    BY <2>2
  <2> DEFINE d == table[i].depth
             r == Remaining
             e == emptySquares
  <2>4. d \in Nat /\ d >= r /\ r \in Nat /\ 2 * r > e
    <3>1. table[i] \in Result
      BY <2>1
    <3> QED
      BY <1>1, <2>2, <3>1 DEF Result
  <2>5. Rows * Cols - Cardinality(table[i].key) = e /\ e \in Nat
    BY <2>3, KeyLeavesEmpty, EmptyCount DEF DecideInv, SearchInv, BoardInv
  <2> HIDE DEF d, r, e
  <2>6. 2 * d > e
    BY <2>4, <2>5
  <2>7. Decided(table[i].value)
    BY <2>5, <2>6 DEF DecideInv, TableDecides, d
  <2> QED
    BY <2>2, <2>7
<1> QED
  BY <1>1, <1>3, <1>4 DEF Answer, Return

LEMMA CallDecides ==
  ASSUME DecideInv, Call
  PROVE  DecideInv'
<1> DEFINE n == Len(stack)
<1>1. /\ SearchInv' /\ SameDepth
      /\ \A i \in 1 .. n : stack'[i] = stack[i]
      /\ Answer => stack' = stack
      /\ Expand => /\ Len(stack') = n + 1
                   /\ stack'[n + 1].alpha = -Top.beta
                   /\ stack'[n + 1].beta = -Top.alpha
                   /\ stack'[n + 1].next = 0
  BY CallKeeps DEF DecideInv
<1>2. table' = table /\ pc = "call" /\ (Answer \/ Expand) /\ pc' # "done"
  BY DEF Call, Answer, Return, Expand
<1>3. stack # <<>> /\ (Deep' => Deep) /\ n \in Nat /\ n >= 1 /\ Top = stack[n]
      /\ Top \in FrameType /\ Top.alpha < Top.beta
  BY <1>1, <1>2, DeepStays, TopFacts DEF DecideInv, SearchInv, Frames, Ended
<1>4. CASE Answer
  <2>1. \A i \in 1 .. Len(stack') : Deep' => WideOrWon(stack'[i])
    BY <1>1, <1>3, <1>4 DEF DecideInv, FramesDecide
  <2>2. Deep' => Decided(value')
    BY <1>2, <1>3, <1>4, AnswerDecides
  <2>3. FramesDecide'
    BY <2>1, <2>2 DEF FramesDecide
  <2> QED
    BY <1>1, <1>2, <2>3, RunningDecides
<1>5. CASE Expand
  <2>1. Top' = stack'[n + 1] /\ pc' = "loop"
    BY <1>1, <1>5 DEF Top, Expand
  <2>2. ~ HasValue'
    BY <1>1, <1>5, <2>1 DEF HasValue
  <2>3. ASSUME Deep', NEW i \in 1 .. Len(stack')
        PROVE  WideOrWon(stack'[i])
    <3>1. \A j \in 1 .. n : WideOrWon(stack[j])
      BY <1>3, <2>3 DEF DecideInv, FramesDecide
    <3>2. CASE i = n + 1
      <4>1. WideOrWon(Top)
        BY <1>3, <3>1
      <4>2. Top.alpha = -5000 /\ Top.beta = 5000
        BY <1>3, <4>1, WholeWindow
      <4>3. stack'[i].alpha = -5000 /\ stack'[i].beta = 5000
        BY <1>1, <1>5, <3>2, <4>2
      <4> QED
        BY <4>3 DEF WideOrWon
    <3>3. CASE i # n + 1
      <4>1. i \in 1 .. n
        BY <1>1, <1>3, <1>5, <3>3
      <4> QED
        BY <1>1, <3>1, <4>1
    <3> QED
      BY <3>2, <3>3
  <2>4. FramesDecide'
    BY <2>2, <2>3 DEF FramesDecide
  <2> QED
    BY <1>1, <1>2, <2>4, RunningDecides
<1> QED
  BY <1>2, <1>4, <1>5

LEMMA ResumeDecides ==
  ASSUME DecideInv, Resume
  PROVE  DecideInv'
<1> DEFINE n == Len(stack)
<1>1. /\ SearchInv' /\ SameDepth /\ Len(stack') = n
      /\ \A i \in 1 .. n : i # n => stack'[i] = stack[i]
      /\ stack'[n].alpha = (IF -value > Top.alpha THEN -value ELSE Top.alpha)
      /\ stack'[n].beta = Top.beta
  BY ResumeKeeps DEF DecideInv
<1>2. table' = table /\ pc = "return" /\ pc' # "done" /\ value' = -value
  BY DEF Resume
<1>3. stack # <<>> /\ (Deep' => Deep) /\ n \in Nat /\ n >= 1 /\ Top = stack[n]
      /\ Top \in FrameType /\ Top.alpha < Top.beta
  BY <1>1, <1>2, DeepStays, TopFacts DEF DecideInv, SearchInv, Frames, Ended
<1>4. ASSUME Deep'
      PROVE  /\ \A i \in 1 .. Len(stack') : WideOrWon(stack'[i])
             /\ Decided(value')
  <2>1. \A j \in 1 .. n : WideOrWon(stack[j])
    BY <1>3, <1>4 DEF DecideInv, FramesDecide
  <2>2. Decided(value)
    BY <1>2, <1>3, <1>4 DEF DecideInv, FramesDecide, HasValue
  <2>3. Top.alpha = -5000 /\ Top.beta = 5000
    BY <1>3, <2>1, WholeWindow
  <2>4. Decided(value')
    BY <1>2, <2>2 DEF Decided
  <2>5. WideOrWon(stack'[n])
    BY <1>1, <1>2, <2>3, <2>4 DEF WideOrWon, Decided
  <2>6. ASSUME NEW i \in 1 .. Len(stack')
        PROVE  WideOrWon(stack'[i])
    <3>1. i \in 1 .. n
      BY <1>1
    <3> QED
      BY <1>1, <2>1, <2>5, <3>1
  <2> QED
    BY <2>4, <2>6
<1>5. FramesDecide'
  BY <1>4 DEF FramesDecide
<1> QED
  BY <1>1, <1>2, <1>5, RunningDecides

LEMMA FinishDecides ==
  ASSUME DecideInv, Finish
  PROVE  DecideInv'
<1> DEFINE n == Len(stack)
<1>1. /\ SearchInv' /\ SameDepth
      /\ stack' # <<>> /\ Len(stack') = n - 1
      /\ \A i \in 1 .. (n - 1) : stack'[i] = stack[i]
  BY FinishKeeps DEF DecideInv
<1>2. \A i \in SUBSET HashBits :
        table'[i] = table[i] \/ \E f \in Flip, c \in Nat :
           table'[i] = [key |-> hashkey[f], nodes |-> c,
                        value |-> Top.alpha, depth |-> Top.remaining]
  BY FinishKeeps DEF DecideInv
<1>3. pc \in {"cutoff", "loop"} /\ pc' = "return" /\ value' = Top.alpha
  BY DEF Finish, LoopEnded
<1>4. stack # <<>> /\ (Deep' => Deep) /\ n \in Nat /\ n >= 1 /\ Top = stack[n]
  BY <1>1, <1>3, DeepStays, TopFacts DEF DecideInv, SearchInv, Frames
<1>5. ASSUME Deep
      PROVE  /\ \A i \in 1 .. n : WideOrWon(stack[i])
             /\ Decided(Top.alpha)
  <2>1. \A i \in 1 .. n : WideOrWon(stack[i])
    BY <1>4, <1>5 DEF DecideInv, FramesDecide
  <2>2. WideOrWon(Top)
    BY <1>4, <2>1
  <2> QED
    BY <2>1, <2>2 DEF WideOrWon, Decided
<1>6. TableDecides'
  <2> SUFFICES ASSUME NEW i \in SUBSET HashBits,
                      2 * table'[i].depth > Rows * Cols - Cardinality(table'[i].key)
               PROVE  Decided(table'[i].value)
    BY DEF TableDecides
  <2>1. CASE table'[i] = table[i]
    BY <2>1 DEF DecideInv, TableDecides
  <2>2. ASSUME NEW f \in Flip, NEW c \in Nat,
               table'[i] = [key |-> hashkey[f], nodes |-> c,
                            value |-> Top.alpha, depth |-> Top.remaining]
        PROVE  Decided(table'[i].value)
    <3>1. table'[i].key = hashkey[f] /\ table'[i].value = Top.alpha
          /\ table'[i].depth = Top.remaining
      BY <2>2
    <3>2. Rows * Cols - Cardinality(table'[i].key) = emptySquares
      BY <3>1, KeyLeavesEmpty DEF DecideInv, SearchInv, BoardInv
    <3>3. 2 * Top.remaining > emptySquares
      BY <3>1, <3>2
    <3>4. Deep
      BY <1>3, <1>4, <3>3, DepthOfFrame DEF DecideInv
    <3> QED
      BY <1>5, <3>1, <3>4
  <2> QED
    BY <1>2, <2>1, <2>2
<1>7. ASSUME Deep', NEW i \in 1 .. Len(stack')
      PROVE  WideOrWon(stack'[i])
  <2>1. i \in 1 .. (n - 1) /\ i \in 1 .. n
    BY <1>1, <1>4
  <2> QED
    BY <1>1, <1>4, <1>5, <1>7, <2>1
<1>8. FramesDecide'
  BY <1>3, <1>4, <1>5, <1>7 DEF FramesDecide
<1> QED
  BY <1>1, <1>3, <1>6, <1>8 DEF DecideInv, SearchDecides

LEMMA NextIterationDecides ==
  ASSUME DecideInv, NextIteration
  PROVE  DecideInv'
<1>1. /\ SearchInv'
      /\ pc' = "loop" => /\ Len(stack') = 1 /\ stack'[1].next = 0
                         /\ stack'[1].alpha = -5000 /\ stack'[1].beta = 5000
  BY NextIterationKeeps DEF DecideInv
<1>2. table' = table /\ value' = value /\ horizons' = horizons
      /\ emptySquares' = emptySquares /\ played' = played
  BY DEF NextIteration, vars, figures
<1>3. stack # <<>> /\ Len(stack) = 1 /\ pc \in {"cutoff", "loop"}
  BY DEF NextIteration, LoopEnded, DecideInv, SearchInv, Frames
<1>4. CASE value >= 5000 \/ iteration = Len(horizons)
  <2>1. pc' = "done" /\ stack' = stack /\ iteration' = iteration
    BY <1>4 DEF NextIteration
  <2>2. HasValue
    <3>1. Top.moves # <<>> /\ Top.moves \in Seq(Entry)
      BY <1>3, TopFacts DEF DecideInv, Fine
    <3>2. Len(Top.moves) \in Nat /\ Len(Top.moves) # 0
      BY <3>1
    <3> QED
      BY <1>3, <3>2 DEF NextIteration, LoopEnded, HasValue
  <2>3. Deep => (\A i \in 1 .. Len(stack) : WideOrWon(stack[i])) /\ Decided(value)
    BY <1>3, <2>2 DEF DecideInv, FramesDecide
  <2>4. Deep' = Deep
    BY <1>2, <2>1 DEF Deep, RootEmpty
  <2>5. FramesDecide'
    BY <1>2, <2>1, <2>3, <2>4 DEF FramesDecide
  <2>6. Len(played) = 0
    BY <1>3 DEF DecideInv, SearchInv, OneMoveAFrame
  <2>7. ASSUME 2 * horizons[Len(horizons)] > emptySquares
        PROVE  value \in {5000, -5000}
    <3>1. CASE value >= 5000
      <4>1. value \in Int /\ value <= 5000
        BY DEF DecideInv, SearchInv, SearchTyped, Values
      <4> QED
        BY <3>1, <4>1
    <3>2. CASE iteration = Len(horizons)
      <4>1. emptySquares \in Nat
        BY EmptyCount DEF DecideInv, SearchInv, BoardInv
      <4>2. Deep
        BY <2>6, <2>7, <3>2, <4>1 DEF Deep, RootEmpty
      <4> QED
        BY <2>3, <4>2 DEF Decided
    <3> QED
      BY <1>4, <3>1, <3>2
  <2>8. SearchDecides'
    BY <1>2, <2>7 DEF SearchDecides
  <2> QED
    BY <1>1, <1>2, <2>5, <2>8 DEF DecideInv, TableDecides
<1>5. CASE ~ (value >= 5000 \/ iteration = Len(horizons))
  <2>1. pc' = "loop"
    BY <1>5 DEF NextIteration
  <2>2. Len(stack') = 1 /\ stack'[1].next = 0
        /\ stack'[1].alpha = -5000 /\ stack'[1].beta = 5000
    BY <1>1, <2>1
  <2>3. ~ HasValue'
    <3>1. Top' = stack'[1]
      BY <2>2 DEF Top
    <3> QED
      BY <2>1, <2>2, <3>1 DEF HasValue
  <2>4. \A i \in 1 .. Len(stack') : WideOrWon(stack'[i])
    <3> TAKE i \in 1 .. Len(stack')
    <3>1. i = 1
      BY <2>2
    <3> QED
      BY <2>2, <3>1 DEF WideOrWon
  <2>5. FramesDecide'
    BY <2>3, <2>4 DEF FramesDecide
  <2> QED
    BY <1>1, <1>2, <2>1, <2>5, RunningDecides
<1> QED
  BY <1>4, <1>5

LEMMA DecideStepKeeps == DecideInv /\ [SearchNext]_allVars => DecideInv'
<1> SUFFICES ASSUME DecideInv, [SearchNext]_allVars
             PROVE  DecideInv'
  OBVIOUS
<1>1. CASE UNCHANGED allVars
  <2>1. SearchInv'
    BY SearchStepKeeps DEF DecideInv
  <2>2. UNCHANGED searchVars /\ emptySquares' = emptySquares /\ played' = played
    BY <1>1 DEF allVars, vars, figures
  <2> QED
    BY <2>1, <2>2
       DEF searchVars, DecideInv, TableDecides, FramesDecide, SearchDecides, Deep, RootEmpty,
           HasValue, Top
<1> QED
  BY <1>1, SetupDecides, SearchForMoveDecides, TryDecides, CallDecides, ResumeDecides,
     FinishDecides, NextIterationDecides DEF SearchNext, Run

(* A search that is over, whose last iteration had more depth than the position
   has moves, names a winner: no estimate of an earlier iteration and none that
   was left in the table is taken for a result, for every board, table, every
   choice of the random values and of the iterations.                          *)
THEOREM SearchAlwaysDecides == SearchSpec => []SearchDecides
<1>1. Init /\ SearchInit => DecideInv
  BY DecideInit
<1>2. DecideInv /\ [SearchNext]_allVars => DecideInv'
  BY DecideStepKeeps
<1>3. DecideInv => SearchDecides
  BY DEF DecideInv
<1> QED
  BY <1>1, <1>2, <1>3, PTL DEF SearchSpec

-----------------------------------------------------------------------------
(* A frame's moves fit the board it was entered with, which is back whenever
   it plays.                                                                  *)

\* Square q has been taken since frame i was entered.
TakenSince(i, q) == \E j \in i .. Len(played) : q \in Squares(played[j].side, played[j].move)

\* The moves of every frame need no square but those that are free or were taken since.
MovesFit ==
  \A i \in 1 .. Len(stack) : \A k \in DOMAIN stack[i].moves :
    \A q \in Squares(SideOf(i, turn), Where(stack[i].moves[k])) :
      q \in Occupied => TakenSince(i, q)

\* A frame that waits for an answer or has had one has tried a move.
Tried ==
  \A i \in 1 .. Len(stack) :
    i < Len(stack) \/ pc \in {"call", "return", "cutoff"} => stack[i].next > 0

FitInv == /\ SearchInv /\ MovesFit /\ Tried /\ ChosenFits
          /\ pc # "done" => chosen = NoMove

LEMMA TakenAfterMove ==
  ASSUME BoardInv, NEW s \in Side, NEW m \in Moves(s), ApplyMove(s, m),
         NEW i \in Nat, i >= 1, i <= Len(played) + 1, NEW q,
         q \in Occupied => TakenSince(i, q), q \in Occupied'
  PROVE  TakenSince(i, q)'
<1> DEFINE S == [side : Side, move : UNION {Moves(t) : t \in Side}]
           e == [side |-> s, move |-> m]
           n == Len(played)
<1>1. /\ Occupied' = Occupied \cup Squares(s, m)
      /\ played \in Seq(S) /\ e \in S /\ played' = Append(played, e)
      /\ e.side = s /\ e.move = m
  BY ApplyMoveKeeps DEF BoardInv, IInv, Typed, ApplyMove
<1> HIDE DEF S, e
<1>2. /\ n \in Nat /\ Len(played') = n + 1 /\ played'[n + 1] = e
      /\ \A j \in 1 .. n : played'[j] = played[j]
  BY <1>1
<1>3. CASE q \in Squares(s, m)
  <2>1. n + 1 \in i .. Len(played')
    BY <1>2
  <2>2. q \in Squares(played'[n + 1].side, played'[n + 1].move)
    BY <1>1, <1>2, <1>3
  <2> QED
    BY <2>1, <2>2 DEF TakenSince
<1>4. CASE q \in Occupied
  <2>1. PICK j \in i .. n : q \in Squares(played[j].side, played[j].move)
    BY <1>4 DEF TakenSince
  <2>2. j \in 1 .. n /\ j \in i .. Len(played')
    BY <1>2, <1>4, <2>1
  <2> QED
    BY <1>2, <2>1, <2>2 DEF TakenSince
<1> QED
  BY <1>1, <1>3, <1>4

LEMMA TakenAfterUndo ==
  ASSUME BoardInv, UndoMove, NEW i \in Nat, i >= 1, NEW q,
         q \in Occupied => TakenSince(i, q), q \in Occupied'
  PROVE  TakenSince(i, q)'
<1> DEFINE S == [side : Side, move : UNION {Moves(t) : t \in Side}]
           n == Len(played)
<1>1. /\ Occupied' = Occupied \ Squares(played[n].side, played[n].move)
      /\ played \in Seq(S) /\ played # <<>> /\ played' = SubSeq(played, 1, n - 1)
  BY UndoMoveKeeps DEF BoardInv, IInv, Typed, UndoMove
<1> HIDE DEF S
<1>2. n \in Nat /\ n >= 1
  BY <1>1
<1> DEFINE p == n - 1
<1>3. p \in Nat /\ p <= n /\ played' = SubSeq(played, 1, p)
  BY <1>1, <1>2
<1>4. p \in Nat /\ p < n /\ \A j \in Nat : j <= n /\ j # n => j <= p
  BY <1>2
<1> HIDE DEF p
<1>5. Len(played') = p /\ \A j \in 1 .. p : played'[j] = played[j]
  BY <1>1, <1>3
<1>6. PICK j \in i .. n : q \in Squares(played[j].side, played[j].move)
  BY <1>1 DEF TakenSince
<1>7. j # n
  BY <1>1, <1>6
<1>8. j \in 1 .. p /\ j \in i .. Len(played')
  BY <1>2, <1>4, <1>5, <1>6, <1>7
<1> QED
  BY <1>5, <1>6, <1>8 DEF TakenSince

\* The moves of the frame that plays, or has ended, fit the board.
LEMMA FitsNow ==
  ASSUME FitInv, stack # <<>>, pc \notin {"call", "return"}, NEW k \in DOMAIN Top.moves
  PROVE  Where(Top.moves[k]) \in Moves(Top.side) /\ Fits(Top.side, Where(Top.moves[k]))
<1> DEFINE n == Len(stack)
           m == Where(Top.moves[k])
<1>1. /\ n \in Nat /\ n >= 1 /\ Top = stack[n] /\ Top.side = SideOf(n, turn) /\ Top.side \in Side
      /\ m \in Moves(Top.side)
  BY TopFacts DEF FitInv, Fine
<1>2. Len(played) = n - 1
  BY DEF FitInv, SearchInv, OneMoveAFrame
<1>3. \A q \in Squares(Top.side, m) : q \in Occupied => TakenSince(n, q)
  BY <1>1 DEF FitInv, MovesFit
<1>4. \A q : ~ TakenSince(n, q)
  BY <1>1, <1>2 DEF TakenSince
<1> HIDE DEF m, n
<1>5. Squares(Top.side, m) \cap Occupied = {}
  BY <1>3, <1>4
<1>6. Fits(Top.side, m)
  BY <1>1, <1>5, MoveSquares DEF FitInv, SearchInv, IInv
<1> QED
  BY <1>1, <1>6 DEF m

LEMMA FitInit == Init /\ SearchInit => FitInv
<1> SUFFICES ASSUME Init, SearchInit
             PROVE  FitInv
  OBVIOUS
<1>1. SearchInv
  BY SearchInitEstablishes
<1>2. stack = <<>> /\ pc = "idle" /\ chosen = NoMove
  BY DEF SearchInit
<1>3. MovesFit /\ Tried
  BY <1>2 DEF MovesFit, Tried
<1> QED
  BY <1>1, <1>2, <1>3 DEF FitInv, ChosenFits

\* While a search runs no move is named.
LEMMA RunningFits ==
  ASSUME FitInv, SearchInv', pc # "done", pc' # "done", chosen' = chosen, MovesFit', Tried'
  PROVE  FitInv'
BY DEF FitInv, ChosenFits

LEMMA SetupFits ==
  ASSUME FitInv, Setup
  PROVE  FitInv'
<1>1. SearchInv' /\ pc' = "idle" /\ stack' = stack /\ pc = "idle" /\ chosen' = chosen
  BY SetupKeeps DEF FitInv, Setup, searchVars
<1>2. stack' = <<>>
  BY <1>1 DEF FitInv, SearchInv, Frames
<1>3. MovesFit' /\ Tried'
  BY <1>2 DEF MovesFit, Tried
<1> QED
  BY <1>1, <1>3, RunningFits

LEMMA SearchForMoveFits ==
  ASSUME FitInv, NEW s \in Side, SearchForMove(s)
  PROVE  FitInv'
<1>1. SearchInv' /\ chosen' = chosen /\ pc = "idle" /\ turn' = s /\ UNCHANGED vars
  BY SearchForMoveKeeps DEF FitInv, SearchForMove
<1>2. stack = <<>> /\ Len(played) = 0
  BY <1>1 DEF FitInv, SearchInv, Frames, OneMoveAFrame
<1>3. CASE IsGameOver(s) # 0
  <2>1. pc' = "done" /\ stack' = <<>>
    BY <1>2, <1>3 DEF SearchForMove
  <2>2. MovesFit' /\ Tried'
    BY <2>1 DEF MovesFit, Tried
  <2> QED
    BY <1>1, <2>1, <2>2 DEF FitInv, ChosenFits, NoMove
<1>4. CASE IsGameOver(s) = 0
  <2> DEFINE f == Frame(s, horizons[1], -5000, 5000, AllMoves(s), 0)
             ms == AllMoves(s)
  <2>1. stack' = <<f>> /\ pc' = "loop" /\ f.moves = ms
    BY <1>4 DEF SearchForMove, Frame
  <2> HIDE DEF f
  <2>2. Len(stack') = 1 /\ stack'[1] = f
    BY <2>1
  <2>3. \A k \in DOMAIN ms : Squares(s, Where(ms[k])) \cap Occupied = {}
    BY <1>4, MovesOfAFrame DEF FitInv, SearchInv
  <2> HIDE DEF ms
  <2>4. Occupied' = Occupied
    BY <1>1 DEF vars, Occupied
  <2>5. MovesFit'
    <3> SUFFICES ASSUME NEW i \in 1 .. Len(stack'), NEW k \in DOMAIN stack'[i].moves,
                        NEW q \in Squares(SideOf(i, turn'), Where(stack'[i].moves[k]))
                 PROVE  q \notin Occupied'
      BY DEF MovesFit
    <3>1. i = 1
      BY <2>2
    <3>2. SideOf(i, turn') = s
      BY <1>1, <3>1 DEF SideOf
    <3> QED
      BY <2>1, <2>2, <2>3, <2>4, <3>1, <3>2
  <2>6. Tried'
    <3>1. \A i \in 1 .. Len(stack') : i = 1
      BY <2>2
    <3> QED
      BY <2>1, <2>2, <3>1 DEF Tried
  <2> QED
    BY <1>1, <2>1, <2>5, <2>6, RunningFits
<1> QED
  BY <1>3, <1>4

LEMMA TryFits ==
  ASSUME FitInv, Try
  PROVE  FitInv'
<1> DEFINE n == Len(stack)
<1>1. /\ SearchInv' /\ Len(stack') = n /\ stack'[n].next = Top.next + 1
      /\ \A i \in 1 .. n : stack'[i].moves = stack[i].moves
      /\ \A i \in 1 .. n : i # n => stack'[i] = stack[i]
  BY TryKeeps DEF FitInv
<1>2. pc = "loop" /\ pc' = "call" /\ chosen' = chosen /\ turn' = turn
  BY DEF Try
<1>3. stack # <<>> /\ n \in Nat /\ n >= 1 /\ Top.next \in Nat /\ Top.side \in Side
  BY <1>2, TopFacts DEF FitInv, SearchInv, Frames
<1>4. PICK m \in Moves(Top.side) : ApplyMove(Top.side, m)
  <2>1. Top.next + 1 \in 1 .. Len(Top.moves) /\ Top.moves \in Seq(Entry)
    BY <1>3, TopFacts DEF Try, FitInv
  <2>2. Where(Top.moves[Top.next + 1]) \in Moves(Top.side)
    BY <1>3, <2>1, TopFacts DEF FitInv
  <2> QED
    BY <2>2 DEF Try
<1>5. Len(played) = n - 1
  BY <1>2, <1>3 DEF FitInv, SearchInv, OneMoveAFrame
<1>6. MovesFit'
  <2> SUFFICES ASSUME NEW i \in 1 .. Len(stack'), NEW k \in DOMAIN stack'[i].moves,
                      NEW q \in Squares(SideOf(i, turn'), Where(stack'[i].moves[k])),
                      q \in Occupied'
               PROVE  TakenSince(i, q)'
    BY DEF MovesFit
  <2>1. i \in 1 .. n /\ i \in Nat /\ i >= 1 /\ i <= Len(played) + 1
    BY <1>1, <1>3, <1>5
  <2>2. q \in Occupied => TakenSince(i, q)
    BY <1>1, <1>2, <2>1 DEF FitInv, MovesFit
  <2> QED
    BY <1>3, <1>4, <2>1, <2>2, TakenAfterMove DEF FitInv, SearchInv, BoardInv
<1>7. Tried'
  <2> SUFFICES ASSUME NEW i \in 1 .. Len(stack')
               PROVE  stack'[i].next > 0
    BY DEF Tried
  <2>1. CASE i = n
    BY <1>1, <1>3, <2>1
  <2>2. CASE i # n
    <3>1. i \in 1 .. n /\ i < n
      BY <1>1, <1>3, <2>2
    <3> QED
      BY <1>1, <2>2, <3>1 DEF FitInv, Tried
  <2> QED
    BY <2>1, <2>2
<1> QED
  BY <1>1, <1>2, <1>6, <1>7, RunningFits

LEMMA CallFits ==
  ASSUME FitInv, Call
  PROVE  FitInv'
<1> DEFINE n == Len(stack)
<1>1. /\ SearchInv'
      /\ \A i \in 1 .. n : stack'[i] = stack[i]
      /\ Answer => stack' = stack
      /\ Expand => /\ Len(stack') = n + 1
                   /\ stack'[n + 1].next = 0
                   /\ stack'[n + 1].moves = StagedMoves(Mover)
  BY CallKeeps DEF FitInv
<1>2. pc = "call" /\ (Answer \/ Expand) /\ pc' \in {"loop", "return"} /\ chosen' = chosen
      /\ turn' = turn /\ UNCHANGED vars /\ (Expand => pc' = "loop")
  BY DEF Call, Answer, Return, Expand
<1>3. stack # <<>> /\ n \in Nat /\ n >= 1 /\ Top.side \in Side /\ Mover \in Side
  BY <1>2, TopFacts, OppFacts DEF FitInv, SearchInv, Frames, Mover
<1>4. Occupied' = Occupied /\ played' = played
  BY <1>2 DEF vars, Occupied
<1>5. \A i \in 1 .. n : stack[i].next > 0
  BY <1>2 DEF FitInv, Tried
<1>6. \A i, q : TakenSince(i, q)' = TakenSince(i, q)
  BY <1>4 DEF TakenSince
<1>7. ASSUME NEW i \in 1 .. n, NEW k \in DOMAIN stack'[i].moves,
             NEW q \in Squares(SideOf(i, turn'), Where(stack'[i].moves[k])),
             q \in Occupied'
      PROVE  TakenSince(i, q)'
  <2>1. TakenSince(i, q)
    BY <1>1, <1>2, <1>4, <1>7 DEF FitInv, MovesFit
  <2> QED
    BY <1>6, <2>1
<1>8. CASE Answer
  <2>1. MovesFit'
    BY <1>1, <1>7, <1>8 DEF MovesFit
  <2>2. Tried'
    BY <1>1, <1>5, <1>8 DEF Tried
  <2> QED
    BY <1>1, <1>2, <2>1, <2>2, RunningFits
<1>9. CASE Expand
  <2> DEFINE ms == StagedMoves(Mover)
  <2>1. \A k \in DOMAIN ms : Squares(Mover, Where(ms[k])) \cap Occupied = {}
    <3>1. IsGameOver(Mover) = 0
      BY <1>9 DEF Expand
    <3> QED
      BY <1>3, <3>1, MovesOfAFrame DEF FitInv, SearchInv
  <2>2. Mover = SideOf(n + 1, turn)
    <3>1. Top.side = SideOf(n, turn) /\ turn \in Side
      BY <1>3, TopFacts DEF Fine, FitInv, SearchInv, SearchTyped
    <3>2. (n + 1) % 2 = 1 <=> n % 2 # 1
      BY <1>3
    <3>3. Opp(Opp(turn)) = turn
      BY <3>1, OppFacts
    <3> QED
      BY <3>1, <3>2, <3>3 DEF Mover, SideOf
  <2> HIDE DEF ms
  <2>3. Len(stack') = n + 1 /\ stack'[n + 1].next = 0 /\ stack'[n + 1].moves = ms /\ pc' = "loop"
    BY <1>1, <1>2, <1>9 DEF ms
  <2>4. MovesFit'
    <3> SUFFICES ASSUME NEW i \in 1 .. Len(stack'), NEW k \in DOMAIN stack'[i].moves,
                        NEW q \in Squares(SideOf(i, turn'), Where(stack'[i].moves[k])),
                        q \in Occupied'
                 PROVE  TakenSince(i, q)'
      BY DEF MovesFit
    <3>1. CASE i = n + 1
      <4>1. q \in Squares(Mover, Where(ms[k])) /\ k \in DOMAIN ms
        BY <1>2, <2>2, <2>3, <3>1
      <4> QED
        BY <1>4, <2>1, <4>1
    <3>2. CASE i # n + 1
      <4>1. i \in 1 .. n
        BY <1>3, <2>3, <3>2
      <4> QED
        BY <1>7, <4>1
    <3> QED
      BY <3>1, <3>2
  <2>5. Tried'
    <3> SUFFICES ASSUME NEW i \in 1 .. Len(stack'), i < Len(stack')
                 PROVE  stack'[i].next > 0
      BY <2>3 DEF Tried
    <3>1. i \in 1 .. n
      BY <1>3, <2>3
    <3> QED
      BY <1>1, <1>5, <3>1
  <2> QED
    BY <1>1, <1>2, <2>4, <2>5, RunningFits
<1> QED
  BY <1>2, <1>8, <1>9

LEMMA ResumeFits ==
  ASSUME FitInv, Resume
  PROVE  FitInv'
<1> DEFINE n == Len(stack)
<1>1. /\ SearchInv' /\ Len(stack') = n
      /\ \A i \in 1 .. n : i # n => stack'[i] = stack[i]
      /\ stack'[n].moves = Top.moves /\ stack'[n].next = Top.next
  BY ResumeKeeps DEF FitInv
<1>2. pc = "return" /\ pc' # "done" /\ chosen' = chosen /\ turn' = turn /\ UndoMove
  BY DEF Resume
<1>3. stack # <<>> /\ n \in Nat /\ n >= 1 /\ Top = stack[n]
  BY <1>2, TopFacts DEF FitInv, SearchInv, Frames
<1>4. \A i \in 1 .. n : stack'[i].moves = stack[i].moves /\ stack'[i].next = stack[i].next
  BY <1>1, <1>3
<1>5. MovesFit'
  <2> SUFFICES ASSUME NEW i \in 1 .. Len(stack'), NEW k \in DOMAIN stack'[i].moves,
                      NEW q \in Squares(SideOf(i, turn'), Where(stack'[i].moves[k])),
                      q \in Occupied'
               PROVE  TakenSince(i, q)'
    BY DEF MovesFit
  <2>1. i \in 1 .. n /\ i \in Nat /\ i >= 1
    BY <1>1, <1>3
  <2>2. q \in Occupied => TakenSince(i, q)
    BY <1>2, <1>4, <2>1 DEF FitInv, MovesFit
  <2> QED
    BY <1>2, <2>1, <2>2, TakenAfterUndo DEF FitInv, SearchInv, BoardInv
<1>6. Tried'
  BY <1>1, <1>2, <1>4 DEF FitInv, Tried
<1> QED
  BY <1>1, <1>2, <1>5, <1>6, RunningFits

LEMMA FinishFits ==
  ASSUME FitInv, Finish
  PROVE  FitInv'
<1> DEFINE n == Len(stack)
<1>1. /\ SearchInv' /\ Len(stack') = n - 1
      /\ \A i \in 1 .. (n - 1) : stack'[i] = stack[i]
  BY FinishKeeps DEF FitInv
<1>2. pc \in {"cutoff", "loop"} /\ pc' = "return" /\ chosen' = chosen /\ turn' = turn /\ UNCHANGED vars
  BY DEF Finish, LoopEnded
<1>3. stack # <<>> /\ n \in Nat /\ n >= 1
  BY <1>2, TopFacts DEF FitInv, SearchInv, Frames
<1>4. \A i \in 1 .. Len(stack') : i \in 1 .. n /\ i < n /\ stack'[i] = stack[i]
  BY <1>1, <1>3
<1>5. Occupied' = Occupied /\ played' = played
  BY <1>2 DEF vars, Occupied
<1>6. \A i, q : TakenSince(i, q)' = TakenSince(i, q)
  BY <1>5 DEF TakenSince
<1>7. MovesFit'
  <2> SUFFICES ASSUME NEW i \in 1 .. Len(stack'), NEW k \in DOMAIN stack'[i].moves,
                      NEW q \in Squares(SideOf(i, turn'), Where(stack'[i].moves[k])),
                      q \in Occupied'
               PROVE  TakenSince(i, q)'
    BY DEF MovesFit
  <2>1. TakenSince(i, q)
    BY <1>2, <1>4, <1>5 DEF FitInv, MovesFit
  <2> QED
    BY <1>6, <2>1
<1>8. Tried'
  BY <1>4 DEF FitInv, Tried
<1> QED
  BY <1>1, <1>2, <1>7, <1>8, RunningFits

LEMMA NextIterationFits ==
  ASSUME FitInv, NextIteration
  PROVE  FitInv'
<1>1. /\ SearchInv'
      /\ pc' = "loop" => Len(stack') = 1 /\ stack'[1].next = 0 /\ stack'[1].moves = Top.moves
  BY NextIterationKeeps DEF FitInv
<1>2. pc \in {"cutoff", "loop"} /\ turn' = turn /\ UNCHANGED vars /\ stack # <<>> /\ Len(stack) = 1
      /\ (pc = "loop" => Top.next = Len(Top.moves))
  BY DEF NextIteration, LoopEnded, FitInv, SearchInv, Frames
<1>3. Occupied' = Occupied /\ played' = played /\ board' = board
  BY <1>2 DEF vars, Occupied
<1>4. \A i, q : TakenSince(i, q)' = TakenSince(i, q)
  BY <1>3 DEF TakenSince
<1>5. Top = stack[1] /\ Top.side = turn /\ Top.moves \in Seq(Entry) /\ Top.moves # <<>>
      /\ Top.next \in Nat /\ Top.next <= Len(Top.moves)
  BY <1>2, TopFacts DEF FitInv, Fine, SideOf
<1>6. Top.next \in DOMAIN Top.moves
  <2>1. Len(Top.moves) \in Nat /\ Len(Top.moves) # 0
    BY <1>5
  <2>2. pc = "cutoff" => Top.next > 0
    BY <1>2, <1>5 DEF FitInv, Tried
  <2>3. Top.next \in 1 .. Len(Top.moves)
    BY <1>2, <1>5, <2>1, <2>2
  <2> QED
    BY <1>5, <2>3
<1>7. MovesFit'
  <2> SUFFICES ASSUME NEW i \in 1 .. Len(stack'), NEW k \in DOMAIN stack'[i].moves,
                      NEW q \in Squares(SideOf(i, turn'), Where(stack'[i].moves[k])),
                      q \in Occupied'
               PROVE  TakenSince(i, q)'
    BY DEF MovesFit
  <2>1. stack' = stack \/ (Len(stack') = 1 /\ stack'[1].moves = Top.moves)
    BY <1>1 DEF NextIteration
  <2>2. i = 1 /\ stack'[i].moves = stack[1].moves /\ 1 \in 1 .. Len(stack)
    BY <1>2, <1>5, <2>1
  <2>3. TakenSince(i, q)
    BY <1>2, <1>3, <2>2 DEF FitInv, MovesFit
  <2> QED
    BY <1>4, <2>3
<1>8. CASE value >= 5000 \/ iteration = Len(horizons)
  <2>1. /\ pc' = "done" /\ stack' = stack
        /\ chosen' = (IF value >= 5000 THEN Where(Top.moves[Top.next]) ELSE NoMove)
    BY <1>8 DEF NextIteration
  <2>2. Tried'
    <3>0. Len(stack') = 1
      BY <1>2, <2>1
    <3>1. \A i \in 1 .. Len(stack') : ~ (i < Len(stack'))
      BY <3>0
    <3> QED
      BY <2>1, <3>1 DEF Tried
  <2>3. /\ Where(Top.moves[Top.next]) \in Moves(turn)
        /\ Fits(turn, Where(Top.moves[Top.next]))
    BY <1>2, <1>5, <1>6, FitsNow
  <2>4. ChosenFits'
    <3>1. chosen' # NoMove => chosen' = Where(Top.moves[Top.next])
      BY <2>1
    <3>2. NoMove' = NoMove
      BY DEF NoMove
    <3>3. \A m : Fits(turn, m)' = Fits(turn, m)
      BY <1>2, <1>3 DEF Fits
    <3> QED
      BY <1>2, <1>3, <2>3, <3>1, <3>2 DEF ChosenFits, Fits
  <2> QED
    BY <1>1, <1>7, <2>1, <2>2, <2>4 DEF FitInv
<1>9. CASE ~ (value >= 5000 \/ iteration = Len(horizons))
  <2>1. pc' = "loop" /\ chosen' = chosen
    BY <1>9 DEF NextIteration
  <2>2. Len(stack') = 1 /\ stack'[1].next = 0
    BY <1>1, <2>1
  <2>3. Tried'
    <3>1. \A i \in 1 .. Len(stack') : ~ (i < Len(stack'))
      BY <2>2
    <3> QED
      BY <2>1, <3>1 DEF Tried
  <2> QED
    BY <1>1, <1>2, <1>7, <2>1, <2>3, RunningFits
<1> QED
  BY <1>8, <1>9

LEMMA FitStepKeeps == FitInv /\ [SearchNext]_allVars => FitInv'
<1> SUFFICES ASSUME FitInv, [SearchNext]_allVars
             PROVE  FitInv'
  OBVIOUS
<1>1. CASE UNCHANGED allVars
  <2>1. SearchInv'
    BY SearchStepKeeps DEF FitInv
  <2>2. UNCHANGED searchVars /\ board' = board /\ played' = played
    BY <1>1 DEF allVars, vars
  <2>3. MovesFit' /\ Tried'
    BY <2>2 DEF searchVars, FitInv, MovesFit, Tried, TakenSince, Occupied
  <2>4. ChosenFits' /\ (pc' # "done" => chosen' = NoMove')
    BY <2>2 DEF searchVars, FitInv, ChosenFits, Fits, NoMove
  <2> QED
    BY <2>1, <2>3, <2>4 DEF FitInv
<1> QED
  BY <1>1, SetupFits, SearchForMoveFits, TryFits, CallFits, ResumeFits, FinishFits,
     NextIterationFits DEF SearchNext, Run

LEMMA FitMeansReady == FitInv => NeverStuck
<1> SUFFICES ASSUME FitInv, pc \notin {"idle", "done"}
             PROVE  Ready
  BY DEF NeverStuck
<1>1. pc \in {"loop", "call", "return", "cutoff"}
  BY DEF FitInv, SearchInv, SearchTyped
<1>2. ASSUME pc = "loop", Top.next < Len(Top.moves)
      PROVE  Fits(Top.side, Where(Top.moves[Top.next + 1]))
  <2>1. stack # <<>>
    BY <1>2 DEF FitInv, SearchInv, Frames
  <2>2. Top.next \in Nat /\ Top.moves \in Seq(Entry)
    BY <2>1, TopFacts DEF FitInv
  <2> DEFINE k == Top.next + 1
  <2>3. k \in DOMAIN Top.moves
    BY <1>2, <2>2
  <2> HIDE DEF k
  <2>4. Fits(Top.side, Where(Top.moves[k]))
    BY <1>2, <2>1, <2>3, FitsNow
  <2> QED
    BY <2>4 DEF k
<1> QED
  BY <1>1, <1>2 DEF Ready

(* negamax plays the moves it was given when it was entered, long after it has
   played and taken back others: every one can still be played when its turn
   comes, so the search never has to wait, which is what its fairness rests on. *)
THEOREM SearchIsNeverStuck == SearchSpec => []NeverStuck
BY FitInit, FitStepKeeps, FitMeansReady, PTL DEF SearchSpec

(* The move search_for_move names is one of the board, and its squares are free
   on the board the search leaves.                                             *)
THEOREM ChosenMoveFits == SearchSpec => []ChosenFits
<1>1. FitInv => ChosenFits
  BY DEF FitInv
<1> QED
  BY <1>1, FitInit, FitStepKeeps, PTL DEF SearchSpec

=============================================================================
