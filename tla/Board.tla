------------------------------- MODULE Board --------------------------------
(***************************************************************************)
(* src/obsequi/board.h and board.cc: the position being solved, kept twice *)
(* (a horizontal and a vertical view of the same squares) together with    *)
(* figures that are updated incrementally: the number of real and of safe  *)
(* moves per line and in total, the number of empty squares and the hash   *)
(* keys of the four mirror images.                                         *)
(*                                                                         *)
(* The callers fix the order of calls: initialize_board (obsequi.cc) and   *)
(* processXhr (main.cc) place the blocks, each on a square of its own,     *)
(* before the search; the search (negamax.cc) plays a move, recurses and   *)
(* takes the same move back, so moves are undone last in, first out.       *)
(***************************************************************************)
EXTENDS BoardOps, PositionalValues, Sequences

CONSTANTS Rows, Cols   \* num_rows and num_cols of the horizontal view

\* The sizes Initialize accepts: a border on each side, a key of 128 bits.
ASSUME SizeAssumption ==
  /\ Rows \in 1 .. (MaxRows - 2)
  /\ Cols \in 1 .. (MaxRows - 2)
  /\ Rows * Cols < 128

Side   == {"H", "V"}
Opp(s) == IF s = "H" THEN "V" ELSE "H"

\* GetNumRows of a view: the lines a player's pieces lie along.
NumRows(s) == IF s = "H" THEN Rows ELSE Cols
Lines(s)   == 1 .. NumRows(s)

\* The first squares of a player's pieces: line l, bits b and b + 1.
Moves(s) == [array_index : Lines(s), mask_index : 1 .. (NumRows(Opp(s)) - 1)]

VARIABLES
  board,         \* [side -> board_]: the occupied bits of each line
  safe, real,    \* [side -> info[].safe, info[].real]
  totalSafe,     \* [side -> info_totals.safe]
  totalReal,     \* [side -> info_totals.real]
  emptySquares,  \* shared->empty_squares
  hashkey,       \* shared->hashkey: the bits of the key of each mirror image
  played         \* the moves the search has applied and not yet undone

figures == <<safe, real, totalSafe, totalReal, emptySquares, hashkey>>
vars    == <<board, figures, played>>

-----------------------------------------------------------------------------
(* The position as a set of squares <<row, col>> of the horizontal view.    *)

Square == (1 .. Rows) \X (1 .. Cols)

\* The two squares of a move of player s.
Squares(s, m) ==
  IF s = "H"
    THEN {<<m.array_index, m.mask_index>>, <<m.array_index, m.mask_index + 1>>}
    ELSE {<<m.mask_index, m.array_index>>, <<m.mask_index + 1, m.array_index>>}

Occupied == {q \in Square : q[2] \in board["H"][q[1]]}

\* The squares of the move are free in the player's own view.
Fits(s, m) ==
  {m.mask_index, m.mask_index + 1} \cap board[s][m.array_index] = {}

-----------------------------------------------------------------------------
(* Hash keys: bit (row - 1) * Cols + (col - 1) of the unflipped key stands
   for a square, and Toggle also flips its image in the other three keys.    *)

Flip == {"normal", "vert", "horz", "vert_horz"}

FlippedBit(f, bit) ==
  LET row == bit \div Cols
      col == bit % Cols
  IN  CASE f = "normal"    -> row * Cols + col
        [] f = "vert"      -> row * Cols + (Cols - col - 1)
        [] f = "horz"      -> (Rows - row - 1) * Cols + col
        [] f = "vert_horz" -> (Rows - row - 1) * Cols + (Cols - col - 1)

\* Mutant: the vertical player's keys are laid out like its own view.
MoveBitsOwnView(s, m) ==
  LET i == m.array_index - 1
      j == m.mask_index - 1
  IN  IF s = "H" THEN {i * Cols + j, i * Cols + j + 1} ELSE {i * Rows + j, i * Rows + j + 1}

(* The bits Initialize toggles in move_hash_keys_[array_index][mask_index]:
   both players' keys are laid out like the horizontal view.                 *)
MoveBits(s, m) ==
  LET i == m.array_index - 1
      j == m.mask_index - 1
  IN  IF s = "H" THEN {i * Cols + j, i * Cols + j + 1}
                 ELSE {j * Cols + i, (j + 1) * Cols + i}

\* The keys after Toggle or Xor of these bits.
ToggleBits(bits) == [f \in Flip |-> Xor(hashkey[f], {FlippedBit(f, b) : b \in bits})]

-----------------------------------------------------------------------------
(* The pieces InitInfo counts over all lines: overlapping ones are dropped.  *)
SafePieces(s, b) ==
  {p \in Lines(s) \X Idx : p[2] \in NonOverlapping(SafeMask(b[s], p[1]))}
RealPieces(s, b) ==
  {p \in Lines(s) \X Idx : p[2] \in NonOverlapping(RealMask(b[s], p[1]))}

(* InitInfo on both views, for the words b: everything is counted afresh.
   Lines beyond the last one keep the zeroes Initialize gave them.           *)
InitInfo(b) ==
  /\ safe' = [s \in Side |->
       [l \in Idx |-> IF l \in Lines(s) THEN CountSafe(b[s], l) ELSE 0]]
  /\ real' = [s \in Side |->
       [l \in Idx |-> IF l \in Lines(s) THEN CountReal(b[s], l) ELSE 0]]
  /\ totalSafe' = [s \in Side |-> Cardinality(SafePieces(s, b))]
  /\ totalReal' = [s \in Side |-> Cardinality(RealPieces(s, b))]

\* Initialize: everything is occupied but the squares of the board.
EmptyBoard ==
  [s \in Side |-> [l \in Idx |->
     IF l \in Lines(s) THEN Idx \ (1 .. NumRows(Opp(s))) ELSE Idx]]

Init ==
  /\ board = EmptyBoard
  /\ safe = [s \in Side |-> [l \in Idx |->
               IF l \in Lines(s) THEN CountSafe(board[s], l) ELSE 0]]
  /\ real = [s \in Side |-> [l \in Idx |->
               IF l \in Lines(s) THEN CountReal(board[s], l) ELSE 0]]
  /\ totalSafe = [s \in Side |-> Cardinality(SafePieces(s, board))]
  /\ totalReal = [s \in Side |-> Cardinality(RealPieces(s, board))]
  /\ emptySquares = Rows * Cols
  /\ hashkey = [f \in Flip |-> {}]
  /\ played = <<>>

-----------------------------------------------------------------------------
(* SetBlock(row, col), numbered from 0.  It does not look whether the square
   is free; its callers name each square once and before any move.           *)
SetBlock(row, col) ==
  /\ played = <<>>
  /\ <<row + 1, col + 1>> \notin Occupied
  /\ board' = [board EXCEPT !["H"][row + 1] = @ \cup {col + 1},
                            !["V"][col + 1] = @ \cup {row + 1}]
  /\ InitInfo(board')
  /\ hashkey' = ToggleBits({row * Cols + col})
  /\ emptySquares' = emptySquares - 1
  /\ UNCHANGED played

\* Mutant: the second of the opponent's lines is forgotten.
ToggledOnce(s, m) ==
  [board EXCEPT ![s][m.array_index] = Xor(@, {m.mask_index, m.mask_index + 1}),
                ![Opp(s)][m.mask_index] = Xor(@, {m.array_index})]

\* Mutant: the squares are set, so taking a move back leaves its piece.
Filled(s, m) ==
  [board EXCEPT ![s][m.array_index] = @ \cup {m.mask_index, m.mask_index + 1},
                ![Opp(s)][m.mask_index] = @ \cup {m.array_index},
                ![Opp(s)][m.mask_index + 1] = @ \cup {m.array_index}]

\* The words after ToggleMove has flipped the squares of the move.
Toggled(s, m) ==
  [board EXCEPT ![s][m.array_index] = Xor(@, {m.mask_index, m.mask_index + 1}),
                ![Opp(s)][m.mask_index] = Xor(@, {m.array_index}),
                ![Opp(s)][m.mask_index + 1] = Xor(@, {m.array_index})]

\* Mutant: only the opponent's line before the move is recounted.
SafeChangedOneSided(s, m, t) ==
  IF t = s THEN ((m.array_index - 1) .. (m.array_index + 1)) \cap Lines(t)
           ELSE {m.mask_index - 1} \cap Lines(t)

(* The lines whose safe moves a move of player s may change.  Those through
   the squares of the move are not among the opponent's: their squares were
   not protected there before and are occupied after.                        *)
SafeChanged(s, m, t) ==
  IF t = s THEN ((m.array_index - 1) .. (m.array_index + 1)) \cap Lines(t)
           ELSE {m.mask_index - 1, m.mask_index + 2} \cap Lines(t)

\* The lines whose real moves it may change: those the move touches.
RealChanged(s, m, t) ==
  IF t = s THEN {m.array_index} ELSE {m.mask_index, m.mask_index + 1}

\* Mutant: the difference is taken the wrong way round.
Loss(new, old, n) == old[n] - new[n]

\* What a recount of line n adds to the total.
Gain(new, old, n) == new[n] - old[n]

(* ToggleMove: the words first, then UpdateSafe and UpdateReal line by line,
   each adding what its line gained to the total (a line that is not updated
   gains nothing).                                                           *)
ToggleMove(s, m) ==
  LET l == m.array_index
      b == m.mask_index
  IN
  /\ board' = Toggled(s, m)
  /\ safe' = [t \in Side |-> [n \in Idx |->
       IF n \in SafeChanged(s, m, t) THEN CountSafe(board'[t], n) ELSE safe[t][n]]]
  /\ real' = [t \in Side |-> [n \in Idx |->
       IF n \in RealChanged(s, m, t) THEN CountReal(board'[t], n) ELSE real[t][n]]]
  /\ totalSafe' = [t \in Side |->
       LET gain(n) == Gain(safe'[t], safe[t], n)
       IN  totalSafe[t] + (IF t = s THEN gain(l - 1) + gain(l) + gain(l + 1)
                                    ELSE gain(b - 1) + gain(b + 2))]
  /\ totalReal' = [t \in Side |->
       LET gain(n) == Gain(real'[t], real[t], n)
       IN  totalReal[t] + (IF t = s THEN gain(l) ELSE gain(b) + gain(b + 1))]

\* ApplyMove, called on the view of player s with a move of its generators.
ApplyMove(s, m) ==
  /\ Fits(s, m)
  /\ ToggleMove(s, m)
  /\ emptySquares' = emptySquares - 2
  /\ hashkey' = ToggleBits(MoveBits(s, m))
  /\ played' = Append(played, [side |-> s, move |-> m])

\* Mutant: the two squares are not given back.
UndoKeepingSquares ==
  /\ played # <<>>
  /\ LET last == played[Len(played)]
     IN  /\ ToggleMove(last.side, last.move)
         /\ hashkey' = ToggleBits(MoveBits(last.side, last.move))
  /\ played' = SubSeq(played, 1, Len(played) - 1)
  /\ UNCHANGED emptySquares

\* UndoMove, called with the last move that was applied.
UndoMove ==
  /\ played # <<>>
  /\ LET last == played[Len(played)]
     IN  /\ ToggleMove(last.side, last.move)
         /\ hashkey' = ToggleBits(MoveBits(last.side, last.move))
  /\ emptySquares' = emptySquares + 2
  /\ played' = SubSeq(played, 1, Len(played) - 1)

Next ==
  \/ \E row \in 0 .. (Rows - 1), col \in 0 .. (Cols - 1) : SetBlock(row, col)
  \/ \E s \in Side : \E m \in Moves(s) : ApplyMove(s, m)
  \/ UndoMove

Spec == Init /\ [][Next]_vars

-----------------------------------------------------------------------------
(* Queries.                                                                  *)

\* Mutant: the player to move also wins a tie.
WinsTie(s) ==
  IF totalSafe[s] >= totalReal[Opp(s)] THEN 5000
  ELSE IF totalSafe[Opp(s)] >= totalReal[s] THEN -5000
  ELSE 0

\* Mutant: a tie does not lose.
LosesNoTie(s) ==
  IF totalSafe[s] > totalReal[Opp(s)] THEN 5000
  ELSE IF totalSafe[Opp(s)] > totalReal[s] THEN -5000
  ELSE 0

(* IsGameOver on the view of s, the player to move: the score it reports, or
   0 for "not decided".                                                      *)
IsGameOver(s) ==
  IF totalSafe[s] > totalReal[Opp(s)] THEN 5000
  ELSE IF totalSafe[Opp(s)] >= totalReal[s] THEN -5000
  ELSE 0

(* ScoreMove flips the squares, counts, and flips them back.  Its list of
   lines is its own: gains of the player's real and safe moves, less those of
   the opponent, before ties are broken by the position.                     *)
RealGain(t, n, b) == CountReal(b[t], n) - real[t][n]
SafeGain(t, n, b) == IF n \in Lines(t) THEN CountSafe(b[t], n) - safe[t][n] ELSE 0

OwnGain(s, m, b) ==
  LET l == m.array_index
  IN  RealGain(s, l, b)
        + SafeGain(s, l - 1, b) + SafeGain(s, l, b) + SafeGain(s, l + 1, b)

\* Mutant: the opponent's line behind the move is not looked at.
OpponentGainBefore(s, m, b) ==
  LET o == Opp(s)
      n == m.mask_index
  IN  RealGain(o, n, b) + RealGain(o, n + 1, b) + SafeGain(o, n - 1, b)

OpponentGain(s, m, b) ==
  LET o == Opp(s)
      n == m.mask_index
  IN  RealGain(o, n, b) + RealGain(o, n + 1, b)
        + SafeGain(o, n - 1, b) + SafeGain(o, n + 2, b)

ScoreChange(s, m) == OwnGain(s, m, Toggled(s, m)) - OpponentGain(s, m, Toggled(s, m))

ScoreMove(s, m) ==
  128 * ScoreChange(s, m)
    + PositionValue(NumRows(s), NumRows(Opp(s)), m.array_index, m.mask_index)

-----------------------------------------------------------------------------
(* Properties.                                                               *)

TypeOK ==
  /\ board \in [Side -> [Idx -> SUBSET Idx]]
  /\ safe \in [Side -> [Idx -> Nat]]
  /\ real \in [Side -> [Idx -> Nat]]
  /\ totalSafe \in [Side -> Nat]
  /\ totalReal \in [Side -> Nat]
  /\ emptySquares \in Int
  /\ hashkey \in [Flip -> SUBSET Int]
  /\ played \in Seq([side : Side, move : UNION {Moves(s) : s \in Side}])

(* What the disabled check_board_sanity (board.cc:275) compared after every
   move: a square is occupied in the horizontal view exactly when it is in the
   vertical one, the border included; and the border, on which the shifts of
   the masks rely, is never cleared.                                          *)
ViewsAgree ==
  /\ \A l \in Idx, b \in Idx : b \in board["H"][l] <=> l \in board["V"][b]
  /\ \A s \in Side : \A l \in Idx :
       \A b \in Idx \ board[s][l] : l \in Lines(s) /\ b \in Lines(Opp(s))

(* info[] is what counting every line from scratch would give: the lines that
   ToggleMove does not recount really have not changed.                       *)
LinesExact ==
  \A s \in Side : \A l \in Lines(s) :
    /\ safe[s][l] = CountSafe(board[s], l)
    /\ real[s][l] = CountReal(board[s], l)

\* The totals, on which IsGameOver decides, never drift from the lines.
TotalsExact ==
  \A s \in Side :
    /\ totalSafe[s] = Cardinality(SafePieces(s, board))
    /\ totalReal[s] = Cardinality(RealPieces(s, board))

\* The shared count of empty squares follows both players' moves and the blocks.
EmptyExact == emptySquares = Cardinality(Square \ Occupied)

(* All the figures, kept by differences over millions of moves and never counted
   again (board.cc:79), are those of the position on the board.                *)
FiguresExact == LinesExact /\ TotalsExact /\ EmptyExact

(* Each key is the set of occupied squares of one mirror image of the board,
   whichever player's moves led there and in whatever order (board_test.cc
   compares two orders): the transposition table identifies positions by it.  *)
KeysExact ==
  \A f \in Flip :
    hashkey[f] = {FlippedBit(f, (q[1] - 1) * Cols + (q[2] - 1)) : q \in Occupied}

\* How far player s is ahead in the two counts together.
Lead(s) == totalSafe[s] + totalReal[s] - totalSafe[Opp(s)] - totalReal[Opp(s)]

(* The score that orders the moves is the change ApplyMove then makes to the
   difference of the totals, though ScoreMove recounts fewer lines.           *)
ScoreIsTheGain ==
  [][\A s \in Side : \A m \in Moves(s) :
       ApplyMove(s, m) => ScoreChange(s, m) = Lead(s)' - Lead(s)]_vars

-----------------------------------------------------------------------------
(* Board implements the game: the squares of its words are those of the game
   and its calls are the game's steps.                                       *)
Laid == [i \in 1 .. Len(played) |-> Squares(played[i].side, played[i].move)]

Game == INSTANCE Domineering WITH occupied <- Occupied, laid <- Laid

(* Blocks, moves and undone moves act on the squares the way the game says: a
   piece lands on two free squares, taking it back frees exactly those.       *)
ImplementsGame == Game!Spec

(* When IsGameOver decides on counts alone, it is right: the player it names
   wins with best play, whichever player is to move.                         *)
GameOverIsRight ==
  \A s \in Side :
    /\ IsGameOver(s) = 5000  => Game!Wins[Square \ Occupied][s]
    /\ IsGameOver(s) = -5000 => ~ Game!Wins[Square \ Occupied][s]

=============================================================================
