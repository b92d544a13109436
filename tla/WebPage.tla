------------------------------ MODULE WebPage -------------------------------
(***************************************************************************)
(* The page of src/obsequi/html, where two players lay dominoes by         *)
(* clicking, and the requests it makes: every change of the board posts it *)
(* to the server, which answers with the metrics the page shows            *)
(* (processXhr of main.cc, after HttpRequest::parse of http.cc).           *)
(*                                                                         *)
(* Browser, network and the kernel's sockets are external.  Each request   *)
(* has a connection of its own, so they may reach the server in any order  *)
(* and the answers come back in any order; one recv may return all of a    *)
(* request or a part.                                                      *)
(***************************************************************************)
EXTENDS Integers, Sequences, FiniteSets, Functions

CONSTANTS
  Sizes,        \* the sizes <<rows, columns>> the players enter in the form
  SquareLimit,  \* the number of squares from which on Board() gives up, 128
  MaxMoves,     \* bounds: pieces in a game,
  MaxBeyond,    \* those of them that are not on the board,
  MaxRequests   \* and requests in a session

ASSUME PageAssumption ==
  /\ Sizes \subseteq (1 .. 30) \X (1 .. 30) /\ SquareLimit \in Nat
  /\ MaxMoves \in Nat /\ MaxBeyond \in Nat /\ MaxRequests \in Nat

VARIABLES
  \* obsequi.js
  height, width,  \* of board
  marks,          \* the entries of board.board that are set
  moves,          \* board.moves
  vertical,       \* piece.vertical: who is to move
  counts,         \* the "Safe" and "Real" entries of the page
  painted,        \* the pieces and the turn on the canvas
  metrics,        \* the request whose answer the bounds on the page are from
  posted,         \* how many requests were made
  \* between the page and the server
  asked,          \* the requests that are under way
  server,         \* "up" or "down"
  faults          \* what has gone wrong: a request was "cut", a "size" refused

game    == <<height, width, marks, moves, vertical, counts, painted>>
network == <<posted, asked, server, faults>>
vars    == <<game, metrics, network>>

-----------------------------------------------------------------------------
(* The canvas is 450 wide and 350 high; a block is the largest square of
   which height fit below and width beside each other.  Where the canvas goes
   on after the board a click has a row or a column beyond it.               *)

CanvasRows == 0 .. IF 350 * width <= 450 * height
                     THEN height - 1 ELSE (349 * width) \div 450
CanvasCols == 0 .. IF 350 * width <= 450 * height
                     THEN (449 * height) \div 350 ELSE width - 1

\* Piece.blocks
Blocks(p) == {<<p.row, p.col>>,
              IF p.vertical THEN <<p.row + 1, p.col>> ELSE <<p.row, p.col + 1>>}

\* Mutant: only the square that was clicked is looked at.
ValidAtClick(p) == /\ \A q \in Blocks(p) : q[1] < height
                   /\ <<p.row, p.col>> \notin marks

\* Board.valid goes through: it throws in a row beyond the board, in a column
\* beyond it the entry is undefined, which is as good as free.
Valid(p) == \A q \in Blocks(p) : q[1] < height /\ q \notin marks

\* Board.rotate goes through: it throws when a piece reaches beyond the last
\* column, which is a row of the rotated board.
Rotates(pieces) == \A i \in DOMAIN pieces : \A q \in Blocks(pieces[i]) : q[2] < width

Beyond(pieces) == Cardinality({i \in DOMAIN pieces : ~ Rotates(<<pieces[i]>>)})

MarksOf(pieces) == UNION {Blocks(pieces[i]) : i \in DOMAIN pieces}

\* The marks of Board.rotate.
Rotated(pieces) == {<<q[2], q[1]>> : q \in MarksOf(pieces)}

\* The loop of get_real and get_safe over a row: pieces side by side on the
\* squares that fit, from the left.
PiecesIn(fitting, columns) ==
  LET From[c \in 0 .. columns + 1] ==
        IF c >= columns - 1 THEN 0
        ELSE IF {c, c + 1} \subseteq fitting THEN 1 + From[c + 2]
        ELSE From[c + 1]
  IN From[0]

\* Mutant: the border of the board counts as free.
SafeOffTheBorder(set, rows, r, c) ==
  {<<r - 1, c>>, <<r + 1, c>>} \subseteq set /\ <<r, c>> \notin set

SafeAt(set, rows, r, c) ==
  /\ r > 0        => <<r - 1, c>> \in set
  /\ r < rows - 1 => <<r + 1, c>> \in set
  /\ <<r, c>> \notin set

GetReal(set, rows, columns) ==
  LET Free(r) == {c \in 0 .. columns - 1 : <<r, c>> \notin set}
  IN SumFunction([r \in 0 .. rows - 1 |-> PiecesIn(Free(r), columns)])

GetSafe(set, rows, columns) ==
  LET Safe(r) == {c \in 0 .. columns - 1 : SafeAt(set, rows, r, c)}
  IN SumFunction([r \in 0 .. rows - 1 |-> PiecesIn(Safe(r), columns)])

CountsOf(set, pieces, rows, columns) ==
  [hsafe |-> GetSafe(set, rows, columns), hreal |-> GetReal(set, rows, columns),
   vsafe |-> GetSafe(Rotated(pieces), columns, rows),
   vreal |-> GetReal(Rotated(pieces), columns, rows)]

-----------------------------------------------------------------------------
(* What the page does after each change of its board.                       *)

\* get_blocks
OnBoard(set, rows, columns) == {q \in set : q[1] < rows /\ q[2] < columns}

Request(set, rows, columns, turn) ==
  [no |-> posted + 1, rows |-> rows, cols |-> columns,
   blocks |-> OnBoard(set, rows, columns), turn |-> turn]

\* solve: the request fails at once when the server is down.
Solve(set, rows, columns, turn) ==
  /\ posted < MaxRequests
  /\ posted' = posted + 1
  /\ asked' = IF server = "up" THEN asked \cup {Request(set, rows, columns, turn)}
                              ELSE asked

\* update_score and paint, which is not reached when rotate throws.
Update(set, pieces, rows, columns, turn) ==
  IF Rotates(pieces)
    THEN /\ counts' = CountsOf(set, pieces, rows, columns)
         /\ Solve(set, rows, columns, turn)
         /\ painted' = [moves |-> pieces, vertical |-> turn]
    ELSE UNCHANGED <<counts, posted, asked, painted>>

Init ==
  /\ \E size \in Sizes : height = size[1] /\ width = size[2]
  /\ marks = {} /\ moves = <<>> /\ vertical = TRUE
  /\ counts = CountsOf({}, <<>>, height, width)
  /\ painted = [moves |-> <<>>, vertical |-> TRUE]
  /\ metrics = [no |-> 0]
  /\ posted = 1
  /\ asked = {[no |-> 1, rows |-> height, cols |-> width, blocks |-> {}, turn |-> TRUE]}
  /\ server = "up" /\ faults = {}

\* newgame
NewGame ==
  /\ \E size \in Sizes :
       /\ height' = size[1] /\ width' = size[2]
       /\ counts' = CountsOf({}, <<>>, size[1], size[2])
       /\ Solve({}, size[1], size[2], TRUE)
  /\ marks' = {} /\ moves' = <<>> /\ vertical' = TRUE
  /\ painted' = [moves |-> <<>>, vertical |-> TRUE]
  /\ UNCHANGED <<metrics, server, faults>>

\* Mutant: the board is posted before the turn changes (as in the handler of
\* the keyboard that obsequi.js has commented out).
ClickAskingFirst(row, col) ==
  LET p == [row |-> row, col |-> col, vertical |-> vertical]
  IN /\ Len(moves) < MaxMoves /\ Beyond(Append(moves, p)) <= MaxBeyond
     /\ Valid(p)
     /\ moves' = Append(moves, p)
     /\ marks' = marks \cup Blocks(p)
     /\ vertical' = ~ vertical
     /\ Update(marks', moves', height, width, vertical)
     /\ UNCHANGED <<height, width, metrics, server, faults>>

\* canvasclick
CanvasClick(row, col) ==
  LET p == [row |-> row, col |-> col, vertical |-> vertical]
  IN /\ Len(moves) < MaxMoves /\ Beyond(Append(moves, p)) <= MaxBeyond
     /\ Valid(p)
     /\ moves' = Append(moves, p)
     /\ marks' = marks \cup Blocks(p)
     /\ vertical' = ~ vertical
     /\ Update(marks', moves', height, width, vertical')
     /\ UNCHANGED <<height, width, metrics, server, faults>>

\* reverse: undo_move throws when there is nothing to undo.
Reverse ==
  /\ moves # <<>>
  /\ LET p == moves[Len(moves)]
     IN /\ moves' = SubSeq(moves, 1, Len(moves) - 1)
        /\ marks' = marks \ Blocks(p)
        /\ vertical' = p.vertical
  /\ Update(marks', moves', height, width, vertical')
  /\ UNCHANGED <<height, width, metrics, server, faults>>

\* The "Solve" button.
SolveAgain ==
  /\ Solve(marks, height, width, vertical)
  /\ UNCHANGED <<game, metrics, server, faults>>

-----------------------------------------------------------------------------
(* What becomes of a request.  The server's work, the way back and what the
   page does with the answer are one step: until the answer arrives they
   change nothing that another step reads.                                   *)

\* Board() ends the program when it is asked for too many squares.
Ends(r) == r.rows * r.cols >= SquareLimit

\* The server takes what is under way with it.
GoDown == server' = "down" /\ asked' = {} /\ UNCHANGED metrics

\* processXhr and, when the answer is there, update_metrics.
Answer(r) ==
  /\ IF Ends(r) THEN GoDown
     ELSE metrics' = r /\ asked' = asked \ {r} /\ UNCHANGED server
  /\ faults' = IF Ends(r) THEN faults \cup {"size"} ELSE faults
  /\ UNCHANGED <<game, posted>>

\* recv has returned the header alone, or not all of the content:
\* fill_message fails in an assert.
AnswerHeader(r) ==
  /\ GoDown /\ faults' = faults \cup {"cut"}
  /\ UNCHANGED <<game, posted>>

\* Not even the header: the request has no method, the response no content,
\* and update_metrics throws.
AnswerPart(r) ==
  /\ asked' = asked \ {r} /\ faults' = faults \cup {"cut"}
  /\ UNCHANGED <<game, metrics, posted, server>>

Next ==
  \/ NewGame
  \/ \E row \in CanvasRows, col \in CanvasCols : CanvasClick(row, col)
  \/ Reverse
  \/ SolveAgain
  \/ \E r \in asked : Answer(r) \/ AnswerHeader(r) \/ AnswerPart(r)

Spec == Init /\ [][Next]_vars

-----------------------------------------------------------------------------
(* The marks of the board are those of the pieces laid and not taken back,
   and no two of these overlap: no click, even beside the board, and no Undo
   leaves a mark of its own or takes away another piece's.                   *)
MarksAreTheMoves ==
  /\ marks = MarksOf(moves)
  /\ \A i, j \in DOMAIN moves : i # j => Blocks(moves[i]) \cap Blocks(moves[j]) = {}

\* The answer to the request is about the board the page shows.
Shows(r) == /\ r.no > 0
            /\ <<r.rows, r.cols, r.turn>> = <<height, width, vertical>>
            /\ r.blocks = {q \in marks : q[1] < height /\ q[2] < width}

(* Once nothing is under way, bounds on the page that are not those of the
   board it shows have one of four causes: the answer to the last request was
   overtaken by that to an earlier one, a request was cut on its way, a board
   with too many squares was tried, or a piece sticks out of the board.        *)
StaleForACause ==
  asked = {} /\ ~ Shows(metrics) =>
    \/ metrics.no \in 1 .. posted - 1 /\ server = "up"
    \/ faults # {}
    \/ ~ Rotates(moves)

=============================================================================
