# A TLA+ model of obsequi

obsequi solves the game of Domineering: two players, one of whom lays dominoes
along the rows (H) and the other along the columns (V) of a board, until the
player to move cannot. `src/obsequi` holds a command-line solver (`obsequi.cc`)
and a small web server (`main.cc`) that shows what the solver's heuristics make
of a board. This directory keeps a formal model beside that code: TLA+ modules,
TLC configurations, and proofs for TLAPS. `PROJECT.json` names the runs, the
source lines each definition stands for, the mutants that show each property
can fail, the hazards of the code and the theorems.

    tlc -config MCBoard.cfg MCBoard      # one run
    tlapm BoardProofs.tla                # one module of proofs

## 1. The system

| Part | Code | State | Operations |
|---|---|---|---|
| bit operations | `bitops.h/.cc`, `board-ops.h` | lookup tables, filled before `main` | count greedy pieces, count bits, last bit; masks of safe, real, open, half safe moves |
| board | `board.h/.cc`, `transposition.h/.cc` (HashKeys), `positional-values` | the words of two views, per-line and total counts, empty squares, keys of four mirror images | construct, `SetBlock`, `ApplyMove`, `UndoMove`, `ScoreMove`, `IsGameOver` |
| move list | `move.h/.cc` | array of moves, stage, lengths, index | `Clear`, `GetNext` (generate, score, sort by stages), `GenerateAllMoves` |
| move bounds | `score-board.h/.cc` | none; a scratch board | pack areas, bound both players' moves, `is_game_over_expensive` |
| transposition table | `transposition.h/.cc` | an array of results | `Store`, `Lookup` |
| search | `negamax.h/.cc` | recursion, windows, `g_movelist` | `search_for_move`, `negamax` |
| connection server | `server.h/.cc` | queue of descriptors, mutex, condition variable, threads | `Run`, `Queue`, `Dequeue`, `HandleConnections` |
| request handling | `http.h/.cc`, `main.cc` | per connection | receive once, route, answer |
| JSON messages | `protoson.h/.cc`, `obsequi.proto` | the tree of a text | `parse_json`, `fill_message`, `get_json` |
| command line | `obsequi.cc` | the grid, the position, handlers, blocked signals, flags of standard input | commands, ^C, alarms, report |
| lock file | `obsequi.cc` (option `-l`) | the marks and answers in a file shared by processes; each one's offset | read and mark a line, search it, write the winner |
| web page | `html/obsequi.js`, `html/obsequi.html` | the page's board, its moves, what is shown | click, undo, new game, post, show answers |
| the rest | `stats`, `base`, unit tests, `Check`, `src/utils` | counters | printing |

How they interact: the command line builds one board and one table and calls the
search once. The search owns the board: it asks a move list for the next move,
plays it, calls itself for the opponent's view, takes the move back. Both
players' `Board` objects share the keys and the number of empty squares and each
keeps a view of its own. Move lists, one for every depth, read the board between
moves that were played and taken back; the table is read and written at every
node under the key of the current board; the bounds are computed from the board's
words and counts. The web server shares only the board and the bounds with the
solver; its threads share the queue. The page posts its board after each change,
as JSON, and shows the bounds in the answer beside counts of its own. With a lock file, several command-line processes share
a list of positions and nothing else.

What makes each part hard, and what correctness means:

* **Bit operations**: a word is answered for from two half-word tables; the merge
  must count like one greedy pass over the word, and greedy must be maximal.
* **Board**: everything is incremental. A move changes two or three lines of each
  view, only these are counted again, the totals move by differences, and nothing
  is ever recounted during a search of millions of moves. One line too few is an
  error that stays. The figures must be those of the position at any moment,
  undoing must restore all of them, and equal keys must mean equal positions.
* **Move list**: the list is generated, sorted and extended while the search is in
  the middle of it. It must hand out every move once and in the order of one stable
  sort, and the assertions on generated moves rest on the counts of the board.
* **Move bounds**: a packing heuristic whose verdicts end the search. They must
  agree with best play, with the simple test, and the estimates of undecided
  positions must stay away from the values that stand for a win.
* **Search and table**: results outlive the window, the iteration and the distance
  to the horizon they were computed for, serve mirror images, and do not say who is
  to move. A winner that is named must be the winner.
* **Server**: threads, a queue, waits with time-outs, failures of accept, clients
  that hang up, reset the connection or never send, requests and a SIGPIPE that end the
  process under every other connection, descriptors whose numbers are used again at once.
* **Page and requests**: every change posts the board on a connection of its own, and
  whatever answer arrives last is shown. One `recv` must return the whole request,
  and one that does not parse ends the server. The page counts safe and real moves
  itself, from its marks for one player and from its moves for the other, and accepts
  clicks beside the board.
* **JSON**: the tree is built in vectors that move when they grow, under pointers into
  them; exactly the JSON documents must be accepted, and what is written read back.
* **Command line**: lines that are wrong in many ways, or have numbers the code does not
  expect, go through the same grid before the right one; ^C and the alarm strike anywhere; the report must come out whole, and
  the process stay or end as its options and commands say.
* **Lock file**: processes that read, mark and write the same lines without a lock
  and may die between any two steps. What stands in the file must be true.

## 2. The modules

    Bitops            words as sets of bit positions, the greedy count
      BitTables       the tables of bitops.cc and the queries that merge halves
      BoardOps        the masks of board-ops.h and of the generators in move.cc
        Board         board.cc with the keys, the counts, IsGameOver and ScoreMove
          PositionalValues  the table Board's ScoreMove breaks ties with
          Domineering       the game, without bits or counts (refined by Board)
          MoveOrder         the generators and the sorting of move.cc
            MoveList        the staged list, with its caller's moves
          ScoreBoard        the packing, the bounds and the verdict
            Search          negamax.cc and the table (also extends MoveOrder)
    TcpServer         server.cc, its clients and the kernel
      ConnectionQueue what the server promises (refined by TcpServer)
    LockFile          option -l of obsequi.cc: solvers over one file of positions
      PositionList    what that file is for (refined by a solver at a time)
    CommandLine       the process of obsequi.cc: input, signals, report
    JsonParser        parse_json of protoson.cc, with the addresses of its tree
      Protoson        fill_message and get_json over the messages of obsequi.proto
    WebPage           obsequi.js, its requests, and what main.cc and http.cc make of them

    BoardProofs       lemmas on counting and on induction; Board, its keys and scores,
                      and that it implements Domineering; the sort and the stages
                      of MoveOrder; the tables of BitTables
      MoveListProofs
      SearchProofs    IsGameOver against best play; the packing and the bounds; Search
    TcpServerProofs     with the refinement of ConnectionQueue
    LockFileProofs      with the refinement of PositionList
    CommandLineProofs, WebPageProofs, JsonParserProofs
    MCBitTables, MCBoard, MCMoveList, MCScoreBoard, MCSearch, MCTcpServer, MCLockFile,
    MCCommandLine, MCProtoson, MCWebPage

Correspondence, where it is not a matter of names:

* **Words.** A `u32bit` is the set of its one bits, an array of words a function.
  `MaxRows` is the width (32). Shifts drop what leaves the word. `NonOverlapping`
  is the loop of `init_movetable` in closed form. `BitTables` runs the loop itself,
  one iteration of the inner loop per step, and checks the tables and the merge
  against the closed form. The index of an entry is a word as well, so `i++` carries
  (`Increment`) and `i >> 1` shifts. Both tables are filled in one step per entry;
  in the code two constructor functions fill them one after the other, and neither
  reads the other's table.
* **Board.** `board["H"]` and `board["V"]` are the two views; the border of
  occupied lines and bits is part of them. `SetBlock` recounts everything as
  `InitInfo` does; `ApplyMove` and `UndoMove` recount what `ToggleMove` recounts,
  with the previous counts where it subtracts them. `played` is the search's stack
  of moves: the callers take moves back last in, first out. A key is the set of its
  one bits, so `key` is exact; the Zobrist `code` appears in Search only.
  `Initialize` also fills key changes for moves in the last column or row, which
  leave the board; no such move exists, so they are left out.
* **MoveOrder/MoveList.** The operators say what the generators and the sort
  compute, the actions of MoveList are the branches of `GetNext` and
  `GenerateNextMoves`; between two of them the search plays and takes back the move
  it was given, or stops after it. `EnterAll` is the driver's `GenerateAllMoves`.
  The bucket sort is kept with its sentinel of -5000, as recursive functions over the
  moves (`Buckets`) and the rounds (`Emptied`).
* **ScoreBoard.** Each loop over lines is a recursive function `after[l]` whose step is
  an operator of its own (`ProtLine`, `VulnLine`, `SafeLine`; `Scanned` and `Optioned`
  for the loops over a line's bits); the scratch board is the field `packed`. The outermost neighbour of line 1 that
  `pack_safe` would read is never read, because `board[r]` is the border there and
  the condition stops. The definitions were also compared with the compiled
  program on all 65536 positions of a 4x4 board and 4048 of a 3x6 one: equal bounds
  and scores throughout.
* **Search.** The recursion is a stack of frames (window, remaining depth, moves,
  next move, node count at entry). `Try` plays and calls, `Call` is the first half
  of `negamax` (a disjunct of `Answer` for every early return, in their order),
  `Resume` is the code after the recursive call, in `negamax` and in the driver,
  `Finish` stores and returns, `NextIteration` is the end of an iteration of the
  driver. A frame has all its moves when it is entered; that the stages hand out the
  same moves is the property `GivenAsStaged` of MoveList. The node counter is kept
  because replacement in the table depends on it; `Zobrists` gives every square the
  bits of an index it contributes. `move.info = value` in the driver is left out:
  the list is not read through it again.
* **TcpServer.** One action for each stretch of code between two points where
  another thread can come in: acquiring the mutex, the wait, the queue, recv, send,
  close. `handle` of `main.cc` is one receive and one answer (`Handle`). `accept` may
  fail (without a waiting connection it blocks); the code queues the -1 like a
  connection, so the model does. The `recv` on -1
  then fails, and the program writes a terminator before its buffer (`http.cc:33`) and
  goes on with an empty request, as it does at end of file. Clients, backlog and
  descriptors are external. A client hangs up in order ("gone") or resets the
  connection ("reset"). The process ends in two ways, with all its threads: `Abort` is
  the `assert` of `main.cc:38` and `fatal_error` in `Board::Initialize`, on a request
  whose content does not parse or names a board that is too large; `BrokenPipe` is
  `send` on a connection that was reset (`http.cc:82`), which raises SIGPIPE when `recv`
  has reported the reset and may only return an error when it has not; both are
  modelled. `wrote` is what a client has sent and `got` what `recv` has returned. Only
  the clients of `Rough` do what may end the process.
* **LockFile.** `file[l]` is the first character of line l, `position[l]` what
  stands behind it, reduced to what decides the program's course: a line that
  cannot be read ("garbled"), a position without a move or with 128 squares, which
  ends the process only after the mark is written ("refused"), one the search does
  not decide ("hard"), and one it does ("good"), with who is to move and who wins.
  Lines are read one at a time; a process that fills its buffer with all lines at
  once is the case of reads with nothing in between. What the marks of a line do to the
  grid is left out; `obsequi.cc:656` sets squares by the moves on a line without a look
  at the bounds of the grid. `Report` prints, and ends the
  process if the score is open; `Write` is `write_to_lock_file`; `Die` is the time
  limit of option `-t` or a kill, at any point. `atOnce`, chosen in the initial state,
  is how many processes may run at the same time.
* **CommandLine.** A line is the number of fields `sscanf` reads of it and the
  fields, its numbers as they are written. `Stored` is what `%u` leaves in an `int`
  of `2 * Half` values, and what becomes of a product that is wider. The grid,
  `board[30][30]` of `get_solve_command`, is cleared by some lines and not by others. A
  block is written to word `30 r + c` of it: nothing checks that r and c are not
  negative, so a block can be lost in a column the board does not have, or be another
  square (`Word`, `Square`). A word outside the grid (`WritesBeside`) is undefined
  behaviour. What lies there on the stack are the function's own variables: the write
  may do nothing, change the size of the board (`Unknown`: any position may be
  searched, or the line refused, or the size be one that `Board` refuses), or
  end the process. A line may be written in two pieces: blocking reads wait for the
  rest, the alarm's nonblocking ones take each piece for a line. The search is one step,
  `Find`, that may be delayed for ever. Handlers block every signal (`sigfillset`), so
  a handler is one step too. `ReadLast` is a last line without its end, which loses
  its last character to `line[len - 1] = 0`.
* **JsonParser/Protoson.** A text is a sequence of tokens. `memory` holds the
  `JsonValue`s by address; `PushBack` gives the elements of a vector new addresses and
  leaves `parent` pointers as they were, as a reallocation does. `Read` takes a token the
  current value admits or refuses the text. `FillObject` and `JsonOf` are functions of
  the tree and of `Schema`, which is what `obsequi.proto` declares; an int field given
  `true` or an object reads through a null pointer (`Int32` on `start`), the outcome
  "undefined".
* **WebPage.** `marks` are the entries of `board.board` that are set, also in columns
  beyond the board, which a JavaScript array accepts; a row beyond it throws.
  `CanvasRows` and `CanvasCols` follow from the size of the canvas (450 by 350).
  `Update` is `update_score` and `paint`: when `rotate` throws, nothing after it is
  done. A request is under way until `Answer` (the server's work, the way back,
  `update_metrics`), or until one `recv` returned its header alone (`AnswerHeader`: the
  `assert` of `main.cc:38` ends the server) or less (`AnswerPart`: an answer without
  content, on which `update_metrics` throws).

## 3. What is checked

| Run | Instance | What it shows |
|---|---|---|
| `bit_tables` | words of 8 bits from halves of 4 | the merge of two halves is the greedy count, bit count and last bit are exact (`MergedQueriesExact`); greedy is the maximum number of pieces (`GreedyIsMaximal`) |
| `board` | 3x4, all patterns of blocks, two moves at a time | `TypeOK`, `ViewsAgree`; line counts, totals and empty squares never drift (`FiguresExact`); keys name the position in all four images (`KeysExact`); early wins are right under best play (`GameOverIsRight`); a move's score is what applying it gains (`ScoreIsTheGain`); the bitboard implements the game (`ImplementsGame`) |
| `move_list` | 3x4, all patterns, either player, staged and complete lists | the assertions hold (`AssertsHold`); every move once (`EveryMoveOnce`), in the order the position alone determines (`GivenAsStaged`); the board restored after each move (`BoardRestored`); every position is left (`PositionIsLeft`) |
| `score_board` | 3x6: every pattern of up to 4 blocks, and every pattern of any number once the last column is blocked (all of 3x5); either player | a verdict is what best play gives (`VerdictIsRight`), areas share no square (`AreasAreDisjoint`), the bounds decide at least what the counts decide (`VerdictExtendsIsGameOver`), estimates are small and defined (`EstimateIsNoVerdict`) |
| `search` | 4x4, up to 2 blocks, either player, 1 or 4 places, horizons 1 then 45 or 1 then 3 | `SearchTypeOK` with the window always open; the winner named, and the move, are right (`ResultIsRight`), so is every winner remembered (`TableIsRight`); a search that looks deeper than the position has moves decides (`SearchDecides`) and always ends (`Terminates`) |
| `tcp_server` | 2 workers, 3 clients, two may stay silent, one of them may end the process, accept fails at most once | an open descriptor has one holder (`OneHolder`), connections are handled once and in order (`HandledInOrder`, refinement of ConnectionQueue); a client that sends is answered (`ClientsAreAnswered`), unless it hangs up, silent clients hold every worker for good, or a client has ended the process by a reset or its request |
| `lock_file` | 4 processes, 1 or 3 at a time, all files of 3 lines | a winner in the file is right (`FileIsRight`), lines are taken up in order and none behind a garbled one (`TakenInOrder`), a line that can be solved stays marked only under a process at work or after a death (`MarkHasACause`); one process at a time keeps the list as it is meant to be: each position taken up once, a solved one stays solved (`KeepsTheList`, refinement of PositionList) |
| `protoson` | all texts of up to 10 tokens, and complete requests and responses | exactly the JSON arrays and objects are accepted, and the others refused at their first wrong token (`AcceptsJson`); `curr` and the way back to the root lead over values that still exist and are open (`ParentIsOpen`); what `get_json` writes and what the page posts is read back as it was (`RoundTrip`) |
| `web_page` | boards of 3x2 and of 2x4, the second too large for the server; 3 moves, one of them off the board, 4 requests | no click or Undo leaves or takes a mark that is not its own (`MarksAreTheMoves`); the counts shown are the solver's (`PageIsCurrent`, against BoardOps); bounds that are not those of the board shown have one of four causes (`StaleForACause`) |
| `command_line` | 3 lines of 13 kinds, whole or in two pieces, ^C once | a line that has the format is taken and the position on it solved; no line's blocks reach the position of another (`StartsAsWritten`); the report is whole (`ReportIsWhole`); -w waits for the end of input (`WaitsForClose`); a stop that has arrived whole ends a search (`StopIsHeard`) |
| `protoson_fill` | texts of up to 9 tokens with the names of a request | *violated*: `FillReportsFailure` |
| `lock_file_open` | two processes | *violated*: `WinnerIsDetermined` |

**Two disagreements** between the code and what it says of itself:

* `FillReportsFailure`. "Returns false if json is invalid or if unable to populate
  Message." (`protoson.h:39`), but the result of `handle_json_object` for a nested
  message is dropped (`protoson.cc:308`): a request whose board has blocks that are
  no array counts as read, with the board filled as far as it came, and the `assert` in
  `main.cc:38` does not see it.
* `WinnerIsDetermined`. The report tests `score >= 5000`, then `score <= 5000`
  (`obsequi.cc:151`), which every other score passes: a search that ends undecided
  is printed as won by the opponent, and the branch for "Undecided" is dead. The
  write to the file tests -5000 and is right.

Others that the models show without a run of their own. "It discards all input which
does not match this format" (`obsequi.cc:223`), in which "bx0,y0 is the position of a
block on the board" (`obsequi.cc:220`), but `%u` is read into signed integers
(`obsequi.cc:294`) and only the upper end is checked (`obsequi.cc:299`): "solve rows 2
cols 3 bits 20 B1,-1;0,1 H" is accepted and searched without its first block, which has
gone to column 29 of the row above, and with a block in row -1 the write goes below the
grid. MCCommandLine has such lines, and its ASSUME shows which of them are taken; of the
position searched for them `StartsAsWritten` promises only that it has no other line's
blocks. The calls of `lockf` are
commented out (`obsequi.cc:613`) under a heading that says "Lock and read lock file."
(`obsequi.cc:546`): two processes can take the same line. The damage is bounded:
`FileIsRight` and `TakenInOrder` hold without the lock, so no wrong winner is written
and no line skipped; work is done twice, and a solved line can go back to W when a
slow process marks it late (`MarkHasACause` says there is no other way to lose a line).
The format in the comment before `get_solve_command` (`obsequi.cc:216`) and in the text
the page shows under "Solve" has no `bits`, which the code requires. The command line
allows 256 squares and the page's form gives 30 as the largest number of rows and of
columns (`max="30"`, which `obsequi.js` does not enforce), but `Board` ends the program,
the solver's or the server's, from 128 squares on.

`GameOverIsRight`, `VerdictIsRight`, `ResultIsRight` and `TableIsRight` compare with
`Domineering!Wins`, plain best play on sets of squares, which knows no counts, no
bounds and no table.

**Why these bounds.** On words of 8 bits with halves of 4 every alignment of a run
with the middle occurs. A 3x4 board is not square (an exchange of rows and columns
shows), has inner lines and lines at the border in both views, crossings with
three lines, and safe, half safe and open moves; all 4096 patterns of blocks stand
for whatever a longer game leaves, and two moves in any order suffice to undo a
move under another. 3x5 and 4x4 have all kinds of areas of the packing. On 3x5 every
pattern of blocks is asked about, so that all verdicts of smaller boards are among them,
and on the whole of 3x6 every pattern with few blocks, where the averages lie more than
two moves apart and the estimate has branches of its own; with all patterns of 3x6 the
comparison with best play would take too long. A 4x4 search runs over 200 steps, with
cutoffs, table hits and collisions: with one place all positions collide, with four
the images of a position spread. `NodeUnit`, the nodes one unit of cost stands for
(`negamax.cc`), is 2 (32 in the code) so that costs differ on trees of this size.
Horizons `<<1, 3>>` leave estimates and bounds in the table, as a board too large for
depth 45 would. Two workers (as in `main.cc`) and three clients allow both workers to be
blocked on silent clients, one blocked, one busy and one connection queued, and reuse of
descriptors; one client that may end the process (`Rough`) can do so under each of these.
Another sends its request as it connects (`Prompt`): the remaining two are enough to
hold both workers. Three lines let one be
passed, one be taken and one be left, in every combination of kinds; three processes
at a time let two meet on a line while a third has finished it, and the fourth
comes after a death. The processes are interchangeable, so symmetry is used. Ten
tokens nest four brackets deep and grow a vector under an open one, which is when a
pointer could go stale. Of the two boards of `web_page`, 3x2 leaves part of the canvas
beside the board and 2x4 below it, and the second has as many squares as the limit is
set to (`SquareLimit` 8 instead of 128); four requests let an answer overtake another across an Undo. Three
lines are two to refuse and one to accept, or one to accept, one to ignore and "stop".
An `int` of 2048 values (`Half`, 2^31 in the code) is wider than the grid, so that a
number wraps round only when it is far too large.

**Where the system stops.** `CHECK_DEADLOCK FALSE` is given for the board runs (full
board), the lists, the searches, the lock file and the command line (all processes have
ended), the parser (the text has ended) and the page (the bounds are used up): the
program, or the part of it that is looked at, is done there. A search that gets
stuck instead violates `PositionIsLeft` or `Terminates`. The server's process can end
too, and its workers can all be held by silent clients.

**Fairness.** `Running` (MoveList, Search) says a running program takes its next
step: weak fairness of the program's own actions, with ENABLED written out as
`Ready`, because the positions TLC would have to evaluate it on are costly. That
`Ready` holds whenever a search is under way is proved (`SearchIsNeverStuck`). Nothing
is assumed about which position is entered, about the caller's decision to stop, or
about the table. In TcpServer threads run (weak fairness), and a thread blocked on
the mutex gets it if it becomes free again and again (strong fairness of the lock:
idle workers hold it for a moment once a second). Not assumed: that a wait ever
times out - the notification alone must wake a worker -, that accept fails, that a
client connects, sends or hangs up. There is no time-out for
`recv`, so as many silent clients as there are workers hold the server for good
(hazard `server.cc:71`): `ClientsAreAnswered` speaks of behaviours in which it is again
and again not so (`[]<> ~AllHeld`), and `MCTcpServer` has as many clients that may stay
silent as workers. In CommandLine only the
alarm is fair: the kernel's timer goes off. That the search ends, that a line that was
begun is completed, or that standard input is closed, is not assumed.

## 4. What is proved

For all sizes of word and board that `SizeAssumption` admits (those `Initialize`
accepts), any number of moves, any pattern of blocks:

* **BoardProofs**: `BoardTypeCorrect`, `BoardViewsAgree`, `BoardFiguresExact`
  (`LinesExact`, `TotalsExact` and `EmptyExact`). The inductive invariant `IInv` is their
  conjunction with `PlayedPresent`: the moves on the stack lie on the board and are
  pairwise disjoint. Without it `UndoMove` could flip squares that are free, and
  neither the empty squares nor the views' border would survive. The heart is
  `FlipKeepsOtherMasks`: a move on line l changes the masks of the lines that
  ToggleMove recounts and of no others. In the opponent's view it crosses two
  lines whose safe moves are not recounted: the crossed square is free in both
  before and occupied in both after, so no safe move there can use it
  (`CrossedLineKeepsSafeMask`). Then the totals:
  `GainIsLineGain` and the lemmas on counting turn the cardinality of all pieces into the
  differences ToggleMove adds.
  `BoardImplementsGame`: `occupied` is mapped to the squares of the horizontal view and
  `laid` to the squares of the played moves; each of `SetBlock`, `ApplyMove`, `UndoMove`
  maps to `Block`, `Lay`, `TakeBack`.

  `BoardKeysExact`: in each of the four images a bit of the key stands for one square
  (`BitsApart`), so the squares of a move become as many bits, and toggling bits is
  exclusive or (`ImageOfXor`). A key thus holds the bits of the occupied squares at any
  moment, and two positions with equal keys are equal.

  `BoardScoreIsTheGain`: `ScoreMove` counts fewer lines than it might, and others than
  `ToggleMove`; `FlipKeepsOtherMasks` again shows that the lines it leaves out do not
  change, so its sum is the lead that `ApplyMove` then gains.

  `PathLeavesNoTrace`: every figure and key is a function of the words
  (`FiguresOfTheBoard`), so two states with the same words agree in all of them,
  whatever moves were laid and taken back on the way. Beside `IInv` and `KeysExact` this
  needs that the counts of lines off the board stay zero.
* **BoardProofs**, the moves: `StagesPartitionMoves` (the two generators split the moves of
  the one-pass generator, for every word) and `NoMoveMeansDecided` (if the figures are
  exact and the player has no listed move, `IsGameOver` decides). Then the order. A
  list `Arranges` a set of entries if it holds each once, and `Covers` a set of places
  if it names each once. `GeneratedArranges`: the generators number the moves of a
  position without a gap. `BucketsHold`: after any number of moves each stands in the
  bucket of its score. `RoundKeeps`: a round of the sort empties a bucket not emptied
  before; this needs that the mark -5000 is below every score, which
  `ScoreAboveMark` shows for every word on every board the constructor accepts.
  So the sort loses and repeats nothing, and both orders, that of the stages and that
  of the driver, cover the listed moves (`OrdersCover`).
* **BoardProofs**, the tables: `TablesMergeExactly` (`MergedQueriesExact`) and
  `TableCountIsMaximal` (`GreedyIsMaximal`), for halves of any size. The loop takes a bit
  exactly if it is there and the bit below was not taken (`CountedInTurn`). So the
  pieces of a whole word restricted to the low half are those of the low half, and
  the rest are those of the high half without its lowest bit, if that is covered by the
  last piece below (`HalvesCountTogether`); the table's flag says whether it is.
  `TablesInv` says that the inner loop has taken the pieces up to the last one
  (`CountedSoFar`) and that the tables hold right entries for all indices below
  the present one (`TablesHold`). Words are compared as numbers by their highest
  different bit (`Below`); `i++` leaves none out (`IncrementGoesOn`), and
  `i >> 1` comes before `i` (`HalvedBefore`), so `countbits16[i >> 1]` is there when it is
  read.
* **MoveListProofs**: `AssertionsNeverFail`, over `ListInv` = `IInv` with the stages at
  which the position is known to be undecided. `BoardComesBack` (`BoardRestored` of the
  run): `RestoreInv` says that below a move the words it gives back when it is undone are
  those the list looked at; that the figures come back with the words is
  `PathLeavesNoTrace`. `ListGivesTheOrder` (`GivenAsStaged`) and
  `ListGivesEveryMoveOnce` (`EveryMoveOnce`), over `OrderInv`: at each stage the list
  holds the part of the order the stage has come to, followed by what is not sorted
  yet (`ListHolds`), and the moves handed out are its first ones (`GivenInOrder`). A
  later stage is generated from a board that was played on since; its words are those
  the earlier stages saw (`RestoreInv`), so it continues the same order.
* **SearchProofs**, the game: `BoardGameOverIsRight`, on a board of any size the
  player `IsGameOver` names wins with best play. `Domineering!Wins` is a recursive
  function over sets of squares; a least counterexample (by `LeastNumber`, on the number
  of free squares) shows that its equations have a solution. Then a strategy. The
  safe moves of a side are a packing of dominoes on squares the opponent cannot use: no
  move of the opponent touches them, and each one takes a domino from every packing the
  opponent has left (`OpponentLays`); laying one of them costs its owner one and gives
  the opponent none (`LayingASafeOne`). So a player with more safe dominoes than any
  packing of the opponent's outlasts it (`CountsDecide`), by a least counterexample once
  more. What connects this with the board: bits are squares and pieces dominoes, the
  safe pieces that are counted form a packing (`SafePiecesPack`), and no packing of the
  opponent's is larger than its count of real moves (`PackingIsCounted`). The latter
  rests on `CountMovesIsMaximal`, for every word: each piece is counted or next to one
  that is (`CountedOrNextTo`), which maps any packing of a line one to one into the
  counted pieces.
* **SearchProofs**, the packing: `PackingCountsOnce` (`AreasAreDisjoint` of the run),
  on a board of any size. Each pass keeps: the squares taken are free, and as many as
  the counts so far say (`ProtLineKeeps`, `VulnLineKeeps`, `SafeLineKeeps`). For the
  scan of a line by its five states the invariant is `SeenUpTo`: what is counted lies
  apart and before the squares the scan still holds open, which are free.
  `FirstMoveHelps` and `BoundsOfFigures` then show that the bounds are integers, the
  lower one at least the safe moves and the upper one at most the opponent's real
  moves. From this follow `BoundsDecideToo` (a position that the simple counts decide is
  decided by the bounds, and a win by the counts is a win by the bounds) and
  `EstimatesAreNoVerdicts`: undecided bounds overlap, so the mean width is larger than
  each overlap and the quotient lies in 0..100.
* **SearchProofs**, the search, for any board, table, spread of the keys, sequence of
  horizons and unit of cost. `SearchTypeCorrect` (`SearchTypeOK`): `SearchInv` adds to
  `IInv` that the frames of the stack stand in line (`Fine`: sides alternate, each frame
  has one unit of depth less than the one below it, its moves are moves of its side), that
  only a frame that has ended may have an empty window (`Windows`), and that one
  move lies on the board for each frame that waits for an answer (`OneMoveAFrame`).
  `SearchAlwaysDecides` (`SearchDecides`): a search whose last horizon is deeper than the
  position has moves names a winner. `DecideInv`: a result in the table whose depth is
  more than its position has moves is 5000 or -5000 (`TableDecides`), and in such
  an iteration every window is the widest there is or has been won, and every value
  returned is decided (`FramesDecide`). Each move takes two squares, so every call of
  a deep search has more depth than its position has moves and none reaches the horizon,
  where estimates are returned; a result found under an equal key is one of the same number of
  squares, which is why the nearer iterations' estimates, whatever the table has kept or
  overwritten, are not deep enough to be taken.
  `SearchIsNeverStuck` and `ChosenMoveFits`, over `FitInv`: the squares of every move in
  a frame's list are free or have been taken since the frame was entered (`MovesFit`);
  when the frame has the turn again, nothing has been played since, so the next move can be
  played, and so can the move the driver names once the search has left the board. Both
  are also invariants of the run's specification; the run checks what they lead to,
  `Terminates` and `ResultIsRight`.
* **TcpServerProofs**, for any number of workers and clients: `OneHolderAlways` and
  `ServerKeepsPromise`. The invariant says that a worker without a connection to serve has
  no descriptor, that a client connects once, and that queue, workers and accept loop
  share no open descriptor and leave none out (`OnePlace`, which is `OneHolder` without
  counting). Once a client is at one place only there is always a free descriptor for
  the next one (`FreeDescriptor`), although numbers are used again at once. For the
  refinement the queue is mapped to the clients at the ends of its descriptors, without
  the -1 of a failed accept: accept, a worker's take and its close map to the steps
  of ConnectionQueue, everything else, the end of the process included, to stutters.
* **LockFileProofs**: `LockFileIsRight`, `LockFileInOrder`, `LockFileMarks`, for any
  number of processes, lines and positions. The inductive invariant adds
  `SolverInv`: a process at work stands at a line that is not garbled, behind lines
  that are not available, and its score is that of the position. A line never
  becomes available again, so what a process has passed stays passed whatever the
  others do; that is why the missing lock costs work and not truth.
  `LockFileKeepsTheList`: as long as one process runs at a time, the file implements
  PositionList. A process that runs alone finds its line as it has left it (`Alone`):
  available until it marks it, marked until it writes the winner. With two processes this fails, and
  `FileIsRight`, `TakenInOrder` and `MarkHasACause` are what is left.
* **CommandLineProofs**: `ReportStaysWhole`, `ProcessWaitsForClose`, for any lines,
  sizes and number of interrupts. The invariant ties `printed` to where main is,
  because both signals are blocked from before the first line of the report on; and
  says that once standard input has been made blocking no alarm comes any more.
  `SolvesWhatIsWritten` (`StartsAsWritten` of the run), for lines with numbers of any sign
  and size: as long as main reads, no line it has heard had the format, and from then on
  the position is that of the last one (`ReadInv`). A line that has the format passes
  every check and writes its blocks to their own squares, because an `int` keeps its
  numbers (`StoredAsWritten`, `BlockAsWritten`), and what refused lines have left in the
  grid does not reach it, because it has cleared the grid (`FormatIsAccepted`). Of a line
  that is taken without having the format - the code takes such lines - the theorem says
  only that it brings no other line's blocks, and nothing if it writes beside the grid.
* **WebPageProofs**: `MarksStayTheMoves`, for boards of every size and any number of
  moves. That the pieces laid are disjoint is what makes Undo take away no mark of
  another piece, and it is preserved because a click looks at both squares.
  `StaleOnlyForACause` (`StaleForACause` of the run): bounds shown that are not those of
  the board have one of the four causes. `RequestInv`: the latest request, under way or
  answered, is about the board as it is, unless a piece sticks out of it; and while
  nothing has gone wrong some request is under way or answered.
  `PageStaysCurrent` (`PageIsCurrent` of the run): unless a piece sticks out of the board,
  the counts shown are the solver's, on every size that fits its words
  (`LinesAssumption`, 30 by 30 for 32 bits). The page loops over the squares of a row and steps
  over a piece it has placed; the solver takes every second bit of a run of a mask that it
  makes of three words with a border. `RowsAreLines`: line r + 1 has the mask of the
  places that fit in row r. `PiecesAreCounted`: the loop's count from any column
  on is that of the rest of the mask, because the lowest bit is counted, its neighbour
  is not, and what follows is counted as it would be alone (`LowestIsCounted`). With
  equal counts in every row the sums are equal, for both players: the marks are
  those of the moves (`MarksStayTheMoves`), from which `rotate` builds the other view.
* **JsonParserProofs**: `PointersStayGood` (`ParentIsOpen` of the run), for texts of any
  length over any tokens (`JsonSpec`, which the run's texts are among). What could go
  wrong: `push_back` moves the elements of a vector, and pointers into it, among them
  `curr` and the parents of everything below, are left dangling. `ParserInv`: there is a
  path from the root over the open containers, each the last value of the one before it
  (`Leads`), and the values of every container on it exist and point back to it
  (`Holds`). Adding a value moves only the values of the innermost container, and none of
  them is on the path: their parent is the innermost, that of a container on the path is
  another one (`Innermost`). So the path stays (`PathStays`) and grows or shrinks
  at its end. A moved container may hold values whose parent pointer dangles; it is
  closed, and nothing goes back to it.

**How recursion and induction are done.** The library's induction theorems take an
operator as a parameter, which the provers here cannot instantiate. BoardProofs has
what stands for them, stated with sets: `LeastNumber` and `InductiveSet` for
induction, `HandedOn` for what each line hands to the next, and `RecursionExists`: a
recursion over a range whose steps have types has a solution. A recursive function is a
CHOOSE in TLA+; where one is used, the proof shows first that a solution exists.
TcpServerProofs, JsonParserProofs and WebPageProofs, which have no board, state the few
they need.

**Only model-checked.** Liveness and ENABLED are beyond the prover: every property
about what must happen, and with it the fairness. Not proved of what holds always:

* `VerdictIsRight` and the half of `VerdictExtendsIsGameOver` about losses. They need
  that the packing is sound, that its areas are worth the moves they are counted
  for, a claim about play and not about squares. `BoundsDecideToo` is what does not.
* `ResultIsRight` and `TableIsRight`. They rest on `VerdictIsRight`, because the search
  believes the bounds, and on a theorem of the game that nothing here states: that the
  moves the generators leave out, safe for their player, never have to be tried.
* `AcceptsJson` and `RoundTrip`, which compare a parser with a grammar and with a
  writer. Both are RECURSIVE operators, which the provers cannot expand.

## 5. What is not modelled

Statistics, printing, formatting, the unit tests and text tools have no behaviour a
property could be about. In `bitops` the 8-bit tables (used by the unit test only)
and the compiler's built-in functions are left out. 32-bit overflow of counts does not
occur on boards `Initialize` accepts. The socket set-up before the accept loop, the
two static files the server reads, drawing on the canvas, escapes and white space of
JSON, and the protobuf types `obsequi.proto` does not use are left out. A handler that
interrupts `printf` inside the search could deadlock in the C library or mix its output
with the search's; the search prints little and the model has no inside of `printf`.
Two hazards have no property: `1 << 31` for a table of 31 bits
(`transposition.cc:179`), a table no model could hold, and a request that names a
square twice or off the board (`main.cc:44`), which neither the page nor the command
line sends. More than 128 different scores in one position would end the program
(`move.cc:125`); the boards in reach have far fewer.

## 6. Plan

Done, in this order: Bitops, BitTables, BoardOps, Board with Domineering and the
proofs, MoveOrder and MoveList, TcpServer with ConnectionQueue, ScoreBoard, Search,
LockFile with PositionList and the proofs, CommandLine, JsonParser and Protoson,
WebPage, the proofs of the command line and of the page, of the server and its queue,
of PositionList, of the keys, scores and figures of the board, of IsGameOver against
best play, of the packing, of the order of moves and the staged list, and of the search:
its types, its steps, and that it decides; of the pointers of the parser, of the lookup
tables and of the page's counts.

What is left is proofs of what section 4 lists as only model-checked: first that the
packing is sound (`VerdictIsRight`), then that a search may do without safe moves, and from
both `ResultIsRight`.
