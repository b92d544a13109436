----------------------------- MODULE CommandLine ----------------------------
(***************************************************************************)
(* The solver of src/obsequi/obsequi.cc as a process: it waits for a       *)
(* command on standard input, searches, and reports.  With -w a timer      *)
(* looks every other second whether "stop" has been written, and after its *)
(* report the process stays until standard input is closed.                *)
(*                                                                         *)
(* The search itself is Search and may take for ever; here it is a step.   *)
(* A handler blocks every signal while it runs (sigfillset), so it is one  *)
(* step.  Terminal, pipes and the kernel's signals are external: what is   *)
(* written may arrive line by line or in pieces.                           *)
(***************************************************************************)
EXTENDS Integers, Sequences, SequencesExt

CONSTANTS
  Line,        \* the lines that may be written, see below
  SquareLimit, \* the number of squares from which on Board() gives up, 128
  Half,        \* an int holds -Half .. Half - 1; 2^31
  MaxLines, MaxInterrupts   \* bounds on what the user does

ASSUME CommandLineAssumption ==
  /\ SquareLimit \in Nat /\ MaxLines \in Nat /\ MaxInterrupts \in Nat
  /\ Half \in Nat /\ Half > 900   \* more than the squares of the grid
  /\ \A line \in Line :
       /\ {"form", "stop"} \subseteq DOMAIN line
       /\ line.form \in 0 .. 6 /\ line.stop \in BOOLEAN
       /\ line.form \in {4, 5, 6} => {"rows", "cols", "bits"} \subseteq DOMAIN line
                                /\ line.rows \in Int /\ line.cols \in Int /\ line.bits \in Int
       /\ line.form = 6 => line.blocks \in Seq((Int \X Int) \cup {<<>>})

VARIABLES
  \* external
  waits,        \* is the process called with -w?
  input,        \* what is written and not read: lines, or a line in two pieces
  closed,       \* is standard input closed?
  written, interrupts,   \* how many lines were written, how often ^C pressed
  \* the process
  pc, status,   \* where main is, and how the process has ended
  grid,         \* board[30][30] of get_solve_command: the blocks in it
  game,         \* the position to solve
  handled,      \* the signals that have a handler
  blocked,      \* the signals sig_block has blocked
  timer,        \* will SIGALRM come?
  nonblocking,  \* is O_NONBLOCK set on standard input?
  printed,      \* on standard output
  heard         \* the lines get_solve_command has read

user    == <<waits, input, closed, written, interrupts>>
signals == <<handled, blocked, timer, nonblocking>>
command == <<grid, game, heard>>
process == <<pc, status, command, signals, printed>>
vars    == <<user, process>>

-----------------------------------------------------------------------------
(* Standard input.  An item is a line, or a line without its end, or the end
   that comes later.                                                         *)

Item(line, piece) == [line |-> line, piece |-> piece]

\* What a line is taken for that is not read as a whole.
Scrap == [stop |-> FALSE, form |-> 0]

\* The lines in the items, as getline returns them one after the other; a first
\* piece at the end is one too when there is nothing to wait for.
LinesOf(items) ==
  FoldLeft(LAMBDA lines, i :
             CASE items[i].piece = "whole" -> Append(lines, items[i].line)
               [] items[i].piece = "first" -> Append(lines, Scrap)
               [] i > 1                    -> Append(Front(lines), items[i].line)
               [] OTHER                    -> Append(lines, Scrap),
           <<>>, [i \in DOMAIN items |-> i])

\* The items of the first line; none when it has not arrived completely.
FirstLine(items) ==
  IF items = <<>> \/ (items[1].piece = "first" /\ Len(items) = 1) THEN <<>>
  ELSE SubSeq(items, 1, IF items[1].piece = "first" THEN 2 ELSE 1)

Write(line) ==
  /\ ~ closed /\ written < MaxLines
  /\ input # <<>> => Last(input).piece # "first"
  /\ \E piece \in {"whole", "first"} : input' = Append(input, Item(line, piece))
  /\ written' = written + 1
  /\ UNCHANGED <<closed, waits, interrupts, process>>

WriteRest ==
  /\ ~ closed /\ input # <<>> /\ Last(input).piece = "first"
  /\ input' = Append(input, Item(Last(input).line, "rest"))
  /\ UNCHANGED <<closed, waits, written, interrupts, process>>

Close ==
  /\ ~ closed /\ closed' = TRUE
  /\ UNCHANGED <<input, waits, written, interrupts, process>>

-----------------------------------------------------------------------------
(* A line for get_solve_command: how many fields sscanf reads of it (form),
   and the fields.  Of 4 the last is the turn, of 6 they are the letter of the
   blocks, the blocks and the turn.  A block is a pair, or <<>> when it cannot
   be read.  The numbers are as they are written: they may have a sign and any
   size.                                                                     *)

\* What "%u" leaves in an int, and what int arithmetic makes of a product.
Stored(n) == ((n + Half) % (2 * Half)) - Half

Rows(line) == Stored(line.rows)
Cols(line) == Stored(line.cols)

\* The checks before the grid is cleared.
Sized(line) ==
  /\ line.form \in {4, 6}
  /\ Rows(line) <= 30 /\ Cols(line) <= 30
  /\ Stored(line.bits) \in 15 .. 31
  /\ Stored(Rows(line) * Cols(line)) <= 256

\* There is no check that a block is not negative.
Fits(line, block) ==
  block # <<>> /\ Stored(block[1]) < Rows(line) /\ Stored(block[2]) < Cols(line)

\* The blocks that are written to the grid: those before the first that does
\* not fit.
Fitting(line) ==
  IF line.form = 6 /\ line.letter = "B"
    THEN {line.blocks[i] : i \in {j \in DOMAIN line.blocks :
                                    \A k \in 1 .. j : Fits(line, line.blocks[k])}}
    ELSE {}

(* board[r][c] is the word 30 r + c of the grid.  A negative column of a row
   below the first is a square of a row above it.                            *)
Word(block)  == 30 * Stored(block[1]) + Stored(block[2])
Square(word) == <<word \div 30, word % 30>>

Placed(line) == {Square(Word(block)) : block \in {q \in Fitting(line) : Word(q) \in 0 .. 899}}

\* A block is written to what lies below the grid on the stack.
WritesBeside(line) == Sized(line) /\ \E block \in Fitting(line) : Word(block) \notin 0 .. 899

TurnOf(line) == IF line.form = 6 THEN line.turn ELSE line.letter

Accepts(line) ==
  /\ Sized(line)
  /\ line.form = 6 => /\ line.letter = "B"
                      /\ \A i \in DOMAIN line.blocks : Fits(line, line.blocks[i])
  /\ TurnOf(line) \in {"H", "V"}

\* Mutant: the blocks of the lines refused before stay in the grid.
GridNotCleared(line) == grid \cup (IF Sized(line) THEN Placed(line) ELSE {})

GridAfter(line) == IF Sized(line) THEN Placed(line) ELSE grid

End(how) == pc' = "ended" /\ status' = how

Start(position) == pc' = "starting" /\ game' = position /\ UNCHANGED status

\* Board() gives up other sizes.
PlayableSize(line) ==
  Rows(line) \in 1 .. 30 /\ Cols(line) \in 1 .. 30 /\ Rows(line) * Cols(line) < SquareLimit

\* The position when the write beside the grid has hit num_rows or num_cols.
Unknown == [position |-> "unknown"]

\* A line is taken that has been read to its end.
Take(line) ==
  /\ heard' = Append(heard, line)
  /\ grid' = GridAfter(line)
  /\ \/ /\ ~ Accepts(line) \/ WritesBeside(line)
        /\ UNCHANGED <<pc, status, game>>
     \/ /\ Accepts(line) /\ PlayableSize(line)
        /\ Start([rows |-> Rows(line), cols |-> Cols(line), turn |-> TurnOf(line),
                  blocks |-> {q \in grid' : q[1] < Rows(line) /\ q[2] < Cols(line)}])
     \/ /\ (Accepts(line) /\ ~ PlayableSize(line)) \/ WritesBeside(line)
        /\ End("failed") /\ UNCHANGED game
     \/ /\ WritesBeside(line)
        /\ \/ Start(Unknown)
           \/ End("killed") /\ UNCHANGED game

ReadCommand ==
  /\ pc = "reading" /\ FirstLine(input) # <<>>
  /\ Take(Last(FirstLine(input)).line)
  /\ input' = SubSeq(input, Len(FirstLine(input)) + 1, Len(input))
  /\ UNCHANGED <<waits, closed, written, interrupts, signals, printed>>

\* Standard input was closed before the end of the line: the character that is
\* cut off as if it were the end is one of the last field.
ReadLast ==
  /\ pc = "reading" /\ closed /\ input # <<>> /\ FirstLine(input) = <<>>
  /\ Take([Head(input).line EXCEPT !.form = IF @ = 0 THEN 0 ELSE @ - 1])
  /\ input' = <<>>
  /\ UNCHANGED <<waits, closed, written, interrupts, signals, printed>>

NoCommand ==
  /\ pc = "reading" /\ closed /\ input = <<>>
  /\ End("failed")
  /\ UNCHANGED <<user, command, signals, printed>>

-----------------------------------------------------------------------------
(* main                                                                      *)

\* Mutant: the timer goes off once.
Once == 0

\* it_interval: the seconds from one SIGALRM to the next.
Interval == 2

\* sig_alrm_setup
SetUpAlarm ==
  /\ pc = "starting" /\ pc' = "alarmed"
  /\ IF waits THEN handled' = handled \cup {"SIGALRM"} /\ timer' = TRUE
              ELSE UNCHANGED <<handled, timer>>
  /\ UNCHANGED <<user, status, command, blocked, nonblocking, printed>>

\* sig_int_setup
SetUpInterrupt ==
  /\ pc = "alarmed" /\ pc' = "searching"
  /\ handled' = handled \cup {"SIGINT"}
  /\ UNCHANGED <<user, status, command, blocked, timer, nonblocking, printed>>

Find ==
  /\ pc = "searching" /\ pc' = "found"
  /\ UNCHANGED <<user, status, command, signals, printed>>

\* Mutant: only the alarm is blocked.
BlockAlarm ==
  /\ pc = "found" /\ pc' = "reporting"
  /\ blocked' = {"SIGALRM"}
  /\ UNCHANGED <<user, status, command, handled, timer, nonblocking, printed>>

\* sig_block
Block ==
  /\ pc = "found" /\ pc' = "reporting"
  /\ blocked' = {"SIGALRM", "SIGINT"}
  /\ UNCHANGED <<user, status, command, handled, timer, nonblocking, printed>>

PrintPosition ==
  /\ pc = "reporting" /\ pc' = "halfway"
  /\ printed' = Append(printed, "position")
  /\ UNCHANGED <<user, status, command, signals>>

PrintWinner ==
  /\ pc = "halfway" /\ pc' = "reported"
  /\ printed' = Append(printed, "winner")
  /\ UNCHANGED <<user, status, command, signals>>

\* Mutant: the flags of standard input are left as they are.
FinishNonblocking ==
  /\ pc = "reported"
  /\ IF waits THEN pc' = "waiting" /\ UNCHANGED status ELSE End("done")
  /\ UNCHANGED <<user, command, handled, blocked, timer, nonblocking, printed>>

Finish ==
  /\ pc = "reported"
  /\ nonblocking' = FALSE
  /\ IF waits THEN pc' = "waiting" /\ UNCHANGED status ELSE End("done")
  /\ UNCHANGED <<user, command, handled, blocked, timer, printed>>

\* getchar
Drain ==
  /\ pc = "waiting"
  /\ IF input # <<>> THEN input' = Tail(input) /\ UNCHANGED <<pc, status>>
     ELSE (closed \/ nonblocking) /\ End("done") /\ UNCHANGED input
  /\ UNCHANGED <<waits, closed, written, interrupts, command, signals, printed>>

-----------------------------------------------------------------------------
(* Signals.                                                                 *)

\* SIGINT: without a handler it ends the process, sig_int_handler prints how
\* far the search is.
Interrupt ==
  /\ pc # "ended" /\ interrupts < MaxInterrupts
  /\ interrupts' = interrupts + 1
  /\ CASE "SIGINT" \in blocked -> UNCHANGED <<pc, status, printed>>
       [] "SIGINT" \in handled \ blocked ->
            printed' = Append(printed, "state") /\ UNCHANGED <<pc, status>>
       [] OTHER -> End("killed") /\ UNCHANGED printed
  /\ UNCHANGED <<waits, input, closed, written, command, signals>>

\* SIGALRM: get_other_commands reads what there is, line by line, up to "stop".
Alarm ==
  /\ pc # "ended" /\ timer /\ "SIGALRM" \in handled \ blocked
  /\ timer' = (Interval > 0)
  /\ nonblocking' = TRUE
  /\ LET lines == LinesOf(input)
         stops == {i \in DOMAIN lines : lines[i].stop}
     IN /\ IF stops # {} THEN End("stopped") ELSE UNCHANGED <<pc, status>>
        /\ printed' = IF lines = <<>> THEN printed ELSE Append(printed, "commands")
  /\ input' = <<>>
  /\ UNCHANGED <<waits, closed, written, interrupts, command, handled, blocked>>

-----------------------------------------------------------------------------
Init ==
  /\ waits \in BOOLEAN
  /\ input = <<>> /\ closed = FALSE /\ written = 0 /\ interrupts = 0
  /\ pc = "reading" /\ status = "running"
  /\ grid = {} /\ game = [rows |-> 0] /\ heard = <<>>
  /\ handled = {} /\ blocked = {} /\ timer = FALSE /\ nonblocking = FALSE
  /\ printed = <<>>

Program ==
  \/ ReadCommand \/ ReadLast \/ NoCommand
  \/ SetUpAlarm \/ SetUpInterrupt \/ Find
  \/ Block \/ PrintPosition \/ PrintWinner \/ Finish \/ Drain

Next ==
  \/ \E line \in Line : Write(line)
  \/ WriteRest \/ Close
  \/ Interrupt \/ Alarm
  \/ Program

\* The timer of the kernel is never late for ever.
Spec == Init /\ [][Next]_vars /\ WF_vars(Alarm)

-----------------------------------------------------------------------------
(* The format of obsequi.cc:216: the blocks are positions on the board.      *)

OnTheBoard(line) ==
  line.form = 6 =>
    \A i \in DOMAIN line.blocks : /\ line.blocks[i] # <<>>
                                  /\ line.blocks[i][1] \in 0 .. line.rows - 1
                                  /\ line.blocks[i][2] \in 0 .. line.cols - 1

HasFormat(line) ==
  /\ line.form \in {4, 6}
  /\ line.rows \in 1 .. 30 /\ line.cols \in 1 .. 30 /\ line.bits \in 15 .. 31
  /\ line.rows * line.cols <= 256 /\ line.rows * line.cols < SquareLimit
  /\ line.form = 6 => line.letter = "B"
  /\ OnTheBoard(line)
  /\ TurnOf(line) \in {"H", "V"}

\* The position that is written on a line.
OnLine(line) ==
  [rows |-> line.rows, cols |-> line.cols, turn |-> TurnOf(line),
   blocks |-> IF line.form = 6 THEN ToSet(line.blocks) ELSE {}]

Started == pc \notin {"reading", "ended"}

(* A line that has the format is never passed over, and the position written on
   it is solved, with its blocks and none of a line that was refused before it.
   A line that is taken without having the format (a block may be negative)
   still brings no block of another line, unless it writes beside the grid.  *)
StartsAsWritten ==
  /\ pc = "reading" => \A i \in DOMAIN heard : ~ HasFormat(heard[i])
  /\ Started =>
       LET line == Last(heard)
       IN /\ \A i \in 1 .. Len(heard) - 1 : ~ HasFormat(heard[i])
          /\ HasFormat(line) => game = OnLine(line)
          /\ ~ WritesBeside(line) => game.blocks \subseteq Placed(line)

(* The two lines of a report stand together at the end of what is printed: no
   ^C prints between them or after them, and once the first is out neither
   "stop" nor ^C ends the process.                                           *)
ReportIsWhole ==
  /\ \A i \in DOMAIN printed : printed[i] = "position" =>
       /\ i = Len(printed) \/ (i + 1 = Len(printed) /\ printed[i + 1] = "winner")
       /\ status \in {"running", "done"}
  /\ status = "done" => printed # <<>> /\ printed[Len(printed)] = "winner"

(* "-w wait for standard in to be closed before exiting" (obsequi.cc:393): a
   process called with it ends after its report only when standard input is
   closed, although every alarm makes reading from it nonblocking.           *)
WaitsForClose == waits /\ status = "done" => closed /\ input = <<>>

(* "stop" on a line of its own, once it has arrived whole, ends a search that is
   under way, unless the search ends first.  (One that an alarm finds half
   written is read as two other lines and is not heard.)                     *)
StopIsHeard ==
  (/\ waits /\ pc = "searching"
   /\ \E i \in DOMAIN LinesOf(input) : LinesOf(input)[i].stop) ~> pc # "searching"

=============================================================================
