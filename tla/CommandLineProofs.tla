-------------------------- MODULE CommandLineProofs -------------------------
(***************************************************************************)
(* What holds of the solver's process whatever is written to it and        *)
(* whatever signals reach it, however often.                               *)
(***************************************************************************)
EXTENDS CommandLine, TLAPS

Before    == {"reading", "starting", "alarmed", "searching", "found"}
Printable == {"position", "winner", "state", "commands"}
Reporting == {"reporting", "halfway", "reported", "waiting"}

NoReport == \A i \in DOMAIN printed : printed[i] # "position"

HalfReport == /\ Len(printed) > 0 /\ printed[Len(printed)] = "position"
              /\ \A i \in 1 .. Len(printed) - 1 : printed[i] # "position"

Report == /\ Len(printed) > 1
          /\ printed[Len(printed) - 1] = "position" /\ printed[Len(printed)] = "winner"
          /\ \A i \in 1 .. Len(printed) - 2 : printed[i] # "position"

\* How far the report is follows from where main is, and from Block on no signal
\* gets through.
IInv ==
  /\ printed \in Seq(Printable)
  /\ pc \in Before \cup Reporting \cup {"ended"}
  /\ status \in {"running", "failed", "killed", "stopped", "done"}
  /\ status = "running" <=> pc # "ended"
  /\ pc \in Before \cup {"reporting"} \/ status \in {"failed", "killed", "stopped"} => NoReport
  /\ pc = "halfway" => HalfReport
  /\ pc \in {"reported", "waiting"} \/ status = "done" => Report
  /\ pc \in Reporting => blocked = {"SIGALRM", "SIGINT"}
  /\ pc = "waiting" => ~ nonblocking
  /\ waits /\ status = "done" => closed /\ input = <<>>

LEMMA InitEstablishes == Init => IInv
BY DEF Init, IInv, Before, Reporting, NoReport

LEMMA Printing ==
  ASSUME NEW S, NEW seq \in Seq(S), NEW line \in S
  PROVE  /\ Append(seq, line) \in Seq(S)
         /\ Len(seq) \in Nat
         /\ Len(Append(seq, line)) = Len(seq) + 1
         /\ Append(seq, line)[Len(seq) + 1] = line
         /\ \A i \in 1 .. Len(seq) : Append(seq, line)[i] = seq[i]
         /\ DOMAIN seq = 1 .. Len(seq)
         /\ DOMAIN Append(seq, line) = 1 .. Len(seq) + 1
OBVIOUS

\* A step that prints nothing of the report.
LEMMA PrintedBefore ==
  ASSUME printed \in Seq(Printable), NoReport, NEW line \in Printable, line # "position",
         printed' = Append(printed, line)
  PROVE  printed' \in Seq(Printable) /\ NoReport'
<1>1. DOMAIN printed' = 1 .. Len(printed) + 1
  BY Printing
<1>2. \A i \in DOMAIN printed' : printed'[i] # "position"
  <2> SUFFICES ASSUME NEW i \in DOMAIN printed'
               PROVE  printed'[i] # "position"
    OBVIOUS
  <2>1. CASE i = Len(printed) + 1
    BY <2>1, Printing
  <2>2. CASE i \in 1 .. Len(printed)
    BY <2>2, Printing DEF NoReport
  <2> QED
    BY <1>1, <2>1, <2>2, Printing
<1> QED
  BY <1>2, Printing DEF NoReport

LEMMA ProgramKeeps ==
  ASSUME IInv, Program
  PROVE  IInv'
<1>1. CASE ReadCommand \/ ReadLast \/ NoCommand
  <2>1. /\ pc = "reading" /\ UNCHANGED <<printed, blocked, nonblocking>>
        /\ \/ UNCHANGED <<pc, status>>
           \/ pc' = "ended" /\ status' \in {"failed", "killed"}
           \/ pc' = "starting" /\ UNCHANGED status
    BY <1>1 DEF ReadCommand, ReadLast, NoCommand, Take, Start, End, signals
  <2> QED
    BY <2>1 DEF IInv, Before, Reporting, NoReport
<1>2. CASE SetUpAlarm \/ SetUpInterrupt \/ Find
  BY <1>2 DEF SetUpAlarm, SetUpInterrupt, Find, user, signals, IInv, Before, Reporting, NoReport
<1>3. CASE Block
  BY <1>3 DEF Block, user, IInv, Before, Reporting, NoReport
<1>4. CASE PrintPosition
  <2>1. /\ pc = "reporting" /\ pc' = "halfway"
        /\ printed' = Append(printed, "position")
        /\ UNCHANGED <<waits, closed, input, status, blocked, nonblocking>>
    BY <1>4 DEF PrintPosition, user, signals
  <2>2. printed \in Seq(Printable) /\ NoReport
    BY <2>1 DEF IInv
  <2>3. printed' \in Seq(Printable) /\ HalfReport'
    BY <2>1, <2>2, Printing DEF NoReport, HalfReport, Printable
  <2> QED
    BY <2>1, <2>3 DEF IInv, Before, Reporting
<1>5. CASE PrintWinner
  <2>1. /\ pc = "halfway" /\ pc' = "reported"
        /\ printed' = Append(printed, "winner")
        /\ UNCHANGED <<waits, closed, input, status, blocked, nonblocking>>
    BY <1>5 DEF PrintWinner, user, signals
  <2>2. printed \in Seq(Printable) /\ HalfReport
    BY <2>1 DEF IInv
  <2>3. printed' \in Seq(Printable) /\ Report'
    BY <2>1, <2>2, Printing DEF HalfReport, Report, Printable
  <2> QED
    BY <2>1, <2>3 DEF IInv, Before, Reporting
<1>6. CASE Finish
  BY <1>6 DEF Finish, user, End, IInv, Before, Reporting, Report
<1>7. CASE Drain
  BY <1>7 DEF Drain, End, signals, IInv, Before, Reporting, Report
<1> QED
  BY <1>1, <1>2, <1>3, <1>4, <1>5, <1>6, <1>7 DEF Program

LEMMA UserKeeps ==
  ASSUME IInv, (\E line \in Line : Write(line)) \/ WriteRest \/ Close
  PROVE  IInv'
<1>1. /\ ~ closed
      /\ UNCHANGED <<waits, pc, status, printed, blocked, nonblocking>>
  BY DEF Write, WriteRest, Close, process, signals
<1> QED
  BY <1>1 DEF IInv, NoReport, HalfReport, Report

LEMMA SignalKeeps ==
  ASSUME IInv, Interrupt \/ Alarm
  PROVE  IInv'
<1>1. CASE pc \in Reporting
  <2>1. UNCHANGED <<waits, closed, input, pc, status, printed, blocked, nonblocking>>
    BY <1>1 DEF Interrupt, Alarm, IInv, signals
  <2> QED
    BY <2>1 DEF IInv, NoReport, HalfReport, Report
<1>2. CASE pc \notin Reporting
  <2>1. /\ pc \in Before /\ NoReport /\ UNCHANGED <<waits, closed, blocked>>
        /\ UNCHANGED <<pc, status>> \/ (pc' = "ended" /\ status' \in {"killed", "stopped"})
        /\ \/ UNCHANGED printed
           \/ printed' = Append(printed, "state")
           \/ printed' = Append(printed, "commands")
    BY <1>2 DEF Interrupt, Alarm, IInv, End, signals
  <2>2. printed' \in Seq(Printable) /\ NoReport'
    <3>1. CASE UNCHANGED printed
      BY <2>1, <3>1 DEF IInv, NoReport
    <3>2. CASE printed' = Append(printed, "state")
      BY <2>1, <3>2, PrintedBefore DEF IInv, Printable
    <3>3. CASE printed' = Append(printed, "commands")
      BY <2>1, <3>3, PrintedBefore DEF IInv, Printable
    <3> QED
      BY <2>1, <3>1, <3>2, <3>3
  <2> QED
    BY <2>1, <2>2 DEF IInv, Before, Reporting
<1> QED
  BY <1>1, <1>2

LEMMA StepKeeps == IInv /\ [Next]_vars => IInv'
<1> SUFFICES ASSUME IInv, [Next]_vars
             PROVE  IInv'
  OBVIOUS
<1>1. CASE Next
  BY <1>1, ProgramKeeps, UserKeeps, SignalKeeps DEF Next
<1>2. CASE UNCHANGED vars
  BY <1>2 DEF vars, user, process, signals, IInv, NoReport, HalfReport, Report
<1> QED
  BY <1>1, <1>2

LEMMA InvariantHolds == Spec => []IInv
BY InitEstablishes, StepKeeps, PTL DEF Spec

-----------------------------------------------------------------------------
(* The report is never broken up and never cut short, however often ^C is
   pressed and "stop" written while it is printed.                           *)
THEOREM ReportStaysWhole == Spec => []ReportIsWhole
<1>1. IInv => ReportIsWhole
  BY DEF IInv, ReportIsWhole, Before, Reporting, NoReport, HalfReport, Report
<1> QED
  BY <1>1, InvariantHolds, PTL

(* With -w the process ends after its report only when standard input has been
   closed and read to its end.                                               *)
THEOREM ProcessWaitsForClose == Spec => []WaitsForClose
<1>1. IInv => WaitsForClose
  BY DEF IInv, WaitsForClose
<1> QED
  BY <1>1, InvariantHolds, PTL
-----------------------------------------------------------------------------
(* Which position is solved.                                                *)

Written == [line : Line, piece : {"whole", "first", "rest"}]

\* The lines as they are read: whole, or without their last character.
Cut(line) == [line EXCEPT !.form = IF @ = 0 THEN 0 ELSE @ - 1]
Readable  == Line \cup {Cut(line) : line \in Line}

NoneHasFormat == \A i \in DOMAIN heard : ~ HasFormat(heard[i])

\* game is what the last line says.
AsTheLast ==
  /\ Len(heard) > 0
  /\ \A i \in 1 .. Len(heard) - 1 : ~ HasFormat(heard[i])
  /\ HasFormat(heard[Len(heard)]) => game = OnLine(heard[Len(heard)])
  /\ ~ WritesBeside(heard[Len(heard)]) => game.blocks \subseteq Placed(heard[Len(heard)])

ReadInv ==
  /\ input \in Seq(Written) /\ heard \in Seq(Readable)
  /\ pc = "reading" => NoneHasFormat
  /\ Started => AsTheLast

LEMMA ReadableLines ==
  ASSUME NEW line \in Readable, line.form = 6
  PROVE  line.blocks \in Seq((Int \X Int) \cup {<<>>})
<1>1. CASE line \in Line
  BY <1>1, CommandLineAssumption
<1>2. ASSUME NEW whole \in Line, line = Cut(whole)
      PROVE  FALSE
  <2>1. "form" \in DOMAIN whole /\ whole.form \in 0 .. 6
    BY CommandLineAssumption
  <2>2. line.form = IF whole.form = 0 THEN 0 ELSE whole.form - 1
    BY <1>2, <2>1 DEF Cut
  <2> QED
    BY <2>1, <2>2
<1> QED
  BY <1>1, <1>2 DEF Readable

-----------------------------------------------------------------------------
(* The numbers of a line that has the format.                               *)

LEMMA RemainderOfSmall ==
  ASSUME NEW a \in Nat, NEW b \in Nat, a < b
  PROVE  a % b = a
<1>1. /\ a \div b \in Int /\ a % b \in 0 .. b - 1
      /\ a = b * (a \div b) + (a % b)
  OBVIOUS
<1>2. b * (a \div b) < b /\ b * (a \div b) > -b
  BY <1>1
<1>3. a \div b = 0
  <2> DEFINE d == a \div b
  <2>1. d \in Int /\ b * d < b /\ b * d > -b
    BY <1>1, <1>2
  <2> HIDE DEF d
  <2>2. CASE d >= 1
    <3>1. b * d >= b * 1
      BY <2>1, <2>2
    <3> QED
      BY <2>1, <3>1
  <2>3. CASE d <= -1
    <3>1. b * d <= b * (-1)
      BY <2>1, <2>3
    <3> QED
      BY <2>1, <3>1
  <2>4. d = 0
    BY <2>1, <2>2, <2>3
  <2> QED
    BY <2>4 DEF d
<1> QED
  BY <1>1, <1>3

\* An int keeps a number that fits into it.
LEMMA StoredAsWritten ==
  ASSUME NEW n \in 0 .. 900
  PROVE  Stored(n) = n
<1>1. n + Half \in Nat /\ 2 * Half \in Nat /\ n + Half < 2 * Half
  BY CommandLineAssumption
<1>2. (n + Half) % (2 * Half) = n + Half
  BY <1>1, RemainderOfSmall
<1> QED
  BY <1>2, CommandLineAssumption DEF Stored

LEMMA SizeAsWritten ==
  ASSUME NEW line, HasFormat(line)
  PROVE  /\ Rows(line) = line.rows /\ Cols(line) = line.cols
         /\ line.rows \in 1 .. 30 /\ line.cols \in 1 .. 30
         /\ Sized(line) /\ PlayableSize(line)
<1>1. /\ line.rows \in 1 .. 30 /\ line.cols \in 1 .. 30 /\ line.bits \in 15 .. 31
      /\ line.rows * line.cols <= 256 /\ line.rows * line.cols < SquareLimit
      /\ line.form \in {4, 6}
  BY DEF HasFormat
<1>2. line.rows * line.cols \in 0 .. 900
  <2>1. line.rows * line.cols \in Int /\ line.rows * line.cols >= 0
    BY <1>1
  <2> QED
    BY <1>1, <2>1
<1>3. Stored(line.rows * line.cols) = line.rows * line.cols
  BY ONLY <1>2, StoredAsWritten
<1>4. line.rows \in 0 .. 900 /\ line.cols \in 0 .. 900 /\ line.bits \in 0 .. 900
  BY <1>1
<1>5. Stored(line.rows) = line.rows /\ Stored(line.cols) = line.cols
  <2>1. Stored(line.rows) = line.rows
    BY <1>4, StoredAsWritten
  <2>2. Stored(line.cols) = line.cols
    BY <1>4, StoredAsWritten
  <2> QED
    BY <2>1, <2>2
<1>6. Stored(line.bits) = line.bits
  BY <1>4, StoredAsWritten
<1>7. Rows(line) = line.rows /\ Cols(line) = line.cols
  BY <1>5 DEF Rows, Cols
<1>8. Sized(line)
  BY <1>1, <1>3, <1>6, <1>7 DEF Sized
<1>9. PlayableSize(line)
  BY <1>1, <1>7 DEF PlayableSize
<1> QED
  BY <1>1, <1>7, <1>8, <1>9

LEMMA BlockAsWritten ==
  ASSUME NEW line, HasFormat(line), NEW block \in Int \X Int,
         block[1] \in 0 .. line.rows - 1, block[2] \in 0 .. line.cols - 1
  PROVE  Fits(line, block) /\ Word(block) \in 0 .. 899 /\ Square(Word(block)) = block
<1>1. /\ Rows(line) = line.rows /\ Cols(line) = line.cols
      /\ line.rows \in 1 .. 30 /\ line.cols \in 1 .. 30
  BY SizeAsWritten
<1>2. block[1] \in 0 .. 29 /\ block[2] \in 0 .. 29
  BY <1>1
<1>3. Stored(block[1]) = block[1] /\ Stored(block[2]) = block[2]
  <2>1. block[1] \in 0 .. 900 /\ block[2] \in 0 .. 900
    BY <1>2
  <2> QED
    BY <2>1, StoredAsWritten
<1>4. Word(block) = 30 * block[1] + block[2]
  BY <1>3 DEF Word
<1>5. (30 * block[1] + block[2]) \div 30 = block[1] /\ (30 * block[1] + block[2]) % 30 = block[2]
  BY <1>2
<1>6. block = <<block[1], block[2]>> /\ block # <<>>
  <2>1. PICK r \in Int, c \in Int : block = <<r, c>>
    OBVIOUS
  <2>2. block[1] = r /\ block[2] = c
    BY <2>1
  <2>3. <<r, c>> # <<>>
    OBVIOUS
  <2> QED
    BY <2>1, <2>2, <2>3
<1>7. Fits(line, block)
  <2>1. block[1] < line.rows /\ block[2] < line.cols
    BY <1>1
  <2>2. Stored(block[1]) < Rows(line) /\ Stored(block[2]) < Cols(line)
    BY <1>1, <1>3, <2>1
  <2> QED
    BY <1>6, <2>2 DEF Fits
<1>8. Word(block) \in 0 .. 899
  BY <1>2, <1>4
<1>9. Square(Word(block)) = block
  BY <1>4, <1>5, <1>6 DEF Square
<1> QED
  BY <1>7, <1>8, <1>9

\* A line that has the format is taken, and the grid holds all its blocks and no
\* others.
LEMMA FormatIsAccepted ==
  ASSUME NEW line \in Readable, HasFormat(line)
  PROVE  /\ Accepts(line) /\ PlayableSize(line) /\ ~ WritesBeside(line)
         /\ {q \in GridAfter(line) : q[1] < Rows(line) /\ q[2] < Cols(line)}
              = IF line.form = 6 THEN ToSet(line.blocks) ELSE {}
<1>1. /\ Rows(line) = line.rows /\ Cols(line) = line.cols
      /\ line.rows \in 1 .. 30 /\ line.cols \in 1 .. 30
      /\ Sized(line) /\ PlayableSize(line)
  BY SizeAsWritten
<1>2. GridAfter(line) = Placed(line) /\ TurnOf(line) \in {"H", "V"}
  BY <1>1 DEF GridAfter, HasFormat
<1>3. CASE line.form # 6
  <2>1. Fitting(line) = {}
    BY <1>3 DEF Fitting
  <2> QED
    BY <1>1, <1>2, <1>3, <2>1 DEF Placed, WritesBeside, Accepts
<1>4. CASE line.form = 6
  <2>1. line.blocks \in Seq((Int \X Int) \cup {<<>>}) /\ line.letter = "B"
    BY <1>4, ReadableLines DEF HasFormat
  <2>2. ASSUME NEW i \in DOMAIN line.blocks
        PROVE  /\ line.blocks[i] \in Int \X Int
               /\ line.blocks[i][1] \in 0 .. line.rows - 1
               /\ line.blocks[i][2] \in 0 .. line.cols - 1
    BY <1>4, <2>1 DEF HasFormat, OnTheBoard
  <2>3. \A i \in DOMAIN line.blocks :
          /\ Fits(line, line.blocks[i])
          /\ Word(line.blocks[i]) \in 0 .. 899
          /\ Square(Word(line.blocks[i])) = line.blocks[i]
    BY <2>2, BlockAsWritten
  <2>4. \A j \in DOMAIN line.blocks : 1 .. j \subseteq DOMAIN line.blocks
    BY <2>1
  <2>5. Fitting(line) = {line.blocks[i] : i \in DOMAIN line.blocks}
    BY <1>4, <2>1, <2>3, <2>4 DEF Fitting
  <2>6. Placed(line) = {line.blocks[i] : i \in DOMAIN line.blocks}
    BY <2>3, <2>5 DEF Placed
  <2>7. ~ WritesBeside(line)
    BY <2>3, <2>5 DEF WritesBeside
  <2>8. Accepts(line)
    BY <1>1, <1>2, <2>1, <2>3 DEF Accepts
  <2>9. \A q \in Placed(line) : q[1] < Rows(line) /\ q[2] < Cols(line)
    BY <1>1, <2>2, <2>6
  <2>10. ToSet(line.blocks) = {line.blocks[i] : i \in DOMAIN line.blocks}
    BY DEF ToSet
  <2> QED
    BY <1>1, <1>2, <1>4, <2>6, <2>7, <2>8, <2>9, <2>10
<1> QED
  BY <1>3, <1>4

-----------------------------------------------------------------------------
(* The lines one after the other.                                           *)

LEMMA TakeKeeps ==
  ASSUME heard \in Seq(Readable), NoneHasFormat, pc = "reading",
         NEW line \in Readable, Take(line)
  PROVE  /\ heard' \in Seq(Readable)
         /\ pc' = "reading" => NoneHasFormat'
         /\ Started' => AsTheLast'
<1>1. /\ heard' = Append(heard, line)
      /\ grid' = GridAfter(line)
  BY DEF Take
<1>2. /\ heard' \in Seq(Readable)
      /\ Len(heard) \in Nat /\ Len(heard') = Len(heard) + 1
      /\ heard'[Len(heard')] = line
      /\ DOMAIN heard' = 1 .. Len(heard) + 1 /\ DOMAIN heard = 1 .. Len(heard)
      /\ \A i \in 1 .. Len(heard) : heard'[i] = heard[i]
  BY <1>1
<1>3. \A i \in 1 .. Len(heard) : ~ HasFormat(heard'[i])
  BY <1>2 DEF NoneHasFormat
<1>4. ASSUME ~ HasFormat(line)
      PROVE  NoneHasFormat'
  <2>1. \A i \in DOMAIN heard' : i \in 1 .. Len(heard) \/ i = Len(heard')
    BY <1>2
  <2>2. \A i \in DOMAIN heard' : ~ HasFormat(heard'[i])
    BY <1>2, <1>3, <1>4, <2>1
  <2> QED
    BY <2>2 DEF NoneHasFormat
<1>5. ASSUME HasFormat(line) => game' = OnLine(line),
             ~ WritesBeside(line) => game'.blocks \subseteq Placed(line)
      PROVE  AsTheLast'
  BY <1>2, <1>3, <1>5 DEF AsTheLast
<1>6. CASE /\ ~ Accepts(line) \/ WritesBeside(line)
           /\ UNCHANGED <<pc, status, game>>
  BY <1>2, <1>4, <1>6, FormatIsAccepted DEF Started
<1>7. CASE /\ Accepts(line) /\ PlayableSize(line)
           /\ Start([rows |-> Rows(line), cols |-> Cols(line), turn |-> TurnOf(line),
                     blocks |-> {q \in grid' : q[1] < Rows(line) /\ q[2] < Cols(line)}])
  <2>1. /\ pc' = "starting"
        /\ game' = [rows |-> Rows(line), cols |-> Cols(line), turn |-> TurnOf(line),
                    blocks |-> {q \in GridAfter(line) : q[1] < Rows(line) /\ q[2] < Cols(line)}]
    BY <1>1, <1>7 DEF Start
  <2>2. game'.blocks \subseteq Placed(line)
    BY <1>7, <2>1 DEF GridAfter, Accepts
  <2>3. HasFormat(line) => game' = OnLine(line)
    BY <2>1, FormatIsAccepted, SizeAsWritten DEF OnLine
  <2> QED
    BY <1>2, <1>5, <2>1, <2>2, <2>3
<1>8. CASE \E how \in {"failed", "killed"} : End(how)
  BY <1>2, <1>8 DEF End, Started
<1>9. CASE WritesBeside(line) /\ Start(Unknown)
  <2>1. pc' = "starting" /\ ~ HasFormat(line)
    BY <1>9, FormatIsAccepted DEF Start
  <2> QED
    BY <1>2, <1>5, <1>9, <2>1
<1> QED
  BY <1>6, <1>7, <1>8, <1>9 DEF Take

\* What FirstLine takes off is the beginning of what is written.
LEMMA FirstLineIsWritten ==
  ASSUME NEW items \in Seq(Written), FirstLine(items) # <<>>
  PROVE  /\ Last(FirstLine(items)).line \in Line
         /\ SubSeq(items, Len(FirstLine(items)) + 1, Len(items)) \in Seq(Written)
<1> DEFINE n == IF items[1].piece = "first" THEN 2 ELSE 1
<1>1. FirstLine(items) = SubSeq(items, 1, n) /\ items # <<>>
      /\ ~ (items[1].piece = "first" /\ Len(items) = 1)
  BY DEF FirstLine
<1>2. Len(items) \in Nat \ {0} /\ \A i \in 1 .. Len(items) : items[i] \in Written
  BY <1>1
<1>3. n \in 1 .. Len(items)
  BY <1>1, <1>2
<1> HIDE DEF n
<1>4. Len(SubSeq(items, 1, n)) = n /\ SubSeq(items, 1, n)[n] = items[n]
  BY <1>2, <1>3
<1>5. Last(FirstLine(items)) = items[n] /\ Len(FirstLine(items)) = n
  BY <1>1, <1>4 DEF Last
<1>6. items[n].line \in Line
  BY <1>2, <1>3 DEF Written
<1>7. SubSeq(items, n + 1, Len(items)) \in Seq(Written)
  BY <1>2, <1>3
<1> QED
  BY <1>5, <1>6, <1>7

LEMMA ReadInvKept == ReadInv /\ [Next]_vars => ReadInv'
<1> SUFFICES ASSUME ReadInv, [Next]_vars
             PROVE  ReadInv'
  OBVIOUS
<1>1. input \in Seq(Written) /\ heard \in Seq(Readable)
  BY DEF ReadInv
<1>2. ASSUME input' \in Seq(Written), UNCHANGED command,
             \/ pc' \in {pc, "ended"}
             \/ pc # "reading" /\ pc # "ended" /\ pc' # "reading"
      PROVE  ReadInv'
  <2>1. heard' = heard /\ game' = game
    BY <1>2 DEF command
  <2>2. (NoneHasFormat' <=> NoneHasFormat) /\ (AsTheLast' <=> AsTheLast)
    BY <2>1 DEF NoneHasFormat, AsTheLast
  <2> QED
    BY <1>1, <1>2, <2>1, <2>2 DEF ReadInv, Started
<1>3. ASSUME NEW line \in Line, Write(line)
      PROVE  ReadInv'
  <2>1. /\ UNCHANGED <<pc, command>>
        /\ \E piece \in {"whole", "first"} : input' = Append(input, Item(line, piece))
    BY <1>3 DEF Write, process
  <2>2. \A piece \in {"whole", "first"} : Item(line, piece) \in Written
    BY DEF Item, Written
  <2> QED
    BY <1>1, <1>2, <2>1, <2>2
<1>4. CASE WriteRest
  <2>1. /\ UNCHANGED <<pc, command>> /\ input # <<>>
        /\ input' = Append(input, Item(Last(input).line, "rest"))
    BY <1>4 DEF WriteRest, process
  <2>2. Last(input) \in Written
    BY <1>1, <2>1 DEF Last
  <2>3. Item(Last(input).line, "rest") \in Written
    BY <2>2 DEF Item, Written
  <2> QED
    BY <1>1, <1>2, <2>1, <2>3
<1>5. CASE Close
  BY <1>1, <1>2, <1>5 DEF Close, process
<1>6. CASE Interrupt
  <2>1. UNCHANGED <<input, command>> /\ pc' \in {pc, "ended"}
    BY <1>6 DEF Interrupt, End
  <2> QED
    BY <1>1, <1>2, <2>1
<1>7. CASE Alarm
  <2>1. input' = <<>> /\ UNCHANGED command /\ pc' \in {pc, "ended"}
    BY <1>7 DEF Alarm, End
  <2> QED
    BY <1>2, <2>1
<1>8. CASE ReadCommand
  <2> DEFINE line == Last(FirstLine(input)).line
  <2>1. pc = "reading" /\ FirstLine(input) # <<>> /\ Take(line)
    BY <1>8 DEF ReadCommand
  <2>2. input' = SubSeq(input, Len(FirstLine(input)) + 1, Len(input))
    BY <1>8 DEF ReadCommand
  <2>3. line \in Readable /\ input' \in Seq(Written)
    BY <1>1, <2>1, <2>2, FirstLineIsWritten DEF Readable
  <2>4. NoneHasFormat
    BY <2>1 DEF ReadInv
  <2> HIDE DEF line
  <2> QED
    BY <1>1, <2>1, <2>3, <2>4, TakeKeeps DEF ReadInv
<1>9. CASE ReadLast
  <2> DEFINE line == Cut(Head(input).line)
  <2>1. pc = "reading" /\ input # <<>> /\ Take(line)
    BY <1>9 DEF ReadLast, Cut
  <2>2. input' = <<>>
    BY <1>9 DEF ReadLast
  <2>3. input' \in Seq(Written)
    BY <2>2
  <2>4. Head(input) \in Written
    BY <1>1, <2>1
  <2>5. Head(input).line \in Line
    BY <2>4 DEF Written
  <2>6. line \in Readable
    BY <2>5 DEF Readable
  <2>7. NoneHasFormat
    BY <2>1 DEF ReadInv
  <2> HIDE DEF line
  <2> QED
    BY <1>1, <2>1, <2>3, <2>6, <2>7, TakeKeeps DEF ReadInv
<1>10. CASE NoCommand
  BY <1>1, <1>2, <1>10 DEF NoCommand, user, End
<1>11. CASE SetUpAlarm \/ SetUpInterrupt \/ Find
  BY <1>1, <1>2, <1>11 DEF SetUpAlarm, SetUpInterrupt, Find, user
<1>12. CASE Block \/ PrintPosition \/ PrintWinner \/ Finish
  BY <1>1, <1>2, <1>12 DEF Block, PrintPosition, PrintWinner, Finish, End, user
<1>13. CASE Drain
  <2>1. /\ UNCHANGED command /\ pc' \in {pc, "ended"}
        /\ (input # <<>> /\ input' = Tail(input)) \/ UNCHANGED input
    BY <1>13 DEF Drain, End
  <2> QED
    BY <1>1, <1>2, <2>1
<1>14. CASE UNCHANGED vars
  BY <1>1, <1>2, <1>14 DEF vars, user, process
<1> QED
  BY <1>3, <1>4, <1>5, <1>6, <1>7, <1>8, <1>9, <1>10, <1>11, <1>12, <1>13, <1>14
  DEF Next, Program

(* A line that has the format is never passed over, and the position written on
   it is the one that is solved: whatever lines were refused before it leave no
   block.  A line that is taken without having the format brings its own blocks
   only, unless it writes beside the grid.                                   *)
THEOREM SolvesWhatIsWritten == Spec => []StartsAsWritten
<1>1. Init => ReadInv
  BY DEF Init, ReadInv, NoneHasFormat, Started
<1>2. ReadInv => StartsAsWritten
  <2> SUFFICES ASSUME ReadInv
               PROVE  StartsAsWritten
    OBVIOUS
  <2>1. heard \in Seq(Readable)
    BY DEF ReadInv
  <2>2. Len(heard) \in Nat /\ DOMAIN heard = 1 .. Len(heard)
    BY <2>1
  <2>3. pc = "reading" => \A i \in DOMAIN heard : ~ HasFormat(heard[i])
    BY DEF ReadInv, NoneHasFormat
  <2>4. Started => AsTheLast
    BY DEF ReadInv
  <2> QED
    BY <2>2, <2>3, <2>4 DEF AsTheLast, StartsAsWritten, Last
<1> QED
  BY <1>1, <1>2, ReadInvKept, PTL DEF Spec

=============================================================================
