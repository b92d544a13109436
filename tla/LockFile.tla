------------------------------ MODULE LockFile ------------------------------
(***************************************************************************)
(* src/obsequi/obsequi.cc with option -l: each process takes the first     *)
(* position of a file that is marked A (available), marks it W (working),  *)
(* searches it, prints the winner and writes it over the mark.  Any number *)
(* of processes may be started on one file, and each may end at any time:  *)
(* by the time limit of option -t, or because it is killed.                *)
(*                                                                         *)
(* The lock that gives the file its name is not taken: the calls of lockf  *)
(* are commented out.                                                      *)
(***************************************************************************)
EXTENDS Integers, FiniteSets

CONSTANTS
  Solver,      \* the processes that may be started, one for each position they solve
  NumLines,    \* the lines of the file
  Positions,   \* what a line may hold
  AtOnce       \* how many of them may run at a time

Player   == {"H", "V"}
Other(p) == IF p = "H" THEN "V" ELSE "H"
Line     == 1 .. NumLines

\* "garbled": refused while it is read; "refused": a position without a move or
\* with 128 squares; "hard": not decided within the search's horizon; "good".
Kinds == {"garbled", "refused", "hard", "good"}

ASSUME LockFileAssumption ==
  /\ NumLines \in Nat
  /\ Positions \subseteq [kind : Kinds, mover : Player, winner : Player]
  /\ AtOnce \subseteq Nat \ {0}

VARIABLES
  position,  \* what the lines hold behind their first character
  atOnce,    \* how many processes are run at a time
  file,      \* the first characters
  pc,        \* what each process is doing
  offset,    \* lock_file_offset, as the line it points at
  score,     \* who wins by the score of its search: a player, or "open"
  printed,   \* the winner it has printed
  died       \* the processes that ended before they had finished

vars == <<position, atOnce, file, pc, offset, score, printed, died>>

Nobody == "nobody"

Init ==
  /\ position \in [Line -> Positions]
  /\ atOnce \in AtOnce
  /\ file = [l \in Line |-> "A"]
  /\ pc = [s \in Solver |-> "new"]
  /\ offset = [s \in Solver |-> 1]
  /\ score = [s \in Solver |-> Nobody]
  /\ printed = [s \in Solver |-> Nobody]
  /\ died = {}

Running(s) == pc[s] \notin {"new", "ended"}

GoTo(s, label) == pc' = [pc EXCEPT ![s] = label]

-----------------------------------------------------------------------------
\* main is called and opens the file.
Start(s) ==
  /\ pc[s] = "new"
  /\ Cardinality({t \in Solver : Running(t)}) < atOnce
  /\ GoTo(s, "read")
  /\ UNCHANGED <<position, atOnce, file, offset, score, printed, died>>

\* Mutant: only lines marked W are passed over.
ReadSolvedToo(s) ==
  /\ pc[s] = "read"
  /\ IF offset[s] \notin Line THEN GoTo(s, "ended") /\ UNCHANGED offset
     ELSE IF file[offset[s]] = "W"
       THEN offset' = [offset EXCEPT ![s] = @ + 1] /\ UNCHANGED pc
     ELSE /\ GoTo(s, IF position[offset[s]].kind = "garbled" THEN "ended" ELSE "mark")
          /\ UNCHANGED offset
  /\ UNCHANGED <<position, atOnce, file, score, printed, died>>

\* Mutant: a garbled line is passed over.
ReadSkipping(s) ==
  /\ pc[s] = "read"
  /\ IF offset[s] \notin Line THEN GoTo(s, "ended") /\ UNCHANGED offset
     ELSE IF file[offset[s]] # "A" \/ position[offset[s]].kind = "garbled"
       THEN offset' = [offset EXCEPT ![s] = @ + 1] /\ UNCHANGED pc
     ELSE GoTo(s, "mark") /\ UNCHANGED offset
  /\ UNCHANGED <<position, atOnce, file, score, printed, died>>

(* One line is read.  At the end of the file, or at a line that is available
   but garbled, the process ends with an error.  Lines are read at any time
   between Start and Mark: the code reads them by the buffer, all or some at a
   time.                                                                     *)
Read(s) ==
  /\ pc[s] = "read"
  /\ IF offset[s] \notin Line THEN GoTo(s, "ended") /\ UNCHANGED offset
     ELSE IF file[offset[s]] # "A"
       THEN offset' = [offset EXCEPT ![s] = @ + 1] /\ UNCHANGED pc
     ELSE /\ GoTo(s, IF position[offset[s]].kind = "garbled" THEN "ended" ELSE "mark")
          /\ UNCHANGED offset
  /\ UNCHANGED <<position, atOnce, file, score, printed, died>>

(* The line is marked without another look at it.  Only then is the player to
   move known and the board built, and either may end the process.           *)
Mark(s) ==
  /\ pc[s] = "mark"
  /\ file' = [file EXCEPT ![offset[s]] = "W"]
  /\ GoTo(s, IF position[offset[s]].kind = "refused" THEN "ended" ELSE "search")
  /\ UNCHANGED <<position, atOnce, offset, score, printed, died>>

\* search_for_move; see Search.
Search(s) ==
  /\ pc[s] = "search"
  /\ score' = [score EXCEPT ![s] = LET p == position[offset[s]]
                                   IN  IF p.kind = "hard" THEN "open" ELSE p.winner]
  /\ GoTo(s, "report")
  /\ UNCHANGED <<position, atOnce, file, offset, printed, died>>

\* The winner is printed: the player to move on a score of at least 5000, its
\* opponent on any other, an open one too.
Report(s) ==
  /\ pc[s] = "report"
  /\ LET mover == position[offset[s]].mover
     IN  printed' = [printed EXCEPT ![s] = IF score[s] = mover THEN mover ELSE Other(mover)]
  /\ GoTo(s, IF score[s] = "open" THEN "ended" ELSE "write")
  /\ UNCHANGED <<position, atOnce, file, offset, score, died>>

\* Mutant: the offset is the one after the line.
WriteBehind(s) ==
  /\ pc[s] = "write"
  /\ file' = [l \in Line |-> IF l = offset[s] + 1 THEN score[s] ELSE file[l]]
  /\ GoTo(s, "ended")
  /\ UNCHANGED <<position, atOnce, offset, score, printed, died>>

\* Mutant: the winner is not written.
WriteNothing(s) ==
  /\ pc[s] = "write"
  /\ GoTo(s, "ended")
  /\ UNCHANGED <<position, atOnce, file, offset, score, printed, died>>

\* write_to_lock_file
Write(s) ==
  /\ pc[s] = "write"
  /\ file' = [file EXCEPT ![offset[s]] = score[s]]
  /\ GoTo(s, "ended")
  /\ UNCHANGED <<position, atOnce, offset, score, printed, died>>

\* stop_alrm_handler, or the process is killed.
Die(s) ==
  /\ Running(s)
  /\ died' = died \cup {s}
  /\ GoTo(s, "ended")
  /\ UNCHANGED <<position, atOnce, file, offset, score, printed>>

Next == \E s \in Solver : Start(s) \/ Read(s) \/ Mark(s) \/ Search(s) \/ Report(s)
                            \/ Write(s) \/ Die(s)

Spec == Init /\ [][Next]_vars

-----------------------------------------------------------------------------
(* Properties.                                                               *)

TypeOK ==
  /\ position \in [Line -> Positions]
  /\ file \in [Line -> Player \cup {"A", "W"}]
  /\ pc \in [Solver -> {"new", "read", "mark", "search", "report", "write", "ended"}]
  /\ offset \in [Solver -> 1 .. (NumLines + 1)]
  /\ score \in [Solver -> Player \cup {"open", Nobody}]
  /\ printed \in [Solver -> Player \cup {Nobody}]
  /\ died \subseteq Solver

(* However many processes read, mark and write the same lines at any time, a
   line that names a winner names the winner of the position it holds.        *)
FileIsRight ==
  \A l \in Line : file[l] \in Player =>
    position[l].kind = "good" /\ file[l] = position[l].winner

(* No line is skipped: one that has been taken up has only such before it.  A
   garbled line therefore keeps all those behind it from being solved.        *)
TakenInOrder ==
  \A l \in Line : file[l] # "A" =>
    \A k \in 1 .. (l - 1) : file[k] # "A" /\ position[k].kind # "garbled"

(* A line stays marked W only while a process is at work on it, or if one has
   died over it, or if no process can solve it - although another process may
   have marked it again.                                                      *)
MarkHasACause ==
  \A l \in Line : file[l] = "W" =>
    \/ position[l].kind # "good"
    \/ \E s \in Solver : /\ offset[s] = l
                         /\ pc[s] \in {"search", "report", "write"} \/ s \in died

\* What the first character of a line says of the position.
Status(c) == IF c = "A" THEN "open" ELSE IF c = "W" THEN "taken" ELSE "solved"

List == INSTANCE PositionList WITH status <- [l \in Line |-> Status(file[l])]

(* The file is the list of positions it is meant to be, if processes run one
   after the other, whenever they die; without the lock of obsequi.cc:613 it is
   not when they run at the same time.                                        *)
KeepsTheList == List!Init /\ [][atOnce = 1 => List!Next]_file

(* "something else if we weren't able to determine a winner" (negamax.h:13): a
   winner is printed only of a search that has determined one.                *)
WinnerIsDetermined ==
  \A s \in Solver : printed[s] # Nobody => printed[s] = score[s]

=============================================================================
