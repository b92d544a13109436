------------------------------ MODULE MoveList ------------------------------
(***************************************************************************)
(* src/obsequi/move.h and move.cc: the list of moves of one position of    *)
(* the search.  GetNext fills it in stages, and between two calls the      *)
(* search plays a move, searches below it and takes it back, so each stage *)
(* is generated from a board that has been played on in the meantime.      *)
(*                                                                         *)
(* The search itself is left open: it may enter any position IsGameOver    *)
(* does not decide (negamax.cc:152, search_for_move:30), what it does      *)
(* below a move leaves the board as it was, and it may stop early.         *)
(***************************************************************************)
EXTENDS MoveOrder

VARIABLES
  moves,       \* moves_: the entries written since the list was cleared
  curr,        \* curr_, or the driver's loop index
  length,      \* length_
  stage,       \* stage_
  trueLength,  \* true_length_
  turn,        \* whose list it is
  pc,          \* where the search is
  given,       \* the moves handed out since the list was cleared
  saved        \* the board when the position was entered

list     == <<moves, curr, length, stage, trueLength>>
listVars == <<list, turn, pc, given, saved>>
allVars  == <<vars, listVars>>

All == 1000000   \* the stage after GenerateAllMoves: nothing left to generate

-----------------------------------------------------------------------------
ListInit ==
  /\ moves = <<>> /\ curr = -1 /\ length = 0 /\ stage = 0 /\ trueLength = 0
  /\ turn = "H" /\ pc = "idle" /\ given = <<>> /\ saved = <<>>

\* Blocks are placed before the search starts.
Setup == /\ pc = "idle"
         /\ \E row \in 0 .. (Rows - 1), col \in 0 .. (Cols - 1) : SetBlock(row, col)
         /\ UNCHANGED listVars

Position == <<board, figures>>

\* negamax reaches its moves: Clear.
Enter(s) ==
  /\ pc = "idle"
  /\ IsGameOver(s) = 0
  /\ moves' = <<>> /\ curr' = -1 /\ length' = 0 /\ stage' = 0
  /\ turn' = s /\ given' = <<>> /\ saved' = Position
  /\ pc' = "advance"
  /\ UNCHANGED <<trueLength, vars>>

\* The driver generates all moves of the position at once: GenerateAllMoves.
EnterAll(s) ==
  /\ pc = "idle"
  /\ IsGameOver(s) = 0
  /\ curr' = -1 /\ stage' = All
  /\ turn' = s /\ given' = <<>> /\ saved' = Position
  /\ LET ms == Generated(ListedMoves(s))
     IN  /\ length' = Len(ms)
         /\ pc' = IF ms = <<>> THEN "aborted" ELSE "advance"   \* assert(length_)
  /\ moves' = AllMoves(s)
  /\ UNCHANGED <<trueLength, vars>>

-----------------------------------------------------------------------------
(* GetNext: curr_++, then generate until the list reaches that far.          *)
Advance ==
  /\ pc = "advance"
  /\ curr' = curr + 1
  /\ pc' = "loop"
  /\ UNCHANGED <<moves, length, stage, trueLength, turn, given, saved, vars>>

\* Stage 0: the open moves or, without any, the half safe ones; scored.
GenerateFirst ==
  /\ stage = 0
  /\ LET open == Generated(OpenMoves(turn))
         ms   == IF open # <<>> THEN open ELSE Generated(HalfSafeMoves(turn))
     IN  /\ trueLength' = Len(ms)
         /\ stage' = IF open # <<>> THEN 1 ELSE 3
         /\ IF ms = <<>>  \* assert(true_length_)
              THEN pc' = "aborted" /\ UNCHANGED <<moves, length>>
              ELSE /\ moves' = ScoreAndGetFirst(turn, ms)
                   /\ length' = 1
                   /\ UNCHANGED pc

\* Mutant: the rest is handed out in the order of generation.
RestUnsorted ==
  /\ stage \in {1, 3}
  /\ length' = trueLength
  /\ stage' = IF stage = 1 THEN 2 ELSE 4
  /\ UNCHANGED <<moves, trueLength, pc>>

\* Stages 1 and 3: the moves scored before are sorted.
SortRest ==
  /\ stage \in {1, 3}
  /\ moves' = SortTail(moves)
  /\ length' = trueLength
  /\ stage' = IF stage = 1 THEN 2 ELSE 4
  /\ UNCHANGED <<trueLength, pc>>

\* Mutant: a stage that finds nothing falls back to the one before.
AppendOrFallBack ==
  /\ stage = 2
  /\ LET more == Generated(HalfSafeMoves(turn))
     IN  /\ moves' = SubSeq(moves, 1, length) \o more
         /\ length' = length + Len(more)
         /\ stage' = IF more = <<>> THEN 1 ELSE 4
  /\ UNCHANGED <<trueLength, pc>>

\* Stage 2: the half safe moves follow, neither scored nor sorted.
AppendHalfSafe ==
  /\ stage = 2
  /\ LET more == Generated(HalfSafeMoves(turn))
     IN  /\ moves' = SubSeq(moves, 1, length) \o more
         /\ length' = length + Len(more)
  /\ stage' = 4
  /\ UNCHANGED <<trueLength, pc>>

\* GenerateNextMoves
Generate ==
  /\ pc = "loop"
  /\ curr >= length
  /\ GenerateFirst \/ SortRest \/ AppendHalfSafe
  /\ UNCHANGED <<curr, turn, given, saved, vars>>

\* The search plays the move it was given.
Give ==
  /\ pc = "loop"
  /\ curr < length
  /\ LET m == Where(moves[curr + 1])
     IN  /\ m \in Moves(turn)
         /\ ApplyMove(turn, m)
         /\ given' = Append(given, m)
  /\ pc' = "below"
  /\ UNCHANGED <<list, turn, saved>>

\* It takes the move back, and goes on unless the move was good enough.
Retreat ==
  /\ pc = "below"
  /\ UndoMove
  /\ pc' \in {"advance", "cutoff"}
  /\ UNCHANGED <<list, turn, given, saved>>

\* GetNext returns nullptr.
Exhaust ==
  /\ pc = "loop"
  /\ curr >= length
  /\ stage \notin 0 .. 3
  /\ pc' = "exhausted"
  /\ UNCHANGED <<list, turn, given, saved, vars>>

(* The search leaves the position.  What the list holds is forgotten here; in
   the code the next Clear does that (true_length_ is set before it is read).  *)
Leave ==
  /\ pc \in {"cutoff", "exhausted"}
  /\ pc' = "idle"
  /\ moves' = <<>> /\ curr' = -1 /\ length' = 0 /\ stage' = 0 /\ trueLength' = 0
  /\ given' = <<>> /\ saved' = <<>>
  /\ UNCHANGED <<turn, vars>>

Iterate == Advance \/ Generate \/ Give \/ Retreat \/ Exhaust \/ Leave

ListNext == Setup \/ (\E s \in Side : Enter(s) \/ EnterAll(s)) \/ Iterate

\* Iterate is enabled: it would be stuck on a move that cannot be played.
Ready == \/ pc \in {"advance", "below", "cutoff", "exhausted"}
         \/ /\ pc = "loop"
            /\ curr < length => LET m == Where(moves[curr + 1])
                                IN  m \in Moves(turn) /\ Fits(turn, m)

(* A search that has entered a position is a running program: weak fairness of
   Iterate, with ENABLED Iterate written out.                                *)
Running == <>[]Ready => []<><<Iterate>>_allVars

ListSpec == Init /\ ListInit /\ [][ListNext]_allVars /\ Running

-----------------------------------------------------------------------------
(* Properties.                                                               *)

(* The assertions of move.cc:94 and move.cc:108 never fail: when the counts
   leave a position undecided, the player to move has a move that is not safe.
   The counts and the generators are separate pieces of bit arithmetic.       *)
AssertsHold == pc # "aborted"

(* move.h:72 "Union of these two stages should equal above": a position that
   is not cut off hands out every move move_generator lists, each once, though
   the stages are computed at different times.                                *)
EveryMoveOnce ==
  pc = "exhausted" =>
    /\ Len(given) = Cardinality(ListedMoves(turn))
    /\ {<<given[i].array_index, given[i].mask_index>> : i \in DOMAIN given} = ListedMoves(turn)

(* Although the list is filled piece by piece between moves that are played and
   taken back, what has been handed out is the beginning of the order that the
   position alone determines.  Search relies on it.                           *)
GivenAsStaged ==
  pc \in {"loop", "exhausted"} =>
    LET order == IF stage = All THEN AllMoves(turn) ELSE StagedMoves(turn)
    IN  /\ Len(given) <= Len(order)
        /\ \A i \in DOMAIN given : given[i] = Where(order[i])
        /\ pc = "exhausted" => Len(given) = Len(order)

(* Whenever the list looks at the board it is the board of the position, with
   all its figures: every move was taken back completely.                     *)
BoardRestored == pc \in {"advance", "loop", "cutoff", "exhausted"} => Position = saved

\* A position is always left: the stages end, and no move given is unplayable.
PositionIsLeft == [](pc # "idle" => <>(pc = "idle"))

=============================================================================
