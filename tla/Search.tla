------------------------------- MODULE Search -------------------------------
(***************************************************************************)
(* src/obsequi/negamax.cc and transposition.cc: search_for_move, the       *)
(* negamax it calls and the table of results, over the board of Board, the *)
(* moves of MoveOrder and the bounds of ScoreBoard.  The recursion is a    *)
(* stack of frames; the driver's frame is the first.                       *)
(*                                                                         *)
(* A frame takes its moves when it is entered.  The code generates them in *)
(* stages while the search goes on; MoveList shows that the order is the   *)
(* same.                                                                   *)
(***************************************************************************)
EXTENDS MoveOrder, ScoreBoard

CONSTANTS
  Horizons,   \* the depths of the iterations: <<1, 45>> in the code
  HashBits,   \* the bits of an index of the table
  Zobrists,   \* what the random values of the squares may be, cut to HashBits
  NodeUnit    \* a result's cost is counted in so many nodes: 32 in the code

Bit == 0 .. (Rows * Cols - 1)

ASSUME SearchAssumption ==
  /\ \A h \in Horizons : h \in Seq(Nat \ {0}) /\ h # <<>>
  /\ Zobrists \subseteq [Bit -> SUBSET HashBits]
  /\ NodeUnit \in Nat \ {0}

VARIABLES
  zobrist,    \* zobrist
  horizons,   \* the iterations of this search
  table,      \* trans_table
  nodeCount,  \* stats->node_count_
  turn,       \* the player search_for_move is called for
  iteration,  \* which of the horizons is being searched
  stack,      \* the driver and the calls of negamax that have moves
  pc, value,  \* the step to be taken, the value last returned
  chosen      \* row and col of the result

searchVars == <<zobrist, horizons, table, nodeCount, turn, iteration, stack, pc, value, chosen>>
allVars    == <<vars, searchVars>>

NoMove == [array_index |-> -1, mask_index |-> -1]

Top == stack[Len(stack)]

Frame(s, remaining, alpha, beta, moves, start) ==
  [side |-> s, remaining |-> remaining, alpha |-> alpha, beta |-> beta,
   moves |-> moves, next |-> 0, startNodes |-> start]

-----------------------------------------------------------------------------
(* The transposition table.                                                  *)

FlipOrder == <<"normal", "vert", "horz", "vert_horz">>

\* code & mask_: the values of the occupied squares, xored.
Slot(key) == {h \in HashBits : Cardinality({b \in key : h \in zobrist[b]}) % 2 = 1}

EmptyTable ==
  [i \in SUBSET HashBits |-> [key |-> {}, nodes |-> 0, value |-> 0, depth |-> 0]]

\* The first of the four images whose place holds a result that cost no more.
Store(depth, nodes, v) ==
  LET place(i) == Slot(hashkey[FlipOrder[i]])
      cheaper  == {i \in DOMAIN FlipOrder : table[place(i)].nodes <= nodes}
      first    == Min(cheaper)
  IN  table' = IF cheaper = {} THEN table
               ELSE [table EXCEPT ![place(first)] =
                       [key |-> hashkey[FlipOrder[first]], nodes |-> nodes,
                        value |-> v, depth |-> depth]]

\* Mutant: the key is taken for granted.
HitsBySlot(depth) ==
  {i \in DOMAIN FlipOrder :
     LET key == hashkey[FlipOrder[i]]
     IN  /\ table[Slot(key)].key # {}
         /\ table[Slot(key)].depth >= depth}

\* The images Lookup finds a deep enough result for; it returns the first one's.
Hits(depth) ==
  {i \in DOMAIN FlipOrder :
     LET key == hashkey[FlipOrder[i]]
     IN  /\ table[Slot(key)].key = key
         /\ table[Slot(key)].depth >= depth}

LookupValue(depth) == table[Slot(hashkey[FlipOrder[Min(Hits(depth))]])].value

-----------------------------------------------------------------------------
SearchInit ==
  /\ zobrist \in Zobrists
  /\ horizons \in Horizons
  /\ table = EmptyTable
  /\ nodeCount = 0 /\ turn = "H" /\ iteration = 0 /\ stack = <<>>
  /\ pc = "idle" /\ value = 0 /\ chosen = NoMove

\* initialize_board places the blocks row by row.
Setup ==
  /\ pc = "idle"
  /\ \E row \in 0 .. (Rows - 1), col \in 0 .. (Cols - 1) :
       /\ \A q \in Occupied : UpTo(q, <<row + 1, col + 1>>)
       /\ SetBlock(row, col)
  /\ UNCHANGED searchVars

\* search_for_move, up to the first iteration.
SearchForMove(s) ==
  /\ pc = "idle"
  /\ turn' = s
  /\ IF IsGameOver(s) # 0
       THEN /\ value' = IsGameOver(s) /\ pc' = "done"
            /\ UNCHANGED <<stack, iteration>>
       ELSE /\ stack' = <<Frame(s, horizons[1], -5000, 5000, AllMoves(s), 0)>>
            /\ iteration' = 1 /\ pc' = "loop"
            /\ UNCHANGED value
  /\ UNCHANGED <<zobrist, horizons, table, nodeCount, chosen, vars>>

\* The next move of the frame is played, and negamax called for the opponent.
Try ==
  /\ pc = "loop"
  /\ Top.next < Len(Top.moves)
  /\ ApplyMove(Top.side, Where(Top.moves[Top.next + 1]))
  /\ stack' = [stack EXCEPT ![Len(stack)].next = @ + 1]
  /\ pc' = "call"
  /\ UNCHANGED <<zobrist, horizons, table, nodeCount, turn, iteration, value, chosen>>

\* The parameters of the call.
Remaining == Top.remaining - 1
Mover     == Opp(Top.side)

Return(v) == value' = v /\ pc' = "return" /\ UNCHANGED stack

\* negamax without moves: the horizon, or a result that is known.
Answer ==
  \/ /\ Remaining <= 0
     /\ Return(IsGameOverExpensive(Mover).score)
  \/ /\ Remaining > 0
     /\ IsGameOver(Mover) # 0
     /\ Return(IsGameOver(Mover))
  \/ /\ Remaining > 0 /\ IsGameOver(Mover) = 0
     /\ Hits(Remaining) # {}
     /\ Return(LookupValue(Remaining))
  \/ /\ Remaining > 0 /\ IsGameOver(Mover) = 0 /\ Hits(Remaining) = {}
     /\ IsGameOverExpensive(Mover).over
     /\ Return(IsGameOverExpensive(Mover).score)

\* negamax with moves to try.
Expand ==
  /\ Remaining > 0 /\ IsGameOver(Mover) = 0 /\ Hits(Remaining) = {}
  /\ ~ IsGameOverExpensive(Mover).over
  /\ stack' = Append(stack, Frame(Mover, Remaining, -Top.beta, -Top.alpha,
                                  StagedMoves(Mover), nodeCount'))
  /\ pc' = "loop"
  /\ UNCHANGED value

Call ==
  /\ pc = "call"
  /\ nodeCount' = nodeCount + 1
  /\ Answer \/ Expand
  /\ UNCHANGED <<zobrist, horizons, table, turn, iteration, chosen, vars>>

\* Mutant: the value is not negated.
ResumeSameSign ==
  /\ pc = "return"
  /\ UndoMove
  /\ value' = value
  /\ stack' = [stack EXCEPT ![Len(stack)].alpha = IF value > @ THEN value ELSE @]
  /\ pc' = IF value >= Top.beta THEN "cutoff" ELSE "loop"
  /\ UNCHANGED <<zobrist, horizons, table, nodeCount, turn, iteration, chosen>>

\* Mutant: a value of beta itself does not end the loop.
ResumeAtBeta ==
  /\ pc = "return"
  /\ UndoMove
  /\ value' = -value
  /\ stack' = [stack EXCEPT ![Len(stack)].alpha = IF -value > @ THEN -value ELSE @]
  /\ pc' = IF -value > Top.beta THEN "cutoff" ELSE "loop"
  /\ UNCHANGED <<zobrist, horizons, table, nodeCount, turn, iteration, chosen>>

(* The call returns: the move is taken back, a value of at least beta ends the
   frame's loop, a better one than alpha raises alpha.                       *)
Resume ==
  /\ pc = "return"
  /\ UndoMove
  /\ value' = -value
  /\ stack' = [stack EXCEPT ![Len(stack)].alpha = IF -value > @ THEN -value ELSE @]
  /\ pc' = IF -value >= Top.beta THEN "cutoff" ELSE "loop"
  /\ UNCHANGED <<zobrist, horizons, table, nodeCount, turn, iteration, chosen>>

LoopEnded == pc = "cutoff" \/ (pc = "loop" /\ Top.next = Len(Top.moves))

\* The end of negamax: the result is stored and returned.
Finish ==
  /\ LoopEnded /\ Len(stack) > 1
  /\ Store(Top.remaining, (nodeCount - Top.startNodes) \div NodeUnit, Top.alpha)
  /\ value' = Top.alpha
  /\ stack' = SubSeq(stack, 1, Len(stack) - 1)
  /\ pc' = "return"
  /\ UNCHANGED <<zobrist, horizons, nodeCount, turn, iteration, chosen, vars>>

\* Mutant: a search that has not found a win is over after its first iteration.
StopAfterFirst ==
  /\ LoopEnded /\ Len(stack) = 1
  /\ pc' = "done"
  /\ chosen' = IF value >= 5000 THEN Where(Top.moves[Top.next]) ELSE NoMove
  /\ UNCHANGED <<zobrist, horizons, table, nodeCount, turn, value, stack, iteration, vars>>

\* Mutant: the next iteration is as deep as this one.
SameHorizon ==
  /\ LoopEnded /\ Len(stack) = 1
  /\ IF value >= 5000 \/ iteration = Len(horizons)
       THEN /\ pc' = "done"
            /\ chosen' = IF value >= 5000 THEN Where(Top.moves[Top.next]) ELSE NoMove
            /\ UNCHANGED <<stack, nodeCount>>
       ELSE /\ nodeCount' = 0 /\ pc' = "loop"
            /\ stack' = <<Frame(turn, horizons[iteration], -5000, 5000, Top.moves, 0)>>
            /\ UNCHANGED chosen
  /\ UNCHANGED <<zobrist, horizons, table, turn, iteration, value, vars>>

\* The end of an iteration of the driver: a win ends the search.
NextIteration ==
  /\ LoopEnded /\ Len(stack) = 1
  /\ IF value >= 5000 \/ iteration = Len(horizons)
       THEN /\ pc' = "done"
            /\ chosen' = IF value >= 5000 THEN Where(Top.moves[Top.next]) ELSE NoMove
            /\ UNCHANGED <<stack, iteration, nodeCount>>
       ELSE /\ iteration' = iteration + 1 /\ nodeCount' = 0 /\ pc' = "loop"
            /\ stack' = <<Frame(turn, horizons[iteration + 1], -5000, 5000, Top.moves, 0)>>
            /\ UNCHANGED chosen
  /\ UNCHANGED <<zobrist, horizons, table, turn, value, vars>>

Run == Try \/ Call \/ Resume \/ Finish \/ NextIteration

SearchNext == Setup \/ (\E s \in Side : SearchForMove(s)) \/ Run

\* Run is enabled: it would be stuck on a move that cannot be played.
Ready == \/ pc \in {"call", "return", "cutoff"}
         \/ /\ pc = "loop"
            /\ Top.next < Len(Top.moves) => Fits(Top.side, Where(Top.moves[Top.next + 1]))

\* The search is a running program: weak fairness of Run.
Running == <>[]Ready => []<><<Run>>_allVars

SearchSpec == Init /\ SearchInit /\ [][SearchNext]_allVars /\ Running

-----------------------------------------------------------------------------
(* Properties.                                                               *)

Values == -5000 .. 5000

SearchTypeOK ==
  /\ \A i \in SUBSET HashBits :
       table[i] \in [key : SUBSET Bit, nodes : Nat, value : Values, depth : Nat]
  /\ \A i \in DOMAIN stack :
       LET f == stack[i]
       IN  /\ f.side = (IF i % 2 = 1 THEN turn ELSE Opp(turn))
           /\ f.alpha \in Values /\ f.beta \in Values
           /\ f.alpha < f.beta \/ (pc \in {"cutoff", "done"} /\ i = Len(stack))
           /\ f.next \in 0 .. Len(f.moves)
  /\ Len(stack) > 0 => Len(played) = Len(stack) - (IF pc \in {"call", "return"} THEN 0 ELSE 1)
  /\ value \in Values

(* With more depth than the position has moves, a search that is over has
   decided: neither the estimates of its earlier iterations nor what they and
   other lines of play left in the table is taken for a result.              *)
SearchDecides ==
  pc = "done" /\ 2 * horizons[Len(horizons)] > emptySquares => value \in {5000, -5000}

(* A frame keeps its moves while it plays and takes back others: the one it
   turns to next can still be played, so a search is never stuck.            *)
NeverStuck == pc \notin {"idle", "done"} => Ready

\* The move a search names can be played on the board it leaves.
ChosenFits == pc = "done" /\ chosen # NoMove => chosen \in Moves(turn) /\ Fits(turn, chosen)

\* A search that runs is over some day, whatever the table answers.
Terminates == [](pc # "idle" => <>(pc = "done"))

=============================================================================
