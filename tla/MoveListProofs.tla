--------------------------- MODULE MoveListProofs ---------------------------
(***************************************************************************)
(* For every size of board: the assertions that a stage finds a move never *)
(* fail, the board comes back from every move that is played and taken     *)
(* back, and the list that is filled in between hands out the moves of the *)
(* position, each once, in the order the position determines.              *)
(***************************************************************************)
EXTENDS MoveList, BoardProofs

-----------------------------------------------------------------------------
(* The list.  Until stage 0 has run, the board is the one IsGameOver left
   undecided, and nothing has been handed out.                                *)

ListInv ==
  /\ IInv
  /\ turn \in Side
  /\ curr \in Int /\ curr >= -1
  /\ pc = "loop" => curr >= 0
  /\ stage = 0 => length = 0
  /\ pc = "below" => stage # 0
  /\ pc \in {"advance", "loop"} /\ stage = 0 => IsGameOver(turn) = 0
  /\ AssertsHold

LEMMA ListInitEstablishes == Init /\ ListInit => ListInv
BY InitEstablishes DEF ListInit, ListInv, AssertsHold, Side

LEMMA SameBoard ==
  ASSUME UNCHANGED vars
  PROVE  /\ IInv' <=> IInv
         /\ \A s \in Side : IsGameOver(s)' = IsGameOver(s)
BY DEF vars, figures, IInv, Typed, ViewsAgree, LinesExact, TotalsExact, EmptyExact,
       PlayedPresent, Occupied, IsGameOver

LEMMA EnterKeeps ==
  ASSUME ListInv, NEW s \in Side, Enter(s) \/ EnterAll(s)
  PROVE  ListInv'
<1>1. /\ UNCHANGED vars /\ turn' = s /\ curr' = -1 /\ IsGameOver(s) = 0
  BY DEF Enter, EnterAll
<1>2. IInv' /\ IsGameOver(s)' = 0
  BY <1>1, SameBoard DEF ListInv
<1>3. CASE Enter(s)
  BY <1>1, <1>2, <1>3 DEF Enter, ListInv, AssertsHold, IsGameOver
<1>4. CASE EnterAll(s)
  <2>1. Generated(ListedMoves(s)) # <<>>
    <3>1. ListedMoves(s) \in SUBSET PlacesOf(s)
      BY WordsHere, MovesHere, StagesArePlaces DEF ListInv
    <3>2. ListedMoves(s) # {}
      BY <1>1, NoMoveMeansDecided DEF ListInv
    <3> QED
      BY <3>1, <3>2, NothingGenerated
  <2>2. pc' = "advance" /\ stage' = All
    BY <1>4, <2>1 DEF EnterAll
  <2> QED
    BY <1>1, <1>2, <2>2 DEF ListInv, AssertsHold, All
<1> QED
  BY <1>3, <1>4

LEMMA GenerateKeeps ==
  ASSUME ListInv, Generate
  PROVE  ListInv'
<1>1. /\ UNCHANGED vars /\ UNCHANGED <<curr, turn>> /\ pc = "loop"
  BY DEF Generate
<1>2. IInv'
  BY <1>1, SameBoard DEF ListInv
<1>3. CASE GenerateFirst
  <2>1. ListedMoves(turn) # {}
    BY <1>1, <1>3, NoMoveMeansDecided DEF ListInv, GenerateFirst
  <2>2. OpenMoves(turn) # {} \/ HalfSafeMoves(turn) # {}
    BY <2>1, StagesPartitionMoves DEF ListInv
  <2>3. OpenMoves(turn) \in SUBSET PlacesOf(turn) /\ HalfSafeMoves(turn) \in SUBSET PlacesOf(turn)
    BY WordsHere, MovesHere, StagesArePlaces DEF ListInv
  <2>4. Generated(OpenMoves(turn)) # <<>> \/ Generated(HalfSafeMoves(turn)) # <<>>
    BY <2>2, <2>3, NothingGenerated DEF ListInv
  <2>5. pc' = pc /\ stage' \in {1, 3}
    BY <1>3, <2>4 DEF GenerateFirst
  <2> QED
    BY <1>1, <1>2, <2>5 DEF ListInv, AssertsHold
<1>4. CASE SortRest \/ AppendHalfSafe
  BY <1>1, <1>2, <1>4 DEF SortRest, AppendHalfSafe, ListInv, AssertsHold
<1> QED
  BY <1>3, <1>4 DEF Generate

LEMMA IterateKeeps ==
  ASSUME ListInv, Iterate
  PROVE  ListInv'
<1>1. CASE Advance
  BY <1>1, SameBoard DEF Advance, ListInv, AssertsHold
<1>2. CASE Generate
  BY <1>2, GenerateKeeps
<1>3. CASE Give
  <2>1. \E m \in Moves(turn) : ApplyMove(turn, m)
    BY <1>3 DEF Give
  <2>2. IInv'
    BY <2>1, ApplyMoveKeeps DEF ListInv
  <2>3. stage # 0
    BY <1>3 DEF Give, ListInv
  <2> QED
    BY <1>3, <2>2, <2>3 DEF Give, list, ListInv, AssertsHold
<1>4. CASE Retreat
  <2>1. IInv'
    BY <1>4, UndoMoveKeeps DEF Retreat, ListInv
  <2> QED
    BY <1>4, <2>1 DEF Retreat, list, ListInv, AssertsHold
<1>5. CASE Exhaust
  BY <1>5, SameBoard DEF Exhaust, list, ListInv, AssertsHold
<1>6. CASE Leave
  BY <1>6, SameBoard DEF Leave, ListInv, AssertsHold
<1> QED
  BY <1>1, <1>2, <1>3, <1>4, <1>5, <1>6 DEF Iterate

LEMMA ListStepKeeps == ListInv /\ [ListNext]_allVars => ListInv'
<1> SUFFICES ASSUME ListInv, [ListNext]_allVars
             PROVE  ListInv'
  OBVIOUS
<1>1. CASE Setup
  <2>1. IInv'
    BY <1>1, SetBlockKeeps DEF Setup, ListInv
  <2> QED
    BY <1>1, <2>1 DEF Setup, listVars, list, ListInv, AssertsHold
<1>2. CASE \E s \in Side : Enter(s) \/ EnterAll(s)
  BY <1>2, EnterKeeps
<1>3. CASE Iterate
  BY <1>3, IterateKeeps
<1>4. CASE UNCHANGED allVars
  BY <1>4, SameBoard DEF allVars, listVars, list, ListInv, AssertsHold
<1> QED
  BY <1>1, <1>2, <1>3, <1>4 DEF ListNext

(* In every position the search enters, the generator finds a move: the
   assertions of GenerateNextMoves and GenerateAllMoves hold.                 *)
THEOREM AssertionsNeverFail == ListSpec => []AssertsHold
<1>1. ListInv => AssertsHold
  BY DEF ListInv
<1> QED
  BY <1>1, ListInitEstablishes, ListStepKeeps, PTL DEF ListSpec

-----------------------------------------------------------------------------
(* The board below a move.                                                   *)

\* The words after taking the last move back.
WordsBack == Toggled(played[Len(played)].side, played[Len(played)].move)

(* While a move is being searched, the words it will give back when it is
   undone are those the list looked at, and so are the figures that belong to
   them.                                                                      *)
BelowIsOneMoveAway ==
  pc = "below" =>
    /\ played # <<>>
    /\ saved = <<WordsBack, FiguresOf(WordsBack)>>

RestoreInv ==
  /\ ListInv
  /\ KeysExact
  /\ OffLinesZero
  /\ BoardRestored
  /\ BelowIsOneMoveAway

\* In every state the invariant allows, the position is its words.
LEMMA PositionIsWords ==
  /\ RestoreInv => Position = <<board, FiguresOf(board)>>
  /\ RestoreInv /\ [ListNext]_allVars =>
       ListInv' /\ KeysExact' /\ OffLinesZero' /\ Position' = <<board', FiguresOf(board')>>
<1>0. (IInv /\ KeysExact /\ OffLinesZero)' => (figures = FiguresOf(board))'
  BY FiguresOfTheBoard, PTL
<1>1. ASSUME RestoreInv
      PROVE  Position = <<board, FiguresOf(board)>>
  BY <1>1, FiguresOfTheBoard DEF RestoreInv, ListInv, Position
<1>2. ASSUME RestoreInv, [ListNext]_allVars
      PROVE  /\ ListInv' /\ KeysExact' /\ OffLinesZero'
             /\ Position' = <<board', FiguresOf(board')>>
  <2>1. [Next]_vars
    BY <1>2 DEF ListNext, Setup, Enter, EnterAll, Iterate, Advance, Generate, Give, Retreat,
                Exhaust, Leave, Next, RestoreInv, ListInv, allVars
  <2>2. ListInv' /\ KeysExact' /\ OffLinesZero'
    BY <1>2, <2>1, ListStepKeeps, KeysStayExact, OffLinesStayZero DEF RestoreInv, ListInv
  <2> QED
    BY <1>0, <2>2 DEF ListInv, Position
<1> QED
  BY <1>1, <1>2

\* Applying the move, and nothing else, leads below it.
LEMMA GivenMoveIsOneAway ==
  ASSUME RestoreInv, Give, Position = <<board, FiguresOf(board)>>
  PROVE  WordsBack' = board /\ BoardRestored' /\ BelowIsOneMoveAway'
<1>1. PICK m \in Moves(turn) : ApplyMove(turn, m)
  BY DEF Give
<1>2. turn \in Side /\ board \in [Side -> [Idx -> SUBSET Idx]]
  BY DEF RestoreInv, ListInv, IInv, Typed
<1>3. played'[Len(played')] = [side |-> turn, move |-> m] /\ played' # <<>>
  <2>1. /\ played \in Seq([side : Side, move : UNION {Moves(s) : s \in Side}])
        /\ [side |-> turn, move |-> m] \in [side : Side, move : UNION {Moves(s) : s \in Side}]
        /\ played' = Append(played, [side |-> turn, move |-> m])
    BY <1>1, <1>2 DEF ApplyMove, RestoreInv, ListInv, IInv, Typed
  <2> QED
    BY <2>1, AppendProperties
<1>4. board' = Flipped(board, turn, m)
  BY <1>1 DEF ApplyMove, ToggleMove, Toggled, Flipped
<1>5. Flipped(board', turn, m) = board
  BY <1>2, <1>4, FlippedTwice
<1>6. saved = <<board, FiguresOf(board)>> /\ saved' = saved /\ pc' = "below"
  BY DEF Give, RestoreInv, BoardRestored
<1>7. WordsBack' = Flipped(board', turn, m)
  BY <1>3 DEF WordsBack, Toggled, Flipped
<1> QED
  BY <1>3, <1>5, <1>6, <1>7 DEF BoardRestored, BelowIsOneMoveAway

LEMMA RestoreStepKeeps == RestoreInv /\ [ListNext]_allVars => RestoreInv'
<1> SUFFICES ASSUME RestoreInv, [ListNext]_allVars
             PROVE  RestoreInv'
  OBVIOUS
<1>1. /\ Position = <<board, FiguresOf(board)>>
      /\ ListInv' /\ KeysExact' /\ OffLinesZero'
      /\ Position' = <<board', FiguresOf(board')>>
  BY PositionIsWords
<1>2. BoardRestored' /\ BelowIsOneMoveAway'
  <2>1. CASE Setup
    BY <2>1 DEF Setup, listVars, BoardRestored, BelowIsOneMoveAway
  <2>2. CASE \E s \in Side : Enter(s) \/ EnterAll(s)
    <3>1. UNCHANGED vars /\ pc' \in {"advance", "aborted"} /\ saved' = Position
      BY <2>2 DEF Enter, EnterAll
    <3> QED
      BY <3>1 DEF Position, vars, BoardRestored, BelowIsOneMoveAway
  <2>3. CASE Advance \/ Generate \/ Exhaust
    <3>1. /\ UNCHANGED vars /\ UNCHANGED saved /\ pc \in {"advance", "loop"}
          /\ pc' \in {"loop", "aborted", "exhausted"}
      BY <2>3 DEF Advance, Generate, GenerateFirst, SortRest, AppendHalfSafe, Exhaust
    <3>2. Position = saved
      BY <3>1 DEF RestoreInv, BoardRestored
    <3> QED
      BY <3>1, <3>2 DEF Position, vars, BoardRestored, BelowIsOneMoveAway
  <2>4. CASE Give
    BY <1>1, <2>4, GivenMoveIsOneAway
  <2>5. CASE Retreat
    <3>1. saved = <<WordsBack, FiguresOf(WordsBack)>> /\ saved' = saved /\ pc' # "below"
      BY <2>5 DEF Retreat, RestoreInv, BelowIsOneMoveAway
    <3>2. board' = WordsBack
      BY <2>5 DEF Retreat, UndoMove, ToggleMove, WordsBack
    <3> QED
      BY <1>1, <3>1, <3>2 DEF BoardRestored, BelowIsOneMoveAway
  <2>6. CASE Leave
    BY <2>6 DEF Leave, BoardRestored, BelowIsOneMoveAway
  <2>7. CASE UNCHANGED allVars
    BY <2>7 DEF RestoreInv, allVars, listVars, vars, figures, Position, BoardRestored,
                BelowIsOneMoveAway, WordsBack, Toggled
  <2> QED
    BY <2>1, <2>2, <2>3, <2>4, <2>5, <2>6, <2>7 DEF ListNext, Iterate
<1> QED
  BY <1>1, <1>2 DEF RestoreInv

(* A list that generates a stage after moves were played and taken back sees the
   position it was entered with: the words, every count and every hash key.    *)
THEOREM BoardComesBack == ListSpec => []BoardRestored
<1>1. Init /\ ListInit => RestoreInv
  BY ListInitEstablishes, InitKeys
     DEF RestoreInv, ListInit, BoardRestored, BelowIsOneMoveAway
<1>2. RestoreInv => BoardRestored
  BY DEF RestoreInv
<1> QED
  BY <1>1, <1>2, RestoreStepKeeps, PTL DEF ListSpec

-----------------------------------------------------------------------------
(* What the list holds.                                                      *)

\* The words the list looks at, also while a move is being searched.
Here == IF pc = "below" THEN WordsBack ELSE board

\* The driver's stage is none of those.
LEMMA AllIsApart == All \notin {0, 1, 2, 3, 4}
BY SMT DEF All

Order(v, s, st) == IF st = All THEN AllOn(v, s) ELSE StagedOn(v, s)

\* The stages complete the order piece by piece.
Holds(v, s, st, ms, n, tn) ==
  LET first == FirstOn(v, s)
  IN  /\ st \in {0, 1, 2, 3, 4, All}
      /\ st = 0 => ms = <<>> /\ n = 0
      /\ st \in {1, 3} => /\ ms = FrontOn(v, s, first)
                          /\ n = 1 /\ tn = Len(ms)
      /\ st \in {1, 2} => OpenOn(v, s) # {}
      /\ st = 3 => OpenOn(v, s) = {}
      /\ st = 2 => ms = OrderOn(v, s, first) /\ n = Len(ms)
      /\ st \in {4, All} => ms = Order(v, s, st) /\ n = Len(ms)

LEMMA FirstPart ==
  ASSUME NEW v \in Words, Bordered(v), NEW s \in Side, ListedOn(v, s) # {}
  PROVE  LET front == FrontOn(v, s, FirstOn(v, s))
             order == OrderOn(v, s, FirstOn(v, s))
         IN  /\ front \in Seq(Entry) /\ order \in Seq(Entry) /\ RestOn(v, s) \in Seq(Entry)
             /\ Len(front) = Len(order) /\ Len(front) >= 1
             /\ order = SortTail(front)
             /\ order[1] = front[1]
             /\ StagedOn(v, s) = order \o RestOn(v, s)
<1> DEFINE first == FirstOn(v, s)
           front == FrontOn(v, s, first)
           order == OrderOn(v, s, first)
<1>1. first # {} /\ first \in SUBSET PlacesOf(s)
  BY OrdersCover, StagesArePlaces
<1>2. first \in SUBSET Pair /\ IsFiniteSet(first)
  BY <1>1, PlacesArePairs, FS_Subset
<1>3. Covers(order, first) /\ Covers(front, first) /\ front # <<>>
  BY <1>1, OrderCovers
<1>4. Len(front) = Cardinality(first) /\ Len(order) = Cardinality(first)
  BY <1>2, <1>3, CoveredSize
<1>5. front \in Seq(Entry) /\ order \in Seq(Entry)
  BY <1>3 DEF Covers
<1>6. order = SortTail(front)
  BY <1>1 DEF OrderOn
<1>7. RestOn(v, s) \in Seq(Entry)
  <2>1. CASE OpenOn(v, s) # {}
    <3>1. HalfOn(v, s) \in SUBSET Pair /\ IsFiniteSet(HalfOn(v, s))
      BY StagesArePlaces, PlacesArePairs, FS_Subset
    <3>2. Covers(Generated(HalfOn(v, s)), HalfOn(v, s))
      BY <3>1, GeneratedCovers
    <3> QED
      BY <2>1, <3>2 DEF RestOn, Covers
  <2>2. CASE OpenOn(v, s) = {}
    BY <2>2 DEF RestOn
  <2> QED
    BY <2>1, <2>2
<1>8. StagedOn(v, s) = order \o RestOn(v, s)
  BY DEF StagedOn
<1> HIDE DEF front, order, first
<1>9. Len(front) >= 1 /\ front[1] = Head(front)
  BY <1>3, <1>5
<1>10. order[1] = front[1]
  <2> DEFINE tail == Sorted[Tail(front)]
  <2>1. order = <<front[1]>> \o tail
    BY <1>6, <1>9 DEF SortTail
  <2> HIDE DEF tail
  <2> QED
    BY <2>1
<1> QED
  BY <1>4, <1>5, <1>6, <1>7, <1>8, <1>9, <1>10 DEF front, order, first

\* Whatever the stage, the list is the beginning of the order.
LEMMA HoldsBeginning ==
  ASSUME NEW v \in Words, Bordered(v), NEW s \in Side, ListedOn(v, s) # {},
         NEW st, NEW ms, NEW n, NEW tn, Holds(v, s, st, ms, n, tn)
  PROVE  /\ Order(v, s, st) \in Seq(Entry)
         /\ n \in Nat /\ n <= Len(Order(v, s, st))
         /\ \A i \in 1 .. n : ms[i] = Order(v, s, st)[i]
         /\ st \in {4, All} => n = Len(Order(v, s, st))
<1> DEFINE front == FrontOn(v, s, FirstOn(v, s))
           order == OrderOn(v, s, FirstOn(v, s))
           rest  == RestOn(v, s)
           whole == Order(v, s, st)
<1>1. /\ front \in Seq(Entry) /\ order \in Seq(Entry) /\ rest \in Seq(Entry)
      /\ Len(front) = Len(order) /\ Len(front) >= 1
      /\ order[1] = front[1]
      /\ StagedOn(v, s) = order \o rest
  BY FirstPart
<1>2. AllOn(v, s) \in Seq(Entry)
  BY OrdersCover DEF Covers
<1> HIDE DEF front, order, rest
<1>3. /\ StagedOn(v, s) \in Seq(Entry)
      /\ Len(StagedOn(v, s)) = Len(order) + Len(rest)
      /\ Len(order) \in Nat /\ Len(rest) \in Nat
      /\ \A i \in 1 .. Len(order) : StagedOn(v, s)[i] = order[i]
  BY <1>1
<1>4. whole \in Seq(Entry) /\ Len(whole) \in Nat
  BY <1>2, <1>3 DEF Order
<1>5. CASE st = 0
  BY <1>4, <1>5, AllIsApart DEF Holds
<1>6. CASE st \in {1, 3}
  <2>1. ms = front /\ n = 1 /\ whole = StagedOn(v, s)
    BY <1>6, AllIsApart DEF Holds, front, Order
  <2> HIDE DEF whole
  <2>2. ms[1] = whole[1] /\ n <= Len(whole)
    BY <1>1, <1>3, <2>1
  <2>3. st \notin {4, All}
    BY <1>6, AllIsApart
  <2>4. \A i \in 1 .. n : ms[i] = whole[i]
    BY <2>1, <2>2
  <2>5. n \in Nat
    BY <2>1
  <2> QED
    BY <1>4, <2>2, <2>3, <2>4, <2>5 DEF whole
<1>7. CASE st = 2
  <2>1. ms = order /\ n = Len(order) /\ whole = StagedOn(v, s) /\ st \notin {4, All}
    BY <1>7, AllIsApart DEF Holds, order, Order
  <2> HIDE DEF whole
  <2>2. n \in Nat /\ n <= Len(whole) /\ \A i \in 1 .. n : ms[i] = whole[i]
    BY <1>1, <1>3, <2>1
  <2> QED
    BY <1>4, <2>1, <2>2 DEF whole
<1>8. CASE st \in {4, All}
  <2>1. ms = whole /\ n = Len(whole)
    BY <1>8 DEF Holds
  <2> HIDE DEF whole
  <2> QED
    BY <1>4, <2>1 DEF whole
<1> QED
  BY <1>5, <1>6, <1>7, <1>8 DEF Holds

\* Stage 0 leaves the scored moves of the first stage that has any.
LEMMA HoldsFirst ==
  ASSUME NEW v \in Words, Bordered(v), NEW s \in Side, ListedOn(v, s) # {}
  PROVE  LET front == FrontOn(v, s, FirstOn(v, s))
         IN  Holds(v, s, IF OpenOn(v, s) # {} THEN 1 ELSE 3, front, 1, Len(front))
BY AllIsApart DEF Holds

\* Stages 1 and 3 sort them.
LEMMA HoldsSorted ==
  ASSUME NEW v \in Words, Bordered(v), NEW s \in Side, ListedOn(v, s) # {},
         NEW st \in {1, 3}, NEW ms, NEW n, NEW tn, Holds(v, s, st, ms, n, tn)
  PROVE  Holds(v, s, IF st = 1 THEN 2 ELSE 4, SortTail(ms), tn, tn)
<1> DEFINE front == FrontOn(v, s, FirstOn(v, s))
           order == OrderOn(v, s, FirstOn(v, s))
<1>1. /\ order = SortTail(front) /\ order \in Seq(Entry)
      /\ Len(front) = Len(order)
      /\ StagedOn(v, s) = order \o RestOn(v, s)
  BY FirstPart
<1>2. ms = front /\ tn = Len(ms)
  BY DEF Holds, front
<1>3. CASE st = 1
  <2>1. OpenOn(v, s) # {}
    BY <1>3 DEF Holds
  <2> QED
    BY <1>1, <1>2, <1>3, <2>1, AllIsApart DEF Holds, order
<1>4. CASE st = 3
  <2>1. OpenOn(v, s) = {}
    BY <1>4 DEF Holds
  <2>2. RestOn(v, s) = <<>>
    BY <2>1 DEF RestOn
  <2> HIDE DEF order, front
  <2>3. StagedOn(v, s) = order
    BY <1>1, <2>2
  <2>4. Order(v, s, 4) = order
    BY <2>3, AllIsApart DEF Order
  <2> QED
    BY <1>1, <1>2, <1>4, <2>4, AllIsApart DEF Holds
<1> QED
  BY <1>3, <1>4

\* Stage 2 appends the half safe moves.
LEMMA HoldsAppended ==
  ASSUME NEW v \in Words, Bordered(v), NEW s \in Side, ListedOn(v, s) # {},
         NEW ms, NEW n, NEW tn, Holds(v, s, 2, ms, n, tn),
         NEW more, more = Generated(HalfOn(v, s))
  PROVE  Holds(v, s, 4, SubSeq(ms, 1, n) \o more, n + Len(more), tn)
<1> DEFINE order == OrderOn(v, s, FirstOn(v, s))
           whole == SubSeq(ms, 1, n) \o more
<1>1. /\ order \in Seq(Entry) /\ RestOn(v, s) \in Seq(Entry)
      /\ StagedOn(v, s) = order \o RestOn(v, s)
  BY FirstPart
<1>2. ms = order /\ n = Len(order) /\ OpenOn(v, s) # {}
  BY AllIsApart DEF Holds
<1>3. RestOn(v, s) = more
  BY <1>2 DEF RestOn
<1> HIDE DEF order
<1>4. SubSeq(ms, 1, n) = order
  BY <1>1, <1>2
<1>5. whole = StagedOn(v, s) /\ n + Len(more) = Len(whole)
  <2>1. whole = order \o more
    BY <1>4
  <2> HIDE DEF whole
  <2> QED
    BY <1>1, <1>2, <1>3, <2>1
<1>6. whole = Order(v, s, 4)
  BY <1>5, AllIsApart DEF Order
<1> HIDE DEF whole
<1>7. Holds(v, s, 4, whole, n + Len(more), tn)
  BY <1>5, <1>6, AllIsApart DEF Holds
<1> QED
  BY <1>7 DEF whole

-----------------------------------------------------------------------------
(* The moves handed out are the beginning of the order of the position.      *)

InPosition == pc \in {"advance", "loop", "below", "exhausted"}

ListHolds ==
  InPosition => /\ Here \in Words /\ Bordered(Here) /\ ListedOn(Here, turn) # {}
                /\ Holds(Here, turn, stage, moves, length, trueLength)

GivenInOrder ==
  InPosition =>
    /\ given \in Seq(Moves(turn))
    /\ Len(given) = IF pc \in {"advance", "below"} THEN curr + 1 ELSE curr
    /\ Len(given) <= length
    /\ \A i \in 1 .. Len(given) : given[i] = Where(Order(Here, turn, stage)[i])
    /\ pc = "exhausted" => Len(given) = length /\ stage \in {4, All}

OrderInv == RestoreInv /\ ListHolds /\ GivenInOrder

LEMMA OrderInit == Init /\ ListInit => OrderInv
<1>1. Init /\ ListInit => RestoreInv
  BY ListInitEstablishes, InitKeys
     DEF RestoreInv, ListInit, BoardRestored, BelowIsOneMoveAway
<1> QED
  BY <1>1 DEF ListInit, OrderInv, ListHolds, GivenInOrder, InPosition

\* A position is entered with an empty list, or with all moves in their order.
LEMMA EnterOrder ==
  ASSUME OrderInv, NEW s \in Side, Enter(s) \/ EnterAll(s)
  PROVE  ListHolds' /\ GivenInOrder'
<1>1. IInv /\ IsGameOver(s) = 0 /\ board' = board /\ turn' = s /\ given' = <<>> /\ curr' = -1
  BY DEF OrderInv, RestoreInv, ListInv, Enter, EnterAll, vars
<1>2. board \in Words /\ Bordered(board)
  BY <1>1, WordsHere
<1>3. ListedMoves(s) # {} /\ ListedMoves(s) = ListedOn(board, s)
  BY <1>1, NoMoveMeansDecided, MovesHere
<1>4. ASSUME NEW st, NEW ms, NEW n, Holds(board, s, st, ms, n, trueLength), n >= 0,
             stage' = st, moves' = ms, length' = n, trueLength' = trueLength, pc' = "advance"
      PROVE  ListHolds' /\ GivenInOrder'
  <2>1. Here' = board
    BY <1>1, <1>4 DEF Here
  <2>2. ListHolds'
    BY <1>1, <1>2, <1>3, <1>4, <2>1 DEF ListHolds
  <2>3. GivenInOrder'
    BY <1>1, <1>4 DEF GivenInOrder
  <2> QED
    BY <2>2, <2>3
<1>5. CASE Enter(s)
  <2>1. Holds(board, s, 0, <<>>, 0, trueLength)
    BY AllIsApart DEF Holds
  <2> QED
    BY <1>4, <1>5, <2>1 DEF Enter
<1>6. CASE EnterAll(s)
  <2> DEFINE ms == Generated(ListedMoves(s))
             n == Len(ms)
  <2>1. ListedOn(board, s) \in SUBSET PlacesOf(s)
    BY <1>2, StagesArePlaces
  <2>2. ListedOn(board, s) \in SUBSET Pair /\ IsFiniteSet(ListedOn(board, s))
    BY <2>1, PlacesArePairs, FS_Subset
  <2>3. Covers(ms, ListedOn(board, s)) /\ Covers(AllOn(board, s), ListedOn(board, s))
    BY <1>2, <1>3, <2>2, GeneratedCovers, OrdersCover
  <2>4. n = Len(AllOn(board, s)) /\ n \in Nat
    BY <2>2, <2>3, CoveredSize DEF Covers
  <2>5. ms # <<>>
    BY <1>3, <2>1, NothingGenerated
  <2>6. AllMoves(s) = AllOn(board, s)
    BY <1>1, OrdersHere
  <2>7. Holds(board, s, All, AllOn(board, s), n, trueLength)
    BY <2>4, AllIsApart DEF Holds, Order
  <2>8. /\ stage' = All /\ moves' = AllOn(board, s) /\ length' = n
        /\ trueLength' = trueLength /\ pc' = "advance"
    BY <1>6, <2>5, <2>6 DEF EnterAll
  <2> HIDE DEF n, ms
  <2> QED
    BY <1>4, <2>4, <2>7, <2>8
<1> QED
  BY <1>5, <1>6

\* A stage adds to the list, and what was handed out stays.
LEMMA GenerateOrder ==
  ASSUME OrderInv, Generate, pc' # "aborted"
  PROVE  ListHolds' /\ GivenInOrder'
<1> DEFINE w == board
           first == FirstOn(w, turn)
<1>1. /\ pc = "loop" /\ pc' = "loop" /\ board' = board /\ curr' = curr /\ turn' = turn
      /\ given' = given /\ Here = board /\ Here' = board
  BY DEF Generate, GenerateFirst, SortRest, AppendHalfSafe, vars, Here
<1>2. /\ IInv /\ w \in Words /\ Bordered(w) /\ turn \in Side /\ ListedOn(w, turn) # {}
      /\ Holds(w, turn, stage, moves, length, trueLength)
  BY <1>1 DEF OrderInv, RestoreInv, ListInv, ListHolds, InPosition
<1>3. /\ given \in Seq(Moves(turn)) /\ Len(given) = curr /\ Len(given) <= length
      /\ \A i \in 1 .. Len(given) : given[i] = Where(Order(w, turn, stage)[i])
  BY <1>1 DEF OrderInv, GivenInOrder, InPosition
<1> HIDE DEF w
\* The stages before the last complete one order.
<1>4. ASSUME NEW st \in {1, 2, 3, 4}, NEW ms, NEW n, NEW tn, stage \in {0, 1, 2, 3},
             Holds(w, turn, st, ms, n, tn), n >= length,
             stage' = st, moves' = ms, length' = n, trueLength' = tn
      PROVE  ListHolds' /\ GivenInOrder'
  <2>1. Holds(Here', turn', stage', moves', length', trueLength')
    BY <1>1, <1>4 DEF w
  <2>2. ListHolds'
    BY <1>1, <1>2, <2>1 DEF ListHolds, w
  <2>3. Order(w, turn, st) = Order(w, turn, stage)
    BY <1>4, AllIsApart DEF Order
  <2>4. n \in Nat /\ length \in Nat
    BY <1>2, <1>4, HoldsBeginning
  <2>5. Len(given) <= n
    BY <1>3, <1>4, <2>4
  <2>6. Order(Here', turn', stage') = Order(w, turn, stage)
    BY <1>1, <1>4, <2>3 DEF w
  <2>7. GivenInOrder'
    BY <1>1, <1>3, <1>4, <2>5, <2>6 DEF GivenInOrder
  <2> QED
    BY <2>2, <2>7
<1>5. CASE GenerateFirst
  <2> DEFINE st == IF OpenOn(w, turn) # {} THEN 1 ELSE 3
             front == FrontOn(w, turn, first)
  <2>1. /\ OpenOn(w, turn) \in SUBSET PlacesOf(turn) /\ HalfOn(w, turn) \in SUBSET PlacesOf(turn)
        /\ first \in SUBSET PlacesOf(turn) /\ first # {}
    BY <1>2, StagesArePlaces, OrdersCover
  <2>2. OpenMoves(turn) = OpenOn(w, turn) /\ HalfSafeMoves(turn) = HalfOn(w, turn)
    BY <1>2, MovesHere DEF w
  <2>3. /\ Generated(OpenOn(w, turn)) # <<>> <=> OpenOn(w, turn) # {}
        /\ Generated(first) # <<>>
    BY <1>2, <2>1, NothingGenerated
  <2>4. first = IF OpenOn(w, turn) # {} THEN OpenOn(w, turn) ELSE HalfOn(w, turn)
    BY DEF FirstOn
  <2>5. ScoreAndGetFirst(turn, Generated(first)) = front
    BY <1>2, <2>1, FrontHere DEF w
  <2>6. /\ Holds(w, turn, st, front, 1, Len(front))
        /\ Len(front) = Len(Generated(first))
    <3>1. Holds(w, turn, st, front, 1, Len(front))
      BY <1>2, HoldsFirst
    <3>2. first \in SUBSET Pair /\ IsFiniteSet(first)
      BY <1>2, <2>1, PlacesArePairs, FS_Subset
    <3>3. Covers(Generated(first), first)
      BY <3>2, GeneratedCovers
    <3>4. Covers(front, first)
      BY <1>2, <2>1, OrderCovers
    <3>5. Len(front) = Cardinality(first) /\ Len(Generated(first)) = Cardinality(first)
      BY <3>2, <3>3, <3>4, CoveredSize
    <3> QED
      BY <3>1, <3>5
  <2> HIDE DEF first, front
  <2>7. /\ trueLength' = Len(Generated(first)) /\ stage' = st
        /\ moves' = ScoreAndGetFirst(turn, Generated(first)) /\ length' = 1
    BY <1>5, <2>2, <2>3, <2>4 DEF GenerateFirst
  <2>8. stage = 0 /\ length = 0
    BY <1>2, <1>5 DEF GenerateFirst, Holds
  <2> HIDE DEF st
  <2>9. st \in {1, 2, 3, 4}
    BY DEF st
  <2> QED
    BY <1>4, <2>5, <2>6, <2>7, <2>8, <2>9
<1>6. CASE SortRest
  <2>1. /\ stage \in {1, 3} /\ moves' = SortTail(moves) /\ length' = trueLength
        /\ stage' = (IF stage = 1 THEN 2 ELSE 4) /\ trueLength' = trueLength
    BY <1>6 DEF SortRest
  <2>2. Holds(w, turn, IF stage = 1 THEN 2 ELSE 4, SortTail(moves), trueLength, trueLength)
    BY <1>2, <2>1, HoldsSorted
  <2>3. length = 1 /\ trueLength = Len(moves) /\ moves = FrontOn(w, turn, first)
    BY <1>2, <2>1 DEF Holds
  <2>4. trueLength >= length
    <3>1. Len(FrontOn(w, turn, first)) >= 1
      BY <1>2, FirstPart
    <3> QED
      BY <2>3, <3>1
  <2>5. (IF stage = 1 THEN 2 ELSE 4) \in {1, 2, 3, 4}
    BY <2>1
  <2> QED
    BY <1>4, <2>1, <2>2, <2>4, <2>5
<1>7. CASE AppendHalfSafe
  <2> DEFINE more == Generated(HalfOn(w, turn))
             ms == SubSeq(moves, 1, length) \o more
             n == length + Len(more)
  <2>1. HalfSafeMoves(turn) = HalfOn(w, turn)
    BY <1>2, MovesHere DEF w
  <2>2. /\ stage = 2 /\ moves' = ms /\ length' = n /\ stage' = 4 /\ trueLength' = trueLength
    BY <1>7, <2>1 DEF AppendHalfSafe
  <2>3. Holds(w, turn, 4, ms, n, trueLength)
    BY <1>2, <2>2, HoldsAppended
  <2>4. Len(more) \in Nat
    <3>1. HalfOn(w, turn) \in SUBSET Pair /\ IsFiniteSet(HalfOn(w, turn))
      BY <1>2, StagesArePlaces, PlacesArePairs, FS_Subset
    <3> QED
      BY <3>1, GeneratedCovers DEF Covers
  <2>5. length \in Nat
    BY <1>2, HoldsBeginning
  <2>6. n >= length
    BY <2>4, <2>5
  <2> HIDE DEF ms, n
  <2> QED
    BY <1>4, <2>2, <2>3, <2>6
<1> QED
  BY <1>5, <1>6, <1>7 DEF Generate

\* The move handed out is the next of the order.
LEMMA GiveOrder ==
  ASSUME OrderInv, Give, WordsBack' = board
  PROVE  ListHolds' /\ GivenInOrder'
<1> DEFINE order == Order(board, turn, stage)
           m == Where(moves[curr + 1])
<1>1. /\ pc = "loop" /\ pc' = "below" /\ Here = board /\ Here' = board
      /\ UNCHANGED <<moves, curr, length, stage, trueLength, turn>>
      /\ curr < length /\ m \in Moves(turn) /\ given' = Append(given, m)
  BY DEF Give, Here, list
<1>2. /\ board \in Words /\ Bordered(board) /\ turn \in Side /\ ListedOn(board, turn) # {}
      /\ Holds(board, turn, stage, moves, length, trueLength)
      /\ curr \in Int /\ curr >= 0
  BY <1>1 DEF OrderInv, RestoreInv, ListInv, ListHolds, InPosition
<1>3. /\ given \in Seq(Moves(turn)) /\ Len(given) = curr
      /\ \A i \in 1 .. Len(given) : given[i] = Where(order[i])
  BY <1>1 DEF OrderInv, GivenInOrder, InPosition
<1>4. ListHolds'
  BY <1>1, <1>2 DEF ListHolds
<1>5. length \in Nat /\ \A i \in 1 .. length : moves[i] = order[i]
  BY <1>2, HoldsBeginning
<1>6. m = Where(order[curr + 1])
  <2>1. curr + 1 \in 1 .. length
    BY <1>1, <1>2, <1>5
  <2> QED
    BY <1>5, <2>1
<1>7. Order(Here', turn', stage') = order
  BY <1>1
<1> HIDE DEF order, m
<1>8. /\ given' \in Seq(Moves(turn)) /\ Len(given') = curr + 1
      /\ \A i \in 1 .. curr : given'[i] = given[i]
      /\ given'[curr + 1] = m
  BY <1>1, <1>2, <1>3, AppendProperties
<1>9. \A i \in 1 .. Len(given') : given'[i] = Where(order[i])
  BY <1>2, <1>3, <1>6, <1>8
<1>10. curr + 1 <= length
  BY <1>1, <1>2, <1>5
<1>11. GivenInOrder'
  BY <1>1, <1>7, <1>8, <1>9, <1>10 DEF GivenInOrder
<1> QED
  BY <1>4, <1>11

LEMMA OrderStepKeeps == OrderInv /\ [ListNext]_allVars => OrderInv'
<1> SUFFICES ASSUME OrderInv, [ListNext]_allVars
             PROVE  OrderInv'
  OBVIOUS
<1>1. RestoreInv' /\ AssertsHold'
  BY RestoreStepKeeps DEF OrderInv, RestoreInv, ListInv
<1>2. ListHolds' /\ GivenInOrder'
  <2>1. CASE Setup
    BY <2>1 DEF Setup, listVars, ListHolds, GivenInOrder, InPosition
  <2>2. CASE \E s \in Side : Enter(s) \/ EnterAll(s)
    BY <2>2, EnterOrder
  <2>3. CASE Generate
    BY <1>1, <2>3, GenerateOrder DEF AssertsHold
  <2>4. CASE Give
    <3>1. Position = <<board, FiguresOf(board)>>
      BY PositionIsWords DEF OrderInv
    <3>2. WordsBack' = board
      BY <2>4, <3>1, GivenMoveIsOneAway DEF OrderInv
    <3> QED
      BY <2>4, <3>2, GiveOrder
  <2>5. CASE Advance
    <3>1. /\ pc = "advance" /\ pc' = "loop" /\ curr' = curr + 1 /\ board' = board
          /\ UNCHANGED <<moves, length, stage, trueLength, turn, given>>
      BY <2>5 DEF Advance, vars
    <3>2. Here' = Here
      BY <3>1 DEF Here
    <3>3. ListHolds'
      BY <3>1, <3>2 DEF OrderInv, ListHolds, InPosition
    <3>4. GivenInOrder'
      BY <3>1, <3>2 DEF OrderInv, GivenInOrder, InPosition
    <3> QED
      BY <3>3, <3>4
  <2>6. CASE Retreat
    <3>1. /\ pc = "below" /\ pc' \in {"advance", "cutoff"} /\ board' = WordsBack
          /\ UNCHANGED <<moves, curr, length, stage, trueLength, turn, given>>
      BY <2>6 DEF Retreat, UndoMove, ToggleMove, WordsBack, list
    <3>2. Here' = Here
      BY <3>1 DEF Here
    <3>3. ListHolds'
      BY <3>1, <3>2 DEF OrderInv, ListHolds, InPosition
    <3>4. GivenInOrder'
      BY <3>1, <3>2 DEF OrderInv, GivenInOrder, InPosition
    <3> QED
      BY <3>3, <3>4
  <2>7. CASE Exhaust
    <3>1. /\ pc = "loop" /\ pc' = "exhausted" /\ board' = board /\ curr >= length
          /\ stage \notin 0 .. 3
          /\ UNCHANGED <<moves, curr, length, stage, trueLength, turn, given>>
      BY <2>7 DEF Exhaust, vars, list
    <3>2. Here' = Here
      BY <3>1 DEF Here
    <3>3. ListHolds'
      BY <3>1, <3>2 DEF OrderInv, ListHolds, InPosition
    <3>4. /\ Len(given) = curr /\ Len(given) <= length /\ length \in Nat
          /\ stage \in {4, All}
      <4>1. /\ Here \in Words /\ Bordered(Here) /\ turn \in Side /\ ListedOn(Here, turn) # {}
            /\ Holds(Here, turn, stage, moves, length, trueLength)
        BY <3>1 DEF OrderInv, RestoreInv, ListInv, ListHolds, InPosition
      <4>2. length \in Nat
        BY <4>1, HoldsBeginning
      <4>3. stage \in {4, All}
        BY <3>1, <4>1 DEF Holds
      <4> QED
        BY <3>1, <4>2, <4>3 DEF OrderInv, GivenInOrder, InPosition
    <3>5. curr = length
      BY <3>1, <3>4
    <3>6. GivenInOrder'
      BY <3>1, <3>2, <3>4, <3>5 DEF OrderInv, GivenInOrder, InPosition
    <3> QED
      BY <3>3, <3>6
  <2>8. CASE Leave
    BY <2>8 DEF Leave, ListHolds, GivenInOrder, InPosition
  <2>9. CASE UNCHANGED allVars
    <3>1. /\ UNCHANGED <<moves, curr, length, stage, trueLength, turn, given, pc, board, played>>
      BY <2>9 DEF allVars, listVars, list, vars
    <3>2. Here' = Here
      BY <3>1 DEF Here, WordsBack, Toggled
    <3>3. ListHolds'
      BY <3>1, <3>2 DEF OrderInv, ListHolds, InPosition
    <3>4. GivenInOrder'
      BY <3>1, <3>2 DEF OrderInv, GivenInOrder, InPosition
    <3> QED
      BY <3>3, <3>4
  <2> QED
    BY <2>1, <2>2, <2>3, <2>4, <2>5, <2>6, <2>7, <2>8, <2>9 DEF ListNext, Iterate
<1> QED
  BY <1>1, <1>2 DEF OrderInv

LEMMA OrderImpliesStaged == OrderInv => GivenAsStaged
<1> SUFFICES ASSUME OrderInv, pc \in {"loop", "exhausted"}
             PROVE  LET order == IF stage = All THEN AllMoves(turn) ELSE StagedMoves(turn)
                    IN  /\ Len(given) <= Len(order)
                        /\ \A i \in DOMAIN given : given[i] = Where(order[i])
                        /\ pc = "exhausted" => Len(given) = Len(order)
  BY DEF GivenAsStaged
<1> DEFINE order == Order(board, turn, stage)
<1>1. /\ IInv /\ Here = board /\ turn \in Side
      /\ board \in Words /\ Bordered(board) /\ ListedOn(board, turn) # {}
      /\ Holds(board, turn, stage, moves, length, trueLength)
  BY DEF OrderInv, RestoreInv, ListInv, ListHolds, InPosition, Here
<1>2. order = IF stage = All THEN AllMoves(turn) ELSE StagedMoves(turn)
  BY <1>1, OrdersHere DEF Order
<1>3. /\ given \in Seq(Moves(turn)) /\ Len(given) <= length
      /\ \A i \in 1 .. Len(given) : given[i] = Where(order[i])
      /\ pc = "exhausted" => Len(given) = length /\ stage \in {4, All}
  BY <1>1 DEF OrderInv, GivenInOrder, InPosition
<1>4. /\ order \in Seq(Entry) /\ length \in Nat /\ length <= Len(order)
      /\ stage \in {4, All} => length = Len(order)
  BY <1>1, HoldsBeginning
<1>5. /\ Len(given) <= Len(order)
      /\ \A i \in DOMAIN given : given[i] = Where(order[i])
      /\ pc = "exhausted" => Len(given) = Len(order)
  BY <1>3, <1>4
<1> HIDE DEF order
<1> QED
  BY <1>2, <1>5

LEMMA OrderImpliesOnce == OrderInv => EveryMoveOnce
<1> SUFFICES ASSUME OrderInv, pc = "exhausted"
             PROVE  /\ Len(given) = Cardinality(ListedMoves(turn))
                    /\ {<<given[i].array_index, given[i].mask_index>> : i \in DOMAIN given}
                         = ListedMoves(turn)
  BY DEF EveryMoveOnce
<1> DEFINE order == Order(board, turn, stage)
           P == ListedMoves(turn)
<1>1. /\ Here = board /\ turn \in Side
      /\ board \in Words /\ Bordered(board) /\ ListedOn(board, turn) # {}
      /\ Holds(board, turn, stage, moves, length, trueLength)
  BY DEF OrderInv, RestoreInv, ListInv, ListHolds, InPosition, Here
<1>2. P = ListedOn(board, turn)
  BY <1>1, MovesHere
<1>3. Covers(order, P)
  BY <1>1, <1>2, OrdersCover DEF Order
<1>4. P \in SUBSET Pair /\ IsFiniteSet(P)
  BY <1>1, <1>2, StagesArePlaces, PlacesArePairs, FS_Subset
<1>5. Len(order) = Cardinality(P)
  BY <1>3, <1>4, CoveredSize
<1>6. /\ given \in Seq(Moves(turn)) /\ Len(given) = length /\ stage \in {4, All}
      /\ \A i \in 1 .. Len(given) : given[i] = Where(order[i])
  BY <1>1 DEF OrderInv, GivenInOrder, InPosition
<1>7. order \in Seq(Entry) /\ length = Len(order)
  BY <1>1, <1>6, HoldsBeginning
<1> DEFINE at(i) == <<given[i].array_index, given[i].mask_index>>
<1>8. DOMAIN given = DOMAIN order /\ \A i \in DOMAIN given : at(i) = PlaceOf(order[i])
  <2>1. DOMAIN given = 1 .. Len(given) /\ DOMAIN order = 1 .. Len(order)
    BY <1>6, <1>7
  <2>2. ASSUME NEW i \in DOMAIN given
        PROVE  at(i) = PlaceOf(order[i])
    <3>1. given[i] = Where(order[i])
      BY <1>6, <2>1
    <3> QED
      BY <3>1 DEF Where, PlaceOf
  <2> QED
    BY <1>6, <1>7, <2>1, <2>2
<1> HIDE DEF order, at, P
<1>9. {at(i) : i \in DOMAIN given} = P
  BY <1>3, <1>8 DEF Covers
<1> QED
  BY <1>5, <1>6, <1>7, <1>9 DEF at, P

(* move.h:72: a position whose list is exhausted has handed out every move the
   generator lists, each of them once, though the stages were generated from
   boards that had been played on in between.                                 *)
THEOREM ListGivesEveryMoveOnce == ListSpec => []EveryMoveOnce
BY OrderInit, OrderStepKeeps, OrderImpliesOnce, PTL DEF ListSpec

(* At any time what has been handed out is the beginning of the order that the
   position alone determines, and at the end it is all of it.                 *)
THEOREM ListGivesTheOrder == ListSpec => []GivenAsStaged
BY OrderInit, OrderStepKeeps, OrderImpliesStaged, PTL DEF ListSpec

=============================================================================
