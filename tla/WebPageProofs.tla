---------------------------- MODULE WebPageProofs ---------------------------
(***************************************************************************)
(* What holds of the page for every size and every sequence of clicks, on  *)
(* the board or beside it: of the marks of its board, of the requests it   *)
(* makes, in whatever order they are answered, and of the counts it shows, *)
(* which it makes square by square and the solver word by word.            *)
(***************************************************************************)
EXTENDS MCWebPage, FiniteSetTheorems, WellFoundedInduction, TLAPS

Piece == [row : Int, col : Int, vertical : BOOLEAN]

IInv == /\ moves \in Seq(Piece) /\ vertical \in BOOLEAN
        /\ MarksAreTheMoves

LEMMA InitEstablishes == Init => IInv
BY DEF Init, IInv, MarksAreTheMoves, MarksOf

\* A valid piece is laid.
LEMMA LayingKeeps ==
  ASSUME IInv, NEW p \in Piece, Valid(p),
         moves' = Append(moves, p), marks' = marks \cup Blocks(p), vertical' \in BOOLEAN
  PROVE  IInv'
<1> DEFINE n == Len(moves)
<1>1. /\ n \in Nat /\ DOMAIN moves = 1 .. n
      /\ moves' \in Seq(Piece) /\ DOMAIN moves' = 1 .. n + 1
      /\ moves'[n + 1] = p /\ \A i \in 1 .. n : moves'[i] = moves[i]
  BY DEF IInv
<1>2. Blocks(p) \cap marks = {}
  BY DEF Valid
<1>3. \A i \in 1 .. n : Blocks(moves[i]) \subseteq marks
  BY <1>1 DEF IInv, MarksAreTheMoves, MarksOf
<1>4. MarksOf(moves') = MarksOf(moves) \cup Blocks(p)
  <2>1. ASSUME NEW q \in MarksOf(moves')
        PROVE  q \in MarksOf(moves) \cup Blocks(p)
    <3>1. PICK i \in 1 .. n + 1 : q \in Blocks(moves'[i])
      BY <1>1, <2>1 DEF MarksOf
    <3>2. CASE i = n + 1
      BY <1>1, <3>1, <3>2
    <3>3. CASE i \in 1 .. n
      BY <1>1, <3>1, <3>3 DEF MarksOf
    <3> QED
      BY <1>1, <3>1, <3>2, <3>3
  <2>2. ASSUME NEW q \in MarksOf(moves)
        PROVE  q \in MarksOf(moves')
    <3>1. PICK i \in 1 .. n : q \in Blocks(moves[i])
      BY <1>1, <2>2 DEF MarksOf
    <3> QED
      BY <1>1, <3>1 DEF MarksOf
  <2>3. Blocks(p) \subseteq MarksOf(moves')
    BY <1>1 DEF MarksOf
  <2> QED
    BY <2>1, <2>2, <2>3
<1>5. ASSUME NEW i \in 1 .. n + 1, NEW j \in 1 .. n + 1, i # j
      PROVE  Blocks(moves'[i]) \cap Blocks(moves'[j]) = {}
  <2>1. CASE i \in 1 .. n /\ j \in 1 .. n
    BY <1>1, <1>5, <2>1 DEF IInv, MarksAreTheMoves
  <2>2. CASE i = n + 1 /\ j \in 1 .. n
    <3>1. Blocks(moves'[j]) \subseteq marks /\ Blocks(moves'[i]) = Blocks(p)
      BY <1>1, <1>3, <2>2
    <3> QED
      BY <1>2, <3>1
  <2>3. CASE i \in 1 .. n /\ j = n + 1
    <3>1. Blocks(moves'[i]) \subseteq marks /\ Blocks(moves'[j]) = Blocks(p)
      BY <1>1, <1>3, <2>3
    <3> QED
      BY <1>2, <3>1
  <2>4. i \in 1 .. n \/ i = n + 1
    BY <1>1
  <2>5. j \in 1 .. n \/ j = n + 1
    BY <1>1
  <2> QED
    BY <1>5, <2>1, <2>2, <2>3, <2>4, <2>5
<1> QED
  BY <1>1, <1>4, <1>5 DEF IInv, MarksAreTheMoves

LEMMA ReverseKeeps ==
  ASSUME IInv, Reverse
  PROVE  IInv'
<1> DEFINE n == Len(moves)
           p == moves[n]
<1>1. /\ n \in Nat \ {0} /\ DOMAIN moves = 1 .. n /\ p \in Piece
  BY DEF Reverse, IInv
<1>2. /\ moves' = SubSeq(moves, 1, n - 1) /\ marks' = marks \ Blocks(p)
      /\ vertical' = p.vertical
  BY DEF Reverse
<1>3. /\ moves' \in Seq(Piece) /\ DOMAIN moves' = 1 .. n - 1
      /\ \A i \in 1 .. n - 1 : moves'[i] = moves[i]
  BY <1>1, <1>2 DEF IInv
<1>4. MarksOf(moves') = MarksOf(moves) \ Blocks(p)
  <2>1. ASSUME NEW q \in MarksOf(moves')
        PROVE  q \in MarksOf(moves) \ Blocks(p)
    <3>1. PICK i \in 1 .. n - 1 : q \in Blocks(moves[i])
      BY <1>1, <1>3, <2>1 DEF MarksOf
    <3>2. Blocks(moves[i]) \cap Blocks(p) = {}
      BY <1>1 DEF IInv, MarksAreTheMoves
    <3> QED
      BY <1>1, <3>1, <3>2 DEF MarksOf
  <2>2. ASSUME NEW q \in MarksOf(moves) \ Blocks(p)
        PROVE  q \in MarksOf(moves')
    <3>1. PICK i \in 1 .. n : q \in Blocks(moves[i])
      BY <1>1, <2>2 DEF MarksOf
    <3>2. i \in 1 .. n - 1
      BY <1>1, <2>2, <3>1
    <3> QED
      BY <1>3, <3>1, <3>2 DEF MarksOf
  <2> QED
    BY <2>1, <2>2
<1>5. \A i, j \in DOMAIN moves' : i # j => Blocks(moves'[i]) \cap Blocks(moves'[j]) = {}
  BY <1>1, <1>3 DEF IInv, MarksAreTheMoves
<1>6. vertical' \in BOOLEAN
  BY <1>1, <1>2 DEF Piece
<1> QED
  BY <1>2, <1>3, <1>4, <1>5, <1>6 DEF IInv, MarksAreTheMoves

LEMMA StepKeeps == IInv /\ [Next]_vars => IInv'
<1> SUFFICES ASSUME IInv, [Next]_vars
             PROVE  IInv'
  OBVIOUS
<1>1. CASE NewGame
  BY <1>1 DEF NewGame, IInv, MarksAreTheMoves, MarksOf
<1>2. CASE \E row \in CanvasRows, col \in CanvasCols : CanvasClick(row, col)
  <2>1. PICK row \in CanvasRows, col \in CanvasCols : CanvasClick(row, col)
    BY <1>2
  <2> DEFINE p == [row |-> row, col |-> col, vertical |-> vertical]
  <2>2. row \in Int /\ col \in Int
    BY DEF CanvasRows, CanvasCols
  <2>3. p \in Piece
    BY <2>2 DEF Piece, IInv
  <2>4. /\ Valid(p) /\ moves' = Append(moves, p) /\ marks' = marks \cup Blocks(p)
        /\ vertical' = ~ vertical
    BY <2>1 DEF CanvasClick
  <2> QED
    BY <2>3, <2>4, LayingKeeps DEF IInv
<1>3. CASE Reverse
  BY <1>3, ReverseKeeps
<1>4. CASE SolveAgain \/ (\E r \in asked : Answer(r) \/ AnswerHeader(r) \/ AnswerPart(r))
           \/ UNCHANGED vars
  <2>1. UNCHANGED <<moves, marks, vertical>>
    BY <1>4 DEF SolveAgain, Answer, AnswerHeader, AnswerPart, game, vars
  <2> QED
    BY <2>1 DEF IInv, MarksAreTheMoves
<1> QED
  BY <1>1, <1>2, <1>3, <1>4 DEF Next

(* The marks of the page's board are those of the pieces laid and not taken
   back, and these do not overlap, wherever the players click.               *)
THEOREM MarksStayTheMoves == Spec => []MarksAreTheMoves
<1>1. IInv => MarksAreTheMoves
  BY DEF IInv
<1> QED
  BY <1>1, InitEstablishes, StepKeeps, PTL DEF Spec

-----------------------------------------------------------------------------
(* What the page knows of its requests: the latest one, unless a piece sticks
   out of the board, is about the board as it is; and while nothing has gone
   wrong, some request is under way or answered.                              *)
Latest(r) == r.no = posted /\ Rotates(moves) => Shows(r)

RequestInv ==
  /\ posted \in Nat \ {0}
  /\ \A r \in asked : r.no \in 1 .. posted /\ Latest(r)
  /\ metrics.no \in 0 .. posted /\ Latest(metrics)
  /\ faults = {} => server = "up" /\ (asked # {} \/ metrics.no > 0)

LEMMA InitRequests == Init => RequestInv
BY DEF Init, RequestInv, Latest, Shows

\* A request is made for the board as it is from now on.
LEMMA SolvingKeeps ==
  ASSUME RequestInv, Solve(marks', height', width', vertical'),
         UNCHANGED <<metrics, server, faults>>
  PROVE  RequestInv'
<1> DEFINE new == Request(marks', height', width', vertical')
<1>1. posted' = posted + 1 /\ posted' \in Nat \ {0} /\ posted \in Nat \ {0}
  BY DEF Solve, RequestInv
<1>2. \A r : r = new => r.no = posted' /\ Shows(r)'
  BY <1>1 DEF Request, Shows, OnBoard
<1>3. ASSUME NEW r \in asked'
      PROVE  r.no \in 1 .. posted' /\ Latest(r)'
  <2>1. CASE r \in asked
    <3>1. r.no \in 1 .. posted
      BY <2>1 DEF RequestInv
    <3>2. r.no \in 1 .. posted' /\ r.no # posted'
      BY <1>1, <3>1
    <3> QED
      BY <3>2 DEF Latest
  <2>2. CASE r = new
    <3>1. r.no = posted' /\ Shows(r)'
      BY <1>2, <2>2
    <3> QED
      BY <1>1, <3>1 DEF Latest
  <2> QED
    BY <1>3, <2>1, <2>2 DEF Solve
<1>4. metrics'.no \in 0 .. posted' /\ metrics'.no # posted'
  BY <1>1 DEF RequestInv
<1>5. Latest(metrics)'
  BY <1>4 DEF Latest
<1>6. faults' = {} => server' = "up" /\ (asked' # {} \/ metrics'.no > 0)
  BY DEF RequestInv, Solve
<1> QED
  BY <1>1, <1>3, <1>4, <1>5, <1>6 DEF RequestInv

\* The board changes: it is posted, or a piece sticks out of it.
LEMMA UpdatingKeeps ==
  ASSUME RequestInv, Update(marks', moves', height, width, vertical'),
         UNCHANGED <<height, width, metrics, server, faults>>
  PROVE  RequestInv'
<1>1. CASE Rotates(moves')
  <2>1. Solve(marks', height', width', vertical')
    BY <1>1 DEF Update
  <2> QED
    BY <2>1, SolvingKeeps
<1>2. CASE ~ Rotates(moves')
  <2>1. ~ Rotates(moves)'
    BY <1>2 DEF Rotates
  <2>2. UNCHANGED <<posted, asked>>
    BY <1>2 DEF Update
  <2> QED
    BY <2>1, <2>2 DEF RequestInv, Latest
<1> QED
  BY <1>1, <1>2

\* Requests come to their ends, the board stays as it is.
LEMMA AnsweringKeeps ==
  ASSUME RequestInv, NEW r \in asked, Answer(r) \/ AnswerHeader(r) \/ AnswerPart(r)
  PROVE  RequestInv'
<1>1. UNCHANGED <<posted, height, width, marks, moves, vertical>>
  BY DEF Answer, AnswerHeader, AnswerPart, game
<1>2. asked' \subseteq asked /\ metrics' \in {metrics, r}
  BY DEF Answer, AnswerHeader, AnswerPart, GoDown
<1>3. \A q \in asked' : q.no \in 1 .. posted' /\ Latest(q)'
  BY <1>1, <1>2 DEF RequestInv, Latest, Shows, Rotates
<1>4. metrics'.no \in 0 .. posted' /\ Latest(metrics)'
  BY <1>1, <1>2 DEF RequestInv, Latest, Shows, Rotates
<1>5. ASSUME faults' = {}
      PROVE  server' = "up" /\ metrics'.no > 0
  <2>1. ~ Ends(r) /\ metrics' = r /\ UNCHANGED server /\ faults = {}
    BY <1>5 DEF Answer, AnswerHeader, AnswerPart
  <2> QED
    BY <2>1 DEF RequestInv
<1> QED
  BY <1>1, <1>3, <1>4, <1>5 DEF RequestInv

LEMMA RequestsKept == RequestInv /\ [Next]_vars => RequestInv'
<1> SUFFICES ASSUME RequestInv, [Next]_vars
             PROVE  RequestInv'
  OBVIOUS
<1>1. CASE NewGame
  BY <1>1, SolvingKeeps DEF NewGame
<1>2. CASE \E row \in CanvasRows, col \in CanvasCols : CanvasClick(row, col)
  BY <1>2, UpdatingKeeps DEF CanvasClick
<1>3. CASE Reverse
  BY <1>3, UpdatingKeeps DEF Reverse
<1>4. CASE SolveAgain
  <2>1. Solve(marks', height', width', vertical')
    BY <1>4 DEF SolveAgain, game
  <2> QED
    BY <1>4, <2>1, SolvingKeeps DEF SolveAgain
<1>5. CASE \E r \in asked : Answer(r) \/ AnswerHeader(r) \/ AnswerPart(r)
  BY <1>5, AnsweringKeeps
<1>6. CASE UNCHANGED vars
  BY <1>6 DEF RequestInv, Latest, Shows, Rotates, vars, game, network
<1> QED
  BY <1>1, <1>2, <1>3, <1>4, <1>5, <1>6 DEF Next

(* Bounds on the page that stay behind its board have one of the four causes the
   property names, with any sizes and any number of requests, in whatever order
   they reach the server and their answers the page.                          *)
THEOREM StaleOnlyForACause == Spec => []StaleForACause
<1>1. RequestInv => StaleForACause
  BY DEF RequestInv, StaleForACause, Latest
<1> QED
  BY <1>1, InitRequests, RequestsKept, PTL DEF Spec

-----------------------------------------------------------------------------
(* Counting the pieces of a row, as the page and as the solver do.           *)

(* A set of natural numbers has a least element: what stands for induction
   where a proof needs one.                                                  *)
LEMMA LeastNumber ==
  ASSUME NEW T \in SUBSET Nat, T # {}
  PROVE  \E x \in T : \A y \in T : x <= y
<1>1. IsWellFoundedOn(OpToRel(<, Nat), Nat)
  BY NatLessThanWellFounded
<1>2. PICK x \in T : \A y \in T : ~ (<<y, x>> \in OpToRel(<, Nat))
  BY <1>1, WFMin
<1>3. \A y \in T : ~(y < x)
  BY <1>2 DEF OpToRel
<1> QED
  BY <1>3

LEMMA InductiveSet ==
  ASSUME NEW T \in SUBSET Nat, 0 \in T, \A n \in T : n + 1 \in T
  PROVE  T = Nat
<1> SUFFICES ASSUME Nat \ T # {}
             PROVE  FALSE
  OBVIOUS
<1>1. PICK x \in Nat \ T : \A y \in Nat \ T : x <= y
  BY LeastNumber
<1>2. x # 0 /\ x - 1 \in Nat
  BY <1>1
<1>3. x - 1 \in T
  BY <1>1, <1>2
<1> QED
  BY <1>1, <1>3

\* What two numbers agree on from the lowest on, they agree on.
LEMMA AgreeFromZero ==
  ASSUME NEW S, NEW T, 0 \in S <=> 0 \in T,
         \A b \in Nat : (b \in S <=> b \in T) => (b + 1 \in S <=> b + 1 \in T)
  PROVE  \A b \in Nat : b \in S <=> b \in T
<1> DEFINE Agree == {b \in Nat : b \in S <=> b \in T}
<1>1. Agree \in SUBSET Nat /\ 0 \in Agree /\ \A b \in Agree : b + 1 \in Agree
  OBVIOUS
<1> HIDE DEF Agree
<1>2. Agree = Nat
  BY <1>1, InductiveSet
<1> QED
  BY <1>2 DEF Agree

\* No piece of a word without the one before it or itself being counted.
LEMMA CountedOrNextTo ==
  ASSUME NEW mask \in SUBSET Idx, NEW i \in mask
  PROVE  i \in NonOverlapping(mask) \/ i - 1 \in NonOverlapping(mask)
<1> DEFINE T == {k \in Nat : k <= i /\ k .. i \subseteq mask}
<1>0. mask \subseteq Nat /\ i \in Nat
  BY DEF Idx
<1>1. PICK k \in T : \A j \in T : k <= j
  <2>1. i \in T
    BY <1>0
  <2>2. T \in SUBSET Nat /\ T # {}
    BY <2>1
  <2> HIDE DEF T
  <2> QED
    BY <2>2, LeastNumber
<1>2. k - 1 \notin mask
  <2> SUFFICES ASSUME k - 1 \in mask
               PROVE  FALSE
    OBVIOUS
  <2>1. k - 1 \in Nat /\ k - 1 <= i /\ (k - 1) .. i \subseteq mask
    BY <1>0, <1>1
  <2>2. k - 1 \in T
    BY <2>1
  <2> QED
    BY <1>1, <2>2
<1>3. k \in mask /\ k <= i /\ k .. i \subseteq mask /\ k \in Nat
  BY <1>0, <1>1
<1> HIDE DEF T
<1>4. CASE (i - k) % 2 = 0
  BY <1>2, <1>3, <1>4 DEF NonOverlapping
<1>5. CASE (i - k) % 2 # 0
  <2>1. k <= i - 1 /\ ((i - 1) - k) % 2 = 0
    BY <1>0, <1>3, <1>5
  <2>2. i - 1 \in mask /\ k .. (i - 1) \subseteq mask
    BY <1>0, <1>3, <2>1
  <2> QED
    BY <1>2, <1>3, <2>1, <2>2 DEF NonOverlapping
<1> QED
  BY <1>4, <1>5

\* Two counted pieces of a word do not overlap.
LEMMA CountedApart ==
  ASSUME NEW mask \in SUBSET Idx, NEW i \in NonOverlapping(mask)
  PROVE  i + 1 \notin NonOverlapping(mask)
<1> SUFFICES ASSUME i + 1 \in NonOverlapping(mask)
             PROVE  FALSE
  OBVIOUS
<1>1. PICK k \in mask : k <= i /\ (i - k) % 2 = 0 /\ k .. i \subseteq mask /\ k - 1 \notin mask
  BY DEF NonOverlapping
<1>2. PICK j \in mask : /\ j <= i + 1 /\ ((i + 1) - j) % 2 = 0
                        /\ j .. (i + 1) \subseteq mask /\ j - 1 \notin mask
  BY DEF NonOverlapping
<1>3. k \in Int /\ j \in Int /\ i \in Int
  BY DEF Idx, NonOverlapping
<1>4. ~ (j < k)
  <2> SUFFICES ASSUME j < k
               PROVE  FALSE
    OBVIOUS
  <2>1. k - 1 \in j .. (i + 1)
    BY <1>1, <1>3
  <2> QED
    BY <1>1, <1>2, <2>1
<1>5. ~ (k < j)
  <2> SUFFICES ASSUME k < j
               PROVE  FALSE
    OBVIOUS
  <2>1. j - 1 \in k .. i
    BY <1>2, <1>3
  <2> QED
    BY <1>1, <1>2, <2>1
<1>6. j = k
  BY <1>3, <1>4, <1>5
<1> QED
  BY <1>1, <1>2, <1>3, <1>6

\* Which bits are counted, from the lowest on.
LEMMA CountedInTurn ==
  ASSUME NEW mask \in SUBSET Idx, NEW b \in Int
  PROVE  b \in NonOverlapping(mask) <=> b \in mask /\ b - 1 \notin NonOverlapping(mask)
<1>1. NonOverlapping(mask) \subseteq mask
  BY DEF NonOverlapping
<1>2. b \in mask => b \in NonOverlapping(mask) \/ b - 1 \in NonOverlapping(mask)
  BY CountedOrNextTo
<1>3. b - 1 \in NonOverlapping(mask) => (b - 1) + 1 \notin NonOverlapping(mask)
  BY CountedApart
<1>4. (b - 1) + 1 = b
  OBVIOUS
<1> QED
  BY <1>1, <1>2, <1>3, <1>4

\* The lowest one is counted, its neighbour is not, and the others are counted
\* as they would be without these two.
LEMMA LowestIsCounted ==
  ASSUME NEW mask \in SUBSET Idx, NEW b \in mask, \A a \in mask : b <= a
  PROVE  CountMoves(mask) = 1 + CountMoves({a \in mask : a > b + 1})
<1> DEFINE rest == {a \in mask : a > b + 1}
           N == NonOverlapping(mask)
           M == NonOverlapping(rest)
<1>1. b \in Nat /\ rest \in SUBSET Idx /\ mask \subseteq Nat /\ IsFiniteSet(Idx)
  <2>1. IsFiniteSet(Idx)
    BY MaxRowsAssumption, FS_Interval DEF Idx
  <2>2. Idx \subseteq Nat
    BY DEF Idx
  <2> QED
    BY <2>1, <2>2
<1>2. N \subseteq mask /\ M \subseteq rest
  BY DEF NonOverlapping
<1>3. /\ \A a \in Int : a \in N <=> a \in mask /\ a - 1 \notin N
      /\ \A a \in Int : a \in M <=> a \in rest /\ a - 1 \notin M
  BY <1>1, CountedInTurn
<1>4. b \in N /\ b + 1 \notin N /\ b \notin M /\ b + 1 \notin M
  <2>1. b - 1 \notin N /\ b \notin rest /\ b + 1 \notin rest /\ (b + 1) - 1 = b
    BY <1>1, <1>2
  <2> HIDE DEF N, M, rest
  <2>2. b \in N
    BY <1>1, <1>3, <2>1
  <2> QED
    BY <1>1, <1>2, <1>3, <2>1, <2>2
<1> DEFINE S == {a \in Nat : a + b + 2 \in N}
           T == {a \in Nat : a + b + 2 \in M}
<1>5. \A a \in Nat : a + b + 2 \in rest <=> a + b + 2 \in mask
  BY <1>1
<1>6. \A a \in Nat : a \in S <=> a \in T
  <2> HIDE DEF N, M, rest
  <2>1. 0 \in S <=> 0 \in T
    <3>1. 0 + b + 2 = b + 2 /\ (b + 2) - 1 = b + 1 /\ b + 2 \in Int
      BY <1>1
    <3> QED
      BY <1>3, <1>4, <1>5, <3>1
  <2>2. ASSUME NEW a \in Nat, a \in S <=> a \in T
        PROVE  a + 1 \in S <=> a + 1 \in T
    <3>1. (a + 1) + b + 2 \in Int /\ ((a + 1) + b + 2) - 1 = a + b + 2 /\ a + 1 \in Nat
      BY <1>1
    <3> QED
      BY <1>3, <1>5, <2>2, <3>1
  <2> HIDE DEF S, T
  <2> QED
    BY <2>1, <2>2, AgreeFromZero
<1>7. N = M \cup {b}
  <2> HIDE DEF N, M
  <2>1. ASSUME NEW a \in Nat, a >= b + 2
        PROVE  a \in N <=> a \in M
    <3>1. a - (b + 2) \in Nat /\ (a - (b + 2)) + b + 2 = a
      BY <1>1, <2>1
    <3> QED
      BY <1>6, <3>1
  <2>2. \A a \in N : a \in Nat /\ (a = b \/ a >= b + 2)
    BY <1>1, <1>2, <1>4
  <2>3. \A a \in M : a \in Nat /\ a >= b + 2
    BY <1>1, <1>2
  <2> QED
    BY <1>4, <2>1, <2>2, <2>3
<1>8. IsFiniteSet(M)
  BY <1>1, <1>2, FS_Subset
<1> HIDE DEF N, M, rest
<1>9. Cardinality(N) = Cardinality(M) + 1
  BY <1>4, <1>7, <1>8, FS_AddElement
<1>10. Cardinality(M) \in Nat
  BY <1>8, FS_CardinalityType
<1> QED
  BY <1>9, <1>10 DEF CountMoves, N, M, rest

(* The loop of get_real and get_safe over a row places as many pieces as the
   solver counts in the mask of the places where the two squares fit.         *)
LEMMA PiecesAreCounted ==
  ASSUME NEW columns \in 1 .. MaxRows - 2, NEW fitting, NEW mask,
         mask = {b \in 2 .. columns : b - 2 \in fitting /\ b - 1 \in fitting}
  PROVE  PiecesIn(fitting, columns) = CountMoves(mask)
<1> DEFINE rest(c) == {b \in mask : b >= c + 2}
           F == [c \in 0 .. columns + 1 |-> CountMoves(rest(c))]
           Step(f, c) == IF c >= columns - 1 THEN 0
                         ELSE IF {c, c + 1} \subseteq fitting THEN 1 + f[c + 2]
                         ELSE f[c + 1]
           Solves(f) == f = [c \in 0 .. columns + 1 |-> Step(f, c)]
<1>1. columns \in Nat \ {0} /\ mask \in SUBSET Idx /\ mask \subseteq Nat /\ 0 <= columns + 1
  BY MaxRowsAssumption DEF Idx
<1>2. ASSUME NEW c \in 0 .. columns + 1
      PROVE  F[c] = Step(F, c)
  <2>1. CASE c >= columns - 1
    <3>1. rest(c) = {}
      BY <1>1, <2>1
    <3>2. CountMoves({}) = 0
      BY FS_EmptySet DEF CountMoves, NonOverlapping
    <3> QED
      BY <2>1, <3>1, <3>2
  <2>2. CASE c < columns - 1 /\ {c, c + 1} \subseteq fitting
    <3>1. c \in Nat /\ c + 2 \in 0 .. columns + 1 /\ ~ (c >= columns - 1)
      BY <1>1, <2>2
    <3>2. c + 2 \in mask
      BY <1>1, <2>2
    <3>3. /\ rest(c) \in SUBSET Idx /\ c + 2 \in rest(c) /\ \A a \in rest(c) : c + 2 <= a
      BY <1>1, <3>1, <3>2
    <3>4. {a \in rest(c) : a > (c + 2) + 1} = rest(c + 2)
      BY <1>1, <3>1
    <3> HIDE DEF rest
    <3>5. CountMoves(rest(c)) = 1 + CountMoves(rest(c + 2))
      BY <3>3, <3>4, LowestIsCounted
    <3> QED
      BY <2>2, <3>1, <3>5
  <2>3. CASE c < columns - 1 /\ ~ ({c, c + 1} \subseteq fitting)
    <3>1. c \in Nat /\ c + 1 \in 0 .. columns + 1 /\ ~ (c >= columns - 1)
      BY <1>1, <2>3
    <3>2. c + 2 \notin mask
      BY <1>1, <2>3
    <3>3. rest(c) = rest(c + 1)
      BY <1>1, <3>1, <3>2
    <3> HIDE DEF rest
    <3> QED
      BY <2>3, <3>1, <3>3
  <2> QED
    BY <1>1, <2>1, <2>2, <2>3
<1>3. Solves(F)
  <2> HIDE DEF Step
  <2>1. F = [c \in 0 .. columns + 1 |-> F[c]]
    OBVIOUS
  <2> HIDE DEF F
  <2> QED
    BY <1>2, <2>1
<1> DEFINE From == CHOOSE f : Solves(f)
<1>4. Solves(From)
  <2> HIDE DEF Solves
  <2> QED
    BY <1>3
<1>5. PiecesIn(fitting, columns) = From[0]
  BY DEF PiecesIn
<1>6. \A c \in 0 .. columns + 1 : From[c] = Step(From, c)
  <2> HIDE DEF From, Step
  <2> QED
    BY <1>4
<1> DEFINE T == {n \in Nat : \A c \in 0 .. columns + 1 : c + n >= columns - 1 => From[c] = F[c]}
<1>7. T = Nat
  <2> HIDE DEF From, F
  <2>1. 0 \in T
    BY <1>1, <1>2, <1>6
  <2>2. ASSUME NEW n \in T
        PROVE  n + 1 \in T
    <3> SUFFICES ASSUME NEW c \in 0 .. columns + 1, c + (n + 1) >= columns - 1
                 PROVE  From[c] = F[c]
      OBVIOUS
    <3>1. From[c] = Step(From, c) /\ F[c] = Step(F, c)
      BY <1>2, <1>6
    <3>2. CASE c >= columns - 1
      BY <3>1, <3>2
    <3>3. CASE c < columns - 1
      <4>1. c + 1 \in 0 .. columns + 1 /\ c + 2 \in 0 .. columns + 1
        BY <1>1, <3>3
      <4>2. (c + 1) + n >= columns - 1 /\ (c + 2) + n >= columns - 1
        BY <1>1
      <4>3. From[c + 1] = F[c + 1] /\ From[c + 2] = F[c + 2]
        BY <4>1, <4>2
      <4> QED
        BY <3>1, <4>3
    <3> QED
      BY <1>1, <3>2, <3>3
  <2> HIDE DEF T
  <2>3. T \in SUBSET Nat
    BY DEF T
  <2> QED
    BY <2>1, <2>2, <2>3, InductiveSet
<1>8. From[0] = F[0]
  <2>1. columns - 1 \in T
    <3> HIDE DEF T
    <3> QED
      BY <1>1, <1>7
  <2>2. 0 + (columns - 1) >= columns - 1 /\ 0 \in 0 .. columns + 1
    BY <1>1
  <2> HIDE DEF From, F
  <2> QED
    BY <2>1, <2>2
<1>9. F[0] = CountMoves(mask)
  <2>1. rest(0) = mask
    BY <1>1
  <2>2. 0 \in 0 .. columns + 1
    BY <1>1
  <2> HIDE DEF rest
  <2> QED
    BY <2>1, <2>2
<1> QED
  BY <1>5, <1>8, <1>9

-----------------------------------------------------------------------------
(* The page's counts are those of the solver.                                *)

\* Line r + 1 of the solver's view and row r of the page.
LEMMA RowsAreLines ==
  ASSUME NEW set, NEW rows \in 1 .. MaxRows - 2, NEW columns \in 1 .. MaxRows - 2,
         NEW r \in 0 .. rows - 1
  PROVE  LET lines == LinesOf(set, rows, columns)
         IN  /\ PiecesIn({c \in 0 .. columns - 1 : <<r, c>> \notin set}, columns)
                  = CountReal(lines, r + 1)
             /\ PiecesIn({c \in 0 .. columns - 1 : SafeAt(set, rows, r, c)}, columns)
                  = CountSafe(lines, r + 1)
<1> DEFINE lines == LinesOf(set, rows, columns)
           free == {c \in 0 .. columns - 1 : <<r, c>> \notin set}
           safe == {c \in 0 .. columns - 1 : SafeAt(set, rows, r, c)}
<1>1. /\ rows \in Nat /\ columns \in Nat /\ MaxRows \in Nat /\ r \in Nat /\ r < rows
      /\ rows + 2 <= MaxRows /\ columns + 2 <= MaxRows
      /\ \A b \in 2 .. columns : b \in Idx /\ b - 1 \in Idx
      /\ \A b \in Int : b \in Idx <=> 0 <= b /\ b < MaxRows
      /\ Idx \subseteq Nat
  BY MaxRowsAssumption DEF Idx
<1>2. \A l \in 0 .. MaxRows : lines[l] \in SUBSET Idx
  BY DEF LinesOf
<1>3. ASSUME NEW l \in 1 .. rows, NEW b \in Idx
      PROVE  b \in lines[l] <=> b = 0 \/ b > columns \/ <<l - 1, b - 1>> \in set
  <2>1. l \in 0 .. MaxRows /\ l # 0 /\ ~ (l > rows)
    BY <1>1
  <2>2. b \in {0} \cup columns + 1 .. MaxRows <=> b = 0 \/ b > columns
    BY <1>1
  <2>3. l \notin {0} \cup rows + 1 .. MaxRows
    BY <1>1, <2>1
  <2> QED
    BY <2>1, <2>2, <2>3 DEF LinesOf
<1>4. ASSUME NEW l \in {0, rows + 1}, NEW b \in Idx
      PROVE  b \in lines[l]
  <2>1. l \in 0 .. MaxRows /\ l \in {0} \cup rows + 1 .. MaxRows
    BY <1>1
  <2> QED
    BY <2>1 DEF LinesOf
<1>5. r + 1 \in 1 .. rows /\ (r + 1) - 1 = r /\ (r + 1) + 1 = r + 2
  BY <1>1
<1> HIDE DEF lines
<1>6. ASSUME NEW b \in Idx
      PROVE  b \in RealMask(lines, r + 1) <=> b \in 2 .. columns /\ b - 2 \in free /\ b - 1 \in free
  <2>1. b \in RealMask(lines, r + 1) <=> b \notin lines[r + 1] /\ b - 1 \notin lines[r + 1]
    BY DEF RealMask, Not, Shl
  <2>2. CASE b = 0
    <3>1. b \in lines[r + 1]
      BY <1>3, <1>5, <2>2
    <3> QED
      BY <2>1, <2>2, <3>1
  <2>3. CASE b # 0
    <3>1. b - 1 \in Idx /\ (b - 1) - 1 = b - 2
      BY <1>1, <2>3
    <3>2. /\ b \in lines[r + 1] <=> b = 0 \/ b > columns \/ <<r, b - 1>> \in set
          /\ b - 1 \in lines[r + 1] <=> b - 1 = 0 \/ b - 1 > columns \/ <<r, b - 2>> \in set
      BY <1>3, <1>5, <3>1
    <3> QED
      BY <1>1, <2>1, <2>3, <3>1, <3>2
  <2> QED
    BY <2>2, <2>3
<1>7. RealMask(lines, r + 1) = {b \in 2 .. columns : b - 2 \in free /\ b - 1 \in free}
  <2>1. RealMask(lines, r + 1) \subseteq Idx
    BY DEF RealMask, Not
  <2> HIDE DEF free
  <2> QED
    BY <1>1, <1>6, <2>1
\* Walled in on both sides: the third condition of safe, and the lines beside.
<1>8. ASSUME NEW b \in Idx, b - 1 \in 0 .. columns - 1
      PROVE  b \in Guard(lines, r + 1) <=> /\ r > 0 => <<r - 1, b - 1>> \in set
                                           /\ r < rows - 1 => <<r + 1, b - 1>> \in set
  <2>1. b # 0 /\ ~ (b > columns)
    BY <1>1, <1>8
  <2>2. b \in lines[r] <=> (r > 0 => <<r - 1, b - 1>> \in set)
    <3>1. CASE r = 0
      BY <1>4, <3>1
    <3>2. CASE r > 0
      <4>1. r \in 1 .. rows
        BY <1>1, <3>2
      <4> QED
        BY <1>3, <2>1, <3>2, <4>1
    <3> QED
      BY <1>1, <3>1, <3>2
  <2>3. b \in lines[r + 2] <=> (r < rows - 1 => <<r + 1, b - 1>> \in set)
    <3>1. CASE r = rows - 1
      <4>1. r + 2 = rows + 1 /\ ~ (r < rows - 1)
        BY <1>1, <3>1
      <4> QED
        BY <1>4, <4>1
    <3>2. CASE r < rows - 1
      <4>1. r + 2 \in 1 .. rows /\ (r + 2) - 1 = r + 1
        BY <1>1, <3>2
      <4> QED
        BY <1>3, <2>1, <3>2, <4>1
    <3> QED
      BY <1>1, <3>1, <3>2
  <2>4. Guard(lines, r + 1) = lines[r] \cap lines[r + 2]
    BY <1>5 DEF Guard
  <2> QED
    BY <2>2, <2>3, <2>4
<1>9. ASSUME NEW b \in Idx, b - 1 \in 0 .. columns - 1
      PROVE  b \in Guard(lines, r + 1) /\ b - 1 \in free <=> b - 1 \in safe
  BY <1>8, <1>9 DEF SafeAt
<1>10. SafeMask(lines, r + 1) = {b \in 2 .. columns : b - 2 \in safe /\ b - 1 \in safe}
  <2>1. ASSUME NEW b \in 2 .. columns
        PROVE  b \in SafeMask(lines, r + 1) <=> b - 2 \in safe /\ b - 1 \in safe
    <3>1. /\ b \in Idx /\ b - 1 \in Idx /\ (b - 1) - 1 = b - 2
          /\ b - 1 \in 0 .. columns - 1 /\ b - 2 \in 0 .. columns - 1
      BY <1>1
    <3>2. b \in SafeMask(lines, r + 1) <=>
            b \in RealMask(lines, r + 1) /\ b \in Guard(lines, r + 1)
              /\ b - 1 \in Guard(lines, r + 1)
      BY <3>1 DEF SafeMask, Shl
    <3>3. b \in RealMask(lines, r + 1) <=> b - 2 \in free /\ b - 1 \in free
      BY <1>6, <3>1
    <3> HIDE DEF free, safe
    <3>4. /\ b \in Guard(lines, r + 1) /\ b - 1 \in free <=> b - 1 \in safe
          /\ b - 1 \in Guard(lines, r + 1) /\ b - 2 \in free <=> b - 2 \in safe
      BY <1>9, <3>1
    <3> QED
      BY <3>2, <3>3, <3>4
  <2>2. SafeMask(lines, r + 1) \subseteq 2 .. columns
    BY <1>7 DEF SafeMask
  <2> HIDE DEF safe
  <2> QED
    BY <2>1, <2>2
<1>11. PiecesIn(free, columns) = CountReal(lines, r + 1)
  <2> HIDE DEF free
  <2> QED
    BY <1>7, PiecesAreCounted DEF CountReal
<1>12. PiecesIn(safe, columns) = CountSafe(lines, r + 1)
  <2> HIDE DEF safe
  <2> QED
    BY <1>10, PiecesAreCounted DEF CountSafe
<1> QED
  BY <1>11, <1>12 DEF lines

\* The page's loops over the rows add the same numbers as the solver's.
LEMMA SumsAgree ==
  ASSUME NEW set, NEW rows \in 1 .. MaxRows - 2, NEW columns \in 1 .. MaxRows - 2
  PROVE  LET lines == LinesOf(set, rows, columns)
         IN  /\ GetReal(set, rows, columns) = SumOver(CountReal, lines, rows)
             /\ GetSafe(set, rows, columns) = SumOver(CountSafe, lines, rows)
<1> DEFINE lines == LinesOf(set, rows, columns)
           real(r) == PiecesIn({c \in 0 .. columns - 1 : <<r, c>> \notin set}, columns)
           safe(r) == PiecesIn({c \in 0 .. columns - 1 : SafeAt(set, rows, r, c)}, columns)
<1>1. \A r \in 0 .. rows - 1 : real(r) = CountReal(lines, r + 1)
                               /\ safe(r) = CountSafe(lines, r + 1)
  BY RowsAreLines
<1> HIDE DEF lines
<1>2. [r \in 0 .. rows - 1 |-> real(r)] = [r \in 0 .. rows - 1 |-> CountReal(lines, r + 1)]
  <2> HIDE DEF real
  <2> QED
    BY <1>1
<1>3. [r \in 0 .. rows - 1 |-> safe(r)] = [r \in 0 .. rows - 1 |-> CountSafe(lines, r + 1)]
  <2> HIDE DEF safe
  <2> QED
    BY <1>1
<1>4. GetReal(set, rows, columns) = SumFunction([r \in 0 .. rows - 1 |-> real(r)])
  BY DEF GetReal
<1>5. GetSafe(set, rows, columns) = SumFunction([r \in 0 .. rows - 1 |-> safe(r)])
  BY DEF GetSafe
<1>6. SumOver(CountReal, lines, rows) = SumFunction([r \in 0 .. rows - 1 |-> CountReal(lines, r + 1)])
  BY DEF SumOver
<1>7. SumOver(CountSafe, lines, rows) = SumFunction([r \in 0 .. rows - 1 |-> CountSafe(lines, r + 1)])
  BY DEF SumOver
<1> QED
  BY <1>2, <1>3, <1>4, <1>5, <1>6, <1>7 DEF lines

LEMMA CountsAgree ==
  ASSUME height \in 1 .. MaxRows - 2, width \in 1 .. MaxRows - 2, marks = MarksOf(moves)
  PROVE  CountsOf(marks, moves, height, width) = SolversCounts
<1> DEFINE turned == {<<q[2], q[1]>> : q \in marks}
<1>1. Rotated(moves) = turned
  BY DEF Rotated
<1> HIDE DEF turned
<1>2. /\ GetReal(marks, height, width) = SumOver(CountReal, LinesOf(marks, height, width), height)
      /\ GetSafe(marks, height, width) = SumOver(CountSafe, LinesOf(marks, height, width), height)
  BY SumsAgree
<1>3. /\ GetReal(turned, width, height) = SumOver(CountReal, LinesOf(turned, width, height), width)
      /\ GetSafe(turned, width, height) = SumOver(CountSafe, LinesOf(turned, width, height), width)
  BY SumsAgree
<1> QED
  BY <1>1, <1>2, <1>3 DEF CountsOf, SolversCounts, turned

(* What the page shows was computed and painted last for the board as it is,
   unless a piece sticks out of it.                                          *)
ShownInv ==
  /\ height \in 1 .. MaxRows - 2 /\ width \in 1 .. MaxRows - 2
  /\ Rotates(moves) => /\ counts = CountsOf(marks, moves, height, width)
                       /\ painted = [moves |-> moves, vertical |-> vertical]

LEMMA InitShown == Init => ShownInv
BY LinesAssumption DEF Init, ShownInv

LEMMA ShownKept == ShownInv /\ [Next]_vars => ShownInv'
<1> SUFFICES ASSUME ShownInv, [Next]_vars
             PROVE  ShownInv'
  OBVIOUS
<1>1. CASE NewGame
  BY <1>1, LinesAssumption DEF NewGame, ShownInv
<1>2. ASSUME Update(marks', moves', height, width, vertical'), UNCHANGED <<height, width>>
      PROVE  ShownInv'
  <2>1. Rotates(moves)' => Rotates(moves')
    BY <1>2 DEF Rotates
  <2> QED
    BY <1>2, <2>1 DEF Update, ShownInv
<1>3. CASE \E row \in CanvasRows, col \in CanvasCols : CanvasClick(row, col)
  BY <1>2, <1>3 DEF CanvasClick
<1>4. CASE Reverse
  BY <1>2, <1>4 DEF Reverse
<1>5. CASE SolveAgain \/ (\E r \in asked : Answer(r) \/ AnswerHeader(r) \/ AnswerPart(r))
           \/ UNCHANGED vars
  <2>1. UNCHANGED game
    BY <1>5 DEF SolveAgain, Answer, AnswerHeader, AnswerPart, vars
  <2> QED
    BY <2>1 DEF ShownInv, Rotates, game
<1> QED
  BY <1>1, <1>3, <1>4, <1>5 DEF Next

(* Whatever is clicked and taken back on a board of any size, the counts the
   page shows are those the solver would make of the same board: its own loops
   over squares, and the solver's words with their border, agree.            *)
THEOREM PageStaysCurrent == Spec => []PageIsCurrent
<1>1. IInv /\ ShownInv => PageIsCurrent
  <2> SUFFICES ASSUME IInv, ShownInv
               PROVE  PageIsCurrent
    OBVIOUS
  <2>1. CountsOf(marks, moves, height, width) = SolversCounts
    BY CountsAgree DEF IInv, ShownInv, MarksAreTheMoves
  <2> QED
    BY <2>1 DEF ShownInv, PageIsCurrent
<1> QED
  BY <1>1, InitEstablishes, StepKeeps, InitShown, ShownKept, PTL DEF Spec

=============================================================================
