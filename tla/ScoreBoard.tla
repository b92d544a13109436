----------------------------- MODULE ScoreBoard -----------------------------
(***************************************************************************)
(* src/obsequi/score-board.cc and score-board.h: bounds on how many moves  *)
(* a player can still make and how many the opponent can, from areas that  *)
(* are packed greedily onto one player's view of the board.  Line l of     *)
(* the n lines of the view is row r = l - 1 of the loops.                  *)
(*                                                                         *)
(* packed is tmp_board, the squares of each line taken by areas found so   *)
(* far.                                                                    *)
(***************************************************************************)
EXTENDS Board

\* The squares of pieces whose first squares are x.
Pairs(x) == x \cup Shl(x)

\* C++ division, which rounds towards zero.
Quot(a, d) == IF a >= 0 THEN a \div d ELSE -((-a) \div d)

\* MIN_TWO
Lower(x, y) == IF x > y THEN y ELSE x

-----------------------------------------------------------------------------
\* Where a protective area cannot begin: it and its lines are to be free.
Interference(rows, packed, l) ==
  LET taken == packed[l - 1] \cup packed[l] \cup packed[l + 1] \cup packed[l + 2]
                 \cup rows[l] \cup rows[l + 1]
  IN  taken \cup Shr(taken)

\* Two occupied squares before or behind lines l and l + 1.
Walls(rows, l) == (Shr(rows[l - 1]) \cap rows[l - 1]) \cup (Shr(rows[l + 2]) \cap rows[l + 2])

(* pack_prot: protective areas of two by two squares along a wall; a player
   that gets one of its two pieces there protects the other.                 *)
ProtAreas(rows, packed, l) == NonOverlapping(Walls(rows, l) \ Interference(rows, packed, l))

\* Lines l and l + 1, after those before.
ProtLine(rows, l, before) ==
  LET areas == ProtAreas(rows, before.packed, l)
  IN  [packed |-> [before.packed EXCEPT ![l] = @ \cup Pairs(areas),
                                        ![l + 1] = @ \cup Pairs(areas)],
       prot   |-> before.prot + Cardinality(areas)]

PackProt(n, rows) ==
  LET after[l \in 0 .. (n - 1)] ==
        IF l = 0 THEN [packed |-> [i \in 0 .. (n + 1) |-> {}], prot |-> 0]
                 ELSE ProtLine(rows, l, after[l - 1])
  IN  after[n - 1]

-----------------------------------------------------------------------------
(* The scan of a line in pack_vuln, with the states of its comment:
     1  one protected square      2  one open square
     3  an open and a protected one, 4  and another protected one (safe).    *)
NextState(state, square) ==
  CASE square = "occupied"  -> 0
    [] square = "protected" -> <<1, 0, 3, 4, 3>>[state + 1]
    [] square = "open"      -> <<2, 0, 0, 2, 2>>[state + 1]

(* What the scan has found when it has seen a square; an area is named by the
   first of its two squares.                                                 *)
Scanned(s, b, square) ==
  [state    |-> NextState(s.state, square),
   from     |-> IF s.state = 0 \/ (s.state \in {3, 4} /\ square = "open")
                  THEN b ELSE s.from,
   vuln     |-> IF s.state = 2 /\ square = "open"
                  THEN s.vuln \cup {s.from} ELSE s.vuln,
   withProt |-> IF \/ s.state = 1 /\ square = "open"
                   \/ s.state = 3 /\ square # "protected"
                  THEN s.withProt \cup {s.from} ELSE s.withProt,
   unused   |-> IF s.state = 1 /\ square = "occupied"
                  THEN s.unused \cup {s.from} ELSE s.unused]

SquareKind(free, guarded, b) ==
  IF b \notin free THEN "occupied" ELSE IF b \in guarded THEN "protected" ELSE "open"

\* The line bit by bit.
Scan(free, guarded) ==
  LET after[b \in Idx \cup {-1}] ==
        IF b = -1 THEN [state |-> 0, from |-> -1, vuln |-> {}, withProt |-> {}, unused |-> {}]
                  ELSE Scanned(after[b - 1], b, SquareKind(free, guarded, b))
  IN  after[MaxRows - 1]

\* Next to a packed square of the line before or a vertical pair behind.
NextPrevRow(rows, packed, l) ==
  packed[l - 1] \cup Not(rows[l + 1] \cup Shl(rows[l + 1])) \cup Not(rows[l + 1] \cup Shr(rows[l + 1]))

\* Mutant: an area may share its squares with a protective one.
FreeOfPieces(rows, packed, l) == Not(rows[l])

\* The squares of a line that are not occupied and in no area yet.
StillFree(rows, packed, l) == Not(rows[l] \cup packed[l])

\* Line l, after those before.
VulnLine(rows, l, p) ==
  LET found  == Scan(StillFree(rows, p.packed, l), Guard(rows, l))
      next   == NextPrevRow(rows, p.packed, l)
      two(x) == {a \in x : {a, a + 1} \cap next # {}}
      size2(x) == Cardinality(two(x))
      size1(x) == Cardinality(x \ two(x))
      all    == found.vuln \cup found.withProt
  IN  [packed |-> [p.packed EXCEPT ![l] = @ \cup Pairs(all) \cup found.unused],
       vuln2 |-> p.vuln2 + size2(all),
       vuln2WithProt |-> p.vuln2WithProt + size2(found.withProt),
       vuln1 |-> p.vuln1 + size1(all),
       vuln1WithProt |-> p.vuln1WithProt + size1(found.withProt),
       unused |-> p.unused + Cardinality(found.unused)]

\* pack_vuln: vulnerable areas of two squares, of type 2 (next to another) or 1.
PackVuln(n, rows, protAreas) ==
  LET after[l \in 0 .. n] ==
        IF l = 0 THEN [packed |-> protAreas, vuln2 |-> 0, vuln2WithProt |-> 0,
                       vuln1 |-> 0, vuln1WithProt |-> 0, unused |-> 0]
                 ELSE VulnLine(rows, l, after[l - 1])
  IN  after[n]

-----------------------------------------------------------------------------
(* How many of the lines beside line l have square b as the only free one
   before a wall; that line's outer neighbour need not exist.                *)
Openings(rows, l, b) ==
  Cardinality({d \in {-1, 1} : b \notin rows[l + d] /\ b \in rows[l + 2 * d]})

(* One line of pack_safe.  Each safe move, lowest first, may take one more
   square: the one before it or, failing that, the one behind.               *)
SafeMoves(rows, taken, l) ==
  Not(taken \cup Shr(taken)) \cap (Guard(rows, l) \cap Shr(Guard(rows, l)))

Optioned(moves, beside, b, before) ==
  LET curr   == before.curr \cup {b, b + 1}
      left   == {m \in moves : m > b + 1}
      option == IF b - 1 \notin curr \cup beside THEN {b - 1}
                ELSE IF b + 2 \notin left \cup curr \cup beside THEN {b + 2}
                ELSE {}
  IN  [curr |-> curr \cup option, options |-> before.options \cup option]

Options(rows, packed, l) ==
  LET taken  == rows[l] \cup packed[l]
      moves  == SafeMoves(rows, taken, l)
      beside == packed[l - 1] \cup packed[l + 1]
      after[b \in Idx \cup {-1}] ==
        IF b = -1 THEN [curr |-> taken, options |-> {}]
        ELSE IF b \notin NonOverlapping(moves) THEN after[b - 1]
        ELSE Optioned(moves, beside, b, after[b - 1])
  IN  after[MaxRows - 1].options

\* Line l, after those before.
SafeLine(rows, l, before) ==
  LET options == Options(rows, before.packed, l)
      with(k) == {b \in options : Openings(rows, l, b) = k}
  IN  [packed |-> [before.packed EXCEPT ![l] = @ \cup options],
       op     |-> [k \in 0 .. 2 |-> before.op[k] + Cardinality(with(k))]]

\* pack_safe: the options by how many openings they keep from the opponent.
PackSafe(n, rows, areas) ==
  LET after[l \in 0 .. n] ==
        IF l = 0 THEN [packed |-> areas, op |-> [k \in 0 .. 2 |-> 0]]
                 ELSE SafeLine(rows, l, after[l - 1])
  IN  after[n]

-----------------------------------------------------------------------------
\* ScoreMetrics, from what the three passes found, with the squares packed.
Counted(s, prots, vulns, safes) ==
  [safe |-> totalSafe[s], oppReal |-> totalReal[Opp(s)], empty |-> emptySquares,
   prot |-> prots.prot,
   vuln2 |-> vulns.vuln2, vuln2WithProt |-> vulns.vuln2WithProt,
   vuln1 |-> vulns.vuln1, vuln1WithProt |-> vulns.vuln1WithProt,
   unused |-> vulns.unused,
   safeOp2 |-> safes.op[2], safeOp1 |-> safes.op[1], safeOp0 |-> safes.op[0],
   packed |-> safes.packed]

\* calculate_score_metrics of the view of player s.
Metrics(s) ==
  LET n     == NumRows(s)
      prots == PackProt(n, board[s])
      vulns == PackVuln(n, board[s], prots.packed)
      safes == PackSafe(n, board[s], vulns.packed)
  IN  Counted(s, prots, vulns, safes)

\* A protective area left over counts as two vulnerable ones.
Paired(m) == IF m.prot % 2 = 1 THEN [m EXCEPT !.prot = @ - 1, !.vuln2 = @ + 2] ELSE m

\* An odd option counts as one of the next kind.
Lowered(m) ==
  LET m2 == IF m.safeOp2 % 2 = 1 THEN [m EXCEPT !.safeOp2 = @ - 1, !.safeOp1 = @ + 1] ELSE m
  IN  IF m2.safeOp1 % 2 = 1 THEN [m2 EXCEPT !.safeOp1 = @ - 1, !.safeOp0 = @ + 1] ELSE m2

\* Or the opponent loses its squares.
OddOption(m) ==
  IF m.safeOp2 % 2 = 1
    THEN LET m2 == [m EXCEPT !.unused = @ + 3]
         IN  IF m2.safeOp1 % 2 = 1 THEN [m2 EXCEPT !.safeOp1 = @ - 1, !.safeOp0 = @ + 1] ELSE m2
  ELSE IF m.safeOp1 % 2 = 1 THEN [m EXCEPT !.unused = @ + 2]
  ELSE IF m.safeOp0 % 2 = 1 THEN [m EXCEPT !.unused = @ + 1]
  ELSE m

\* Squares neither player can use when the areas are played out.
UnusedSquares(m) ==
  m.unused + (m.vuln2WithProt - (m.vuln2 \div 3 - (m.vuln2 - m.vuln2WithProt) \div 3))
           + (m.vuln1WithProt - (m.vuln1 \div 2 - (m.vuln1 - m.vuln1WithProt) \div 2))
           + (m.safeOp2 \div 2) * 3 + (m.safeOp1 \div 2) * 2 + (m.safeOp0 \div 2)

\* Mutant: the safe moves are left out.
MoveBoundsOfAreas(metrics) ==
  LET m      == Paired(metrics)
      rest2  == m.vuln2 % 3 # 0
      rest1  == m.vuln1 % 2 # 0
      moves  == m.prot + m.vuln2 \div 3 + m.vuln1 \div 2
                  + (IF rest2 /\ rest1 THEN 1 ELSE 0)
      used   == IF rest2 /\ rest1 THEN [m EXCEPT !.unused = @ - 1] ELSE m
      final  == IF rest2 = rest1 THEN Lowered(used) ELSE OddOption(used)
  IN  [lower |-> moves,
       upper |-> Lower(Quot(m.empty - moves * 2 - UnusedSquares(final), 2), m.oppReal - m.prot)]

\* calculate_move_bounds: moves of the player, and the smaller bound on the opponent's.
MoveBounds(metrics) ==
  LET m      == Paired(metrics)
      rest2  == m.vuln2 % 3 # 0
      rest1  == m.vuln1 % 2 # 0
      moves  == m.prot + m.vuln2 \div 3 + m.vuln1 \div 2 + m.safe
                  + (IF rest2 /\ rest1 THEN 1 ELSE 0)
      used   == IF rest2 /\ rest1 THEN [m EXCEPT !.unused = @ - 1] ELSE m
      final  == IF rest2 = rest1 THEN Lowered(used) ELSE OddOption(used)
  IN  [lower |-> moves,
       upper |-> Lower(Quot(m.empty - moves * 2 - UnusedSquares(final), 2), m.oppReal - m.prot)]

-----------------------------------------------------------------------------
\* A vulnerable area of the given kind becomes a safe move.
Secure2(m) == [m EXCEPT !.vuln2 = @ - 1, !.safe = @ + 1,
                        !.vuln2WithProt = Lower(@, m.vuln2 - 1)]
Secure1(m) == [m EXCEPT !.vuln1 = @ - 1, !.safe = @ + 1,
                        !.vuln1WithProt = Lower(@, m.vuln1 - 1)]

\* score_board_curr_player: what the player makes of having the next move.
MoveFirst(m) ==
  IF m.prot % 2 = 1 THEN [m EXCEPT !.prot = @ - 1, !.safe = @ + 2, !.oppReal = @ - 2]
  ELSE IF m.vuln2 % 3 # 0 THEN Secure2(m)
  ELSE IF m.vuln1 % 2 # 0 THEN Secure1(m)
  ELSE IF m.safeOp2 % 2 # 0 THEN [m EXCEPT !.safeOp2 = @ - 1, !.unused = @ + 3]
  ELSE IF m.safeOp1 % 2 # 0 THEN [m EXCEPT !.safeOp1 = @ - 1, !.unused = @ + 2]
  ELSE IF m.safeOp0 % 2 # 0 THEN [m EXCEPT !.safeOp0 = @ - 1, !.unused = @ + 1]
  ELSE IF m.vuln2 > 0 THEN Secure2(m)
  ELSE IF m.vuln1 > 0 THEN Secure1(m)
  ELSE IF m.prot > 0 THEN [m EXCEPT !.prot = @ - 1, !.safe = @ + 2]
  ELSE m

CurrPlayer(s) == MoveBounds(MoveFirst(Metrics(s)))
NextPlayer(s) == MoveBounds(Metrics(s))

\* Mutant: the ends of the overlap are exchanged.
EstimateNegativeOverlap(curr, opp) ==
  LET currAvg == Quot(opp.upper + curr.lower, 2)
      oppAvg  == Quot(curr.upper + opp.lower, 2)
      avgLen  == Quot((opp.upper - curr.lower) + (curr.upper - opp.lower), 2)
  IN  IF currAvg > oppAvg + 2
        THEN 100 - Quot(100 * (curr.lower - (curr.upper + 1)), avgLen)
      ELSE IF oppAvg > currAvg + 2
        THEN -(100 - Quot(100 * (opp.lower - opp.upper), avgLen))
      ELSE currAvg - oppAvg

(* The heuristic score of a position the bounds do not decide: curr and opp
   are the bounds of the player to move and of the opponent, where upper is
   the bound on the other one's moves.                                       *)
Estimate(curr, opp) ==
  LET currAvg == Quot(opp.upper + curr.lower, 2)
      oppAvg  == Quot(curr.upper + opp.lower, 2)
      avgLen  == Quot((opp.upper - curr.lower) + (curr.upper - opp.lower), 2)
  IN  IF currAvg > oppAvg + 2
        THEN 100 - Quot(100 * ((curr.upper + 1) - curr.lower), avgLen)
      ELSE IF oppAvg > currAvg + 2
        THEN -(100 - Quot(100 * (opp.upper - opp.lower), avgLen))
      ELSE currAvg - oppAvg

\* Mutant: the player to move also wins a tie.
VerdictWinsTie(curr, opp) ==
  IF curr.lower >= curr.upper THEN [over |-> TRUE, score |-> 5000]
  ELSE IF opp.lower >= opp.upper THEN [over |-> TRUE, score |-> -5000]
  ELSE [over |-> FALSE, score |-> Estimate(curr, opp)]

\* is_game_over_expensive, from the two players' bounds.
Verdict(curr, opp) ==
  IF curr.lower > curr.upper THEN [over |-> TRUE, score |-> 5000]
  ELSE IF opp.lower >= opp.upper THEN [over |-> TRUE, score |-> -5000]
  ELSE [over |-> FALSE, score |-> Estimate(curr, opp)]

IsGameOverExpensive(s) == Verdict(CurrPlayer(s), NextPlayer(Opp(s)))

-----------------------------------------------------------------------------
(* Properties of the positions a game can start from or reach.               *)

\* The areas m counts lie on free squares of the view, each on its own.
PackedOnce(s, m) ==
  LET packed == {q \in (0 .. (NumRows(s) + 1)) \X Idx : q[2] \in m.packed[q[1]]}
  IN  /\ \A q \in packed : q[2] \notin board[s][q[1]]
      /\ Cardinality(packed) =
           4 * m.prot + 2 * (m.vuln2 + m.vuln1) + m.unused + m.safeOp2 + m.safeOp1 + m.safeOp0

(* The passes of the packing share a scratch board (score-board.cc:295) and
   never count a square twice: the squares taken add up to what the counts say
   (an option of a safe move is one square; safe moves themselves are not
   packed).                                                                   *)
AreasAreDisjoint == \A s \in Side : PackedOnce(s, Metrics(s))

(* At the horizon the search asks only is_game_over_expensive (negamax.cc:144),
   inside it IsGameOver first (negamax.cc:152): whatever the simple counts
   decide, the bounds decide the same way.                                    *)
VerdictExtendsIsGameOver ==
  \A s \in Side :
    IsGameOver(s) # 0 => IsGameOverExpensive(s) = [over |-> TRUE, score |-> IsGameOver(s)]

(* The score of an undecided position is small: the driver takes 5000 for a
   win (negamax.cc:85) and the search cuts off on it, so an estimate must never
   come near, nor divide by zero on the way.                                  *)
EstimateIsNoVerdict ==
  \A s \in Side :
    LET verdict == IsGameOverExpensive(s)
    IN  ~ verdict.over => verdict.score \in -100 .. 100

=============================================================================
