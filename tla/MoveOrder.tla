------------------------------ MODULE MoveOrder -----------------------------
(***************************************************************************)
(* src/obsequi/move.cc: which moves a position has, and the order in which *)
(* the search tries them.                                                  *)
(***************************************************************************)
EXTENDS Board, SequencesExt

(* The generators go through the lines in order and take the lowest bit
   first.                                                                    *)
Generated(pieces) ==
  [i \in 1 .. Cardinality(pieces) |->
     LET p == CHOOSE p \in pieces : Cardinality({q \in pieces : UpTo(q, p)}) = i
     IN  [array_index |-> p[1], mask_index |-> p[2], info |-> 0]]

ListedMoves(s)   == {p \in Lines(s) \X Idx : p[2] \in Listed(board[s], p[1])}
OpenMoves(s)     == {p \in Lines(s) \X Idx : p[2] \in Open(board[s], p[1])}
HalfSafeMoves(s) == {p \in Lines(s) \X Idx : p[2] \in HalfSafe(board[s], p[1])}

Where(m) == [array_index |-> m.array_index, mask_index |-> m.mask_index]

Entry == [array_index : Nat, mask_index : Nat, info : Int]

\* The first of the largest values.
Largest(vals) == CHOOSE i \in DOMAIN vals : /\ \A j \in DOMAIN vals : vals[j] <= vals[i]
                                            /\ \A j \in 1 .. (i - 1) : vals[j] < vals[i]

Best(ms) == Largest([i \in DOMAIN ms |-> ms[i].info])

\* The best move goes to the front, those before it move up.
BestToFront == [ms \in Seq(Entry) |-> <<ms[Best(ms)]>> \o RemoveAt(ms, Best(ms))]

Scored(s, ms) == [i \in DOMAIN ms |-> [ms[i] EXCEPT !.info = ScoreMove(s, Where(ms[i]))]]

\* score_and_get_first
ScoreAndGetFirst(s, ms) == BestToFront[Scored(s, ms)]

(* The buckets of sort_moves: the moves of one score in the order they come, the
   buckets in the order their scores are first met.                          *)
Put(buckets, m) ==
  IF \E j \in DOMAIN buckets : buckets[j][1].info = m.info
    THEN [j \in DOMAIN buckets |-> IF buckets[j][1].info = m.info
                                     THEN Append(buckets[j], m) ELSE buckets[j]]
    ELSE Append(buckets, <<m>>)

Buckets(ms) ==
  LET after[i \in 0 .. Len(ms)] == IF i = 0 THEN <<>> ELSE Put(after[i - 1], ms[i])
  IN  after[Len(ms)]

\* A round outputs the first bucket with the best value, which becomes -5000.
EmptyBest(buckets, state) ==
  LET best == Largest(state.left)
  IN  [left |-> [state.left EXCEPT ![best] = -5000], out |-> state.out \o buckets[best]]

\* One round for each bucket.
Emptied(buckets) ==
  LET after[n \in 0 .. Len(buckets)] ==
        IF n = 0 THEN [left |-> [j \in DOMAIN buckets |-> buckets[j][1].info], out |-> <<>>]
                 ELSE EmptyBest(buckets, after[n - 1])
  IN  after[Len(buckets)].out

\* sort_moves
Sorted == [ms \in Seq(Entry) |-> Emptied(Buckets(ms))]

\* sort_moves(moves_, 1, ...): the front is left alone.
SortTail(ms) == <<Head(ms)>> \o Sorted[Tail(ms)]

(* The order in which GetNext hands out the moves of a position that does not
   change: the best and the rest of the first stage that has any, then the half
   safe ones as they are generated.  MoveList shows that it does.            *)
StagedMoves(s) ==
  LET open  == Generated(OpenMoves(s))
      half  == Generated(HalfSafeMoves(s))
      first == IF open # <<>> THEN open ELSE half
      sorted == IF first = <<>> THEN <<>> ELSE SortTail(ScoreAndGetFirst(s, first))
  IN  IF open # <<>> THEN sorted \o half ELSE sorted

\* The order of the driver, which generates them all at once.
AllMoves(s) ==
  LET ms == Generated(ListedMoves(s))
  IN  IF ms = <<>> THEN <<>> ELSE SortTail(ScoreAndGetFirst(s, ms))

=============================================================================
