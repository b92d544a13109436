--------------------------- MODULE BoardProofs ----------------------------
(***************************************************************************)
(* For every size of board: the two views of Board always agree, the       *)
(* figures and the hash keys it keeps up to date are those of a count from *)
(* scratch, ScoreMove predicts what a move changes, taking moves back      *)
(* finds their pieces where they were put, and Board implements the game   *)
(* of Domineering. Then the moves of a position and their order: the       *)
(* stages of the generator partition the moves, a position without any is  *)
(* decided, and whichever way the list is filled it holds every move once. *)
(* Last the words: the lookup tables, built entry by entry and merged for  *)
(* two halves, count as one greedy pass over the whole word would.         *)
(* The lemmas they rest on come first: counting pairs <<line, item>> line  *)
(* by line, which is what a total kept up to date by adding what each      *)
(* changed line gained comes to, and what stands for induction: the least  *)
(* number of a set, sets closed under the next number, and the solutions   *)
(* of recursions over a range.                                             *)
(***************************************************************************)
EXTENDS MoveOrder, BitTables, FiniteSetTheorems, SequenceTheorems, TLAPS

\* The pairs of a line of N and an item that the line holds.
HeldPairs(N, I, G) == {p \in N \X I : p[2] \in G[p[1]]}

\* Those of the other lines than r.
OtherPairs(N, I, G, r) == {p \in HeldPairs(N, I, G) : p[1] # r}

\* What line r gained between G and H; lines outside N count for nothing.
LineGain(N, G, H, r) == IF r \in N THEN Cardinality(H[r]) - Cardinality(G[r]) ELSE 0

(* The pairs of one line are as many as its items.                           *)
LEMMA PairsOfLine ==
  ASSUME NEW N, NEW I, IsFiniteSet(N), IsFiniteSet(I),
         NEW G \in [N -> SUBSET I], NEW r \in N
  PROVE  /\ IsFiniteSet(OtherPairs(N, I, G, r))
         /\ Cardinality(HeldPairs(N, I, G)) =
              Cardinality(OtherPairs(N, I, G, r)) + Cardinality(G[r])
<1> DEFINE rest == OtherPairs(N, I, G, r)
           line == {r} \X G[r]
<1>1. IsFiniteSet(HeldPairs(N, I, G))
  <2>1. IsFiniteSet(N \X I)
    BY FS_Product
  <2> QED
    BY <2>1, FS_Subset DEF HeldPairs
<1>2. IsFiniteSet(rest) /\ Cardinality(rest) \in Nat
  BY <1>1, FS_Subset, FS_CardinalityType DEF OtherPairs
<1>3. IsFiniteSet(G[r]) /\ Cardinality(G[r]) \in Nat
  BY FS_Subset, FS_CardinalityType
<1>4. IsFiniteSet(line) /\ Cardinality(line) = Cardinality(G[r])
  <2>1. IsFiniteSet({r}) /\ Cardinality({r}) = 1
    BY FS_Singleton
  <2>2. IsFiniteSet(line) /\ Cardinality(line) = 1 * Cardinality(G[r])
    BY <2>1, <1>3, FS_Product
  <2> QED
    BY <2>2, <1>3
<1>5. HeldPairs(N, I, G) = rest \cup line
  BY DEF HeldPairs, OtherPairs
<1>6. rest \cap line = {}
  BY DEF OtherPairs
<1>7. Cardinality(rest \cap line) = 0
  BY <1>6, FS_EmptySet
<1>8. Cardinality(rest \cup line) = Cardinality(rest) + Cardinality(line) - 0
  BY <1>2, <1>4, <1>7, FS_Union
<1> HIDE DEF rest, line
<1>9. Cardinality(HeldPairs(N, I, G)) = Cardinality(rest) + Cardinality(G[r])
  BY <1>2, <1>3, <1>4, <1>5, <1>8
<1> QED
  BY <1>2, <1>9 DEF rest

(* When only line r changes, the total changes by what r gained.             *)
LEMMA OneLineChanged ==
  ASSUME NEW N, NEW I, IsFiniteSet(N), IsFiniteSet(I),
         NEW G \in [N -> SUBSET I], NEW H \in [N -> SUBSET I], NEW r,
         \A i \in N : i # r => H[i] = G[i]
  PROVE  Cardinality(HeldPairs(N, I, H)) = Cardinality(HeldPairs(N, I, G)) + LineGain(N, G, H, r)
<1>1. CASE r \in N
  <2> DEFINE restG == OtherPairs(N, I, G, r)
             restH == OtherPairs(N, I, H, r)
  <2>1. restG = restH
    BY DEF HeldPairs, OtherPairs
  <2>2. Cardinality(HeldPairs(N, I, G)) = Cardinality(restG) + Cardinality(G[r])
        /\ IsFiniteSet(restG)
    BY <1>1, PairsOfLine
  <2>3. Cardinality(HeldPairs(N, I, H)) = Cardinality(restH) + Cardinality(H[r])
    BY <1>1, PairsOfLine
  <2>4. /\ Cardinality(restG) \in Nat
        /\ Cardinality(G[r]) \in Nat
        /\ Cardinality(H[r]) \in Nat
    BY <1>1, <2>2, FS_Subset, FS_CardinalityType
  <2> HIDE DEF restG, restH
  <2> QED
    BY <1>1, <2>1, <2>2, <2>3, <2>4 DEF LineGain
<1>2. CASE r \notin N
  <2>1. HeldPairs(N, I, H) = HeldPairs(N, I, G)
    BY <1>2 DEF HeldPairs
  <2>2. Cardinality(HeldPairs(N, I, G)) \in Nat
    <3>1. IsFiniteSet(N \X I)
      BY FS_Product
    <3>2. IsFiniteSet(HeldPairs(N, I, G))
      BY <3>1, FS_Subset DEF HeldPairs
    <3> QED
      BY <3>2, FS_CardinalityType
  <2> QED
    BY <1>2, <2>1, <2>2 DEF LineGain
<1> QED
  BY <1>1, <1>2

(* When three lines change, the total changes by the sum of their gains.     *)
LEMMA ThreeLinesChanged ==
  ASSUME NEW N, NEW I, IsFiniteSet(N), IsFiniteSet(I),
         NEW G \in [N -> SUBSET I], NEW H \in [N -> SUBSET I],
         NEW a, NEW b, NEW c, a # b, b # c, a # c,
         \A i \in N : i \notin {a, b, c} => H[i] = G[i]
  PROVE  Cardinality(HeldPairs(N, I, H)) =
           Cardinality(HeldPairs(N, I, G))
             + LineGain(N, G, H, a) + LineGain(N, G, H, b) + LineGain(N, G, H, c)
<1> DEFINE G1 == [i \in N |-> IF i = a THEN H[i] ELSE G[i]]
           G2 == [i \in N |-> IF i \in {a, b} THEN H[i] ELSE G[i]]
<1>0. G1 \in [N -> SUBSET I] /\ G2 \in [N -> SUBSET I]
  OBVIOUS
<1>1. Cardinality(HeldPairs(N, I, G1)) = Cardinality(HeldPairs(N, I, G)) + LineGain(N, G, G1, a)
  <2>1. \A i \in N : i # a => G1[i] = G[i]
    OBVIOUS
  <2> HIDE DEF G1, G2
  <2> QED
    BY <1>0, <2>1, OneLineChanged
<1>2. Cardinality(HeldPairs(N, I, G2)) = Cardinality(HeldPairs(N, I, G1)) + LineGain(N, G1, G2, b)
  <2>1. \A i \in N : i # b => G2[i] = G1[i]
    OBVIOUS
  <2> HIDE DEF G1, G2
  <2> QED
    BY <1>0, <2>1, OneLineChanged
<1>3. Cardinality(HeldPairs(N, I, H)) = Cardinality(HeldPairs(N, I, G2)) + LineGain(N, G2, H, c)
  <2>1. \A i \in N : i # c => H[i] = G2[i]
    OBVIOUS
  <2> HIDE DEF G1, G2
  <2> QED
    BY <1>0, <2>1, OneLineChanged
<1>4. LineGain(N, G, G1, a) = LineGain(N, G, H, a)
  BY DEF LineGain
<1>5. LineGain(N, G1, G2, b) = LineGain(N, G, H, b)
  BY DEF LineGain
<1>6. LineGain(N, G2, H, c) = LineGain(N, G, H, c)
  BY DEF LineGain
<1>7. Cardinality(HeldPairs(N, I, G)) \in Nat
  <2>1. IsFiniteSet(N \X I)
    BY FS_Product
  <2>2. IsFiniteSet(HeldPairs(N, I, G))
    BY <2>1, FS_Subset DEF HeldPairs
  <2> QED
    BY <2>2, FS_CardinalityType
<1>8. \A r : LineGain(N, G, H, r) \in Int
  <2> SUFFICES ASSUME NEW r \in N
               PROVE  Cardinality(H[r]) - Cardinality(G[r]) \in Int
    BY DEF LineGain
  <2> QED
    BY FS_Subset, FS_CardinalityType
<1> HIDE DEF G1, G2
<1> QED
  BY <1>1, <1>2, <1>3, <1>4, <1>5, <1>6, <1>7, <1>8

\* The numbers from 1 to n are n.
LEMMA FirstNumbers ==
  ASSUME NEW n \in Nat
  PROVE  IsFiniteSet(1 .. n) /\ Cardinality(1 .. n) = n
<1>1. IsFiniteSet(1 .. n) /\ Cardinality(1 .. n) = IF 1 > n THEN 0 ELSE n - 1 + 1
  BY FS_Interval
<1>2. (IF 1 > n THEN 0 ELSE n - 1 + 1) = n
  OBVIOUS
<1> QED
  BY <1>1, <1>2

\* Two different elements are two.
LEMMA TwoElements ==
  ASSUME NEW x, NEW y, x # y
  PROVE  IsFiniteSet({x, y}) /\ Cardinality({x, y}) = 2
<1>1. IsFiniteSet({x}) /\ Cardinality({x}) = 1
  BY FS_Singleton
<1>2. IsFiniteSet({x} \cup {y}) /\ Cardinality({x} \cup {y}) = 1 + 1
  <2>1. y \notin {x}
    OBVIOUS
  <2>2. IsFiniteSet({x} \cup {y}) /\ Cardinality({x} \cup {y}) = Cardinality({x}) + 1
    BY <1>1, <2>1, FS_AddElement
  <2> QED
    BY <1>1, <2>2
<1>3. {x} \cup {y} = {x, y}
  OBVIOUS
<1> QED
  BY <1>2, <1>3

(* Adding or removing a subset changes the number of elements by its size.   *)
LEMMA AddedSubset ==
  ASSUME NEW S, NEW T, IsFiniteSet(S), IsFiniteSet(T), S \cap T = {}
  PROVE  /\ IsFiniteSet(S \cup T)
         /\ Cardinality(S \cup T) = Cardinality(S) + Cardinality(T)
<1>1. Cardinality(S) \in Nat /\ Cardinality(T) \in Nat
  BY FS_CardinalityType
<1>2. Cardinality(S \cap T) = 0
  BY FS_EmptySet
<1>3. /\ IsFiniteSet(S \cup T)
      /\ Cardinality(S \cup T) = Cardinality(S) + Cardinality(T) - Cardinality(S \cap T)
  BY FS_Union
<1> QED
  BY <1>1, <1>2, <1>3

LEMMA RemovedSubset ==
  ASSUME NEW S, NEW T, IsFiniteSet(S), T \subseteq S
  PROVE  /\ IsFiniteSet(S \ T)
         /\ Cardinality(S \ T) = Cardinality(S) - Cardinality(T)
<1>1. S \cap T = T
  OBVIOUS
<1> QED
  BY <1>1, FS_Difference

(* A set that maps into another without two elements meeting is no larger,
   and as large when the map reaches everything.                             *)
LEMMA AtMostAsMany ==
  ASSUME NEW S, NEW T, IsFiniteSet(T), NEW f \in [S -> T],
         \A a, b \in S : f[a] = f[b] => a = b
  PROVE  IsFiniteSet(S) /\ Cardinality(S) <= Cardinality(T)
<1>1. f \in Injection(S, T)
  BY DEF Injection, IsInjective
<1> QED
  BY <1>1, FS_Injection

LEMMA AsMany ==
  ASSUME NEW S, NEW T, IsFiniteSet(S), NEW f \in [S -> T],
         \A a, b \in S : f[a] = f[b] => a = b, \A t \in T : \E a \in S : f[a] = t
  PROVE  IsFiniteSet(T) /\ Cardinality(T) = Cardinality(S)
<1>1. f \in Injection(S, T)
  BY DEF Injection, IsInjective
<1>2. f \in Surjection(S, T)
  BY DEF Surjection
<1>3. ExistsBijection(S, T)
  BY <1>1, <1>2 DEF ExistsBijection, Bijection
<1> QED
  BY <1>3, FS_Bijection

(* A set of natural numbers has a least element: what stands for induction
   where a proof needs one.                                                  *)
LEMMA LeastNumber ==
  ASSUME NEW T \in SUBSET Nat, T # {}
  PROVE  \E x \in T : \A y \in T : x <= y
<1>1. IsWellFoundedOn(OpToRel(<, Nat), Nat)
  BY NatLessThanWellFounded
<1>2. PICK x \in T : \A y \in T : ~ (<<y, x>> \in OpToRel(<, Nat))
  BY <1>1, WFMin
<1>3. \A y \in T : ~(y < x)
  BY <1>2 DEF OpToRel
<1> QED
  BY <1>3

LEMMA InductiveSet ==
  ASSUME NEW T \in SUBSET Nat, 0 \in T, \A n \in T : n + 1 \in T
  PROVE  T = Nat
<1> SUFFICES ASSUME Nat \ T # {}
             PROVE  FALSE
  OBVIOUS
<1>1. PICK x \in Nat \ T : \A y \in Nat \ T : x <= y
  BY LeastNumber
<1>2. x # 0 /\ x - 1 \in Nat
  BY <1>1
<1>3. x - 1 \in T
  BY <1>1, <1>2
<1> QED
  BY <1>1, <1>3

-----------------------------------------------------------------------------
(* Recursions over a range of numbers.                                       *)

(* A recursion over lo .. hi: it begins with first in S[lo], and step[l] leads
   from S[l - 1] to S[l].                                                     *)
Recursion(lo, hi, S, first, step) ==
  /\ lo <= hi
  /\ first \in S[lo]
  /\ \A l \in (lo + 1) .. hi : step[l] \in [S[l - 1] -> S[l]]

Follows(lo, hi, S, first, step, f) ==
  /\ f = [l \in lo .. hi |-> f[l]]
  /\ f[lo] = first
  /\ \A l \in lo .. hi : f[l] \in S[l]
  /\ \A l \in (lo + 1) .. hi : f[l] = step[l][f[l - 1]]

\* It has a solution.
LEMMA RecursionExists ==
  ASSUME NEW lo \in Int, NEW hi \in Int, NEW S, NEW first, NEW step,
         Recursion(lo, hi, S, first, step)
  PROVE  \E f : Follows(lo, hi, S, first, step, f)
<1>0. /\ lo <= hi
      /\ first \in S[lo]
      /\ \A l \in (lo + 1) .. hi : step[l] \in [S[l - 1] -> S[l]]
  BY DEF Recursion
<1> DEFINE Solves(f, m) ==
             /\ f = [l \in lo .. (lo + m) |-> f[l]]
             /\ f[lo] = first
             /\ \A l \in (lo + 1) .. (lo + m) : f[l] = step[l][f[l - 1]]
             /\ \A l \in lo .. (lo + m) : f[l] \in S[l]
           Solved == {m \in Nat : lo + m <= hi => \E f : Solves(f, m)}
<1>1. 0 \in Solved
  <2> DEFINE f == [l \in lo .. lo |-> first]
  <2>1. f[lo] = first /\ lo + 0 = lo
    OBVIOUS
  <2>2. f = [l \in lo .. (lo + 0) |-> f[l]]
    BY <2>1
  <2>3. \A l \in lo .. (lo + 0) : l = lo
    OBVIOUS
  <2>4. (lo + 1) .. (lo + 0) = {}
    OBVIOUS
  <2> HIDE DEF f
  <2>5. Solves(f, 0)
    BY <1>0, <2>1, <2>2, <2>3, <2>4
  <2> QED
    BY <2>5
<1>2. ASSUME NEW m \in Solved
      PROVE  m + 1 \in Solved
  <2> SUFFICES ASSUME lo + (m + 1) <= hi
               PROVE  \E f : Solves(f, m + 1)
    OBVIOUS
  <2>1. PICK f : Solves(f, m)
    OBVIOUS
  <2> DEFINE last == lo + (m + 1)
             new  == step[last][f[lo + m]]
             g    == [l \in lo .. last |-> IF l = last THEN new ELSE f[l]]
  <2>2. last \in (lo + 1) .. hi /\ last - 1 = lo + m /\ lo + m \in lo .. (lo + m) /\ last # lo
    <3>1. m \in Nat
      OBVIOUS
    <3> HIDE DEF Solved, Solves
    <3> QED
      BY <3>1
  <2>3. new \in S[last]
    BY <1>0, <2>1, <2>2
  <2>4. \A l \in lo .. (lo + m) : l # last /\ l \in lo .. last /\ g[l] = f[l]
    OBVIOUS
  <2>5. last \in lo .. last /\ g[last] = new
    OBVIOUS
  <2>6. g = [l \in lo .. last |-> g[l]]
    OBVIOUS
  <2>7. \A l \in lo .. last : l = last \/ l \in lo .. (lo + m)
    <3>1. m \in Nat
      OBVIOUS
    <3> HIDE DEF Solved, Solves
    <3> QED
      BY <3>1
  <2>8. \A l \in (lo + 1) .. last :
          l = last \/ (l \in (lo + 1) .. (lo + m) /\ l \in lo .. (lo + m) /\ l - 1 \in lo .. (lo + m))
    OBVIOUS
  <2>9. lo \in lo .. (lo + m)
    OBVIOUS
  <2> HIDE DEF g, new, last
  <2>10. g[lo] = first
    BY <2>1, <2>4, <2>9
  <2>11. \A l \in lo .. last : g[l] \in S[l]
    BY <2>1, <2>3, <2>4, <2>5, <2>7
  <2>12. \A l \in (lo + 1) .. last : g[l] = step[l][g[l - 1]]
    <3> SUFFICES ASSUME NEW l \in (lo + 1) .. last
                 PROVE  g[l] = step[l][g[l - 1]]
      OBVIOUS
    <3>1. CASE l = last
      <4>1. g[l - 1] = f[lo + m]
        BY <2>2, <2>4, <3>1
      <4> QED
        BY <2>5, <3>1, <4>1 DEF new
    <3>2. CASE l # last
      BY <2>1, <2>4, <2>8, <3>2
    <3> QED
      BY <3>1, <3>2
  <2>13. Solves(g, m + 1)
    BY <2>6, <2>10, <2>11, <2>12 DEF last
  <2> QED
    BY <2>13
<1>3. Solved = Nat
  <2> HIDE DEF Solved
  <2>1. Solved \in SUBSET Nat
    BY DEF Solved
  <2> QED
    BY <1>1, <1>2, <2>1, InductiveSet
<1>4. PICK f : Solves(f, hi - lo)
  <2>1. hi - lo \in Nat /\ lo + (hi - lo) <= hi
    BY <1>0
  <2>2. hi - lo \in Solved
    BY <1>3, <2>1
  <2> HIDE DEF Solves
  <2> QED
    BY <2>1, <2>2
<1>5. lo + (hi - lo) = hi
  OBVIOUS
<1> QED
  BY <1>4, <1>5 DEF Follows

(* What holds at lo and is handed from each number to the next holds up to hi. *)
LEMMA HandedOn ==
  ASSUME NEW lo \in Int, NEW hi \in Int, NEW T,
         lo \in T, \A l \in (lo + 1) .. hi : l - 1 \in T => l \in T
  PROVE  \A l \in lo .. hi : l \in T
<1> SUFFICES ASSUME NEW u \in lo .. hi, u \notin T
             PROVE  FALSE
  OBVIOUS
<1> DEFINE Missing == {k \in Nat : lo + k <= hi /\ lo + k \notin T}
<1>1. u - lo \in Missing
  OBVIOUS
<1>2. PICK k \in Missing : \A j \in Missing : k <= j
  <2>1. Missing \in SUBSET Nat /\ Missing # {}
    BY <1>1
  <2> HIDE DEF Missing
  <2> QED
    BY <2>1, LeastNumber
<1>3. k # 0 /\ k - 1 \in Nat
  BY <1>2
<1>4. k - 1 \notin Missing
  BY <1>2, <1>3
<1>5. lo + (k - 1) \in T /\ lo + k \in (lo + 1) .. hi /\ (lo + k) - 1 = lo + (k - 1)
  BY <1>2, <1>3, <1>4
<1> QED
  BY <1>2, <1>5

LEMMA HandedOnFromZero ==
  ASSUME NEW hi \in Int, NEW T, 0 \in T, \A l \in 1 .. hi : l - 1 \in T => l \in T
  PROVE  \A l \in 0 .. hi : l \in T
<1> DEFINE lo == 0
<1>1. lo \in Int /\ lo \in T /\ lo + 1 = 1 /\ lo = 0
  OBVIOUS
<1> HIDE DEF lo
<1>2. \A l \in (lo + 1) .. hi : l - 1 \in T => l \in T
  BY <1>1
<1>3. \A l \in lo .. hi : l \in T
  BY <1>1, <1>2, HandedOn
<1> QED
  BY <1>1, <1>3

LEMMA HandedOnFromBelow ==
  ASSUME NEW hi \in Int, NEW T, -1 \in T, \A l \in 0 .. hi : l - 1 \in T => l \in T
  PROVE  \A l \in -1 .. hi : l \in T
<1> DEFINE lo == -1
<1>1. lo \in Int /\ lo \in T /\ lo + 1 = 0 /\ lo = -1
  OBVIOUS
<1> HIDE DEF lo
<1>2. \A l \in (lo + 1) .. hi : l - 1 \in T => l \in T
  BY <1>1
<1>3. \A l \in lo .. hi : l \in T
  BY <1>1, <1>2, HandedOn
<1> QED
  BY <1>1, <1>3

-----------------------------------------------------------------------------
(* The inductive invariant.                                                  *)

Typed ==
  /\ board \in [Side -> [Idx -> SUBSET Idx]]
  /\ safe \in [Side -> [Idx -> Nat]]
  /\ real \in [Side -> [Idx -> Nat]]
  /\ totalSafe \in [Side -> Int]
  /\ totalReal \in [Side -> Int]
  /\ emptySquares \in Int
  /\ hashkey \in [Flip -> SUBSET Int]
  /\ played \in Seq([side : Side, move : UNION {Moves(s) : s \in Side}])

\* Both squares of the move are occupied in the player's own view.
Present(s, m) == {m.mask_index, m.mask_index + 1} \subseteq board[s][m.array_index]

(* The pieces of the moves not yet undone are on the board and do not overlap:
   without it an undo could clear squares it should not, and recount too few
   lines.                                                                     *)
PlayedPresent ==
  /\ \A i \in 1 .. Len(played) :
       /\ played[i].move \in Moves(played[i].side)
       /\ Squares(played[i].side, played[i].move) \subseteq Occupied
  /\ \A i, j \in 1 .. Len(played) :
       i # j => Squares(played[i].side, played[i].move)
                  \cap Squares(played[j].side, played[j].move) = {}

IInv ==
  Typed /\ ViewsAgree /\ LinesExact /\ TotalsExact /\ EmptyExact /\ PlayedPresent

-----------------------------------------------------------------------------
(* Words.                                                                    *)

LEMMA SizeFacts ==
  /\ MaxRows \in Nat /\ Rows \in Nat /\ Cols \in Nat
  /\ 1 <= Rows /\ Rows <= MaxRows - 2
  /\ 1 <= Cols /\ Cols <= MaxRows - 2
BY MaxRowsAssumption, SizeAssumption

LEMMA FiniteIdx ==
  /\ IsFiniteSet(Idx)
  /\ \A s \in Side : IsFiniteSet(Lines(s))
BY SizeFacts, FS_Interval DEF Idx, Lines, NumRows, Side

\* A count of moves is a natural number.
LEMMA CountType ==
  ASSUME NEW mask \in SUBSET Idx
  PROVE  /\ NonOverlapping(mask) \in SUBSET Idx
         /\ CountMoves(mask) \in Nat
<1>1. NonOverlapping(mask) \in SUBSET Idx
  BY DEF NonOverlapping
<1>2. IsFiniteSet(NonOverlapping(mask))
  BY <1>1, FiniteIdx, FS_Subset
<1> QED
  BY <1>1, <1>2, FS_CardinalityType DEF CountMoves

LEMMA MaskType ==
  ASSUME NEW rows, NEW l
  PROVE  RealMask(rows, l) \in SUBSET Idx /\ SafeMask(rows, l) \in SUBSET Idx
BY DEF RealMask, SafeMask, Not

\* The masks of a line look at that line and, for safe moves, its neighbours.
LEMMA MaskLocality ==
  ASSUME NEW v, NEW w, NEW l
  PROVE  /\ v[l] = w[l] => RealMask(v, l) = RealMask(w, l)
         /\ v[l] = w[l] /\ v[l - 1] = w[l - 1] /\ v[l + 1] = w[l + 1]
              => SafeMask(v, l) = SafeMask(w, l)
BY DEF RealMask, SafeMask, Guard

\* Membership in a mask of safe moves, bit by bit.
LEMMA SafeMaskBit ==
  ASSUME NEW rows, NEW l \in Int, NEW x \in Idx
  PROVE  x \in SafeMask(rows, l) <=>
           /\ x \notin rows[l] /\ x - 1 \notin rows[l]
           /\ x \in rows[l - 1] /\ x \in rows[l + 1]
           /\ x - 1 \in rows[l - 1] /\ x - 1 \in rows[l + 1]
BY DEF SafeMask, RealMask, Guard, Not, Shl

(* The opponent's line through a square of a piece: bit k is free there and in
   the other line of the piece before, occupied in both after (or the other way
   round), so no safe move of the line uses it before or after.               *)
LEMMA CrossedLineKeepsSafeMask ==
  ASSUME NEW v, NEW w, NEW l \in Int, NEW k \in Int, NEW n \in {l - 1, l + 1},
         \A i \in {l - 1, l, l + 1} : \A x \in Idx : x # k => (x \in v[i] <=> x \in w[i]),
         \A i \in {l - 1, l, l + 1} : v[i] \subseteq Idx /\ w[i] \subseteq Idx,
         \/ k \notin v[n] /\ k \in w[l]
         \/ k \in v[l] /\ k \notin w[n]
  PROVE  SafeMask(v, l) = SafeMask(w, l)
<1> SUFFICES ASSUME NEW x \in Idx
             PROVE  x \in SafeMask(v, l) <=> x \in SafeMask(w, l)
  BY MaskType
<1>1. CASE x # k /\ x - 1 # k
  <2>1. \A i \in {l - 1, l, l + 1} :
          (x \in v[i] <=> x \in w[i]) /\ (x - 1 \in v[i] <=> x - 1 \in w[i])
    BY <1>1 DEF Idx
  <2> QED
    BY <2>1, SafeMaskBit
<1>2. CASE x = k
  BY <1>2, SafeMaskBit
<1>3. CASE x - 1 = k
  <2>1. x \notin SafeMask(v, l)
    BY <1>3, SafeMaskBit
  <2>2. x \notin SafeMask(w, l)
    BY <1>3, SafeMaskBit
  <2> QED
    BY <2>1, <2>2
<1> QED
  BY <1>1, <1>2, <1>3

-----------------------------------------------------------------------------
(* One move flipped.                                                         *)

LEMMA OppFacts ==
  \A s \in Side : Opp(s) \in Side /\ Opp(s) # s /\ Side = {s, Opp(s)} /\ Opp(Opp(s)) = s
BY DEF Opp, Side

LEMMA MoveFacts ==
  ASSUME NEW s \in Side, NEW m \in Moves(s)
  PROVE  /\ m.array_index \in Lines(s) /\ m.array_index \in Int
         /\ m.array_index \in Idx /\ m.array_index - 1 \in Idx /\ m.array_index + 1 \in Idx
         /\ m.mask_index \in Lines(Opp(s)) /\ m.mask_index + 1 \in Lines(Opp(s))
         /\ m.mask_index \in Int
         /\ m.mask_index \in Idx /\ m.mask_index + 1 \in Idx
         /\ m.mask_index - 1 \in Idx /\ m.mask_index + 2 \in Idx
         /\ Lines(s) \subseteq Idx /\ Lines(s) \subseteq Int /\ Lines(Opp(s)) \subseteq Idx
         /\ 0 \notin Lines(s) /\ 0 \notin Lines(Opp(s))
BY SizeFacts DEF Moves, Lines, NumRows, Opp, Side, Idx

\* ViewsAgree without naming a side.
LEMMA ViewsAgreeFor ==
  ASSUME ViewsAgree, NEW s \in Side, NEW l \in Idx, NEW b \in Idx
  PROVE  b \in board[s][l] <=> l \in board[Opp(s)][b]
BY DEF ViewsAgree, Side, Opp

\* Toggled for any words.
Flipped(w, s, m) ==
  [w EXCEPT ![s][m.array_index] = Xor(@, {m.mask_index, m.mask_index + 1}),
            ![Opp(s)][m.mask_index] = Xor(@, {m.array_index}),
            ![Opp(s)][m.mask_index + 1] = Xor(@, {m.array_index})]

LEMMA FlippedWords ==
  ASSUME NEW v \in [Side -> [Idx -> SUBSET Idx]], NEW s \in Side, NEW m \in Moves(s)
  PROVE  /\ Flipped(v, s, m) \in [Side -> [Idx -> SUBSET Idx]]
         /\ \A n \in Idx : n # m.array_index => Flipped(v, s, m)[s][n] = v[s][n]
         /\ Flipped(v, s, m)[s][m.array_index] =
              Xor(v[s][m.array_index], {m.mask_index, m.mask_index + 1})
         /\ \A n \in Idx : n \notin {m.mask_index, m.mask_index + 1} =>
              Flipped(v, s, m)[Opp(s)][n] = v[Opp(s)][n]
         /\ \A n \in {m.mask_index, m.mask_index + 1} :
              Flipped(v, s, m)[Opp(s)][n] = Xor(v[Opp(s)][n], {m.array_index})
<1> DEFINE l == m.array_index
           b == m.mask_index
           c == m.mask_index + 1
           o == Opp(s)
           x == Xor(v[s][l], {b, c})
           y == Xor(v[o][b], {l})
           z == Xor(v[o][c], {l})
           w == Flipped(v, s, m)
<1>1. l \in Idx /\ b \in Idx /\ c \in Idx /\ b # c
  BY MoveFacts
<1>2. o \in Side /\ o # s
  BY OppFacts
<1>3. x \in SUBSET Idx /\ y \in SUBSET Idx /\ z \in SUBSET Idx
  BY <1>1, <1>2 DEF Xor
<1>4. w = [v EXCEPT ![s][l] = x, ![o][b] = y, ![o][c] = z]
  <2>1. w = [v EXCEPT ![s][l] = Xor(@, {b, c}), ![o][b] = Xor(@, {l}),
                      ![o][c] = Xor(@, {l})]
    BY DEF Flipped
  <2> HIDE DEF l, b, c, o, w
  <2> QED
    BY <1>1, <1>2, <2>1
<1> HIDE DEF x, y, z, l, b, c, o, w
<1>5. /\ w \in [Side -> [Idx -> SUBSET Idx]]
      /\ w[s][l] = x /\ w[o][b] = y /\ w[o][c] = z
      /\ \A n \in Idx : n # l => w[s][n] = v[s][n]
      /\ \A n \in Idx : n # b /\ n # c => w[o][n] = v[o][n]
  BY <1>1, <1>2, <1>3, <1>4
<1> QED
  BY <1>5 DEF x, y, z, l, b, c, o, w

LEMMA XorTwice ==
  ASSUME NEW A, NEW B
  PROVE  Xor(Xor(A, B), B) = A
BY DEF Xor

\* The second flip of a move takes the first one back.
LEMMA FlippedTwice ==
  ASSUME NEW v \in [Side -> [Idx -> SUBSET Idx]], NEW s \in Side, NEW m \in Moves(s)
  PROVE  Flipped(Flipped(v, s, m), s, m) = v
<1> DEFINE l == m.array_index
           b == m.mask_index
           o == Opp(s)
           u == Flipped(v, s, m)
           w == Flipped(u, s, m)
<1>1. /\ u \in [Side -> [Idx -> SUBSET Idx]]
      /\ \A n \in Idx : n # l => u[s][n] = v[s][n]
      /\ u[s][l] = Xor(v[s][l], {b, b + 1})
      /\ \A n \in Idx : n \notin {b, b + 1} => u[o][n] = v[o][n]
      /\ \A n \in {b, b + 1} : u[o][n] = Xor(v[o][n], {l})
  BY FlippedWords
<1> HIDE DEF u
<1>2. /\ w \in [Side -> [Idx -> SUBSET Idx]]
      /\ \A n \in Idx : n # l => w[s][n] = u[s][n]
      /\ w[s][l] = Xor(u[s][l], {b, b + 1})
      /\ \A n \in Idx : n \notin {b, b + 1} => w[o][n] = u[o][n]
      /\ \A n \in {b, b + 1} : w[o][n] = Xor(u[o][n], {l})
  <2>1. u \in [Side -> [Idx -> SUBSET Idx]]
    BY <1>1
  <2> QED
    BY <2>1, FlippedWords, Zenon
<1>3. \A n \in Idx : w[s][n] = v[s][n] /\ w[o][n] = v[o][n]
  BY <1>1, <1>2, XorTwice
<1> HIDE DEF w
<1>4. \A t \in Side : w[t] = v[t]
  BY <1>2, <1>3, OppFacts
<1>5. w = v
  BY <1>2, <1>4
<1> QED
  BY <1>5 DEF w, u

\* The words before and after, seen from the mover and from the opponent.
LEMMA ToggledWords ==
  ASSUME board \in [Side -> [Idx -> SUBSET Idx]], NEW s \in Side, NEW m \in Moves(s)
  PROVE  /\ Toggled(s, m) \in [Side -> [Idx -> SUBSET Idx]]
         /\ \A n \in Idx : n # m.array_index => Toggled(s, m)[s][n] = board[s][n]
         /\ Toggled(s, m)[s][m.array_index] =
              Xor(board[s][m.array_index], {m.mask_index, m.mask_index + 1})
         /\ \A n \in Idx : n \notin {m.mask_index, m.mask_index + 1} =>
              Toggled(s, m)[Opp(s)][n] = board[Opp(s)][n]
         /\ \A n \in {m.mask_index, m.mask_index + 1} :
              Toggled(s, m)[Opp(s)][n] = Xor(board[Opp(s)][n], {m.array_index})
<1> DEFINE l == m.array_index
           b == m.mask_index
           w == Flipped(board, s, m)
<1>1. Toggled(s, m) = w
  BY DEF Toggled, Flipped
<1>2. /\ w \in [Side -> [Idx -> SUBSET Idx]]
      /\ \A n \in Idx : n # l => w[s][n] = board[s][n]
      /\ w[s][l] = Xor(board[s][l], {b, b + 1})
      /\ \A n \in Idx : n \notin {b, b + 1} => w[Opp(s)][n] = board[Opp(s)][n]
      /\ \A n \in {b, b + 1} : w[Opp(s)][n] = Xor(board[Opp(s)][n], {l})
  BY FlippedWords, Zenon
<1> HIDE DEF w
<1> QED
  BY <1>1, <1>2

(* What ToggleMove may rely on when it is called: the squares of the move are
   all free (ApplyMove) or all occupied (UndoMove).                           *)
Flips(s, m) ==
  /\ board \in [Side -> [Idx -> SUBSET Idx]]
  /\ ViewsAgree
  /\ Fits(s, m) \/ Present(s, m)
  /\ board' = Toggled(s, m)

LEMMA FlipKeepsViews ==
  ASSUME NEW s \in Side, NEW m \in Moves(s), Flips(s, m)
  PROVE  board' \in [Side -> [Idx -> SUBSET Idx]] /\ ViewsAgree'
<1> DEFINE o == Opp(s)
           l0 == m.array_index
           b0 == m.mask_index
<1>0. /\ board' \in [Side -> [Idx -> SUBSET Idx]]
      /\ \A n \in Idx : n # l0 => board'[s][n] = board[s][n]
      /\ board'[s][l0] = Xor(board[s][l0], {b0, b0 + 1})
      /\ \A n \in Idx : n \notin {b0, b0 + 1} => board'[o][n] = board[o][n]
      /\ \A n \in {b0, b0 + 1} : board'[o][n] = Xor(board[o][n], {l0})
  BY ToggledWords DEF Flips
<1>1. /\ board' \in [Side -> [Idx -> SUBSET Idx]]
      /\ \A n, x \in Idx : x \in board'[s][n] <=>
           IF n = l0 /\ x \in {b0, b0 + 1} THEN x \notin board[s][n] ELSE x \in board[s][n]
      /\ \A n, x \in Idx : x \in board'[o][n] <=>
           IF x = l0 /\ n \in {b0, b0 + 1} THEN x \notin board[o][n] ELSE x \in board[o][n]
  BY <1>0 DEF Xor
<1>2. \A l, b \in Idx : b \in board'[s][l] <=> l \in board'[o][b]
  BY <1>1, ViewsAgreeFor DEF Flips
<1>3. \A l, b \in Idx : b \in board'["H"][l] <=> l \in board'["V"][b]
  BY <1>2 DEF Side, Opp
<1>4. \A t \in Side : \A l \in Idx : \A b \in Idx \ board'[t][l] :
        l \in Lines(t) /\ b \in Lines(Opp(t))
  <2>1. \A t \in Side : \A l \in Idx : \A b \in Idx \ board[t][l] :
          l \in Lines(t) /\ b \in Lines(Opp(t))
    BY DEF Flips, ViewsAgree
  <2>2. /\ m.array_index \in Lines(s)
        /\ m.mask_index \in Lines(o) /\ m.mask_index + 1 \in Lines(o)
    BY MoveFacts
  <2>3. \A l \in Idx : \A b \in Idx \ board'[s][l] : l \in Lines(s) /\ b \in Lines(o)
    BY <1>1, <2>1, <2>2
  <2>4. \A l \in Idx : \A b \in Idx \ board'[o][l] : l \in Lines(o) /\ b \in Lines(s)
    BY <1>1, <2>1, <2>2, OppFacts
  <2> QED
    BY <2>3, <2>4, OppFacts
<1> QED
  BY <1>1, <1>3, <1>4 DEF ViewsAgree

(* Which masks a flipped move leaves alone: those of the lines that ToggleMove
   does not recount.                                                          *)
LEMMA FlipKeepsOtherMasks ==
  ASSUME NEW s \in Side, NEW m \in Moves(s), Flips(s, m), NEW t \in Side, NEW n \in Lines(t)
  PROVE  /\ n \notin RealChanged(s, m, t) =>
              RealMask(board'[t], n) = RealMask(board[t], n)
         /\ n \notin SafeChanged(s, m, t) =>
              SafeMask(board'[t], n) = SafeMask(board[t], n)
<1> DEFINE o == Opp(s)
           l == m.array_index
           b == m.mask_index
<1>1. /\ \A i \in Idx : i # l => board'[s][i] = board[s][i]
      /\ \A i \in Idx : i \notin {b, b + 1} => board'[o][i] = board[o][i]
      /\ \A i \in {b, b + 1} : board'[o][i] = Xor(board[o][i], {l})
  BY ToggledWords DEF Flips
<1>2. /\ l \in Lines(s) /\ l \in Int /\ l \in Idx
      /\ b \in Lines(o) /\ b + 1 \in Lines(o) /\ b \in Int /\ b \in Idx /\ b + 1 \in Idx
      /\ b - 1 \in Idx /\ b + 2 \in Idx
  BY MoveFacts
<1>3. n \in Int /\ n \in Idx /\ n - 1 \in Idx /\ n + 1 \in Idx
  BY SizeFacts DEF Lines, NumRows, Side, Idx
<1>4. CASE t = s
  <2>1. n # l => RealMask(board'[t], n) = RealMask(board[t], n)
    <3>1. n # l => board'[t][n] = board[t][n]
      BY <1>1, <1>3, <1>4
    <3> QED
      BY <3>1, MaskLocality
  <2>2. n \notin (l - 1) .. (l + 1) => SafeMask(board'[t], n) = SafeMask(board[t], n)
    <3> SUFFICES ASSUME n \notin (l - 1) .. (l + 1)
                 PROVE  SafeMask(board'[t], n) = SafeMask(board[t], n)
      OBVIOUS
    <3>1. n # l /\ n - 1 # l /\ n + 1 # l
      BY <1>2, <1>3
    <3>2. board'[t][n] = board[t][n] /\ board'[t][n - 1] = board[t][n - 1]
          /\ board'[t][n + 1] = board[t][n + 1]
      BY <1>1, <1>3, <1>4, <3>1
    <3> QED
      BY <3>2, MaskLocality
  <2> QED
    BY <1>4, <2>1, <2>2 DEF RealChanged, SafeChanged
<1>5. CASE t = o
  <2>0. o # s
    BY OppFacts
  <2>1. n \notin {b, b + 1} => RealMask(board'[t], n) = RealMask(board[t], n)
    BY <1>1, <1>3, <1>5, MaskLocality
  <2>2. n \notin {b - 1, b, b + 1, b + 2} =>
          SafeMask(board'[t], n) = SafeMask(board[t], n)
    <3> SUFFICES ASSUME n \notin {b - 1, b, b + 1, b + 2}
                 PROVE  SafeMask(board'[t], n) = SafeMask(board[t], n)
      OBVIOUS
    <3>1. \A i \in {n - 1, n, n + 1} : i \notin {b, b + 1}
      BY <1>2, <1>3
    <3>2. board'[t][n] = board[t][n] /\ board'[t][n - 1] = board[t][n - 1]
          /\ board'[t][n + 1] = board[t][n + 1]
      BY <1>1, <1>3, <1>5, <3>1
    <3> QED
      BY <3>2, MaskLocality
  <2>3. /\ board[o] \in [Idx -> SUBSET Idx]
        /\ board'[o] \in [Idx -> SUBSET Idx]
    BY FlipKeepsViews, OppFacts DEF Flips
  <2>4. \/ /\ l \notin board[o][b] /\ l \notin board[o][b + 1]
           /\ l \in board'[o][b] /\ l \in board'[o][b + 1]
        \/ /\ l \in board[o][b] /\ l \in board[o][b + 1]
           /\ l \notin board'[o][b] /\ l \notin board'[o][b + 1]
    <3>1. /\ b \in board[s][l] <=> l \in board[o][b]
          /\ b + 1 \in board[s][l] <=> l \in board[o][b + 1]
      BY <1>2, ViewsAgreeFor DEF Flips
    <3>2. \/ b \notin board[s][l] /\ b + 1 \notin board[s][l]
          \/ b \in board[s][l] /\ b + 1 \in board[s][l]
      BY DEF Flips, Fits, Present
    <3> QED
      BY <1>1, <1>2, <3>1, <3>2 DEF Xor
  <2>5. \A i \in Idx : \A x \in Idx : x # l => (x \in board[o][i] <=> x \in board'[o][i])
    BY <1>1 DEF Xor
  <2>6. CASE n = b
    <3>1. /\ \A i \in {b - 1, b, b + 1} : \A x \in Idx :
               x # l => (x \in board[o][i] <=> x \in board'[o][i])
          /\ \A i \in {b - 1, b, b + 1} : board[o][i] \subseteq Idx /\ board'[o][i] \subseteq Idx
      BY <1>2, <2>3, <2>5
    <3>2. \/ l \notin board[o][b + 1] /\ l \in board'[o][b]
          \/ l \in board[o][b] /\ l \notin board'[o][b + 1]
      BY <2>4
    <3>3. SafeMask(board[o], b) = SafeMask(board'[o], b)
      BY <1>2, <3>1, <3>2, CrossedLineKeepsSafeMask
    <3> QED
      BY <1>5, <2>0, <2>1, <2>6, <3>3 DEF RealChanged
  <2>7. CASE n = b + 1
    <3> DEFINE c == b + 1
    <3>1. /\ \A i \in {c - 1, c, c + 1} : \A x \in Idx :
               x # l => (x \in board[o][i] <=> x \in board'[o][i])
          /\ \A i \in {c - 1, c, c + 1} : board[o][i] \subseteq Idx /\ board'[o][i] \subseteq Idx
      BY <1>2, <2>3, <2>5
    <3>2. \/ l \notin board[o][c - 1] /\ l \in board'[o][c]
          \/ l \in board[o][c] /\ l \notin board'[o][c - 1]
      BY <1>2, <2>4
    <3>3. c \in Int /\ c - 1 \in {c - 1, c + 1}
      BY <1>2
    <3> HIDE DEF c
    <3>4. SafeMask(board[o], c) = SafeMask(board'[o], c)
      BY <1>2, <3>1, <3>2, <3>3, CrossedLineKeepsSafeMask
    <3> QED
      BY <1>5, <2>0, <2>1, <2>7, <3>4 DEF RealChanged, c
  <2>8. n \notin SafeChanged(s, m, t) => n \notin {b - 1, b + 2}
    BY <1>5, <2>0 DEF SafeChanged
  <2>9. n \notin RealChanged(s, m, t) => n \notin {b, b + 1}
    BY <1>5, <2>0 DEF RealChanged
  <2> QED
    BY <2>1, <2>2, <2>6, <2>7, <2>8, <2>9
<1> QED
  BY <1>4, <1>5, OppFacts

\* The types of the figures, which ToggleMove keeps.
FiguresTyped ==
  /\ safe \in [Side -> [Idx -> Nat]]
  /\ real \in [Side -> [Idx -> Nat]]
  /\ totalSafe \in [Side -> Int]
  /\ totalReal \in [Side -> Int]

LEMMA CountSafeReal ==
  ASSUME NEW rows, NEW l
  PROVE  CountSafe(rows, l) \in Nat /\ CountReal(rows, l) \in Nat
BY CountType, MaskType DEF CountSafe, CountReal

(* ToggleMove's recounts are enough to keep every line exact.                *)
LEMMA ToggleKeepsLines ==
  ASSUME NEW s \in Side, NEW m \in Moves(s), Flips(s, m), FiguresTyped, LinesExact,
         ToggleMove(s, m)
  PROVE  LinesExact' /\ FiguresTyped'
<1>1. /\ safe' = [t \in Side |-> [n \in Idx |->
           IF n \in SafeChanged(s, m, t) THEN CountSafe(board'[t], n) ELSE safe[t][n]]]
      /\ real' = [t \in Side |-> [n \in Idx |->
           IF n \in RealChanged(s, m, t) THEN CountReal(board'[t], n) ELSE real[t][n]]]
  BY DEF ToggleMove
<1>2. safe' \in [Side -> [Idx -> Nat]] /\ real' \in [Side -> [Idx -> Nat]]
  BY <1>1, CountSafeReal DEF FiguresTyped
<1>3. LinesExact'
  <2> SUFFICES ASSUME NEW t \in Side, NEW n \in Lines(t)
               PROVE  /\ safe'[t][n] = CountSafe(board'[t], n)
                      /\ real'[t][n] = CountReal(board'[t], n)
    BY DEF LinesExact
  <2>1. n \in Idx
    BY SizeFacts DEF Lines, NumRows, Side, Idx
  <2>2. safe[t][n] = CountSafe(board[t], n) /\ real[t][n] = CountReal(board[t], n)
    BY DEF LinesExact
  <2>3. n \notin SafeChanged(s, m, t) => CountSafe(board'[t], n) = CountSafe(board[t], n)
    BY FlipKeepsOtherMasks DEF CountSafe
  <2>4. n \notin RealChanged(s, m, t) => CountReal(board'[t], n) = CountReal(board[t], n)
    BY FlipKeepsOtherMasks DEF CountReal
  <2> QED
    BY <1>1, <2>1, <2>2, <2>3, <2>4
<1>4. totalSafe' \in [Side -> Int] /\ totalReal' \in [Side -> Int]
  <2> DEFINE l == m.array_index
             b == m.mask_index
             gainSafe(t, n) == safe'[t][n] - safe[t][n]
             gainReal(t, n) == real'[t][n] - real[t][n]
  <2>1. \A t \in Side : \A n \in Idx : gainSafe(t, n) \in Int /\ gainReal(t, n) \in Int
    BY <1>2 DEF FiguresTyped
  <2>2. /\ l - 1 \in Idx /\ l \in Idx /\ l + 1 \in Idx
        /\ b - 1 \in Idx /\ b \in Idx /\ b + 1 \in Idx /\ b + 2 \in Idx
    BY MoveFacts
  <2>3. /\ totalSafe' = [t \in Side |-> totalSafe[t] +
             (IF t = s THEN gainSafe(t, l - 1) + gainSafe(t, l) + gainSafe(t, l + 1)
                       ELSE gainSafe(t, b - 1) + gainSafe(t, b + 2))]
        /\ totalReal' = [t \in Side |-> totalReal[t] +
             (IF t = s THEN gainReal(t, l) ELSE gainReal(t, b) + gainReal(t, b + 1))]
    BY DEF ToggleMove, Gain
  <2> HIDE DEF gainSafe, gainReal, l, b
  <2> QED
    BY <2>1, <2>2, <2>3 DEF FiguresTyped
<1> QED
  BY <1>2, <1>3, <1>4 DEF FiguresTyped

-----------------------------------------------------------------------------
(* The totals: lines as sets of pieces.                                      *)

SafeLines(t, w) == [n \in Lines(t) |-> NonOverlapping(SafeMask(w[t], n))]
RealLines(t, w) == [n \in Lines(t) |-> NonOverlapping(RealMask(w[t], n))]

LEMMA LinesType ==
  ASSUME NEW t, NEW w
  PROVE  /\ SafeLines(t, w) \in [Lines(t) -> SUBSET Idx]
         /\ RealLines(t, w) \in [Lines(t) -> SUBSET Idx]
         /\ SafePieces(t, w) = HeldPairs(Lines(t), Idx, SafeLines(t, w))
         /\ RealPieces(t, w) = HeldPairs(Lines(t), Idx, RealLines(t, w))
<1>1. \A n \in Lines(t) : /\ NonOverlapping(SafeMask(w[t], n)) \in SUBSET Idx
                          /\ NonOverlapping(RealMask(w[t], n)) \in SUBSET Idx
  BY CountType, MaskType
<1> QED
  BY <1>1 DEF SafeLines, RealLines, SafePieces, RealPieces, HeldPairs

(* The gain ToggleMove adds for a line is the line's gain in pieces.         *)
LEMMA GainIsLineGain ==
  ASSUME NEW s \in Side, NEW m \in Moves(s), Flips(s, m), FiguresTyped, LinesExact,
         ToggleMove(s, m), NEW t \in Side, NEW n \in Idx
  PROVE  /\ LineGain(Lines(t), SafeLines(t, board), SafeLines(t, board'), n)
              = safe'[t][n] - safe[t][n]
         /\ LineGain(Lines(t), RealLines(t, board), RealLines(t, board'), n)
              = real'[t][n] - real[t][n]
         /\ safe'[t][n] - safe[t][n] \in Int
         /\ real'[t][n] - real[t][n] \in Int
<1>0. LinesExact' /\ FiguresTyped'
  BY ToggleKeepsLines
<1>1. safe[t][n] \in Nat /\ safe'[t][n] \in Nat /\ real[t][n] \in Nat /\ real'[t][n] \in Nat
  BY <1>0 DEF FiguresTyped
<1>2. CASE n \in Lines(t)
  <2>1. /\ safe[t][n] = Cardinality(SafeLines(t, board)[n])
        /\ real[t][n] = Cardinality(RealLines(t, board)[n])
    BY <1>2 DEF LinesExact, CountSafe, CountReal, CountMoves, SafeLines, RealLines
  <2>2. /\ safe'[t][n] = Cardinality(SafeLines(t, board')[n])
        /\ real'[t][n] = Cardinality(RealLines(t, board')[n])
    BY <1>0, <1>2 DEF LinesExact, CountSafe, CountReal, CountMoves, SafeLines, RealLines
  <2> QED
    BY <1>1, <1>2, <2>1, <2>2 DEF LineGain
<1>3. CASE n \notin Lines(t)
  <2>1. n \notin SafeChanged(s, m, t)
    BY <1>3 DEF SafeChanged
  <2>2. n \notin RealChanged(s, m, t)
    BY <1>3, MoveFacts, OppFacts DEF RealChanged
  <2>3. safe'[t][n] = safe[t][n] /\ real'[t][n] = real[t][n]
    BY <2>1, <2>2 DEF ToggleMove
  <2> QED
    BY <1>1, <1>3, <2>3 DEF LineGain
<1> QED
  BY <1>1, <1>2, <1>3

(* The totals stay exact.                                                    *)
LEMMA ToggleKeepsTotals ==
  ASSUME NEW s \in Side, NEW m \in Moves(s), Flips(s, m), FiguresTyped, LinesExact,
         TotalsExact, ToggleMove(s, m)
  PROVE  TotalsExact'
<1> DEFINE l == m.array_index
           b == m.mask_index
<1> SUFFICES ASSUME NEW t \in Side
             PROVE  /\ totalSafe'[t] = Cardinality(SafePieces(t, board'))
                    /\ totalReal'[t] = Cardinality(RealPieces(t, board'))
  BY DEF TotalsExact
<1> DEFINE N == Lines(t)
           SG == SafeLines(t, board)
           SH == SafeLines(t, board')
           RG == RealLines(t, board)
           RH == RealLines(t, board')
<1>1. /\ l - 1 \in Idx /\ l \in Idx /\ l + 1 \in Idx /\ l \in Int
      /\ b - 1 \in Idx /\ b \in Idx /\ b + 1 \in Idx /\ b + 2 \in Idx /\ b \in Int
  BY MoveFacts
<1>2. /\ SG \in [N -> SUBSET Idx] /\ SH \in [N -> SUBSET Idx]
      /\ RG \in [N -> SUBSET Idx] /\ RH \in [N -> SUBSET Idx]
      /\ IsFiniteSet(N) /\ IsFiniteSet(Idx)
  BY LinesType, FiniteIdx
<1>3. /\ \A n \in N : n \notin SafeChanged(s, m, t) => SH[n] = SG[n]
      /\ \A n \in N : n \notin RealChanged(s, m, t) => RH[n] = RG[n]
  BY FlipKeepsOtherMasks DEF SafeLines, RealLines
<1>4. /\ totalSafe[t] = Cardinality(HeldPairs(N, Idx, SG))
      /\ totalReal[t] = Cardinality(HeldPairs(N, Idx, RG))
      /\ Cardinality(SafePieces(t, board')) = Cardinality(HeldPairs(N, Idx, SH))
      /\ Cardinality(RealPieces(t, board')) = Cardinality(HeldPairs(N, Idx, RH))
      /\ totalSafe[t] \in Int /\ totalReal[t] \in Int
  BY LinesType DEF TotalsExact, FiguresTyped
<1>5. \A n \in Idx : /\ LineGain(N, SG, SH, n) = Gain(safe'[t], safe[t], n)
                     /\ LineGain(N, RG, RH, n) = Gain(real'[t], real[t], n)
                     /\ Gain(safe'[t], safe[t], n) \in Int
                     /\ Gain(real'[t], real[t], n) \in Int
  BY GainIsLineGain DEF Gain
<1>6. \A n : n \notin N => LineGain(N, SG, SH, n) = 0 /\ LineGain(N, RG, RH, n) = 0
  BY DEF LineGain
<1>7. -1 \notin N /\ -2 \notin N
  BY DEF Lines
<1>8. /\ totalSafe'[t] = totalSafe[t] +
           (IF t = s THEN Gain(safe'[t], safe[t], l - 1) + Gain(safe'[t], safe[t], l)
                            + Gain(safe'[t], safe[t], l + 1)
                     ELSE Gain(safe'[t], safe[t], b - 1) + Gain(safe'[t], safe[t], b + 2))
      /\ totalReal'[t] = totalReal[t] +
           (IF t = s THEN Gain(real'[t], real[t], l)
                     ELSE Gain(real'[t], real[t], b) + Gain(real'[t], real[t], b + 1))
  BY DEF ToggleMove
<1>9. CASE t = s
  <2> DEFINE p == l - 1
             r == l + 1
             off == -1
             off2 == -2
  <2>1. \A n \in N : n \notin {p, l, r} => SH[n] = SG[n]
    BY <1>1, <1>3, <1>9 DEF SafeChanged
  <2>2. \A n \in N : n \notin {l, off, off2} => RH[n] = RG[n]
    BY <1>3, <1>9 DEF RealChanged
  <2> HIDE DEF N, SG, SH, RG, RH, l, b, p, r, off, off2
  <2>3. Cardinality(HeldPairs(N, Idx, SH)) = Cardinality(HeldPairs(N, Idx, SG))
          + LineGain(N, SG, SH, p) + LineGain(N, SG, SH, l) + LineGain(N, SG, SH, r)
    <3>1. p # l /\ l # r /\ p # r
      BY <1>1 DEF p, r
    <3>2. /\ IsFiniteSet(N) /\ IsFiniteSet(Idx)
          /\ SG \in [N -> SUBSET Idx] /\ SH \in [N -> SUBSET Idx]
      BY <1>2
    <3> QED
      BY <2>1, <3>1, <3>2, ThreeLinesChanged
  <2>4. Cardinality(HeldPairs(N, Idx, RH)) = Cardinality(HeldPairs(N, Idx, RG))
          + LineGain(N, RG, RH, l) + LineGain(N, RG, RH, off) + LineGain(N, RG, RH, off2)
    <3>1. l # off /\ off # off2 /\ l # off2
      BY <1>1 DEF Idx, off, off2
    <3>2. /\ IsFiniteSet(N) /\ IsFiniteSet(Idx)
          /\ RG \in [N -> SUBSET Idx] /\ RH \in [N -> SUBSET Idx]
      BY <1>2
    <3> QED
      BY <2>2, <3>1, <3>2, ThreeLinesChanged
  <2> QED
    BY <1>1, <1>4, <1>5, <1>6, <1>7, <1>8, <1>9, <2>3, <2>4 DEF p, r, off, off2
<1>10. CASE t # s
  <2> DEFINE p == b - 1
             q == b + 1
             r == b + 2
             off == -1
  <2>1. \A n \in N : n \notin {p, r, off} => SH[n] = SG[n]
    BY <1>1, <1>3, <1>10 DEF SafeChanged
  <2>2. \A n \in N : n \notin {b, q, off} => RH[n] = RG[n]
    BY <1>3, <1>10 DEF RealChanged
  <2> HIDE DEF N, SG, SH, RG, RH, l, b, p, q, r, off
  <2>3. Cardinality(HeldPairs(N, Idx, SH)) = Cardinality(HeldPairs(N, Idx, SG))
          + LineGain(N, SG, SH, p) + LineGain(N, SG, SH, r) + LineGain(N, SG, SH, off)
    <3>1. p # r /\ r # off /\ p # off
      BY <1>1 DEF Idx, p, r, off
    <3>2. /\ IsFiniteSet(N) /\ IsFiniteSet(Idx)
          /\ SG \in [N -> SUBSET Idx] /\ SH \in [N -> SUBSET Idx]
      BY <1>2
    <3> QED
      BY <2>1, <3>1, <3>2, ThreeLinesChanged
  <2>4. Cardinality(HeldPairs(N, Idx, RH)) = Cardinality(HeldPairs(N, Idx, RG))
          + LineGain(N, RG, RH, b) + LineGain(N, RG, RH, q) + LineGain(N, RG, RH, off)
    <3>1. b # q /\ q # off /\ b # off
      BY <1>1 DEF Idx, q, off
    <3>2. /\ IsFiniteSet(N) /\ IsFiniteSet(Idx)
          /\ RG \in [N -> SUBSET Idx] /\ RH \in [N -> SUBSET Idx]
      BY <1>2
    <3> QED
      BY <2>2, <3>1, <3>2, ThreeLinesChanged
  <2> QED
    BY <1>1, <1>4, <1>5, <1>6, <1>7, <1>8, <1>10, <2>3, <2>4 DEF p, q, r, off
<1> QED
  BY <1>9, <1>10

-----------------------------------------------------------------------------
(* The squares of the game.                                                  *)

LEMMA OccupiedBit ==
  ASSUME ViewsAgree, NEW r \in 1 .. Rows, NEW c \in 1 .. Cols
  PROVE  /\ <<r, c>> \in Occupied <=> c \in board["H"][r]
         /\ <<r, c>> \in Occupied <=> r \in board["V"][c]
<1>1. r \in Idx /\ c \in Idx
  BY SizeFacts DEF Idx
<1>2. c \in board["H"][r] <=> r \in board["V"][c]
  BY <1>1 DEF ViewsAgree
<1>3. <<r, c>> \in Square
  BY DEF Square
<1>4. <<r, c>> \in Occupied <=> c \in board["H"][r]
  BY <1>3 DEF Occupied
<1> QED
  BY <1>2, <1>4

\* The two squares of a move are different squares of the board.
LEMMA SquaresOfMove ==
  ASSUME NEW s \in Side, NEW m \in Moves(s)
  PROVE  /\ Squares(s, m) \in SUBSET Square
         /\ IsFiniteSet(Squares(s, m)) /\ Cardinality(Squares(s, m)) = 2
         /\ Squares(s, m) \in Game!Dominoes(s)
<1> DEFINE l == m.array_index
           b == m.mask_index
<1>1. CASE s = "H"
  <2>1. l \in 1 .. Rows /\ b \in 1 .. (Cols - 1) /\ b \in Int
    BY <1>1, SizeFacts DEF Moves, Lines, NumRows, Opp
  <2>2. Squares(s, m) = {<<l, b>>, <<l, b + 1>>} /\ <<l, b>> # <<l, b + 1>>
    BY <1>1, <2>1 DEF Squares
  <2>3. <<l, b>> \in Square /\ <<l, b + 1>> \in Square
    BY <2>1, SizeFacts DEF Square
  <2>4. Squares(s, m) \in Game!Dominoes(s)
    BY <1>1, <2>1, <2>2 DEF Game!Dominoes
  <2>5. IsFiniteSet(Squares(s, m)) /\ Cardinality(Squares(s, m)) = 2
    BY <2>2, TwoElements
  <2> QED
    BY <2>2, <2>3, <2>4, <2>5
<1>2. CASE s = "V"
  <2>1. l \in 1 .. Cols /\ b \in 1 .. (Rows - 1) /\ b \in Int
    BY <1>2, SizeFacts DEF Moves, Lines, NumRows, Opp
  <2>2. Squares(s, m) = {<<b, l>>, <<b + 1, l>>} /\ <<b, l>> # <<b + 1, l>>
    BY <1>2, <2>1 DEF Squares
  <2>3. <<b, l>> \in Square /\ <<b + 1, l>> \in Square
    BY <2>1, SizeFacts DEF Square
  <2>4. Squares(s, m) \in Game!Dominoes(s)
    BY <1>2, <2>1, <2>2 DEF Game!Dominoes
  <2>5. IsFiniteSet(Squares(s, m)) /\ Cardinality(Squares(s, m)) = 2
    BY <2>2, TwoElements
  <2> QED
    BY <2>2, <2>3, <2>4, <2>5
<1> QED
  BY <1>1, <1>2 DEF Side

\* Free and occupied moves, in words and in squares.
LEMMA MoveSquares ==
  ASSUME ViewsAgree, NEW s \in Side, NEW m \in Moves(s)
  PROVE  /\ Fits(s, m) <=> Squares(s, m) \cap Occupied = {}
         /\ Present(s, m) <=> Squares(s, m) \subseteq Occupied
<1>1. CASE s = "H"
  <2>1. m.array_index \in 1 .. Rows /\ m.mask_index \in 1 .. Cols /\ m.mask_index + 1 \in 1 .. Cols
    BY <1>1, SizeFacts DEF Moves, Lines, NumRows, Opp
  <2> QED
    BY <1>1, <2>1, OccupiedBit DEF Squares, Fits, Present
<1>2. CASE s = "V"
  <2>1. m.array_index \in 1 .. Cols /\ m.mask_index \in 1 .. Rows /\ m.mask_index + 1 \in 1 .. Rows
    BY <1>2, SizeFacts DEF Moves, Lines, NumRows, Opp
  <2> QED
    BY <1>2, <2>1, OccupiedBit DEF Squares, Fits, Present
<1> QED
  BY <1>1, <1>2 DEF Side

\* Flipping a move flips its squares and no other.
LEMMA FlipSquares ==
  ASSUME NEW s \in Side, NEW m \in Moves(s), Flips(s, m)
  PROVE  Occupied' = Xor(Occupied, Squares(s, m))
<1> DEFINE l == m.array_index
           b == m.mask_index
           w == Toggled(s, m)
<1>1. /\ \A n \in Idx : n # l => w[s][n] = board[s][n]
      /\ w[s][l] = Xor(board[s][l], {b, b + 1})
  BY ToggledWords DEF Flips
<1>2. ViewsAgree /\ ViewsAgree' /\ board' = w
  BY FlipKeepsViews DEF Flips
<1>3. Occupied \subseteq Square /\ Occupied' \subseteq Square /\ Squares(s, m) \subseteq Square
  BY SquaresOfMove DEF Occupied
<1>4. ASSUME NEW r \in 1 .. Rows, NEW c \in 1 .. Cols
      PROVE  <<r, c>> \in Occupied' <=> <<r, c>> \in Xor(Occupied, Squares(s, m))
  <2>0. r \in Idx /\ c \in Idx
    BY SizeFacts DEF Idx
  <2>1. CASE s = "H"
    <3>1. <<r, c>> \in Occupied <=> c \in board["H"][r]
      BY <1>2, OccupiedBit
    <3>2. <<r, c>> \in Occupied' <=> c \in board'["H"][r]
      <4>1. <<r, c>> \in Square
        BY DEF Square
      <4> QED
        BY <4>1 DEF Occupied
    <3>3. <<r, c>> \in Squares(s, m) <=> r = l /\ c \in {b, b + 1}
      BY <2>1 DEF Squares
    <3>4. c \in w["H"][r] <=>
            IF r = l /\ c \in {b, b + 1} THEN c \notin board["H"][r] ELSE c \in board["H"][r]
      BY <1>1, <2>0, <2>1 DEF Xor
    <3> QED
      BY <1>2, <3>1, <3>2, <3>3, <3>4 DEF Xor
  <2>2. CASE s = "V"
    <3>1. <<r, c>> \in Occupied <=> r \in board["V"][c]
      BY <1>2, OccupiedBit
    <3>2. <<r, c>> \in Occupied' <=> r \in board'["V"][c]
      <4>1. <<r, c>> \in Square
        BY DEF Square
      <4>2. c \in board'["H"][r] <=> r \in board'["V"][c]
        BY <1>2, <2>0 DEF ViewsAgree
      <4> QED
        BY <4>1, <4>2 DEF Occupied
    <3>3. <<r, c>> \in Squares(s, m) <=> c = l /\ r \in {b, b + 1}
      BY <2>2 DEF Squares
    <3>4. r \in w["V"][c] <=>
            IF c = l /\ r \in {b, b + 1} THEN r \notin board["V"][c] ELSE r \in board["V"][c]
      BY <1>1, <2>0, <2>2 DEF Xor
    <3> QED
      BY <1>2, <3>1, <3>2, <3>3, <3>4 DEF Xor
  <2> QED
    BY <2>1, <2>2 DEF Side
<1> HIDE DEF w
<1> QED
  <2>1. \A q \in Square : q \in Occupied' <=> q \in Xor(Occupied, Squares(s, m))
    BY <1>4 DEF Square
  <2>2. Xor(Occupied, Squares(s, m)) \subseteq Square
    BY <1>3 DEF Xor
  <2> QED
    BY <1>3, <2>1, <2>2

LEMMA FiniteSquares == IsFiniteSet(Square)
<1>1. IsFiniteSet(1 .. Rows) /\ IsFiniteSet(1 .. Cols)
  BY SizeFacts, FirstNumbers
<1> QED
  BY <1>1, FS_Product DEF Square

\* The totals are natural numbers.
LEMMA PieceCounts ==
  ASSUME NEW s \in Side, NEW w
  PROVE  Cardinality(SafePieces(s, w)) \in Nat /\ Cardinality(RealPieces(s, w)) \in Nat
<1>1. IsFiniteSet(Lines(s) \X Idx)
  BY FiniteIdx, FS_Product
<1>2. IsFiniteSet(SafePieces(s, w)) /\ IsFiniteSet(RealPieces(s, w))
  BY <1>1, FS_Subset DEF SafePieces, RealPieces
<1> QED
  BY <1>2, FS_CardinalityType

\* Key bits are integers.
LEMMA ToggleBitsType ==
  ASSUME hashkey \in [Flip -> SUBSET Int], NEW bits \in SUBSET Int
  PROVE  ToggleBits(bits) \in [Flip -> SUBSET Int]
<1>1. \A f \in Flip : \A b \in Int : FlippedBit(f, b) \in Int
  <2> SUFFICES ASSUME NEW f \in Flip, NEW b \in Int
               PROVE  FlippedBit(f, b) \in Int
    OBVIOUS
  <2>1. b \div Cols \in Int /\ b % Cols \in Int
    BY SizeFacts
  <2> QED
    BY <2>1, SizeFacts DEF FlippedBit, Flip
<1> QED
  BY <1>1 DEF ToggleBits, Xor

-----------------------------------------------------------------------------
(* The hash keys.                                                            *)

\* The bit of the unflipped key that stands for a square.
KeyBit(q) == (q[1] - 1) * Cols + (q[2] - 1)

\* The bits of a set of squares in the key of one mirror image.
Image(f, S) == {FlippedBit(f, KeyBit(q)) : q \in S}

(* A row and a column, numbered from 0, are found again in their bit.        *)
LEMMA BitParts ==
  ASSUME NEW K \in Nat, NEW r \in Nat, NEW c \in 0 .. (K - 1)
  PROVE  (r * K + c) \div K = r /\ (r * K + c) % K = c
<1> DEFINE n == r * K + c
           d == n \div K
           e == n % K
<1>1. K > 0 /\ n \in Nat
  OBVIOUS
<1>2. d \in Int /\ e \in 0 .. (K - 1) /\ n = K * d + e
  BY <1>1
<1>3. K * r + c = K * d + e
  BY <1>2
<1> HIDE DEF n, d, e
<1>4. ASSUME d >= r + 1 PROVE FALSE
  <2>1. K * d >= K * (r + 1)
    BY <1>1, <1>2, <1>4
  <2>2. K * (r + 1) = K * r + K
    OBVIOUS
  <2> QED
    BY <1>1, <1>2, <1>3, <2>1, <2>2
<1>5. ASSUME r >= d + 1 PROVE FALSE
  <2>1. K * r >= K * (d + 1)
    BY <1>1, <1>2, <1>5
  <2>2. K * (d + 1) = K * d + K
    BY <1>2
  <2> QED
    BY <1>1, <1>2, <1>3, <2>1, <2>2
<1>6. d = r
  BY <1>2, <1>4, <1>5
<1>7. e = c
  BY <1>2, <1>3, <1>6
<1> QED
  BY <1>6, <1>7 DEF n, d, e

(* Where a square lies in the key of a mirror image: its row and its column,
   each counted from one edge or the other.                                   *)
FlipRow(f, q) == IF f \in {"normal", "vert"} THEN q[1] - 1 ELSE Rows - q[1]
FlipCol(f, q) == IF f \in {"normal", "horz"} THEN q[2] - 1 ELSE Cols - q[2]

LEMMA FlippedSquare ==
  ASSUME NEW f \in Flip, NEW q \in Square
  PROVE  /\ FlippedBit(f, KeyBit(q)) = FlipRow(f, q) * Cols + FlipCol(f, q)
         /\ FlipRow(f, q) \in Nat /\ FlipCol(f, q) \in 0 .. (Cols - 1)
<1>1. /\ q[1] - 1 \in Nat /\ q[1] \in Nat /\ q[1] <= Rows
      /\ q[2] - 1 \in 0 .. (Cols - 1) /\ q[2] \in Nat
  BY SizeFacts DEF Square
<1>2. KeyBit(q) \div Cols = q[1] - 1 /\ KeyBit(q) % Cols = q[2] - 1
  BY <1>1, BitParts, SizeFacts DEF KeyBit
<1>3. /\ Rows - (q[1] - 1) - 1 = Rows - q[1] /\ Rows - q[1] \in Nat
      /\ Cols - (q[2] - 1) - 1 = Cols - q[2] /\ Cols - q[2] \in 0 .. (Cols - 1)
  BY <1>1, SizeFacts
<1>4. FlipRow(f, q) \in Nat /\ FlipCol(f, q) \in 0 .. (Cols - 1)
  BY <1>1, <1>3 DEF FlipRow, FlipCol
<1> HIDE DEF KeyBit
<1>5. FlippedBit(f, KeyBit(q)) = FlipRow(f, q) * Cols + FlipCol(f, q)
  <2>1. CASE f = "normal"
    BY <1>2, <2>1 DEF FlippedBit, FlipRow, FlipCol
  <2>2. CASE f = "vert"
    BY <1>2, <1>3, <2>2 DEF FlippedBit, FlipRow, FlipCol
  <2>3. CASE f = "horz"
    BY <1>2, <1>3, <2>3 DEF FlippedBit, FlipRow, FlipCol
  <2>4. CASE f = "vert_horz"
    BY <1>2, <1>3, <2>4 DEF FlippedBit, FlipRow, FlipCol
  <2> QED
    BY <2>1, <2>2, <2>3, <2>4 DEF Flip
<1> QED
  BY <1>4, <1>5

\* In every mirror image two squares have two bits.
LEMMA BitsApart ==
  ASSUME NEW f \in Flip, NEW p \in Square, NEW q \in Square,
         FlippedBit(f, KeyBit(p)) = FlippedBit(f, KeyBit(q))
  PROVE  p = q
<1>1. /\ FlipRow(f, p) \in Nat /\ FlipCol(f, p) \in 0 .. (Cols - 1)
      /\ FlipRow(f, q) \in Nat /\ FlipCol(f, q) \in 0 .. (Cols - 1)
      /\ FlipRow(f, p) * Cols + FlipCol(f, p) = FlipRow(f, q) * Cols + FlipCol(f, q)
  BY FlippedSquare
<1>2. /\ (FlipRow(f, p) * Cols + FlipCol(f, p)) \div Cols = FlipRow(f, p)
      /\ (FlipRow(f, p) * Cols + FlipCol(f, p)) % Cols = FlipCol(f, p)
  BY <1>1, BitParts, SizeFacts
<1>3. /\ (FlipRow(f, q) * Cols + FlipCol(f, q)) \div Cols = FlipRow(f, q)
      /\ (FlipRow(f, q) * Cols + FlipCol(f, q)) % Cols = FlipCol(f, q)
  BY <1>1, BitParts, SizeFacts
<1>4. FlipRow(f, p) = FlipRow(f, q) /\ FlipCol(f, p) = FlipCol(f, q)
  BY <1>1, <1>2, <1>3
<1>5. p[1] = q[1] /\ p[2] = q[2]
  BY <1>4, SizeFacts DEF FlipRow, FlipCol, Square
<1> QED
  BY <1>5 DEF Square

\* So flipping squares flips their bits.
LEMMA ImageOfXor ==
  ASSUME NEW f \in Flip, NEW A \in SUBSET Square, NEW B \in SUBSET Square
  PROVE  Image(f, Xor(A, B)) = Xor(Image(f, A), Image(f, B))
<1> DEFINE bit(q) == FlippedBit(f, KeyBit(q))
<1>1. \A p, q \in Square : bit(p) = bit(q) => p = q
  BY BitsApart
<1>2. Image(f, A) = {bit(q) : q \in A} /\ Image(f, B) = {bit(q) : q \in B}
      /\ Image(f, Xor(A, B)) = {bit(q) : q \in Xor(A, B)}
  BY DEF Image
<1> HIDE DEF bit
<1> QED
  BY <1>1, <1>2 DEF Xor

\* The keys of Initialize: a move toggles the bits of its two squares.
LEMMA MoveBitsAreSquares ==
  ASSUME NEW s \in Side, NEW m \in Moves(s)
  PROVE  MoveBits(s, m) = {KeyBit(q) : q \in Squares(s, m)}
<1>1. m.array_index \in Int /\ m.mask_index \in Int
  BY MoveFacts
<1>2. (m.mask_index + 1) - 1 = (m.mask_index - 1) + 1
  BY <1>1
<1>3. CASE s = "H"
  <2>1. (m.array_index - 1) * Cols + (m.mask_index - 1) + 1
          = (m.array_index - 1) * Cols + ((m.mask_index + 1) - 1)
    BY <1>1, SizeFacts
  <2> QED
    BY <1>3, <2>1 DEF MoveBits, Squares, KeyBit
<1>4. CASE s = "V"
  BY <1>2, <1>4 DEF MoveBits, Squares, KeyBit, Side
<1> QED
  BY <1>3, <1>4 DEF Side

LEMMA ToggledKeys ==
  ASSUME KeysExact, NEW S \in SUBSET Square,
         hashkey' = ToggleBits({KeyBit(q) : q \in S}), Occupied' = Xor(Occupied, S)
  PROVE  KeysExact'
<1> SUFFICES ASSUME NEW f \in Flip
             PROVE  hashkey'[f] = Image(f, Occupied')
  BY DEF KeysExact, Image, KeyBit
<1>1. hashkey[f] = Image(f, Occupied)
  BY DEF KeysExact, Image, KeyBit
<1>2. hashkey'[f] = Xor(hashkey[f], {FlippedBit(f, b) : b \in {KeyBit(q) : q \in S}})
  BY DEF ToggleBits
<1>3. {FlippedBit(f, b) : b \in {KeyBit(q) : q \in S}} = Image(f, S)
  BY DEF Image
<1>4. Occupied \in SUBSET Square
  BY DEF Occupied
<1>5. Image(f, Xor(Occupied, S)) = Xor(Image(f, Occupied), Image(f, S))
  BY <1>4, ImageOfXor
<1> QED
  BY <1>1, <1>2, <1>3, <1>5

-----------------------------------------------------------------------------
(* The initial board.                                                        *)

LEMMA NothingOccupied ==
  ASSUME Init
  PROVE  Occupied = {}
<1>1. \A q \in Square : q[1] \in Idx /\ q[1] \in Lines("H") /\ q[2] \in Lines("V")
  BY SizeFacts DEF Square, Idx, Lines, NumRows
<1>2. \A q \in Square : q[2] \notin board["H"][q[1]]
  BY <1>1 DEF Init, EmptyBoard, Side, Opp, Lines
<1> QED
  BY <1>2 DEF Occupied

LEMMA InitEstablishes == Init => IInv
<1> SUFFICES ASSUME Init
             PROVE  IInv
  OBVIOUS
<1>1. board \in [Side -> [Idx -> SUBSET Idx]] /\ played = <<>>
  BY DEF Init, EmptyBoard
<1>2. ViewsAgree
  <2>1. \A s \in Side : \A l \in Idx : \A b \in Idx :
          b \notin board[s][l] <=> l \in Lines(s) /\ b \in Lines(Opp(s))
    BY DEF Init, EmptyBoard, Lines
  <2>2. \A l \in Idx, b \in Idx : b \in board["H"][l] <=> l \in board["V"][b]
    BY <2>1 DEF Side, Opp
  <2> QED
    BY <2>1, <2>2 DEF ViewsAgree
<1>3. LinesExact
  <2>1. \A s \in Side : Lines(s) \subseteq Idx
    BY SizeFacts DEF Lines, NumRows, Side, Idx
  <2> QED
    BY <2>1 DEF Init, LinesExact
<1>4. TotalsExact
  BY DEF Init, TotalsExact
<1>5. EmptyExact
  <2>1. Square \ Occupied = Square
    BY NothingOccupied
  <2>2. Cardinality(Square) = Rows * Cols
    <3>1. IsFiniteSet(1 .. Rows) /\ Cardinality(1 .. Rows) = Rows
      BY SizeFacts, FS_Interval
    <3>2. IsFiniteSet(1 .. Cols) /\ Cardinality(1 .. Cols) = Cols
      BY SizeFacts, FS_Interval
    <3>3. Cardinality((1 .. Rows) \X (1 .. Cols)) = Cardinality(1 .. Rows) * Cardinality(1 .. Cols)
      BY <3>1, <3>2, FS_Product
    <3> QED
      BY <3>1, <3>2, <3>3 DEF Square
  <2> QED
    BY <2>1, <2>2 DEF Init, EmptyExact
<1>6. FiguresTyped /\ emptySquares \in Int /\ hashkey \in [Flip -> SUBSET Int]
  <2>1. \A s \in Side : Cardinality(SafePieces(s, board)) \in Nat
                        /\ Cardinality(RealPieces(s, board)) \in Nat
    BY PieceCounts
  <2> QED
    BY <2>1, CountSafeReal, SizeFacts DEF Init, FiguresTyped
<1>7. PlayedPresent
  BY <1>1 DEF PlayedPresent
<1> QED
  BY <1>1, <1>2, <1>3, <1>4, <1>5, <1>6, <1>7 DEF IInv, Typed, FiguresTyped

-----------------------------------------------------------------------------
(* The steps.                                                                *)

\* A block recounts everything.
LEMMA SetBlockKeeps ==
  ASSUME IInv, NEW row \in 0 .. (Rows - 1), NEW col \in 0 .. (Cols - 1), SetBlock(row, col)
  PROVE  IInv' /\ Occupied' = Occupied \cup {<<row + 1, col + 1>>}
<1> DEFINE r == row + 1
           c == col + 1
           q == <<r, c>>
<1>1. /\ r \in 1 .. Rows /\ c \in 1 .. Cols /\ r \in Idx /\ c \in Idx
      /\ q \in Square /\ q \notin Occupied
  BY SizeFacts DEF Idx, Square, SetBlock
<1>2. /\ board \in [Side -> [Idx -> SUBSET Idx]]
      /\ board' = [board EXCEPT !["H"][r] = @ \cup {c}, !["V"][c] = @ \cup {r}]
  BY DEF IInv, Typed, SetBlock
<1> HIDE DEF r, c
<1>3. /\ board' \in [Side -> [Idx -> SUBSET Idx]]
      /\ \A n, x \in Idx : x \in board'["H"][n] <=> x \in board["H"][n] \/ (n = r /\ x = c)
      /\ \A n, x \in Idx : x \in board'["V"][n] <=> x \in board["V"][n] \/ (n = c /\ x = r)
  BY <1>1, <1>2 DEF Side
<1>4. ViewsAgree'
  <2>1. \A n, x \in Idx : x \in board'["H"][n] <=> n \in board'["V"][x]
    BY <1>3 DEF IInv, ViewsAgree
  <2>2. \A s \in Side : \A n \in Idx : board[s][n] \subseteq board'[s][n]
    BY <1>2, <1>3 DEF Side
  <2>3. \A s \in Side : \A l \in Idx : \A b \in Idx \ board'[s][l] :
          l \in Lines(s) /\ b \in Lines(Opp(s))
    BY <2>2 DEF IInv, ViewsAgree
  <2> QED
    BY <2>1, <2>3 DEF ViewsAgree
<1>5. LinesExact'
  <2>1. \A s \in Side : Lines(s) \subseteq Idx
    BY SizeFacts DEF Lines, NumRows, Side, Idx
  <2> QED
    BY <2>1 DEF SetBlock, InitInfo, LinesExact
<1>6. TotalsExact'
  BY DEF SetBlock, InitInfo, TotalsExact
<1>7. Occupied' = Occupied \cup {q}
  <2>1. \A p \in Square : p \in Occupied' <=> p \in Occupied \/ p = q
    <3> SUFFICES ASSUME NEW i \in 1 .. Rows, NEW j \in 1 .. Cols
                 PROVE  <<i, j>> \in Occupied' <=> <<i, j>> \in Occupied \/ <<i, j>> = q
      BY DEF Square
    <3>1. i \in Idx /\ j \in Idx /\ <<i, j>> \in Square
      BY SizeFacts DEF Idx, Square
    <3>2. <<i, j>> \in Occupied' <=> j \in board'["H"][i]
      BY <3>1 DEF Occupied
    <3>3. <<i, j>> \in Occupied <=> j \in board["H"][i]
      BY <3>1 DEF Occupied
    <3> QED
      BY <1>3, <3>1, <3>2, <3>3
  <2>2. Occupied \subseteq Square /\ Occupied' \subseteq Square
    BY DEF Occupied
  <2> HIDE DEF q
  <2> QED
    BY <1>1, <2>1, <2>2
<1>8. EmptyExact'
  <2>1. IsFiniteSet(Square \ Occupied) /\ Cardinality(Square \ Occupied) \in Nat
    BY FiniteSquares, FS_Subset, FS_CardinalityType
  <2>2. Square \ Occupied' = (Square \ Occupied) \ {q}
    BY <1>7
  <2>3. q \in Square \ Occupied
    BY <1>1
  <2> HIDE DEF q
  <2>4. Cardinality((Square \ Occupied) \ {q}) = Cardinality(Square \ Occupied) - 1
    BY <2>1, <2>3, FS_RemoveElement
  <2>5. emptySquares = Cardinality(Square \ Occupied) /\ emptySquares' = emptySquares - 1
    BY DEF IInv, EmptyExact, SetBlock
  <2> QED
    BY <2>2, <2>4, <2>5 DEF EmptyExact
<1>9. FiguresTyped'
  <2>1. \A s \in Side : Cardinality(SafePieces(s, board')) \in Nat
                        /\ Cardinality(RealPieces(s, board')) \in Nat
    BY PieceCounts
  <2>2. InitInfo(board')
    BY DEF SetBlock
  <2>3. safe' \in [Side -> [Idx -> Nat]] /\ real' \in [Side -> [Idx -> Nat]]
    BY <2>2, CountSafeReal DEF InitInfo
  <2>4. totalSafe' \in [Side -> Int] /\ totalReal' \in [Side -> Int]
    BY <2>1, <2>2 DEF InitInfo
  <2> QED
    BY <2>3, <2>4 DEF FiguresTyped
<1>10. emptySquares' \in Int /\ hashkey' \in [Flip -> SUBSET Int]
  <2>1. hashkey' = ToggleBits({row * Cols + col})
    BY DEF SetBlock
  <2>2. {row * Cols + col} \in SUBSET Int
    BY SizeFacts
  <2>3. ToggleBits({row * Cols + col}) \in [Flip -> SUBSET Int]
    BY <2>2, ToggleBitsType DEF IInv, Typed
  <2>4. emptySquares' = emptySquares - 1 /\ emptySquares \in Int
    BY DEF IInv, Typed, SetBlock
  <2>5. emptySquares' \in Int
    BY <2>4
  <2>6. hashkey' \in [Flip -> SUBSET Int]
    BY <2>1, <2>3, Zenon
  <2> QED
    BY <2>5, <2>6
<1>11. PlayedPresent' /\ played' = played
  BY DEF SetBlock, PlayedPresent
<1> QED
  BY <1>3, <1>4, <1>5, <1>6, <1>7, <1>8, <1>9, <1>10, <1>11
  DEF IInv, Typed, FiguresTyped, r, c

\* What ApplyMove and UndoMove have in common.
LEMMA ToggleMoveKeeps ==
  ASSUME IInv, NEW s \in Side, NEW m \in Moves(s), Fits(s, m) \/ Present(s, m),
         ToggleMove(s, m), hashkey' = ToggleBits(MoveBits(s, m))
  PROVE  /\ board' \in [Side -> [Idx -> SUBSET Idx]]
         /\ FiguresTyped' /\ ViewsAgree' /\ LinesExact' /\ TotalsExact'
         /\ hashkey' \in [Flip -> SUBSET Int]
         /\ Occupied' = Xor(Occupied, Squares(s, m))
<1>1. Flips(s, m)
  BY DEF Flips, IInv, Typed, ToggleMove
<1>2. FiguresTyped /\ LinesExact /\ TotalsExact
  BY DEF IInv, Typed, FiguresTyped
<1>3. MoveBits(s, m) \in SUBSET Int
  <2>1. m.array_index \in Int /\ m.mask_index \in Int
    BY MoveFacts
  <2> QED
    BY <2>1, SizeFacts DEF MoveBits, Side
<1>4. hashkey' \in [Flip -> SUBSET Int]
  <2>1. ToggleBits(MoveBits(s, m)) \in [Flip -> SUBSET Int]
    BY <1>3, ToggleBitsType DEF IInv, Typed
  <2> QED
    BY <2>1
<1> QED
  BY <1>1, <1>2, <1>4, FlipKeepsViews, ToggleKeepsLines, ToggleKeepsTotals, FlipSquares

\* A move lands on free squares, so it overlaps no piece of an earlier move.
LEMMA ApplyMoveKeeps ==
  ASSUME IInv, NEW s \in Side, NEW m \in Moves(s), ApplyMove(s, m)
  PROVE  /\ IInv'
         /\ Squares(s, m) \cap Occupied = {}
         /\ Occupied' = Occupied \cup Squares(s, m)
<1> DEFINE Sq == Squares(s, m)
           Free == Square \ Occupied
           entry == [side |-> s, move |-> m]
<1>1. /\ Fits(s, m) /\ ToggleMove(s, m) /\ hashkey' = ToggleBits(MoveBits(s, m))
      /\ emptySquares' = emptySquares - 2
      /\ played' = Append(played, entry)
  BY DEF ApplyMove
<1>2. /\ board' \in [Side -> [Idx -> SUBSET Idx]]
      /\ FiguresTyped' /\ ViewsAgree' /\ LinesExact' /\ TotalsExact'
      /\ hashkey' \in [Flip -> SUBSET Int]
      /\ Occupied' = Xor(Occupied, Sq)
  BY <1>1, ToggleMoveKeeps
<1>3. Sq \cap Occupied = {}
  BY <1>1, MoveSquares DEF IInv
<1>4. Occupied' = Occupied \cup Sq
  BY <1>2, <1>3 DEF Xor
<1>5. EmptyExact' /\ emptySquares' \in Int
  <2>1. IsFiniteSet(Free)
    BY FiniteSquares, FS_Subset
  <2>2. Square \ Occupied' = Free \ Sq
    BY <1>4
  <2>3. Sq \subseteq Free /\ Cardinality(Sq) = 2
    BY <1>3, SquaresOfMove
  <2> HIDE DEF Free, Sq
  <2>4. Cardinality(Free \ Sq) = Cardinality(Free) - 2
    BY <2>1, <2>3, RemovedSubset
  <2>5. emptySquares = Cardinality(Free)
    BY DEF IInv, EmptyExact, Free
  <2>6. emptySquares \in Int
    BY DEF IInv, Typed
  <2>7. emptySquares' \in Int
    BY <1>1, <2>6
  <2>8. emptySquares' = Cardinality(Free \ Sq)
    BY <1>1, <2>4, <2>5
  <2>9. emptySquares' = Cardinality(Square \ Occupied')
    BY <2>2, <2>8
  <2> QED
    BY <2>7, <2>9, Zenon DEF EmptyExact, Square
<1>6. /\ played \in Seq([side : Side, move : UNION {Moves(t) : t \in Side}])
      /\ entry \in [side : Side, move : UNION {Moves(t) : t \in Side}]
      /\ entry.side = s /\ entry.move = m
  BY DEF IInv, Typed
<1>7. played' \in Seq([side : Side, move : UNION {Moves(t) : t \in Side}])
  BY <1>1, <1>6
<1> HIDE DEF entry, Sq
<1>8. /\ Len(played') = Len(played) + 1 /\ Len(played) \in Nat
      /\ played'[Len(played) + 1] = entry
      /\ \A i \in 1 .. Len(played) : played'[i] = played[i]
  BY <1>1, <1>6
<1>9. PlayedPresent'
  <2>1. /\ \A i \in 1 .. Len(played) :
             /\ played[i].move \in Moves(played[i].side)
             /\ Squares(played[i].side, played[i].move) \subseteq Occupied
        /\ \A i, j \in 1 .. Len(played) :
             i # j => Squares(played[i].side, played[i].move)
                        \cap Squares(played[j].side, played[j].move) = {}
    BY DEF IInv, PlayedPresent
  <2>2. Squares(entry.side, entry.move) = Sq
    BY <1>6 DEF Sq
  <2>3. ASSUME NEW i \in 1 .. Len(played')
        PROVE  /\ played'[i].move \in Moves(played'[i].side)
               /\ Squares(played'[i].side, played'[i].move) \subseteq Occupied'
    <3>1. CASE i \in 1 .. Len(played)
      BY <1>4, <1>8, <2>1, <3>1
    <3>2. CASE i = Len(played) + 1
      BY <1>4, <1>6, <1>8, <2>2, <3>2
    <3> QED
      BY <1>8, <3>1, <3>2
  <2>4. ASSUME NEW i \in 1 .. Len(played'), NEW j \in 1 .. Len(played'), i # j
        PROVE  Squares(played'[i].side, played'[i].move)
                 \cap Squares(played'[j].side, played'[j].move) = {}
    <3>1. CASE i \in 1 .. Len(played) /\ j \in 1 .. Len(played)
      BY <1>8, <2>1, <2>4, <3>1
    <3>2. CASE i = Len(played) + 1 /\ j \in 1 .. Len(played)
      BY <1>3, <1>8, <2>1, <2>2, <3>2
    <3>3. CASE j = Len(played) + 1 /\ i \in 1 .. Len(played)
      BY <1>3, <1>8, <2>1, <2>2, <3>3
    <3> QED
      BY <1>8, <2>4, <3>1, <3>2, <3>3
  <2> QED
    BY <2>3, <2>4 DEF PlayedPresent
<1> QED
  BY <1>2, <1>3, <1>4, <1>5, <1>7, <1>9 DEF IInv, Typed, FiguresTyped, Sq

\* A nonempty sequence without its last element.
LEMMA Shortened ==
  ASSUME NEW S, NEW q \in Seq(S), q # <<>>
  PROVE  /\ SubSeq(q, 1, Len(q) - 1) \in Seq(S)
         /\ Len(SubSeq(q, 1, Len(q) - 1)) = Len(q) - 1
         /\ \A i \in 1 .. (Len(q) - 1) : SubSeq(q, 1, Len(q) - 1)[i] = q[i]
<1>1. Len(q) \in Nat /\ Len(q) >= 1
  BY EmptySeq
<1> DEFINE k == Len(q) - 1
<1>2. k \in Nat /\ \A i \in 1 .. k : i \in 1 .. Len(q)
  BY <1>1
<1>3. \A i \in 1 .. k : q[i] \in S
  BY <1>2, ElementOfSeq
<1>4. 1 \in Int /\ k \in Int
  BY <1>2
<1> HIDE DEF k
<1>5. /\ SubSeq(q, 1, k) \in Seq(S)
      /\ Len(SubSeq(q, 1, k)) = IF 1 <= k THEN k - 1 + 1 ELSE 0
      /\ \A i \in 1 .. (k - 1 + 1) : SubSeq(q, 1, k)[i] = q[1 + i - 1]
  BY <1>3, <1>4, SubSeqProperties
<1>6. \A i \in 1 .. k : SubSeq(q, 1, k)[i] = q[i]
  BY <1>2, <1>5
<1>7. Len(SubSeq(q, 1, k)) = k
  BY <1>2, <1>5
<1> QED
  BY <1>5, <1>6, <1>7 DEF k

\* The move that UndoMove takes back is on the board.
LEMMA LastMove ==
  ASSUME IInv, UndoMove
  PROVE  /\ Len(played) \in Nat /\ Len(played) >= 1
         /\ played[Len(played)].side \in Side
         /\ played[Len(played)].move \in Moves(played[Len(played)].side)
         /\ Present(played[Len(played)].side, played[Len(played)].move)
<1> DEFINE n == Len(played)
<1>1. /\ played \in Seq([side : Side, move : UNION {Moves(t) : t \in Side}])
      /\ played # <<>>
  BY DEF IInv, Typed, UndoMove
<1>2. n \in Nat /\ n >= 1 /\ n \in 1 .. Len(played)
  BY <1>1, EmptySeq
<1>3. played[n].side \in Side
  <2>1. played[n] \in [side : Side, move : UNION {Moves(t) : t \in Side}]
    BY <1>1, <1>2, ElementOfSeq
  <2> QED
    BY <2>1
<1>4. played[n].move \in Moves(played[n].side)
      /\ Squares(played[n].side, played[n].move) \subseteq Occupied
  BY <1>2 DEF IInv, PlayedPresent
<1>5. Present(played[n].side, played[n].move)
  BY <1>3, <1>4, MoveSquares DEF IInv
<1> QED
  BY <1>2, <1>3, <1>4, <1>5

\* An undone move frees its own squares and no one else's.
LEMMA UndoMoveKeeps ==
  ASSUME IInv, UndoMove
  PROVE  /\ IInv'
         /\ Occupied' = Occupied \ Squares(played[Len(played)].side, played[Len(played)].move)
<1> DEFINE n == Len(played)
           s == played[n].side
           m == played[n].move
           Sq == Squares(s, m)
           Free == Square \ Occupied
<1>1. /\ played \in Seq([side : Side, move : UNION {Moves(t) : t \in Side}])
      /\ played # <<>>
  BY DEF IInv, Typed, UndoMove
<1>2. n \in Nat /\ n >= 1 /\ n \in 1 .. Len(played) /\ s \in Side
  BY LastMove
<1>3. m \in Moves(s) /\ Sq \subseteq Occupied
  BY <1>2, LastMove, MoveSquares DEF IInv
<1>4. /\ ToggleMove(s, m) /\ hashkey' = ToggleBits(MoveBits(s, m))
      /\ emptySquares' = emptySquares + 2
      /\ played' = SubSeq(played, 1, n - 1)
  BY DEF UndoMove
<1>5. Present(s, m)
  BY LastMove
<1>6. /\ board' \in [Side -> [Idx -> SUBSET Idx]]
      /\ FiguresTyped' /\ ViewsAgree' /\ LinesExact' /\ TotalsExact'
      /\ hashkey' \in [Flip -> SUBSET Int]
      /\ Occupied' = Xor(Occupied, Sq)
  BY <1>2, <1>3, <1>4, <1>5, ToggleMoveKeeps
<1>7. Occupied' = Occupied \ Sq
  BY <1>3, <1>6 DEF Xor
<1>8. EmptyExact' /\ emptySquares' \in Int
  <2>1. IsFiniteSet(Free)
    BY FiniteSquares, FS_Subset
  <2>2. Sq \subseteq Square /\ IsFiniteSet(Sq) /\ Cardinality(Sq) = 2
    BY <1>2, <1>3, SquaresOfMove
  <2>3. Square \ Occupied' = Free \cup Sq
    BY <1>7, <2>2
  <2>4. Free \cap Sq = {}
    BY <1>3
  <2> HIDE DEF Free, Sq
  <2>5. Cardinality(Free \cup Sq) = Cardinality(Free) + 2
    BY <2>1, <2>2, <2>4, AddedSubset
  <2>6. emptySquares = Cardinality(Free)
    BY DEF IInv, EmptyExact, Free
  <2>7. emptySquares \in Int
    BY DEF IInv, Typed
  <2>8. emptySquares' \in Int
    BY <1>4, <2>7
  <2>9. emptySquares' = Cardinality(Free \cup Sq)
    BY <1>4, <2>5, <2>6
  <2>10. emptySquares' = Cardinality(Square \ Occupied')
    BY <2>3, <2>9
  <2> QED
    BY <2>8, <2>10, Zenon DEF EmptyExact, Square
<1>9. /\ played' \in Seq([side : Side, move : UNION {Moves(t) : t \in Side}])
      /\ Len(played') = n - 1
      /\ \A i \in 1 .. (n - 1) : played'[i] = played[i]
  <2> HIDE DEF n
  <2> QED
    BY <1>1, <1>2, <1>4, Shortened DEF n
<1>10. PlayedPresent'
  <2>1. ASSUME NEW i \in 1 .. (n - 1)
        PROVE  Squares(played[i].side, played[i].move) \subseteq Occupied'
    <3>1. i \in 1 .. Len(played) /\ i # n
      BY <1>2
    <3>2. /\ Squares(played[i].side, played[i].move) \subseteq Occupied
          /\ Squares(played[i].side, played[i].move) \cap Sq = {}
      BY <1>2, <3>1 DEF IInv, PlayedPresent
    <3> QED
      BY <1>7, <3>2
  <2>2. \A i \in 1 .. (n - 1) : i \in 1 .. Len(played)
    BY <1>2
  <2> HIDE DEF n, s, m, Sq
  <2> QED
    BY <1>9, <2>1, <2>2 DEF IInv, PlayedPresent
<1> QED
  BY <1>6, <1>7, <1>8, <1>9, <1>10 DEF IInv, Typed, FiguresTyped

\* Every step toggles the bits of the squares it flips.
LEMMA KeysStayExact == IInv /\ KeysExact /\ [Next]_vars => KeysExact'
<1> SUFFICES ASSUME IInv, KeysExact, [Next]_vars
             PROVE  KeysExact'
  OBVIOUS
<1>1. ASSUME NEW row \in 0 .. (Rows - 1), NEW col \in 0 .. (Cols - 1), SetBlock(row, col)
      PROVE  KeysExact'
  <2> DEFINE q == <<row + 1, col + 1>>
  <2>1. q \in Square /\ q \notin Occupied
    BY <1>1, SizeFacts DEF Square, SetBlock
  <2>2. Occupied' = Xor(Occupied, {q})
    BY <1>1, <2>1, SetBlockKeeps DEF Xor
  <2>3. KeyBit(q) = row * Cols + col
    BY SizeFacts DEF KeyBit
  <2>4. hashkey' = ToggleBits({row * Cols + col})
    BY <1>1 DEF SetBlock
  <2> HIDE DEF q
  <2>5. {KeyBit(p) : p \in {q}} = {row * Cols + col}
    BY <2>3
  <2>6. hashkey' = ToggleBits({KeyBit(p) : p \in {q}})
    BY <2>4, <2>5
  <2> QED
    BY <2>1, <2>2, <2>6, ToggledKeys
<1>2. ASSUME NEW s \in Side, NEW m \in Moves(s), Fits(s, m) \/ Present(s, m),
             ToggleMove(s, m), hashkey' = ToggleBits(MoveBits(s, m))
      PROVE  KeysExact'
  <2>1. Occupied' = Xor(Occupied, Squares(s, m))
    BY <1>2, ToggleMoveKeeps
  <2>2. Squares(s, m) \in SUBSET Square
    BY SquaresOfMove
  <2>3. hashkey' = ToggleBits({KeyBit(q) : q \in Squares(s, m)})
    BY <1>2, MoveBitsAreSquares
  <2> QED
    BY <2>1, <2>2, <2>3, ToggledKeys
<1>3. ASSUME NEW s \in Side, NEW m \in Moves(s), ApplyMove(s, m)
      PROVE  KeysExact'
  BY <1>2, <1>3 DEF ApplyMove
<1>4. CASE UndoMove
  BY <1>2, <1>4, LastMove DEF UndoMove
<1>5. CASE UNCHANGED vars
  BY <1>5 DEF vars, figures, KeysExact, Occupied
<1> QED
  BY <1>1, <1>3, <1>4, <1>5 DEF Next

-----------------------------------------------------------------------------
(* The figures are a function of the words.                                  *)

\* Lines a board does not have keep the zeroes of Initialize.
OffLinesZero ==
  \A s \in Side : \A n \in Idx \ Lines(s) : safe[s][n] = 0 /\ real[s][n] = 0

OccupiedIn(w) == {q \in Square : q[2] \in w["H"][q[1]]}

\* What a count of everything from scratch gives for the words w.
FiguresOf(w) ==
  << [s \in Side |-> [n \in Idx |-> IF n \in Lines(s) THEN CountSafe(w[s], n) ELSE 0]],
     [s \in Side |-> [n \in Idx |-> IF n \in Lines(s) THEN CountReal(w[s], n) ELSE 0]],
     [s \in Side |-> Cardinality(SafePieces(s, w))],
     [s \in Side |-> Cardinality(RealPieces(s, w))],
     Cardinality(Square \ OccupiedIn(w)),
     [f \in Flip |-> Image(f, OccupiedIn(w))] >>

LEMMA OffLinesStayZero ==
  ASSUME IInv, OffLinesZero, [Next]_vars
  PROVE  OffLinesZero'
<1> SUFFICES ASSUME NEW t \in Side, NEW n \in Idx \ Lines(t)
             PROVE  safe'[t][n] = 0 /\ real'[t][n] = 0
  BY DEF OffLinesZero
<1>1. safe[t][n] = 0 /\ real[t][n] = 0
  BY DEF OffLinesZero
<1>2. ASSUME NEW row \in 0 .. (Rows - 1), NEW col \in 0 .. (Cols - 1), SetBlock(row, col)
      PROVE  safe'[t][n] = 0 /\ real'[t][n] = 0
  BY <1>2 DEF SetBlock, InitInfo
<1>3. ASSUME NEW s \in Side, NEW m \in Moves(s), ToggleMove(s, m)
      PROVE  safe'[t][n] = 0 /\ real'[t][n] = 0
  <2>1. n \notin SafeChanged(s, m, t)
    BY DEF SafeChanged
  <2>2. n \notin RealChanged(s, m, t)
    BY MoveFacts, OppFacts DEF RealChanged
  <2> QED
    BY <1>1, <1>3, <2>1, <2>2 DEF ToggleMove
<1>4. ASSUME NEW s \in Side, NEW m \in Moves(s), ApplyMove(s, m)
      PROVE  safe'[t][n] = 0 /\ real'[t][n] = 0
  BY <1>3, <1>4 DEF ApplyMove
<1>5. CASE UndoMove
  BY <1>3, <1>5, LastMove DEF UndoMove
<1>6. CASE UNCHANGED vars
  BY <1>1, <1>6 DEF vars, figures
<1> QED
  BY <1>2, <1>4, <1>5, <1>6 DEF Next

LEMMA InitKeys == Init => KeysExact /\ OffLinesZero
<1> SUFFICES ASSUME Init
             PROVE  KeysExact /\ OffLinesZero
  OBVIOUS
<1>1. Occupied = {}
  BY NothingOccupied
<1> QED
  BY <1>1 DEF Init, KeysExact, OffLinesZero

LEMMA FiguresOfTheBoard == IInv /\ KeysExact /\ OffLinesZero => figures = FiguresOf(board)
<1> SUFFICES ASSUME IInv, KeysExact, OffLinesZero
             PROVE  figures = FiguresOf(board)
  OBVIOUS
<1>1. safe = [s \in Side |-> [n \in Idx |->
                IF n \in Lines(s) THEN CountSafe(board[s], n) ELSE 0]]
  <2>1. safe \in [Side -> [Idx -> Nat]]
    BY DEF IInv, Typed
  <2>2. \A s \in Side : \A n \in Idx :
          safe[s][n] = IF n \in Lines(s) THEN CountSafe(board[s], n) ELSE 0
    BY DEF IInv, LinesExact, OffLinesZero
  <2>3. \A s \in Side :
          safe[s] = [n \in Idx |-> IF n \in Lines(s) THEN CountSafe(board[s], n) ELSE 0]
    BY <2>1, <2>2
  <2> QED
    BY <2>1, <2>3
<1>2. real = [s \in Side |-> [n \in Idx |->
                IF n \in Lines(s) THEN CountReal(board[s], n) ELSE 0]]
  <2>1. real \in [Side -> [Idx -> Nat]]
    BY DEF IInv, Typed
  <2>2. \A s \in Side : \A n \in Idx :
          real[s][n] = IF n \in Lines(s) THEN CountReal(board[s], n) ELSE 0
    BY DEF IInv, LinesExact, OffLinesZero
  <2>3. \A s \in Side :
          real[s] = [n \in Idx |-> IF n \in Lines(s) THEN CountReal(board[s], n) ELSE 0]
    BY <2>1, <2>2
  <2> QED
    BY <2>1, <2>3
<1>3. /\ totalSafe = [s \in Side |-> Cardinality(SafePieces(s, board))]
      /\ totalReal = [s \in Side |-> Cardinality(RealPieces(s, board))]
  BY DEF IInv, Typed, TotalsExact
<1>4. OccupiedIn(board) = Occupied
  BY DEF OccupiedIn, Occupied
<1>5. emptySquares = Cardinality(Square \ OccupiedIn(board))
  BY <1>4 DEF IInv, EmptyExact
<1>6. hashkey = [f \in Flip |-> Image(f, OccupiedIn(board))]
  BY <1>4 DEF IInv, Typed, KeysExact, Image, KeyBit
<1> QED
  BY <1>1, <1>2, <1>3, <1>5, <1>6, Zenon DEF figures, FiguresOf

-----------------------------------------------------------------------------
(* The score of a move.                                                      *)

(* What ScoreMove counts for a line is what ToggleMove adds for it, whichever of
   the two looks at the line.                                                 *)
LEMMA ScoredGains ==
  ASSUME NEW s \in Side, NEW m \in Moves(s), Flips(s, m), FiguresTyped, LinesExact,
         ToggleMove(s, m), NEW t \in Side, NEW n \in Idx
  PROVE  /\ SafeGain(t, n, Toggled(s, m)) = Gain(safe'[t], safe[t], n)
         /\ n \in Lines(t) => RealGain(t, n, Toggled(s, m)) = Gain(real'[t], real[t], n)
         /\ Gain(safe'[t], safe[t], n) \in Int /\ Gain(real'[t], real[t], n) \in Int
<1>1. board' = Toggled(s, m)
  BY DEF Flips
<1>2. LinesExact' /\ FiguresTyped'
  BY ToggleKeepsLines
<1>3. n \in Lines(t) => /\ safe'[t][n] = CountSafe(board'[t], n)
                        /\ real'[t][n] = CountReal(board'[t], n)
  BY <1>2 DEF LinesExact
<1>4. safe[t][n] \in Nat /\ safe'[t][n] \in Nat /\ real[t][n] \in Nat /\ real'[t][n] \in Nat
  BY <1>2 DEF FiguresTyped
<1>5. n \notin Lines(t) => safe'[t][n] = safe[t][n]
  BY DEF ToggleMove, SafeChanged
<1>6. SafeGain(t, n, board') = Gain(safe'[t], safe[t], n)
  BY <1>3, <1>4, <1>5 DEF SafeGain, Gain
<1>7. n \in Lines(t) => RealGain(t, n, board') = Gain(real'[t], real[t], n)
  BY <1>3 DEF RealGain, Gain
<1>8. Gain(safe'[t], safe[t], n) \in Int /\ Gain(real'[t], real[t], n) \in Int
  BY <1>4 DEF Gain
<1> QED
  BY <1>1, <1>6, <1>7, <1>8

(* ApplyMove moves the difference of the totals by the score of the move.    *)
LEMMA ScoreOfAMove ==
  ASSUME IInv, NEW s \in Side, NEW m \in Moves(s), ApplyMove(s, m)
  PROVE  ScoreChange(s, m) = Lead(s)' - Lead(s)
<1> DEFINE o == Opp(s)
           l == m.array_index
           b == m.mask_index
           w == Toggled(s, m)
           SG(t, n) == Gain(safe'[t], safe[t], n)
           RG(t, n) == Gain(real'[t], real[t], n)
<1>1. ToggleMove(s, m) /\ Flips(s, m) /\ FiguresTyped /\ LinesExact
  BY DEF ApplyMove, ToggleMove, Flips, IInv, Typed, FiguresTyped
<1>2. o \in Side /\ o # s /\ Opp(o) = s
  BY OppFacts
<1>3. /\ l - 1 \in Idx /\ l \in Idx /\ l + 1 \in Idx /\ l \in Lines(s)
      /\ b - 1 \in Idx /\ b \in Idx /\ b + 1 \in Idx /\ b + 2 \in Idx
      /\ b \in Lines(o) /\ b + 1 \in Lines(o)
  BY MoveFacts
<1>4. \A t \in Side : \A n \in Idx :
        /\ SafeGain(t, n, w) = SG(t, n)
        /\ n \in Lines(t) => RealGain(t, n, w) = RG(t, n)
        /\ SG(t, n) \in Int /\ RG(t, n) \in Int
  BY <1>1, ScoredGains
<1>5. /\ totalSafe'[s] = totalSafe[s] + (SG(s, l - 1) + SG(s, l) + SG(s, l + 1))
      /\ totalSafe'[o] = totalSafe[o] + (SG(o, b - 1) + SG(o, b + 2))
      /\ totalReal'[s] = totalReal[s] + RG(s, l)
      /\ totalReal'[o] = totalReal[o] + (RG(o, b) + RG(o, b + 1))
  BY <1>1, <1>2 DEF ToggleMove
<1>6. /\ totalSafe[s] \in Int /\ totalSafe[o] \in Int
      /\ totalReal[s] \in Int /\ totalReal[o] \in Int
  BY <1>1, <1>2 DEF FiguresTyped
<1>7. /\ Lead(s) = totalSafe[s] + totalReal[s] - totalSafe[o] - totalReal[o]
      /\ Lead(s)' = totalSafe'[s] + totalReal'[s] - totalSafe'[o] - totalReal'[o]
  BY DEF Lead
<1>8. ScoreChange(s, m) =
        (RealGain(s, l, w) + SafeGain(s, l - 1, w) + SafeGain(s, l, w) + SafeGain(s, l + 1, w))
        - (RealGain(o, b, w) + RealGain(o, b + 1, w)
             + SafeGain(o, b - 1, w) + SafeGain(o, b + 2, w))
  BY DEF ScoreChange, OwnGain, OpponentGain
<1> HIDE DEF SG, RG, w, l, b, o
<1>9. ScoreChange(s, m) =
        (RG(s, l) + SG(s, l - 1) + SG(s, l) + SG(s, l + 1))
        - (RG(o, b) + RG(o, b + 1) + SG(o, b - 1) + SG(o, b + 2))
  BY <1>2, <1>3, <1>4, <1>8
<1>10. /\ RG(s, l) \in Int /\ SG(s, l - 1) \in Int /\ SG(s, l) \in Int /\ SG(s, l + 1) \in Int
       /\ RG(o, b) \in Int /\ RG(o, b + 1) \in Int
       /\ SG(o, b - 1) \in Int /\ SG(o, b + 2) \in Int
  BY <1>2, <1>3, <1>4
<1> QED
  BY <1>5, <1>6, <1>7, <1>9, <1>10

-----------------------------------------------------------------------------
(* The theorems.                                                             *)

LEMMA StepKeeps == IInv /\ [Next]_vars => IInv'
<1> SUFFICES ASSUME IInv, [Next]_vars
             PROVE  IInv'
  OBVIOUS
<1>1. CASE \E row \in 0 .. (Rows - 1), col \in 0 .. (Cols - 1) : SetBlock(row, col)
  BY <1>1, SetBlockKeeps
<1>2. CASE \E s \in Side : \E m \in Moves(s) : ApplyMove(s, m)
  BY <1>2, ApplyMoveKeeps
<1>3. CASE UndoMove
  BY <1>3, UndoMoveKeeps
<1>4. CASE UNCHANGED vars
  BY <1>4 DEF vars, figures, IInv, Typed, ViewsAgree, LinesExact, TotalsExact, EmptyExact,
              PlayedPresent, Occupied
<1> QED
  BY <1>1, <1>2, <1>3, <1>4 DEF Next

LEMMA Invariance == Spec => []IInv
BY InitEstablishes, StepKeeps, PTL DEF Spec

(* The state of a board always has the types of its fields, and no total ever
   becomes negative.                                                          *)
THEOREM BoardTypeCorrect == Spec => []TypeOK
<1>1. IInv => TypeOK
  BY PieceCounts DEF IInv, Typed, TypeOK, TotalsExact
<1> QED
  BY <1>1, Invariance, PTL

(* Both players always see the same squares, whatever was played and undone.  *)
THEOREM BoardViewsAgree == Spec => []ViewsAgree
BY Invariance, PTL DEF IInv

(* board.cc:79-125: the counts of every line are those of a count from scratch, so
   the lines ToggleMove skips did not need it; so are the totals IsGameOver
   compares and the number of empty squares that both players share.           *)
THEOREM BoardFiguresExact == Spec => []FiguresExact
<1>1. IInv => FiguresExact
  BY DEF IInv, FiguresExact
<1> QED
  BY <1>1, Invariance, PTL

(* transposition.cc looks a position up by its four keys: each key is always the
   set of occupied squares of one mirror image, so two positions share a key
   only when that image is the same for both.                                  *)
THEOREM BoardKeysExact == Spec => []KeysExact
<1> QED
  BY InitKeys, InitEstablishes, StepKeeps, KeysStayExact, PTL DEF Spec

(* ScoreMove recounts fewer lines than it might, and ToggleMove other ones; still
   the score that orders the moves is exactly what the move then changes.      *)
THEOREM BoardScoreIsTheGain == Spec => ScoreIsTheGain
<1> DEFINE ScoredRight ==
      \A s \in Side : \A m \in Moves(s) :
        ApplyMove(s, m) => ScoreChange(s, m) = Lead(s)' - Lead(s)
<1>1. IInv /\ [Next]_vars => [ScoredRight]_vars
  BY ScoreOfAMove
<1>2. Spec => [][ScoredRight]_vars
  BY <1>1, Invariance, PTL DEF Spec
<1> QED
  BY <1>2 DEF ScoreIsTheGain

(* Whatever was played and undone to reach it, a position with the same words has
   the same figures: nothing of the path is left in them.                      *)
THEOREM PathLeavesNoTrace == Spec => [](figures = FiguresOf(board))
<1>1. IInv /\ OffLinesZero /\ [Next]_vars => OffLinesZero'
  BY OffLinesStayZero
<1> QED
  BY <1>1, FiguresOfTheBoard, InitKeys, InitEstablishes, StepKeeps, KeysStayExact, PTL DEF Spec

-----------------------------------------------------------------------------
(* Board implements the game of Domineering: the bitboards and everything
   kept beside them never let a call do what the game does not.              *)

\* An empty board is the start of the game.
LEMMA InitRefines == Init => Game!Init
<1> SUFFICES ASSUME Init
             PROVE  Game!Init
  OBVIOUS
<1>1. Occupied = {}
  BY NothingOccupied
<1>2. Laid = <<>>
  BY DEF Init, Laid
<1> QED
  BY <1>1, <1>2 DEF Game!Init

\* The pieces of the moves played, as the game has them.
LEMMA LaidIsASeq ==
  ASSUME IInv
  PROVE  Laid \in Seq(SUBSET Square) /\ Len(Laid) = Len(played)
<1> DEFINE Laying == [side : Side, move : UNION {Moves(t) : t \in Side}]
<1>1. played \in Seq(Laying)
  BY DEF IInv, Typed
<1>2. Len(played) \in Nat
  BY <1>1
<1>3. \A i \in 1 .. Len(played) : played[i] \in Laying
  <2> HIDE DEF Laying
  <2> QED
    BY <1>1, ElementOfSeq
<1>4. \A i \in 1 .. Len(played) : played[i].side \in Side
  BY <1>3
<1>5. \A i \in 1 .. Len(played) : played[i].move \in Moves(played[i].side)
  BY DEF IInv, PlayedPresent
<1>6. \A i \in 1 .. Len(played) : Squares(played[i].side, played[i].move) \in SUBSET Square
  BY <1>4, <1>5, SquaresOfMove
<1> QED
  BY <1>2, <1>6 DEF Laid

LEMMA SetBlockRefines ==
  ASSUME IInv, NEW row \in 0 .. (Rows - 1), NEW col \in 0 .. (Cols - 1), SetBlock(row, col)
  PROVE  Game!Block
<1> DEFINE q == <<row + 1, col + 1>>
<1>1. q \in Game!Square \ Occupied
  BY SizeFacts DEF Game!Square, SetBlock
<1>2. Occupied' = Occupied \cup {q}
  BY SetBlockKeeps
<1>3. Laid = <<>> /\ Laid' = Laid
  BY DEF SetBlock, Laid
<1> QED
  BY <1>1, <1>2, <1>3 DEF Game!Block

LEMMA ApplyMoveRefines ==
  ASSUME IInv, NEW s \in Side, NEW m \in Moves(s), ApplyMove(s, m)
  PROVE  Game!Lay
<1> DEFINE d == Squares(s, m)
           n == Len(played)
           entry == [side |-> s, move |-> m]
<1>1. d \in Game!Dominoes(s) /\ s \in {"H", "V"}
  BY SquaresOfMove DEF Side
<1>2. d \cap Occupied = {} /\ Occupied' = Occupied \cup d
  BY ApplyMoveKeeps
<1>3. /\ played \in Seq([side : Side, move : UNION {Moves(t) : t \in Side}])
      /\ entry \in [side : Side, move : UNION {Moves(t) : t \in Side}]
      /\ played' = Append(played, entry)
  BY DEF IInv, Typed, ApplyMove
<1>4. entry.side = s /\ entry.move = m
  OBVIOUS
<1> HIDE DEF entry
<1>5. /\ n \in Nat /\ Len(played') = n + 1 /\ played'[n + 1] = entry
      /\ \A i \in 1 .. n : played'[i] = played[i]
  BY <1>3
<1>6. Laid' = Append(Laid, d)
  <2>1. Laid = [i \in 1 .. n |-> Squares(played[i].side, played[i].move)]
    BY DEF Laid
  <2>2. Laid' = [i \in 1 .. (n + 1) |-> Squares(played'[i].side, played'[i].move)]
    BY <1>5 DEF Laid
  <2>3. Laid \in Seq(SUBSET Square) /\ Len(Laid) = n
    BY LaidIsASeq
  <2>4. Append(Laid, d) = [i \in 1 .. (n + 1) |-> IF i = n + 1 THEN d ELSE Laid[i]]
    <3> DEFINE tgt == [i \in 1 .. (n + 1) |-> IF i = n + 1 THEN d ELSE Laid[i]]
    <3>1. d \in SUBSET Square
      BY SquaresOfMove
    <3> HIDE DEF d
    <3>2. /\ Append(Laid, d) \in Seq(SUBSET Square)
          /\ Len(Append(Laid, d)) = n + 1
          /\ \A i \in 1 .. n : Append(Laid, d)[i] = Laid[i]
          /\ Append(Laid, d)[n + 1] = d
      BY <1>5, <2>3, <3>1, AppendProperties
    <3>3. \A i \in 1 .. n : Laid[i] \in SUBSET Square
      BY <2>3, ElementOfSeq
    <3>4. \A i \in 1 .. (n + 1) : i \in 1 .. n \/ i = n + 1
      BY <1>5
    <3>5. tgt \in Seq(SUBSET Square) /\ Len(tgt) = n + 1
      BY <1>5, <3>1, <3>3, <3>4
    <3>6. \A i \in 1 .. (n + 1) : tgt[i] = Append(Laid, d)[i]
      BY <1>5, <3>2, <3>4
    <3> HIDE DEF tgt
    <3> QED
      <4>1. tgt = Append(Laid, d)
        BY <3>2, <3>5, <3>6, SeqEqual
      <4> QED
        BY <4>1 DEF tgt
  <2>5. \A i \in 1 .. (n + 1) :
          Squares(played'[i].side, played'[i].move) = IF i = n + 1 THEN d ELSE Laid[i]
    <3>1. ASSUME NEW i \in 1 .. n
          PROVE  Squares(played'[i].side, played'[i].move) = Laid[i] /\ i # n + 1
      BY <1>5, <2>1
    <3>2. Squares(played'[n + 1].side, played'[n + 1].move) = d
      BY <1>4, <1>5
    <3>3. \A i \in 1 .. (n + 1) : i \in 1 .. n \/ i = n + 1
      BY <1>5
    <3> QED
      BY <3>1, <3>2, <3>3
  <2> QED
    BY <2>2, <2>4, <2>5
<1> QED
  BY <1>1, <1>2, <1>6 DEF Game!Lay

LEMMA UndoMoveRefines ==
  ASSUME IInv, UndoMove
  PROVE  Game!TakeBack
<1> DEFINE n == Len(played)
<1>1. /\ played \in Seq([side : Side, move : UNION {Moves(t) : t \in Side}])
      /\ played # <<>>
      /\ played' = SubSeq(played, 1, n - 1)
  BY DEF IInv, Typed, UndoMove
<1>2. n \in Nat /\ n >= 1
  BY <1>1, EmptySeq
<1>3. /\ Len(played') = n - 1
      /\ \A i \in 1 .. (n - 1) : played'[i] = played[i]
  BY <1>1, Shortened
<1>4. Laid = [i \in 1 .. n |-> Squares(played[i].side, played[i].move)]
  BY DEF Laid
<1>5. Laid' = [i \in 1 .. (n - 1) |-> Squares(played'[i].side, played'[i].move)]
  BY <1>3 DEF Laid
<1>6. Laid \in Seq(SUBSET Square) /\ Len(Laid) = n
  BY LaidIsASeq
<1>7. Laid # <<>>
  BY <1>2, <1>6
<1>8. Occupied' = Occupied \ Laid[Len(Laid)]
  <2>1. Laid[n] = Squares(played[n].side, played[n].move)
    BY <1>2, <1>4
  <2> QED
    BY <1>6, <2>1, UndoMoveKeeps
<1>9. Laid' = SubSeq(Laid, 1, Len(Laid) - 1)
  <2>1. \A i \in 1 .. (n - 1) : Squares(played'[i].side, played'[i].move) = Laid[i]
    BY <1>2, <1>3, <1>4
  <2>2. SubSeq(Laid, 1, n - 1) = [i \in 1 .. (n - 1) |-> Laid[i]]
    BY <1>2, <1>6
  <2> QED
    BY <1>5, <1>6, <2>1, <2>2
<1> QED
  BY <1>7, <1>8, <1>9 DEF Game!TakeBack

LEMMA StepRefines == IInv /\ [Next]_vars => [Game!Next]_(Game!vars)
<1> SUFFICES ASSUME IInv, [Next]_vars
             PROVE  Game!Next \/ UNCHANGED Game!vars
  OBVIOUS
<1>1. CASE \E row \in 0 .. (Rows - 1), col \in 0 .. (Cols - 1) : SetBlock(row, col)
  BY <1>1, SetBlockRefines DEF Game!Next
<1>2. CASE \E s \in Side : \E m \in Moves(s) : ApplyMove(s, m)
  BY <1>2, ApplyMoveRefines DEF Game!Next
<1>3. CASE UndoMove
  BY <1>3, UndoMoveRefines DEF Game!Next
<1>4. CASE UNCHANGED vars
  BY <1>4 DEF vars, Game!vars, Occupied, Laid
<1> QED
  BY <1>1, <1>2, <1>3, <1>4 DEF Next

(* Every behaviour of the calls of Board is one of the game: pieces only land
   on free squares, and undoing frees exactly the squares of the last piece.  *)
THEOREM BoardImplementsGame == Spec => ImplementsGame
BY InitRefines, StepRefines, Invariance, PTL DEF Spec, ImplementsGame, Game!Spec

-----------------------------------------------------------------------------
(* Counted pieces: every second one of a run.                                *)

\* No piece of a word without the one before it or itself being counted.
LEMMA CountedOrNextTo ==
  ASSUME NEW mask \in SUBSET Idx, NEW i \in mask
  PROVE  i \in NonOverlapping(mask) \/ i - 1 \in NonOverlapping(mask)
<1> DEFINE T == {k \in Nat : k <= i /\ k .. i \subseteq mask}
<1>0. mask \subseteq Nat /\ i \in Nat
  BY DEF Idx
<1>1. PICK k \in T : \A j \in T : k <= j
  <2>1. i \in T
    BY <1>0
  <2>2. T \in SUBSET Nat /\ T # {}
    BY <2>1
  <2> HIDE DEF T
  <2> QED
    BY <2>2, LeastNumber
<1>2. k - 1 \notin mask
  <2> SUFFICES ASSUME k - 1 \in mask
               PROVE  FALSE
    OBVIOUS
  <2>1. k - 1 \in Nat /\ k - 1 <= i /\ (k - 1) .. i \subseteq mask
    BY <1>0, <1>1
  <2>2. k - 1 \in T
    BY <2>1
  <2> QED
    BY <1>1, <2>2
<1>3. k \in mask /\ k <= i /\ k .. i \subseteq mask /\ k \in Nat
  BY <1>0, <1>1
<1> HIDE DEF T
<1>4. CASE (i - k) % 2 = 0
  BY <1>2, <1>3, <1>4 DEF NonOverlapping
<1>5. CASE (i - k) % 2 # 0
  <2>1. k <= i - 1 /\ ((i - 1) - k) % 2 = 0
    BY <1>0, <1>3, <1>5
  <2>2. i - 1 \in mask /\ k .. (i - 1) \subseteq mask
    BY <1>0, <1>3, <2>1
  <2> QED
    BY <1>2, <1>3, <2>1, <2>2 DEF NonOverlapping
<1> QED
  BY <1>4, <1>5

\* Two counted pieces of a word do not overlap.
LEMMA CountedApart ==
  ASSUME NEW mask \in SUBSET Idx, NEW i \in NonOverlapping(mask)
  PROVE  i + 1 \notin NonOverlapping(mask)
<1> SUFFICES ASSUME i + 1 \in NonOverlapping(mask)
             PROVE  FALSE
  OBVIOUS
<1>1. PICK k \in mask : k <= i /\ (i - k) % 2 = 0 /\ k .. i \subseteq mask /\ k - 1 \notin mask
  BY DEF NonOverlapping
<1>2. PICK j \in mask : /\ j <= i + 1 /\ ((i + 1) - j) % 2 = 0
                        /\ j .. (i + 1) \subseteq mask /\ j - 1 \notin mask
  BY DEF NonOverlapping
<1>3. k \in Int /\ j \in Int /\ i \in Int
  BY DEF Idx, NonOverlapping
<1>4. ~ (j < k)
  <2> SUFFICES ASSUME j < k
               PROVE  FALSE
    OBVIOUS
  <2>1. k - 1 \in j .. (i + 1)
    BY <1>1, <1>3
  <2> QED
    BY <1>1, <1>2, <2>1
<1>5. ~ (k < j)
  <2> SUFFICES ASSUME k < j
               PROVE  FALSE
    OBVIOUS
  <2>1. j - 1 \in k .. i
    BY <1>2, <1>3
  <2> QED
    BY <1>1, <1>2, <2>1
<1>6. j = k
  BY <1>3, <1>4, <1>5
<1> QED
  BY <1>1, <1>2, <1>3, <1>6

(* CountMoves is the most pieces that fit in a word without two of them sharing
   a square, whatever the word: what bitops.h counts greedily, run by run, is
   the upper bound on a line's moves that the solver takes it for.            *)
THEOREM CountMovesIsMaximal ==
  ASSUME NEW mask \in SUBSET Idx
  PROVE  /\ NonOverlapping(mask) \subseteq mask
         /\ \A i \in NonOverlapping(mask) : i + 1 \notin NonOverlapping(mask)
         /\ \A m \in SUBSET mask :
              (\A i \in m : i + 1 \notin m) => Cardinality(m) <= CountMoves(mask)
<1>1. NonOverlapping(mask) \subseteq mask
  BY DEF NonOverlapping
<1>2. \A i \in NonOverlapping(mask) : i + 1 \notin NonOverlapping(mask)
  BY CountedApart
<1>3. ASSUME NEW m \in SUBSET mask, \A i \in m : i + 1 \notin m
      PROVE  Cardinality(m) <= CountMoves(mask)
  <2> DEFINE N == NonOverlapping(mask)
             f == [i \in m |-> IF i \in N THEN i ELSE i - 1]
  <2>1. f \in [m -> N]
    BY CountedOrNextTo
  <2>2. \A i, j \in m : f[i] = f[j] => i = j
    <3> SUFFICES ASSUME NEW i \in m, NEW j \in m, f[i] = f[j], i # j
                 PROVE  FALSE
      OBVIOUS
    <3>1. i \in Int /\ j \in Int
      BY DEF Idx
    <3>2. i = j + 1 \/ j = i + 1
      BY <3>1
    <3> QED
      BY <1>3, <3>2
  <2>3. IsFiniteSet(N)
    BY CountType, FiniteIdx, FS_Subset
  <2> HIDE DEF f, N
  <2>4. Cardinality(m) <= Cardinality(N)
    BY <2>1, <2>2, <2>3, AtMostAsMany
  <2> QED
    BY <2>4 DEF CountMoves, N
<1> QED
  BY <1>1, <1>2, <1>3

-----------------------------------------------------------------------------
(* Sequences that have each element of a set once.                           *)

\* A sequence of the elements of M, each once.
Arranges(seq, M) ==
  /\ seq \in Seq(M)
  /\ \A i, j \in DOMAIN seq : seq[i] = seq[j] => i = j
  /\ \A x \in M : \E i \in DOMAIN seq : seq[i] = x

LEMMA AsManyAsArranged ==
  ASSUME NEW M, NEW seq, Arranges(seq, M)
  PROVE  IsFiniteSet(M) /\ Cardinality(M) = Len(seq)
<1>1. Len(seq) \in Nat /\ DOMAIN seq = 1 .. Len(seq) /\ seq \in [1 .. Len(seq) -> M]
  BY DEF Arranges
<1>2. IsFiniteSet(1 .. Len(seq)) /\ Cardinality(1 .. Len(seq)) = Len(seq)
  BY <1>1, FirstNumbers
<1> DEFINE D == 1 .. Len(seq)
<1>3. /\ seq \in [D -> M] /\ \A a, b \in D : seq[a] = seq[b] => a = b
      /\ \A t \in M : \E a \in D : seq[a] = t
  BY <1>1 DEF Arranges
<1> HIDE DEF D
<1>4. IsFiniteSet(M) /\ Cardinality(M) = Cardinality(D)
  BY <1>2, <1>3, AsMany DEF D
<1> QED
  BY <1>2, <1>4 DEF D

LEMMA ArrangedBoth ==
  ASSUME NEW M, NEW N, NEW a, NEW b, Arranges(a, M), Arranges(b, N), M \cap N = {}
  PROVE  Arranges(a \o b, M \cup N)
<1> DEFINE c == a \o b
<1>1. /\ a \in Seq(M \cup N) /\ b \in Seq(M \cup N) /\ Len(a) \in Nat /\ Len(b) \in Nat
      /\ DOMAIN a = 1 .. Len(a) /\ DOMAIN b = 1 .. Len(b)
      /\ \A i \in 1 .. Len(a) : a[i] \in M
      /\ \A i \in 1 .. Len(b) : b[i] \in N
  BY DEF Arranges
<1>2. /\ c \in Seq(M \cup N) /\ Len(c) = Len(a) + Len(b) /\ DOMAIN c = 1 .. Len(a) + Len(b)
      /\ \A i \in 1 .. Len(a) + Len(b) : c[i] = IF i <= Len(a) THEN a[i] ELSE b[i - Len(a)]
  BY <1>1, ConcatProperties
<1> HIDE DEF c
<1>3. ASSUME NEW i \in DOMAIN c, NEW j \in DOMAIN c, c[i] = c[j]
      PROVE  i = j
  <2>1. CASE i <= Len(a) /\ j <= Len(a)
    BY <1>1, <1>2, <1>3, <2>1 DEF Arranges
  <2>2. CASE i > Len(a) /\ j > Len(a)
    <3>1. /\ i - Len(a) \in 1 .. Len(b) /\ j - Len(a) \in 1 .. Len(b)
          /\ b[i - Len(a)] = b[j - Len(a)]
      BY <1>1, <1>2, <1>3, <2>2
    <3>2. i - Len(a) = j - Len(a)
      BY <1>1, <3>1 DEF Arranges
    <3> QED
      BY <1>1, <1>2, <3>2
  <2>3. CASE i <= Len(a) /\ j > Len(a)
    BY <1>1, <1>2, <1>3, <2>3
  <2>4. CASE i > Len(a) /\ j <= Len(a)
    BY <1>1, <1>2, <1>3, <2>4
  <2> QED
    BY <1>1, <1>2, <2>1, <2>2, <2>3, <2>4
<1>4. ASSUME NEW x \in M \cup N
      PROVE  \E i \in DOMAIN c : c[i] = x
  <2>1. CASE x \in M
    <3>1. PICK i \in 1 .. Len(a) : a[i] = x
      BY <1>1, <2>1 DEF Arranges
    <3> QED
      BY <1>1, <1>2, <3>1
  <2>2. CASE x \in N
    <3>1. PICK i \in 1 .. Len(b) : b[i] = x
      BY <1>1, <2>2 DEF Arranges
    <3> DEFINE k == i + Len(a)
    <3>2. k \in 1 .. Len(a) + Len(b) /\ ~ (k <= Len(a)) /\ k - Len(a) = i
      BY <1>1, <3>1
    <3> HIDE DEF k
    <3>3. k \in DOMAIN c /\ c[k] = x
      BY <1>2, <3>1, <3>2
    <3> QED
      BY <3>3
  <2> QED
    BY <2>1, <2>2
<1> QED
  BY <1>2, <1>3, <1>4 DEF Arranges, c

LEMMA InSmallerSet ==
  ASSUME NEW M, NEW R, NEW seq \in Seq(M), \A i \in 1 .. Len(seq) : seq[i] \in R
  PROVE  seq \in Seq(R)
OBVIOUS

LEMMA ArrangedTail ==
  ASSUME NEW M, NEW seq, Arranges(seq, M), seq # <<>>,
         NEW h, h = Head(seq), NEW t, t = Tail(seq)
  PROVE  h \in M /\ Arranges(t, M \ {h}) /\ Arranges(<<h>>, {h})
<1>1. /\ seq \in Seq(M) /\ Len(seq) \in Nat \ {0} /\ DOMAIN seq = 1 .. Len(seq)
      /\ Head(seq) = seq[1] /\ Head(seq) \in M
  BY DEF Arranges
<1>2. /\ t \in Seq(M) /\ Len(t) = Len(seq) - 1 /\ DOMAIN t = 1 .. (Len(seq) - 1)
      /\ \A i \in 1 .. (Len(seq) - 1) : t[i] = seq[i + 1]
  BY <1>1, HeadTailProperties
<1>3. \A i \in DOMAIN t : t[i] \in M \ {h}
  <2> SUFFICES ASSUME NEW i \in 1 .. (Len(seq) - 1)
               PROVE  seq[i + 1] # seq[1] /\ seq[i + 1] \in M
    BY <1>1, <1>2
  <2>1. i + 1 \in 1 .. Len(seq) /\ 1 \in 1 .. Len(seq) /\ i + 1 # 1
    BY <1>1
  <2> QED
    BY <1>1, <2>1 DEF Arranges
<1>4. t \in Seq(M \ {h})
  <2> DEFINE R == M \ {h}
  <2>1. t \in Seq(M) /\ \A i \in 1 .. Len(t) : t[i] \in R
    BY <1>2, <1>3
  <2> HIDE DEF R
  <2>2. t \in Seq(R)
    BY <2>1, InSmallerSet, Zenon
  <2> QED
    BY <2>2 DEF R
<1>5. ASSUME NEW i \in DOMAIN t, NEW j \in DOMAIN t, t[i] = t[j]
      PROVE  i = j
  <2>1. i + 1 \in 1 .. Len(seq) /\ j + 1 \in 1 .. Len(seq) /\ seq[i + 1] = seq[j + 1]
    BY <1>1, <1>2, <1>5
  <2>2. i + 1 = j + 1
    BY <1>1, <2>1 DEF Arranges
  <2> QED
    BY <1>1, <1>2, <2>2
<1>6. ASSUME NEW x \in M \ {h}
      PROVE  \E i \in DOMAIN t : t[i] = x
  <2>1. PICK i \in 1 .. Len(seq) : seq[i] = x
    BY <1>1 DEF Arranges
  <2>2. i # 1
    BY <1>1, <2>1
  <2>3. i - 1 \in 1 .. (Len(seq) - 1) /\ (i - 1) + 1 = i
    BY <1>1, <2>2
  <2> QED
    BY <1>2, <2>1, <2>3
<1>7. Arranges(t, M \ {h})
  BY <1>4, <1>5, <1>6, Zenon DEF Arranges
<1>8. Arranges(<<h>>, {h})
  BY DEF Arranges
<1> QED
  BY <1>1, <1>7, <1>8

\* The first of the largest values exists.
LEMMA LargestExists ==
  ASSUME NEW n \in Nat \ {0}, NEW vals \in [1 .. n -> Int]
  PROVE  /\ Largest(vals) \in 1 .. n
         /\ \A j \in 1 .. n : vals[j] <= vals[Largest(vals)]
<1> DEFINE IsFirst(i, k) == /\ \A j \in 1 .. k : vals[j] <= vals[i]
                            /\ \A j \in 1 .. (i - 1) : vals[j] < vals[i]
           T == {k \in Nat : k <= n => \E i \in 1 .. k : IsFirst(i, k)}
<1>1. 1 \in T
  <2>1. IsFirst(1, 1)
    OBVIOUS
  <2> QED
    BY <2>1
<1>2. ASSUME NEW k \in 2 .. n, k - 1 \in T
      PROVE  k \in T
  <2>1. k \in Nat /\ k - 1 <= n /\ k >= 2 /\ k <= n
    OBVIOUS
  <2>2. PICK i \in 1 .. (k - 1) : IsFirst(i, k - 1)
    BY <1>2, <2>1
  <2>3. CASE vals[k] <= vals[i]
    <3>1. IsFirst(i, k) /\ i \in 1 .. k
      BY <2>1, <2>2, <2>3
    <3> QED
      BY <2>1, <3>1
  <2>4. CASE ~ (vals[k] <= vals[i])
    <3>1. \A j \in 1 .. (k - 1) : vals[j] < vals[k]
      BY <2>1, <2>2, <2>4
    <3>2. IsFirst(k, k) /\ k \in 1 .. k
      BY <2>1, <3>1
    <3> QED
      BY <2>1, <3>2
  <2> QED
    BY <2>3, <2>4
<1>3. \A k \in 1 .. n : k \in T
  <2> HIDE DEF T
  <2>1. \A k \in (1 + 1) .. n : k - 1 \in T => k \in T
    <3>1. 1 + 1 = 2
      OBVIOUS
    <3> QED
      BY <1>2, <3>1
  <2>2. 1 \in Int /\ n \in Int
    OBVIOUS
  <2> QED
    BY <1>1, <2>1, <2>2, HandedOn
<1>4. PICK i \in 1 .. n : IsFirst(i, n)
  <2>1. n \in T /\ n \in Nat
    <3> HIDE DEF T
    <3> QED
      BY <1>3
  <2> QED
    BY <2>1
<1>5. DOMAIN vals = 1 .. n
  OBVIOUS
<1>6. \E k \in DOMAIN vals : /\ \A j \in DOMAIN vals : vals[j] <= vals[k]
                             /\ \A j \in 1 .. (k - 1) : vals[j] < vals[k]
  BY <1>4, <1>5
<1> QED
  BY <1>5, <1>6 DEF Largest

LEMMA BestToFrontArranges ==
  ASSUME NEW M \in SUBSET Entry, NEW ms, Arranges(ms, M), ms # <<>>
  PROVE  Arranges(BestToFront[ms], M)
<1>1. /\ ms \in Seq(Entry) /\ ms \in Seq(M) /\ Len(ms) \in Nat \ {0} /\ DOMAIN ms = 1 .. Len(ms)
      /\ \A i \in 1 .. Len(ms) : ms[i] \in M /\ ms[i].info \in Int
  <2>1. ms \in Seq(M)
    BY DEF Arranges
  <2>2. ms \in Seq(Entry) /\ Len(ms) \in Nat \ {0} /\ DOMAIN ms = 1 .. Len(ms)
        /\ \A i \in 1 .. Len(ms) : ms[i] \in M
    BY <2>1
  <2>3. \A m \in Entry : m.info \in Int
    BY DEF Entry
  <2> QED
    BY <2>1, <2>2, <2>3
<1> DEFINE n == Len(ms)
           b == Best(ms)
<1>2. b \in 1 .. n
  <2>1. [i \in DOMAIN ms |-> ms[i].info] \in [1 .. n -> Int]
    BY <1>1
  <2> QED
    BY <1>1, <2>1, LargestExists DEF Best
<1> HIDE DEF b
<1>3. BestToFront[ms] = <<ms[b]>> \o RemoveAt(ms, b)
  BY <1>1 DEF BestToFront, b
<1> DEFINE r == RemoveAt(ms, b)
<1>4. /\ r \in Seq(M) /\ Len(r) = n - 1 /\ DOMAIN r = 1 .. (n - 1)
      /\ \A i \in 1 .. (n - 1) : r[i] = IF i < b THEN ms[i] ELSE ms[i + 1]
  <2>1. r = SubSeq(ms, 1, b - 1) \o SubSeq(ms, b + 1, n)
    BY DEF RemoveAt
  <2>2. /\ SubSeq(ms, 1, b - 1) \in Seq(M) /\ Len(SubSeq(ms, 1, b - 1)) = b - 1
        /\ \A i \in 1 .. (b - 1) : SubSeq(ms, 1, b - 1)[i] = ms[i]
    BY <1>1, <1>2
  <2>3. /\ SubSeq(ms, b + 1, n) \in Seq(M) /\ Len(SubSeq(ms, b + 1, n)) = n - b
        /\ \A i \in 1 .. (n - b) : SubSeq(ms, b + 1, n)[i] = ms[b + i]
    <3> DEFINE lo == b + 1
    <3>1. lo \in Int /\ n \in Int /\ lo <= n + 1 /\ n - lo + 1 = n - b
          /\ (IF lo <= n THEN n - lo + 1 ELSE 0) = n - b
          /\ \A i \in lo .. n : ms[i] \in M
      <4>1. n \in Int /\ b \in Int /\ 1 <= b /\ b <= n
        BY <1>1, <1>2
      <4>2. \A i \in 1 .. n : ms[i] \in M
        BY <1>1
      <4> HIDE DEF n
      <4>3. lo \in Int /\ lo <= n + 1 /\ n - lo + 1 = n - b
        BY <4>1
      <4>4. (IF lo <= n THEN n - lo + 1 ELSE 0) = n - b
        BY <4>1
      <4>5. \A i \in lo .. n : ms[i] \in M
        BY <4>1, <4>2
      <4> QED
        BY <4>1, <4>3, <4>4, <4>5
    <3>2. \A i \in 1 .. (n - b) : lo + i - 1 = b + i
      BY <1>1, <1>2
    <3> HIDE DEF lo
    <3>3. /\ SubSeq(ms, lo, n) \in Seq(M)
          /\ Len(SubSeq(ms, lo, n)) = IF lo <= n THEN n - lo + 1 ELSE 0
          /\ \A i \in 1 .. n - lo + 1 : SubSeq(ms, lo, n)[i] = ms[lo + i - 1]
      BY <3>1, SubSeqProperties
    <3> QED
      BY <3>1, <3>2, <3>3 DEF lo
  <2> DEFINE x == SubSeq(ms, 1, b - 1)
             y == SubSeq(ms, b + 1, n)
  <2> HIDE DEF x, y
  <2>4. x \in Seq(M) /\ y \in Seq(M) /\ Len(x) = b - 1 /\ Len(y) = n - b
        /\ r = x \o y
    BY <2>1, <2>2, <2>3 DEF x, y
  <2>5. /\ r \in Seq(M) /\ Len(r) = (b - 1) + (n - b)
        /\ \A i \in 1 .. ((b - 1) + (n - b)) : r[i] = IF i <= b - 1 THEN x[i] ELSE y[i - (b - 1)]
    <3> HIDE DEF r
    <3>1. /\ r \in Seq(M) /\ Len(r) = Len(x) + Len(y)
          /\ \A i \in 1 .. Len(x) + Len(y) : r[i] = IF i <= Len(x) THEN x[i] ELSE y[i - Len(x)]
      BY <2>4, ConcatProperties
    <3> HIDE DEF r
    <3> QED
      BY <2>4, <3>1
  <2> HIDE DEF r
  <2>6. (b - 1) + (n - b) = n - 1 /\ n - 1 \in Nat
    BY <1>1, <1>2
  <2>7. \A i \in 1 .. (n - 1) : r[i] = IF i < b THEN ms[i] ELSE ms[i + 1]
    <3> TAKE i \in 1 .. (n - 1)
    <3>1. CASE i < b
      <4>1. i \in 1 .. (b - 1)
        BY <1>1, <1>2, <3>1
      <4> QED
        BY <1>2, <2>2, <2>5, <2>6, <3>1, <4>1 DEF x
    <3>2. CASE ~ (i < b)
      <4>1. i - (b - 1) \in 1 .. (n - b) /\ b + (i - (b - 1)) = i + 1 /\ ~ (i <= b - 1)
        BY <1>1, <1>2, <3>2
      <4>2. y[i - (b - 1)] = ms[i + 1]
        BY <2>3, <4>1 DEF y
      <4> QED
        BY <2>5, <2>6, <3>2, <4>1, <4>2
    <3> QED
      BY <3>1, <3>2
  <2> QED
    BY <2>5, <2>6, <2>7
<1> HIDE DEF r
<1>5. Arranges(r, M \ {ms[b]})
  <2>1. \A i \in 1 .. (n - 1) : r[i] \in M \ {ms[b]}
    <3> TAKE i \in 1 .. (n - 1)
    <3> DEFINE k == IF i < b THEN i ELSE i + 1
    <3>1. k \in 1 .. n /\ k # b /\ r[i] = ms[k]
      BY <1>1, <1>2, <1>4
    <3> QED
      BY <1>1, <1>2, <3>1 DEF Arranges
  <2>2. r \in Seq(M \ {ms[b]})
    BY <1>1, <1>4, <2>1
  <2>3. ASSUME NEW i \in 1 .. (n - 1), NEW j \in 1 .. (n - 1), r[i] = r[j]
        PROVE  i = j
    <3> DEFINE k(a) == IF a < b THEN a ELSE a + 1
    <3>1. k(i) \in 1 .. n /\ k(j) \in 1 .. n /\ ms[k(i)] = ms[k(j)]
      BY <1>1, <1>2, <1>4, <2>3
    <3>2. k(i) = k(j)
      <4> HIDE DEF k
      <4> QED
        BY <1>1, <3>1 DEF Arranges
    <3> QED
      BY <1>1, <1>2, <3>2
  <2>4. ASSUME NEW x \in M \ {ms[b]}
        PROVE  \E i \in 1 .. (n - 1) : r[i] = x
    <3>1. PICK k \in 1 .. n : ms[k] = x
      BY <1>1 DEF Arranges
    <3>2. k # b
      BY <3>1
    <3> DEFINE i == IF k < b THEN k ELSE k - 1
    <3>3. i \in 1 .. (n - 1) /\ r[i] = x
      BY <1>1, <1>2, <1>4, <3>1, <3>2
    <3> QED
      BY <3>3
  <2> QED
    BY <1>4, <2>2, <2>3, <2>4 DEF Arranges
<1>6. Arranges(<<ms[b]>>, {ms[b]})
  BY DEF Arranges
<1>7. {ms[b]} \cap (M \ {ms[b]}) = {} /\ {ms[b]} \cup (M \ {ms[b]}) = M
  BY <1>1, <1>2
<1>8. Arranges(<<ms[b]>> \o r, {ms[b]} \cup (M \ {ms[b]}))
  BY <1>5, <1>6, <1>7, ArrangedBoth
<1> QED
  BY <1>3, <1>7, <1>8 DEF r

-----------------------------------------------------------------------------
(* sort_moves                                                                *)

OfScore(X, v) == {x \in X : x.info = v}

\* The moves of X are in the buckets: those of one score in a bucket of their own.
Hold(buckets, X) ==
  /\ buckets \in Seq(Seq(Entry))
  /\ \A j \in DOMAIN buckets : /\ buckets[j] # <<>>
                               /\ Arranges(buckets[j], OfScore(X, buckets[j][1].info))
  /\ \A j, k \in DOMAIN buckets : buckets[j][1].info = buckets[k][1].info => j = k
  /\ \A x \in X : \E j \in DOMAIN buckets : buckets[j][1].info = x.info

LEMMA ArrangedOneMore ==
  ASSUME NEW M, NEW seq, Arranges(seq, M), NEW x, x \notin M
  PROVE  Arranges(Append(seq, x), M \cup {x})
<1>1. /\ seq \in Seq(M \cup {x}) /\ Len(seq) \in Nat /\ DOMAIN seq = 1 .. Len(seq)
      /\ \A i \in 1 .. Len(seq) : seq[i] \in M
  BY DEF Arranges
<1> DEFINE t == Append(seq, x)
<1>2. /\ t \in Seq(M \cup {x}) /\ DOMAIN t = 1 .. Len(seq) + 1
      /\ t[Len(seq) + 1] = x /\ \A i \in 1 .. Len(seq) : t[i] = seq[i]
  BY <1>1
<1> HIDE DEF t
<1>3. ASSUME NEW i \in DOMAIN t, NEW j \in DOMAIN t, t[i] = t[j]
      PROVE  i = j
  <2>1. CASE i \in 1 .. Len(seq) /\ j \in 1 .. Len(seq)
    BY <1>1, <1>2, <1>3, <2>1 DEF Arranges
  <2>2. CASE ~ (i \in 1 .. Len(seq) /\ j \in 1 .. Len(seq))
    BY <1>1, <1>2, <1>3, <2>2
  <2> QED
    BY <2>1, <2>2
<1>4. ASSUME NEW y \in M \cup {x}
      PROVE  \E i \in DOMAIN t : t[i] = y
  BY <1>1, <1>2 DEF Arranges
<1> QED
  BY <1>2, <1>3, <1>4 DEF Arranges, t

LEMMA PutHolds ==
  ASSUME NEW X \in SUBSET Entry, NEW buckets, Hold(buckets, X), NEW m \in Entry \ X
  PROVE  Hold(Put(buckets, m), X \cup {m})
<1> DEFINE n   == Len(buckets)
           new == Put(buckets, m)
           Y   == X \cup {m}
<1>1. /\ n \in Nat /\ DOMAIN buckets = 1 .. n /\ m.info \in Int
      /\ \A j \in 1 .. n : /\ buckets[j] \in Seq(Entry) /\ buckets[j] # <<>>
                           /\ Arranges(buckets[j], OfScore(X, buckets[j][1].info))
      /\ buckets \in Seq(Seq(Entry))
  <2>1. m.info \in Int
    BY DEF Entry
  <2> QED
    BY <2>1 DEF Hold
<1>2. CASE \E j \in DOMAIN buckets : buckets[j][1].info = m.info
  <2>1. new = [j \in 1 .. n |-> IF buckets[j][1].info = m.info
                                  THEN Append(buckets[j], m) ELSE buckets[j]]
    BY <1>1, <1>2 DEF Put
  <2> HIDE DEF new
  <2>2. /\ new \in Seq(Seq(Entry)) /\ DOMAIN new = 1 .. n
        /\ \A j \in 1 .. n : new[j] = IF buckets[j][1].info = m.info
                                        THEN Append(buckets[j], m) ELSE buckets[j]
    <3>1. \A j \in 1 .. n : /\ new[j] = IF buckets[j][1].info = m.info
                                          THEN Append(buckets[j], m) ELSE buckets[j]
                            /\ new[j] \in Seq(Entry)
      BY <1>1, <2>1
    <3>2. new = [j \in 1 .. n |-> new[j]]
      BY <2>1
    <3> QED
      BY <1>1, <3>1, <3>2
  <2>3. \A j \in 1 .. n : new[j] # <<>> /\ new[j][1] = buckets[j][1]
    <3> TAKE j \in 1 .. n
    <3>1. buckets[j] \in Seq(Entry) /\ buckets[j] # <<>>
      BY <1>1
    <3>2. Append(buckets[j], m) # <<>> /\ Append(buckets[j], m)[1] = buckets[j][1]
      BY <3>1
    <3> QED
      BY <2>2, <3>1, <3>2
  <2>4. ASSUME NEW j \in 1 .. n
        PROVE  Arranges(new[j], OfScore(Y, new[j][1].info))
    <3> DEFINE v == buckets[j][1].info
    <3>1. new[j][1].info = v /\ Arranges(buckets[j], OfScore(X, v))
      BY <1>1, <2>3
    <3>2. CASE v = m.info
      <4>1. m \notin OfScore(X, v) /\ OfScore(Y, v) = OfScore(X, v) \cup {m}
        BY <3>2 DEF OfScore
      <4>2. Arranges(Append(buckets[j], m), OfScore(X, v) \cup {m})
        BY <3>1, <4>1, ArrangedOneMore
      <4> QED
        BY <2>2, <3>1, <3>2, <4>1, <4>2
    <3>3. CASE v # m.info
      <4>1. OfScore(Y, v) = OfScore(X, v)
        BY <3>3 DEF OfScore
      <4> QED
        BY <2>2, <3>1, <3>3, <4>1
    <3> QED
      BY <3>2, <3>3
  <2>5. \A j, k \in 1 .. n : new[j][1].info = new[k][1].info => j = k
    BY <1>1, <2>3 DEF Hold
  <2>6. \A x \in Y : \E j \in 1 .. n : new[j][1].info = x.info
    <3> TAKE x \in Y
    <3>1. PICK j \in 1 .. n : buckets[j][1].info = x.info
      BY <1>1, <1>2 DEF Hold
    <3> QED
      BY <2>3, <3>1
  <2>7. Hold(new, Y)
    <3> HIDE DEF Y, n
    <3> QED
      BY <2>2, <2>3, <2>4, <2>5, <2>6 DEF Hold
  <2> QED
    BY <2>7 DEF new
<1>3. CASE ~ \E j \in DOMAIN buckets : buckets[j][1].info = m.info
  <2>1. new = Append(buckets, <<m>>)
    BY <1>3 DEF Put
  <2> HIDE DEF new
  <2>2. <<m>> \in Seq(Entry) /\ <<m>> # <<>> /\ <<m>>[1] = m
    OBVIOUS
  <2>3. /\ new \in Seq(Seq(Entry)) /\ DOMAIN new = 1 .. n + 1
        /\ new[n + 1] = <<m>> /\ \A j \in 1 .. n : new[j] = buckets[j]
    BY <1>1, <2>1, <2>2
  <2>4. \A x \in X : x.info # m.info
    BY <1>1, <1>3 DEF Hold
  <2>5. ASSUME NEW j \in 1 .. n + 1
        PROVE  new[j] # <<>> /\ Arranges(new[j], OfScore(Y, new[j][1].info))
    <3>1. CASE j = n + 1
      <4>1. OfScore(Y, m.info) = {m}
        BY <2>4 DEF OfScore
      <4>2. Arranges(<<m>>, {m})
        BY DEF Arranges
      <4> QED
        BY <2>2, <2>3, <3>1, <4>1, <4>2
    <3>2. CASE j \in 1 .. n
      <4>1. OfScore(Y, buckets[j][1].info) = OfScore(X, buckets[j][1].info)
        BY <1>1, <1>3, <3>2 DEF OfScore
      <4> QED
        BY <1>1, <2>3, <3>2, <4>1
    <3> QED
      BY <1>1, <3>1, <3>2
  <2>6. \A j, k \in 1 .. n + 1 : new[j][1].info = new[k][1].info => j = k
    <3> TAKE j, k \in 1 .. n + 1
    <3> HAVE new[j][1].info = new[k][1].info
    <3>1. j \in 1 .. n \/ j = n + 1
      BY <1>1
    <3>2. k \in 1 .. n \/ k = n + 1
      BY <1>1
    <3>3. \A i \in 1 .. n : buckets[i][1].info # m.info
      BY <1>1, <1>3
    <3>4. \A a, b \in 1 .. n : buckets[a][1].info = buckets[b][1].info => a = b
      BY <1>1 DEF Hold
    <3>5. CASE j \in 1 .. n /\ k \in 1 .. n
      BY <2>3, <3>4, <3>5
    <3>6. CASE j \in 1 .. n /\ k = n + 1
      <4>1. new[j] = buckets[j] /\ new[k][1] = m
        BY <2>2, <2>3, <3>6
      <4> QED
        BY <3>3, <3>6, <4>1
    <3>7. CASE j = n + 1 /\ k \in 1 .. n
      <4>1. new[k] = buckets[k] /\ new[j][1] = m
        BY <2>2, <2>3, <3>7
      <4> QED
        BY <3>3, <3>7, <4>1
    <3> QED
      BY <3>1, <3>2, <3>5, <3>6, <3>7
  <2>7. \A x \in Y : \E j \in 1 .. n + 1 : new[j][1].info = x.info
    <3> TAKE x \in Y
    <3>1. CASE x = m
      <4>1. n + 1 \in 1 .. n + 1
        BY <1>1
      <4> QED
        BY <2>2, <2>3, <3>1, <4>1
    <3>2. CASE x \in X
      <4>1. PICK j \in 1 .. n : buckets[j][1].info = x.info
        BY <1>1, <3>2 DEF Hold
      <4>2. j \in 1 .. n + 1
        BY <1>1
      <4> QED
        BY <2>3, <4>1, <4>2
    <3> QED
      BY <3>1, <3>2
  <2>8. Hold(new, Y)
    <3> HIDE DEF Y, n
    <3> QED
      BY <2>3, <2>5, <2>6, <2>7 DEF Hold
  <2> QED
    BY <2>8 DEF new
<1> QED
  BY <1>2, <1>3

\* Every move is in a bucket when all are put.
LEMMA BucketsHold ==
  ASSUME NEW M \in SUBSET Entry, NEW ms, Arranges(ms, M)
  PROVE  Hold(Buckets(ms), M)
<1> DEFINE n == Len(ms)
           Met(i) == {ms[k] : k \in 1 .. i}
           S == [i \in 0 .. n |-> {b \in Seq(Seq(Entry)) : Hold(b, Met(i))}]
           first == <<>>
           step == [i \in 1 .. n |-> [b \in S[i - 1] |-> Put(b, ms[i])]]
           Solves(f) == f = [i \in 0 .. n |-> IF i = 0 THEN <<>> ELSE Put(f[i - 1], ms[i])]
<1>1. /\ n \in Nat /\ DOMAIN ms = 1 .. n
      /\ \A i \in 1 .. n : ms[i] \in M /\ ms[i] \in Entry
      /\ \A i, j \in 1 .. n : ms[i] = ms[j] => i = j
  BY DEF Arranges
<1>2. first \in S[0]
  <2>1. Met(0) = {}
    OBVIOUS
  <2>2. Hold(first, {})
    BY DEF Hold
  <2>3. 0 \in 0 .. n /\ first \in Seq(Seq(Entry))
    BY <1>1
  <2> HIDE DEF Met
  <2> QED
    BY <2>1, <2>2, <2>3
<1>3. ASSUME NEW i \in 1 .. n, NEW b, Hold(b, Met(i - 1))
      PROVE  Hold(Put(b, ms[i]), Met(i))
  <2>1. Met(i - 1) \in SUBSET Entry /\ ms[i] \in Entry \ Met(i - 1)
        /\ Met(i) = Met(i - 1) \cup {ms[i]}
    <3>1. \A k \in 1 .. i : k \in 1 .. n /\ (k \in 1 .. (i - 1) \/ k = i)
      BY <1>1
    <3>2. \A k \in 1 .. (i - 1) : k \in 1 .. n /\ k # i /\ k \in 1 .. i
      BY <1>1
    <3>3. i \in 1 .. i
      BY <1>1
    <3> QED
      BY <1>1, <3>1, <3>2, <3>3
  <2> HIDE DEF Met
  <2> QED
    BY <1>3, <2>1, PutHolds
<1>3a. ASSUME NEW i \in 1 .. n
      PROVE  step[i] \in [S[i - 1] -> S[i]]
  <2>1. i - 1 \in 0 .. n /\ i \in 0 .. n
    BY <1>1
  <2> HIDE DEF Met
  <2>2. ASSUME NEW b \in S[i - 1]
        PROVE  Put(b, ms[i]) \in S[i]
    <3>1. Hold(Put(b, ms[i]), Met(i))
      BY <1>3, <2>1, <2>2
    <3>2. Put(b, ms[i]) \in Seq(Seq(Entry))
      BY <3>1 DEF Hold
    <3> QED
      BY <2>1, <3>1, <3>2
  <2> HIDE DEF S
  <2> QED
    BY <2>2
<1>4. PICK f : Follows(0, n, S, first, step, f)
  <2> HIDE DEF S, first, step
  <2>1. Recursion(0, n, S, first, step)
    <3>1. 0 <= n /\ 0 + 1 = 1
      BY <1>1
    <3> QED
      BY <1>2, <1>3a, <3>1 DEF Recursion
  <2>2. 0 \in Int /\ n \in Int
    BY <1>1
  <2> QED
    BY <2>1, <2>2, RecursionExists
<1>5. Solves(f)
  <2>1. /\ f = [i \in 0 .. n |-> f[i]] /\ f[0] = first
        /\ \A i \in 0 .. n : f[i] \in S[i]
        /\ \A i \in 1 .. n : f[i] = step[i][f[i - 1]]
    <3>1. 0 + 1 = 1
      OBVIOUS
    <3> QED
      BY <1>4, <3>1 DEF Follows
  <2>2. \A i \in 0 .. n : i # 0 => i \in 1 .. n /\ i - 1 \in 0 .. n
    BY <1>1
  <2> HIDE DEF S
  <2>3. \A i \in 0 .. n : f[i] = IF i = 0 THEN <<>> ELSE Put(f[i - 1], ms[i])
    BY <2>1, <2>2
  <2> QED
    BY <2>1, <2>3
<1> DEFINE after == CHOOSE g : Solves(g)
<1>6. Solves(after)
  <2> HIDE DEF Solves
  <2> QED
    BY <1>5
<1>7. Buckets(ms) = after[n]
  BY DEF Buckets
<1>8. after[0] = <<>> /\ \A i \in 1 .. n : after[i] = Put(after[i - 1], ms[i])
  <2>1. 0 \in 0 .. n /\ \A i \in 1 .. n : i \in 0 .. n /\ i # 0
    BY <1>1
  <2> HIDE DEF after
  <2> QED
    BY <1>6, <2>1
<1> HIDE DEF after
<1>9. \A i \in 0 .. n : Hold(after[i], Met(i))
  <2> DEFINE T == {i \in Nat : Hold(after[i], Met(i))}
  <2>1. 0 \in T
    <3>1. Hold(<<>>, Met(0))
      BY <1>2, <1>1
    <3> HIDE DEF Met
    <3> QED
      BY <1>8, <3>1
  <2>2. \A i \in 1 .. n : i - 1 \in T => i \in T
    <3> HIDE DEF Met
    <3> QED
      BY <1>1, <1>3, <1>8
  <2> HIDE DEF T
  <2>3. 0 \in Int /\ n \in Int /\ 0 + 1 = 1
    BY <1>1
  <2>4. \A i \in 0 .. n : i \in T
    BY <2>1, <2>2, <2>3, HandedOn
  <2> QED
    BY <2>4 DEF T
<1>10. Met(n) = M /\ n \in 0 .. n
  <2>1. \A x \in M : \E k \in 1 .. n : ms[k] = x
    BY <1>1 DEF Arranges
  <2> QED
    BY <1>1, <2>1
<1> HIDE DEF Met
<1> QED
  BY <1>7, <1>9, <1>10

\* The score of a bucket, and the moves whose score is not the mark of an empty one.
Score(bucket) == bucket[1].info
AboveMark(M)  == \A x \in M : x.info > -5000

AllMet(buckets, M) == \A x \in M : \E j \in DOMAIN buckets : Score(buckets[j]) = x.info

\* What the rounds have emptied.
EmptyOnes(buckets, st) == {j \in 1 .. Len(buckets) : st.left[j] = -5000}

PutOut(buckets, M, st) ==
  {x \in M : \E j \in EmptyOnes(buckets, st) : Score(buckets[j]) = x.info}

\* After n rounds n buckets are empty, and their moves are out.
Done(buckets, M, st, n) ==
  /\ Cardinality(EmptyOnes(buckets, st)) = n
  /\ \A j \in (1 .. Len(buckets)) \ EmptyOnes(buckets, st) : st.left[j] = Score(buckets[j])
  /\ Arranges(st.out, PutOut(buckets, M, st))

State(buckets) == [left : [1 .. Len(buckets) -> Int], out : Seq(Entry)]

RightBucket(b, M) ==
  /\ b \in Seq(Entry) /\ Score(b) \in Int /\ Score(b) > -5000
  /\ Arranges(b, OfScore(M, Score(b)))

LEMMA BucketFacts ==
  ASSUME NEW M \in SUBSET Entry, NEW buckets, Hold(buckets, M), AboveMark(M)
  PROVE  /\ Len(buckets) \in Nat /\ DOMAIN buckets = 1 .. Len(buckets)
         /\ \A j \in 1 .. Len(buckets) : RightBucket(buckets[j], M)
         /\ \A j, k \in 1 .. Len(buckets) : Score(buckets[j]) = Score(buckets[k]) => j = k
         /\ AllMet(buckets, M)
<1>1. Len(buckets) \in Nat /\ DOMAIN buckets = 1 .. Len(buckets)
  BY DEF Hold
<1>2. ASSUME NEW j \in 1 .. Len(buckets)
      PROVE  /\ buckets[j] \in Seq(Entry) /\ Score(buckets[j]) \in Int
             /\ Score(buckets[j]) > -5000
             /\ Arranges(buckets[j], OfScore(M, Score(buckets[j])))
  <2> DEFINE b == buckets[j]
  <2>0. j \in DOMAIN buckets
    BY <1>1
  <2>1. b \in Seq(Entry) /\ b # <<>> /\ Arranges(b, OfScore(M, b[1].info))
    <3>1. buckets \in Seq(Seq(Entry))
      BY Zenon DEF Hold
    <3>2. b \in Seq(Entry)
      BY <2>0, <3>1
    <3>3. b # <<>> /\ Arranges(b, OfScore(M, b[1].info))
      BY <2>0, Zenon DEF Hold
    <3> QED
      BY <3>2, <3>3, Zenon
  <2> HIDE DEF b
  <2>2. 1 \in DOMAIN b
    BY <2>1
  <2>3. b[1] \in M
    BY <2>1, <2>2 DEF Arranges, OfScore
  <2>4. b[1].info \in Int /\ b[1].info > -5000
    BY <2>3 DEF Entry, AboveMark
  <2> QED
    BY <2>1, <2>4 DEF b, Score
<1>3. \A j, k \in DOMAIN buckets : Score(buckets[j]) = Score(buckets[k]) => j = k
  BY Zenon DEF Hold, Score
<1>4. AllMet(buckets, M)
  BY Zenon DEF Hold, Score, AllMet
<1>5. \A j, k \in 1 .. Len(buckets) : Score(buckets[j]) = Score(buckets[k]) => j = k
  BY <1>1, <1>3
<1>6. \A j \in 1 .. Len(buckets) : RightBucket(buckets[j], M)
  BY <1>2 DEF RightBucket
<1> QED
  BY <1>1, <1>4, <1>5, <1>6, Zenon

LEMMA RoundKeeps ==
  ASSUME NEW M \in SUBSET Entry, NEW buckets, Hold(buckets, M), AboveMark(M),
         NEW n \in 1 .. Len(buckets), NEW st \in State(buckets), Done(buckets, M, st, n - 1)
  PROVE  LET new == EmptyBest(buckets, st)
         IN  new \in State(buckets) /\ Done(buckets, M, new, n)
<1> DEFINE N     == Len(buckets)
           E     == EmptyOnes(buckets, st)
           best  == Largest(st.left)
           new   == EmptyBest(buckets, st)
           score(j) == Score(buckets[j])
<1>1. N \in Nat /\ DOMAIN buckets = 1 .. N
  BY BucketFacts
<1>2. \A j \in 1 .. N : /\ buckets[j] \in Seq(Entry)
                        /\ score(j) \in Int /\ score(j) > -5000
                        /\ Arranges(buckets[j], OfScore(M, score(j)))
  BY BucketFacts DEF RightBucket
<1>3. \A j, k \in 1 .. N : score(j) = score(k) => j = k
  BY BucketFacts
<1>4. /\ st.left \in [1 .. N -> Int] /\ st.out \in Seq(Entry)
      /\ Cardinality(E) = n - 1 /\ E \subseteq 1 .. N
      /\ \A j \in (1 .. N) \ E : st.left[j] = score(j)
      /\ Arranges(st.out, PutOut(buckets, M, st))
      /\ \A j \in E : st.left[j] = -5000
  BY DEF State, Done, EmptyOnes
<1> HIDE DEF E
<1>5. PICK k \in 1 .. N : k \notin E
  <2>1. IsFiniteSet(1 .. N) /\ Cardinality(1 .. N) = N
    BY <1>1, FirstNumbers
  <2>2. E # 1 .. N
    BY <1>1, <1>4, <2>1
  <2>3. E \subseteq 1 .. N
    BY <1>4
  <2>4. ASSUME \A j \in 1 .. N : j \in E
        PROVE  FALSE
    <3>1. 1 .. N \subseteq E
      BY <2>4
    <3> HIDE DEF N
    <3> QED
      BY <2>2, <2>3, <3>1, Zenon
  <2> HIDE DEF N
  <2> QED
    BY <2>4
<1>6. best \in 1 .. N /\ st.left[k] <= st.left[best]
  <2>1. N \in Nat \ {0}
    BY <1>1, <1>5
  <2> DEFINE left == st.left
  <2>2. left \in [1 .. N -> Int]
    BY <1>4
  <2> HIDE DEF left, N
  <2>3. Largest(left) \in 1 .. N /\ \A j \in 1 .. N : left[j] <= left[Largest(left)]
    BY <2>1, <2>2, LargestExists
  <2> QED
    BY <1>5, <2>3 DEF left
<1> HIDE DEF best
<1>7. best \notin E
  <2>1. st.left[k] = score(k) /\ score(k) > -5000 /\ score(k) \in Int
    BY <1>2, <1>4, <1>5
  <2>2. st.left[best] # -5000
    BY <1>4, <1>6, <2>1
  <2>3. best \in E => st.left[best] = -5000
    BY <1>4
  <2> QED
    BY <2>2, <2>3
<1> DEFINE left2 == [st.left EXCEPT ![best] = -5000]
           out2  == st.out \o buckets[best]
<1>8. new = [left |-> left2, out |-> out2]
  BY DEF EmptyBest, best
<1> HIDE DEF new
<1>9. left2 \in [1 .. N -> Int] /\ left2[best] = -5000
      /\ \A j \in 1 .. N : j # best => left2[j] = st.left[j]
  BY <1>4, <1>6
<1>10. out2 \in Seq(Entry)
  BY <1>2, <1>4, <1>6
<1> HIDE DEF left2, out2
<1>11. new.left = left2 /\ new.out = out2
  BY <1>8
<1>12. new \in State(buckets)
  BY <1>8, <1>9, <1>10 DEF State
<1>13. new.left[best] = -5000 /\ \A j \in 1 .. N : j # best => new.left[j] = st.left[j]
  BY <1>9, <1>11
<1>14. EmptyOnes(buckets, new) = E \cup {best}
  <2>1. \A j \in 1 .. N : new.left[j] = -5000 <=> j = best \/ st.left[j] = -5000
    BY <1>13
  <2>2. EmptyOnes(buckets, new) = {j \in 1 .. N : j = best \/ st.left[j] = -5000}
    BY <2>1 DEF EmptyOnes
  <2>3. E = {j \in 1 .. N : st.left[j] = -5000}
    BY DEF E, EmptyOnes
  <2>4. best \in 1 .. N
    BY <1>6
  <2> QED
    BY <2>2, <2>3, <2>4
<1>15. Cardinality(E \cup {best}) = n
  <2>1. IsFiniteSet(E)
    <3>1. IsFiniteSet(1 .. N)
      BY <1>1, FirstNumbers
    <3>2. E \subseteq 1 .. N
      BY <1>4
    <3> HIDE DEF N
    <3> QED
      BY <3>1, <3>2, FS_Subset
  <2>2. Cardinality(E \cup {best}) = Cardinality(E) + 1
    BY <1>7, <2>1, FS_AddElement
  <2> QED
    BY <1>4, <2>2
<1>16. \A j \in (1 .. N) \ (E \cup {best}) : new.left[j] = score(j)
  BY <1>4, <1>13
<1>17. Arranges(new.out, PutOut(buckets, M, new))
  <2> DEFINE P == PutOut(buckets, M, st)
             Q == OfScore(M, score(best))
  <2>1. P \cap Q = {}
    BY <1>3, <1>4, <1>6, <1>7 DEF PutOut, OfScore, E
  <2>2. PutOut(buckets, M, new) = P \cup Q
    BY <1>14 DEF PutOut, OfScore, E
  <2>3. Arranges(st.out, P) /\ Arranges(buckets[best], Q) /\ new.out = st.out \o buckets[best]
    <3>1. Arranges(st.out, P)
      BY <1>4
    <3>2. Arranges(buckets[best], Q)
      BY <1>2, <1>6
    <3>3. new.out = st.out \o buckets[best]
      BY <1>11 DEF out2
    <3> QED
      BY <3>1, <3>2, <3>3
  <2> HIDE DEF P, Q
  <2>4. Arranges(st.out \o buckets[best], P \cup Q)
    BY <2>1, <2>3, ArrangedBoth
  <2> QED
    BY <2>2, <2>3, <2>4
<1>18. Done(buckets, M, new, n)
  BY <1>14, <1>15, <1>16, <1>17 DEF Done
<1> QED
  BY <1>12, <1>18 DEF new

LEMMA EmptiedArranges ==
  ASSUME NEW M \in SUBSET Entry, NEW buckets, Hold(buckets, M), AboveMark(M)
  PROVE  Arranges(Emptied(buckets), M)
<1> DEFINE N == Len(buckets)
           start == [left |-> [j \in DOMAIN buckets |-> buckets[j][1].info], out |-> <<>>]
           S == [n \in 0 .. N |-> {st \in State(buckets) : Done(buckets, M, st, n)}]
           step == [n \in 1 .. N |-> [st \in S[n - 1] |-> EmptyBest(buckets, st)]]
           Solves(f) == f = [n \in 0 .. N |-> IF n = 0 THEN start ELSE EmptyBest(buckets, f[n - 1])]
<1>1. /\ N \in Nat /\ DOMAIN buckets = 1 .. N
      /\ \A j \in 1 .. N : Score(buckets[j]) \in Int /\ Score(buckets[j]) > -5000
      /\ AllMet(buckets, M)
  BY BucketFacts DEF RightBucket
<1>2. start \in State(buckets) /\ Done(buckets, M, start, 0)
  <2>1. start.left \in [1 .. N -> Int] /\ start.out = <<>>
        /\ \A j \in 1 .. N : start.left[j] = Score(buckets[j])
    BY <1>1 DEF Score
  <2>2. start \in State(buckets)
    <3> DEFINE left == start.left
    <3>1. start = [left |-> left, out |-> <<>>] /\ left \in [1 .. N -> Int]
      BY <2>1
    <3>2. <<>> \in Seq(Entry)
      OBVIOUS
    <3> HIDE DEF left, start
    <3> QED
      BY <3>1, <3>2 DEF State
  <2> HIDE DEF start
  <2>3. EmptyOnes(buckets, start) = {}
    BY <1>1, <2>1 DEF EmptyOnes
  <2>4. Cardinality({}) = 0
    BY FS_EmptySet
  <2>5. PutOut(buckets, M, start) = {}
    BY <2>3 DEF PutOut
  <2>6. Arranges(<<>>, {})
    BY DEF Arranges
  <2> QED
    BY <2>1, <2>2, <2>3, <2>4, <2>5, <2>6 DEF Done
<1> HIDE DEF start
<1>3. ASSUME NEW n \in 1 .. N, NEW st \in State(buckets), Done(buckets, M, st, n - 1)
      PROVE  EmptyBest(buckets, st) \in State(buckets) /\ Done(buckets, M, EmptyBest(buckets, st), n)
  BY <1>3, RoundKeeps
<1>4. PICK f : Follows(0, N, S, start, step, f)
  <2>1. start \in S[0] /\ 0 <= N /\ 0 + 1 = 1 /\ 0 \in Int /\ N \in Int
    BY <1>1, <1>2
  <2>2. ASSUME NEW n \in 1 .. N
        PROVE  step[n] \in [S[n - 1] -> S[n]]
    <3>1. n - 1 \in 0 .. N /\ n \in 0 .. N
      BY <1>1
    <3>2. \A st \in S[n - 1] : EmptyBest(buckets, st) \in S[n]
      BY <1>3, <3>1
    <3> HIDE DEF S
    <3> QED
      BY <3>2
  <2> HIDE DEF S, step
  <2>3. Recursion(0, N, S, start, step)
    BY <2>1, <2>2 DEF Recursion
  <2> QED
    BY <2>1, <2>3, RecursionExists
<1>5. Solves(f)
  <2>0. f = [i \in 0 .. N |-> f[i]]
    <3> HIDE DEF S, step, N, start
    <3> QED
      BY <1>4 DEF Follows
  <2>1. /\ f[0] = start
        /\ \A i \in 0 .. N : f[i] \in S[i]
        /\ \A i \in 1 .. N : f[i] = step[i][f[i - 1]]
    <3>1. 0 + 1 = 1
      OBVIOUS
    <3> HIDE DEF S, step, N, start
    <3> QED
      BY <1>4, <3>1 DEF Follows
  <2>2. \A i \in 0 .. N : i # 0 => i \in 1 .. N /\ i - 1 \in 0 .. N
    BY <1>1
  <2>3. \A i \in 1 .. N : f[i] = EmptyBest(buckets, f[i - 1])
    <3> TAKE i \in 1 .. N
    <3>0. i \in 0 .. N /\ i - 1 \in 0 .. N
      BY <2>2, <1>1
    <3>1. f[i - 1] \in S[i - 1] /\ f[i] = step[i][f[i - 1]]
      <4> HIDE DEF S, step, start, N
      <4> QED
        BY <2>1, <3>0
    <3> HIDE DEF S
    <3> QED
      BY <3>1
  <2>4. \A i \in 0 .. N : f[i] = IF i = 0 THEN start ELSE EmptyBest(buckets, f[i - 1])
    <3> TAKE i \in 0 .. N
    <3>1. CASE i = 0
      BY <2>1, <3>1
    <3>2. CASE i # 0
      BY <2>2, <2>3, <3>2
    <3> QED
      BY <3>1, <3>2
  <2> HIDE DEF S, step, start
  <2> QED
    BY <2>0, <2>4, Zenon
<1> DEFINE after == CHOOSE g : Solves(g)
<1>6. Solves(after)
  <2> HIDE DEF Solves
  <2> QED
    BY <1>5
<1>7. Emptied(buckets) = after[N].out
  BY DEF Emptied, start
<1>8. after[0] = start /\ \A n \in 1 .. N : after[n] = EmptyBest(buckets, after[n - 1])
  <2>1. 0 \in 0 .. N /\ \A n \in 1 .. N : n \in 0 .. N /\ n # 0
    BY <1>1
  <2> HIDE DEF after
  <2> QED
    BY <1>6, <2>1
<1> HIDE DEF after, S, step, Solves
<1>9. after[N] \in State(buckets) /\ Done(buckets, M, after[N], N)
  <2> DEFINE T == {n \in Nat : after[n] \in State(buckets) /\ Done(buckets, M, after[n], n)}
  <2>1. 0 \in T
    BY <1>2, <1>8
  <2>2. \A n \in 1 .. N : n - 1 \in T => n \in T
    BY <1>1, <1>3, <1>8
  <2> HIDE DEF T
  <2>3. 0 \in Int /\ N \in Int /\ 0 + 1 = 1 /\ N \in 0 .. N
    BY <1>1
  <2>4. \A n \in 0 .. N : n \in T
    <3> HIDE DEF N
    <3> QED
      BY <2>1, <2>2, <2>3, HandedOn
  <2> QED
    BY <2>3, <2>4 DEF T
<1> DEFINE last == after[N]
<1>10. EmptyOnes(buckets, last) = 1 .. N
  <2>1. IsFiniteSet(1 .. N) /\ Cardinality(1 .. N) = N
    <3> HIDE DEF N
    <3> QED
      BY <1>1, FirstNumbers
  <2>2. EmptyOnes(buckets, last) \subseteq 1 .. N /\ Cardinality(EmptyOnes(buckets, last)) = N
    BY <1>9 DEF Done, EmptyOnes
  <2> HIDE DEF last
  <2> QED
    BY <2>1, <2>2, FS_Subset
<1>11. PutOut(buckets, M, last) = M
  BY <1>1, <1>10 DEF PutOut, AllMet
<1> QED
  BY <1>7, <1>9, <1>11 DEF Done

\* sort_moves outputs every move once, when no score is the mark of an empty bucket.
LEMMA SortedArranges ==
  ASSUME NEW M \in SUBSET Entry, NEW ms, Arranges(ms, M), AboveMark(M)
  PROVE  Arranges(Sorted[ms], M)
<1>1. ms \in Seq(Entry)
  <2>1. ms \in Seq(M)
    BY DEF Arranges
  <2> QED
    BY <2>1
<1>2. Hold(Buckets(ms), M)
  BY BucketsHold
<1>3. Arranges(Emptied(Buckets(ms)), M)
  BY <1>2, EmptiedArranges
<1> QED
  BY <1>1, <1>3 DEF Sorted

LEMMA SortTailArranges ==
  ASSUME NEW M \in SUBSET Entry, NEW ms, Arranges(ms, M), ms # <<>>, AboveMark(M)
  PROVE  Arranges(SortTail(ms), M)
<1> DEFINE h == Head(ms)
           t == Tail(ms)
           R == M \ {h}
           W == {h} \cup R
<1>0. h = Head(ms) /\ t = Tail(ms)
  OBVIOUS
<1>1. SortTail(ms) = <<h>> \o Sorted[t]
  BY DEF SortTail
<1> HIDE DEF h, t
<1>2. h \in M /\ Arranges(t, M \ {h}) /\ Arranges(<<h>>, {h})
  BY <1>0, ArrangedTail
<1>3. R \in SUBSET Entry /\ AboveMark(R)
  BY DEF AboveMark
<1>4. {h} \cap R = {} /\ W = M
  BY <1>2
<1>5. Arranges(t, R)
  BY <1>2
<1> HIDE DEF R
<1>6. Arranges(Sorted[t], R)
  BY <1>3, <1>5, SortedArranges
<1>7. Arranges(<<h>> \o Sorted[t], W)
  BY <1>2, <1>4, <1>6, ArrangedBoth
<1> HIDE DEF W
<1> QED
  BY <1>1, <1>4, <1>7

-----------------------------------------------------------------------------
(* The moves in the order they are generated.                                *)

Pair == Nat \X Nat

LEMMA PairIs ==
  ASSUME NEW p \in Pair
  PROVE  p = <<p[1], p[2]>> /\ p[1] \in Nat /\ p[2] \in Nat
BY DEF Pair

\* The order of the generators is a total one.
LEMMA UpToIsAnOrder ==
  /\ \A p \in Pair : UpTo(p, p)
  /\ \A p, q \in Pair : UpTo(p, q) \/ UpTo(q, p)
  /\ \A p, q \in Pair : UpTo(p, q) /\ UpTo(q, p) => p = q
  /\ \A p, q, r \in Pair : UpTo(p, q) /\ UpTo(q, r) => UpTo(p, r)
<1>1. ASSUME NEW p \in Pair, NEW q \in Pair
      PROVE  /\ UpTo(p, p) /\ (UpTo(p, q) \/ UpTo(q, p))
             /\ (UpTo(p, q) /\ UpTo(q, p) => p[1] = q[1] /\ p[2] = q[2])
  BY PairIs DEF UpTo
<1>2. ASSUME NEW p \in Pair, NEW q \in Pair, NEW r \in Pair, UpTo(p, q), UpTo(q, r)
      PROVE  UpTo(p, r)
  BY <1>2, PairIs DEF UpTo
<1>3. ASSUME NEW p \in Pair, NEW q \in Pair, UpTo(p, q), UpTo(q, p)
      PROVE  p = q
  BY <1>1, <1>3, PairIs
<1> QED
  BY <1>1, <1>2, <1>3

Low(P, p)  == {q \in P : UpTo(q, p)}
Rank(P, p) == Cardinality(Low(P, p))

\* The places of P are numbered from 1 in the order of the generators.
LEMMA RankNumbers ==
  ASSUME NEW P \in SUBSET Pair, IsFiniteSet(P)
  PROVE  /\ Cardinality(P) \in Nat
         /\ \A p \in P : Rank(P, p) \in 1 .. Cardinality(P)
         /\ \A p, q \in P : Rank(P, p) = Rank(P, q) => p = q
         /\ \A i \in 1 .. Cardinality(P) : \E p \in P : Rank(P, p) = i
<1> DEFINE n == Cardinality(P)
<1>1. n \in Nat
  BY FS_CardinalityType
<1>2. ASSUME NEW p \in P
      PROVE  Rank(P, p) \in 1 .. n /\ IsFiniteSet(Low(P, p)) /\ p \in Low(P, p)
  <2>1. Low(P, p) \in SUBSET P /\ p \in Low(P, p)
    BY UpToIsAnOrder DEF Low
  <2>2. IsFiniteSet(Low(P, p)) /\ Rank(P, p) <= n /\ Rank(P, p) \in Nat
    BY <2>1, FS_Subset, FS_CardinalityType DEF Rank
  <2>3. Rank(P, p) # 0
    BY <2>1, <2>2, FS_EmptySet DEF Rank
  <2> QED
    BY <1>1, <2>1, <2>2, <2>3
<1>3. ASSUME NEW p \in P, NEW q \in P, p # q, UpTo(p, q)
      PROVE  Rank(P, p) # Rank(P, q)
  <2>1. p \in Pair /\ q \in Pair
    OBVIOUS
  <2>2. Low(P, p) \in SUBSET Low(P, q)
    <3> SUFFICES ASSUME NEW r \in P, UpTo(r, p)
                 PROVE  UpTo(r, q)
      BY DEF Low
    <3>1. r \in Pair
      OBVIOUS
    <3> QED
      BY <1>3, <2>1, <3>1, UpToIsAnOrder
  <2>3. q \notin Low(P, p)
    BY <1>3, <2>1, UpToIsAnOrder DEF Low
  <2>4. q \in Low(P, q) /\ IsFiniteSet(Low(P, q))
    BY <1>2
  <2>5. Low(P, p) # Low(P, q)
    BY <2>3, <2>4
  <2> QED
    BY <2>2, <2>4, <2>5, FS_Subset DEF Rank
<1>4. ASSUME NEW p \in P, NEW q \in P, Rank(P, p) = Rank(P, q)
      PROVE  p = q
  <2>1. p \in Pair /\ q \in Pair
    OBVIOUS
  <2>2. UpTo(p, q) \/ UpTo(q, p)
    BY <2>1, UpToIsAnOrder
  <2> QED
    BY <1>3, <1>4, <2>2
<1>5. ASSUME NEW i \in 1 .. n
      PROVE  \E p \in P : Rank(P, p) = i
  <2> DEFINE R == {Rank(P, p) : p \in P}
             D == 1 .. n
             f == [p \in P |-> Rank(P, p)]
  <2>1. f \in [P -> R] /\ (\A p, q \in P : f[p] = f[q] => p = q)
        /\ (\A t \in R : \E p \in P : f[p] = t)
    BY <1>4
  <2>2. R \in SUBSET D
    BY <1>2
  <2>3. IsFiniteSet(D) /\ Cardinality(D) = n
    BY <1>1, FirstNumbers
  <2> HIDE DEF f, D, R
  <2>4. Cardinality(R) = n
    BY <2>1, AsMany
  <2>5. R = D
    BY <2>2, <2>3, <2>4, FS_Subset
  <2>6. i \in R
    BY <2>5 DEF D
  <2> QED
    BY <2>6 DEF R
<1>6. \A p \in P : Rank(P, p) \in 1 .. n
  BY <1>2
<1> QED
  BY <1>1, <1>4, <1>5, <1>6

\* A move that has not been scored.
Plain(p) == [array_index |-> p[1], mask_index |-> p[2], info |-> 0]

LEMMA PlainEntry ==
  /\ \A p \in Pair : Plain(p) \in Entry
  /\ \A p, q \in Pair : Plain(p) = Plain(q) => p = q
<1>1. ASSUME NEW p \in Pair
      PROVE  Plain(p) \in Entry /\ Plain(p).array_index = p[1] /\ Plain(p).mask_index = p[2]
  BY PairIs DEF Plain, Entry
<1>2. ASSUME NEW p \in Pair, NEW q \in Pair, Plain(p) = Plain(q)
      PROVE  p = q
  <2>1. p[1] = q[1] /\ p[2] = q[2]
    BY <1>1, <1>2
  <2> QED
    BY <2>1, PairIs
<1> QED
  BY <1>1, <1>2

\* The generators list every move of a set once.
LEMMA GeneratedArranges ==
  ASSUME NEW P \in SUBSET Pair, IsFiniteSet(P)
  PROVE  Arranges(Generated(P), {Plain(p) : p \in P})
<1> DEFINE n == Cardinality(P)
           at(i) == CHOOSE p \in P : Cardinality({q \in P : UpTo(q, p)}) = i
           M == {Plain(p) : p \in P}
           G == Generated(P)
<1>1. /\ n \in Nat
      /\ \A p \in P : Rank(P, p) \in 1 .. n
      /\ \A p, q \in P : Rank(P, p) = Rank(P, q) => p = q
  BY RankNumbers
<1>2. ASSUME NEW i \in 1 .. n
      PROVE  at(i) \in P /\ Rank(P, at(i)) = i
  <2>1. \E p \in P : Rank(P, p) = i
    BY RankNumbers
  <2>2. \E p \in P : Cardinality({q \in P : UpTo(q, p)}) = i
    BY <2>1 DEF Rank, Low
  <2>3. at(i) \in P /\ Cardinality({q \in P : UpTo(q, at(i))}) = i
    BY <2>2
  <2> HIDE DEF at
  <2> QED
    BY <2>3 DEF Rank, Low
<1>3. G = [i \in 1 .. n |-> Plain(at(i))]
  BY DEF Generated, Plain
<1> HIDE DEF at, G
<1>4. \A p \in P : at(Rank(P, p)) = p
  <2> TAKE p \in P
  <2> DEFINE k == Rank(P, p)
  <2>1. k \in 1 .. n /\ at(k) \in P /\ Rank(P, at(k)) = k
    BY <1>1, <1>2
  <2> QED
    BY <1>1, <2>1
<1> HIDE DEF n
<1>5. DOMAIN G = 1 .. n /\ \A i \in 1 .. n : G[i] = Plain(at(i))
  BY <1>3
<1>6. \A i \in 1 .. n : G[i] \in M
  BY <1>2, <1>5
<1>7. G \in Seq(M)
  <2> HIDE DEF M
  <2>1. G = [i \in 1 .. n |-> G[i]]
    BY <1>3, <1>5
  <2> QED
    BY <1>1, <1>6, <2>1
<1>8. ASSUME NEW i \in DOMAIN G, NEW j \in DOMAIN G, G[i] = G[j]
      PROVE  i = j
  <2>1. i \in 1 .. n /\ j \in 1 .. n
    BY <1>5
  <2>2. at(i) \in Pair /\ at(j) \in Pair
    BY <1>2, <2>1
  <2>3. Plain(at(i)) = Plain(at(j))
    BY <1>5, <1>8, <2>1
  <2>4. at(i) = at(j)
    BY <2>2, <2>3, PlainEntry
  <2>5. Rank(P, at(i)) = i /\ Rank(P, at(j)) = j
    BY <1>2, <2>1
  <2> QED
    BY <2>4, <2>5
<1>9. ASSUME NEW x \in M
      PROVE  \E i \in DOMAIN G : G[i] = x
  <2>1. PICK p \in P : x = Plain(p)
    OBVIOUS
  <2>2. Rank(P, p) \in DOMAIN G /\ G[Rank(P, p)] = Plain(at(Rank(P, p)))
    BY <1>1, <1>5
  <2>3. at(Rank(P, p)) = p
    BY <1>4
  <2> QED
    BY <2>1, <2>2, <2>3
<1> HIDE DEF M
<1>10. Arranges(G, M)
  BY <1>7, <1>8, <1>9 DEF Arranges
<1> QED
  BY <1>10 DEF G, M

-----------------------------------------------------------------------------
(* Moves with their scores.                                                  *)

\* The places of P with a value each, as moves.
Mark(p, v)   == [array_index |-> p[1], mask_index |-> p[2], info |-> v]
Marked(P, w) == {Mark(p, w[p]) : p \in P}

PlaceOf(m) == <<m.array_index, m.mask_index>>

LEMMA MarkEntry ==
  ASSUME NEW p \in Pair, NEW v \in Int
  PROVE  /\ Mark(p, v) \in Entry /\ PlaceOf(Mark(p, v)) = p /\ Mark(p, v).info = v
         /\ Mark(p, v).array_index = p[1] /\ Mark(p, v).mask_index = p[2]
BY PairIs DEF Mark, Entry, PlaceOf

LEMMA MarkedEntries ==
  ASSUME NEW P \in SUBSET Pair, NEW w \in [P -> Int]
  PROVE  Marked(P, w) \in SUBSET Entry
<1>1. ASSUME NEW p \in P
      PROVE  Mark(p, w[p]) \in Entry
  <2>1. p \in Pair /\ w[p] \in Int
    OBVIOUS
  <2> QED
    BY <2>1, MarkEntry
<1> QED
  BY <1>1 DEF Marked

\* Giving every move a value keeps them apart.
LEMMA ScoredArranges ==
  ASSUME NEW P \in SUBSET Pair, NEW w \in [P -> Int], NEW ms,
         Arranges(ms, {Plain(p) : p \in P}),
         NEW out, out = [i \in DOMAIN ms |-> out[i]],
         \A i \in DOMAIN ms : out[i] = [ms[i] EXCEPT !.info = w[PlaceOf(ms[i])]]
  PROVE  Arranges(out, Marked(P, w))
<1> DEFINE M == {Plain(p) : p \in P}
           n == Len(ms)
           W == Marked(P, w)
<1>1. ms \in Seq(M) /\ n \in Nat /\ DOMAIN ms = 1 .. n /\ \A i \in 1 .. n : ms[i] \in M
  BY DEF Arranges
<1>2. ASSUME NEW p \in P
      PROVE  /\ PlaceOf(Plain(p)) = p
             /\ [Plain(p) EXCEPT !.info = w[p]] = Mark(p, w[p])
             /\ PlaceOf(Mark(p, w[p])) = p
  <2>1. p \in Pair /\ w[p] \in Int
    OBVIOUS
  <2>2. PlaceOf(Plain(p)) = p
    BY <2>1, PairIs DEF PlaceOf, Plain
  <2> QED
    BY <2>1, <2>2, MarkEntry DEF Plain, Mark
<1>3. ASSUME NEW i \in 1 .. n
      PROVE  \E p \in P : ms[i] = Plain(p) /\ out[i] = Mark(p, w[p])
  <2>1. PICK p \in P : ms[i] = Plain(p)
    BY <1>1
  <2>2. out[i] = [Plain(p) EXCEPT !.info = w[p]]
    BY <1>1, <1>2, <2>1
  <2> QED
    BY <1>2, <2>1, <2>2
<1>4. \A i \in 1 .. n : out[i] \in W
  BY <1>3 DEF Marked
<1>5. out \in Seq(W) /\ DOMAIN out = 1 .. n
  <2> HIDE DEF W, n, M
  <2>1. out = [i \in 1 .. n |-> out[i]]
    BY <1>1
  <2> QED
    BY <1>1, <1>4, <2>1
<1>6. ASSUME NEW i \in DOMAIN out, NEW j \in DOMAIN out, out[i] = out[j]
      PROVE  i = j
  <2>1. i \in 1 .. n /\ j \in 1 .. n
    BY <1>5
  <2>2. PICK p \in P : ms[i] = Plain(p) /\ out[i] = Mark(p, w[p])
    BY <1>3, <2>1
  <2>3. PICK q \in P : ms[j] = Plain(q) /\ out[j] = Mark(q, w[q])
    BY <1>3, <2>1
  <2>4. PlaceOf(Mark(p, w[p])) = p /\ PlaceOf(Mark(q, w[q])) = q
    BY <1>2
  <2>5. p = q
    BY <1>6, <2>2, <2>3, <2>4
  <2>6. ms[i] = ms[j]
    BY <2>2, <2>3, <2>5
  <2> QED
    BY <1>1, <2>1, <2>6 DEF Arranges
<1>7. ASSUME NEW x \in W
      PROVE  \E i \in DOMAIN out : out[i] = x
  <2>1. PICK p \in P : x = Mark(p, w[p])
    BY DEF Marked
  <2>2. Plain(p) \in M
    OBVIOUS
  <2>3. PICK i \in 1 .. n : ms[i] = Plain(p)
    BY <1>1, <2>2 DEF Arranges
  <2>4. PICK q \in P : ms[i] = Plain(q) /\ out[i] = Mark(q, w[q])
    BY <1>3
  <2>5. p = q
    BY <1>2, <2>3, <2>4
  <2>6. out[i] = x
    BY <2>1, <2>4, <2>5
  <2> QED
    BY <1>5, <2>6
<1> HIDE DEF W
<1>8. Arranges(out, W)
  BY <1>5, <1>6, <1>7 DEF Arranges
<1> QED
  BY <1>8 DEF W

-----------------------------------------------------------------------------
(* What a move can be worth.                                                 *)

LEMMA RangeSize ==
  ASSUME NEW a \in Int, NEW c \in Nat, NEW e, e = a + c - 1
  PROVE  IsFiniteSet(a .. e) /\ Cardinality(a .. e) = c
<1>1. e \in Int /\ (a > e <=> c = 0) /\ e - a + 1 = c
  OBVIOUS
<1> QED
  BY <1>1, FS_Interval

\* A count does not fall by more than the bits that are taken away.
LEMMA CountKept ==
  ASSUME NEW x \in SUBSET Idx, NEW y \in SUBSET Idx, NEW T, IsFiniteSet(T), x \ T \subseteq y
  PROVE  CountMoves(x) <= CountMoves(y) + Cardinality(T)
<1> DEFINE N == NonOverlapping(x)
           A == N \ T
<1>1. N \subseteq x /\ \A i \in N : i + 1 \notin N
  BY CountMovesIsMaximal
<1>2. A \in SUBSET y /\ \A i \in A : i + 1 \notin A
  BY <1>1
<1>3. Cardinality(A) <= CountMoves(y)
  BY <1>2, CountMovesIsMaximal
<1>4. IsFiniteSet(N) /\ CountMoves(x) = Cardinality(N)
  BY CountType, FiniteIdx, FS_Subset DEF CountMoves
<1>5. IsFiniteSet(A) /\ N \subseteq A \cup T
  BY <1>4, FS_Subset
<1>6. /\ IsFiniteSet(A \cup T)
      /\ Cardinality(A \cup T) = Cardinality(A) + Cardinality(T) - Cardinality(A \cap T)
  BY <1>5, FS_Union
<1>7. Cardinality(N) <= Cardinality(A \cup T)
  BY <1>5, <1>6, FS_Subset
<1>8. /\ Cardinality(A) \in Nat /\ Cardinality(T) \in Nat /\ Cardinality(N) \in Nat
      /\ Cardinality(A \cap T) \in Nat /\ CountMoves(y) \in Nat
  <2>1. IsFiniteSet(A \cap T)
    BY <1>5, FS_Subset
  <2> QED
    BY <1>4, <1>5, <2>1, FS_CardinalityType, CountType
<1> HIDE DEF N, A
<1> QED
  BY <1>3, <1>4, <1>6, <1>7, <1>8

\* Rows that differ in the bits T have masks that differ in those and the next.
LEMMA MasksKept ==
  ASSUME NEW v \in [Idx -> SUBSET Idx], NEW w \in [Idx -> SUBSET Idx], NEW T \in SUBSET Idx,
         \A k \in Idx : \A x \in Idx \ T : x \in v[k] <=> x \in w[k],
         NEW n \in Int, n - 1 \in Idx, n \in Idx, n + 1 \in Idx,
         NEW U, \A x \in T : x \in U /\ x + 1 \in U
  PROVE  /\ RealMask(v, n) \ U \subseteq RealMask(w, n)
         /\ SafeMask(v, n) \ U \subseteq SafeMask(w, n)
<1>1. ASSUME NEW x \in Idx, x \notin U, NEW k \in {n - 1, n, n + 1}
      PROVE  (x \in v[k] <=> x \in w[k]) /\ (x - 1 \in v[k] <=> x - 1 \in w[k])
  <2>1. x \notin T /\ k \in Idx /\ x \in Int
    BY <1>1 DEF Idx
  <2>2. x \in v[k] <=> x \in w[k]
    BY <2>1
  <2>3. CASE x - 1 \in Idx
    <3>1. x - 1 \notin T
      <4>1. (x - 1) + 1 = x
        BY <2>1
      <4> QED
        BY <1>1, <4>1
    <3> QED
      BY <2>1, <2>2, <2>3, <3>1
  <2>4. CASE x - 1 \notin Idx
    BY <2>1, <2>2, <2>4
  <2> QED
    BY <2>3, <2>4
<1>2. ASSUME NEW x \in RealMask(v, n) \ U
      PROVE  x \in RealMask(w, n)
  BY <1>1 DEF RealMask, Not, Shl
<1>3. ASSUME NEW x \in SafeMask(v, n) \ U
      PROVE  x \in SafeMask(w, n)
  <2>1. x \in Idx
    BY MaskType
  <2> QED
    BY <1>1, <2>1, SafeMaskBit
<1> QED
  BY <1>2, <1>3

\* So a line's counts fall by at most the number of bits in U.
LEMMA CountsKept ==
  ASSUME NEW v \in [Idx -> SUBSET Idx], NEW w \in [Idx -> SUBSET Idx], NEW T \in SUBSET Idx,
         \A k \in Idx : \A x \in Idx \ T : x \in v[k] <=> x \in w[k],
         NEW n \in Int, n - 1 \in Idx, n \in Idx, n + 1 \in Idx,
         NEW a \in Int, NEW c \in Nat, \A x \in T : x >= a /\ x + 1 < a + c
  PROVE  /\ CountReal(v, n) - CountReal(w, n) <= c
         /\ CountSafe(v, n) - CountSafe(w, n) <= c
         /\ CountReal(v, n) \in Nat /\ CountReal(w, n) \in Nat
         /\ CountSafe(v, n) \in Nat /\ CountSafe(w, n) \in Nat
<1> DEFINE e == a + c - 1
           U == a .. e
<1>1. IsFiniteSet(U) /\ Cardinality(U) <= c
  <2>1. e = a + c - 1
    OBVIOUS
  <2> HIDE DEF e
  <2> QED
    BY <2>1, RangeSize
<1>2. \A x \in T : x \in U /\ x + 1 \in U
  BY DEF Idx
<1> HIDE DEF U
<1>3. /\ RealMask(v, n) \ U \subseteq RealMask(w, n)
      /\ SafeMask(v, n) \ U \subseteq SafeMask(w, n)
  BY <1>2, MasksKept
<1>4. /\ RealMask(v, n) \in SUBSET Idx /\ RealMask(w, n) \in SUBSET Idx
      /\ SafeMask(v, n) \in SUBSET Idx /\ SafeMask(w, n) \in SUBSET Idx
  BY MaskType
<1>5. CountMoves(RealMask(v, n)) <= CountMoves(RealMask(w, n)) + Cardinality(U)
  BY <1>1, <1>3, <1>4, CountKept
<1>6. CountMoves(SafeMask(v, n)) <= CountMoves(SafeMask(w, n)) + Cardinality(U)
  BY <1>1, <1>3, <1>4, CountKept
<1>7. /\ CountReal(v, n) \in Nat /\ CountReal(w, n) \in Nat
      /\ CountSafe(v, n) \in Nat /\ CountSafe(w, n) \in Nat
  BY <1>4, CountType DEF CountReal, CountSafe
<1>8. Cardinality(U) \in Nat
  BY <1>1, FS_CardinalityType
<1> QED
  BY <1>1, <1>5, <1>6, <1>7, <1>8 DEF CountReal, CountSafe

\* What breaks ties is small.
LEMMA PositionValueBound ==
  ASSUME NEW s \in Side, NEW m \in Moves(s)
  PROVE  LET pv == PositionValue(NumRows(s), NumRows(Opp(s)), m.array_index, m.mask_index)
         IN  pv \in Int /\ pv >= -128
<1> DEFINE rows == NumRows(s)
           cols == NumRows(Opp(s))
           mirror(n, size) == IF n <= size - n THEN n ELSE size - n
           a == mirror(m.array_index, rows + 1)
           b == mirror(m.mask_index, cols)
           cell == <<a, b>>
           Q == {c \in Quadrant(rows, cols) : Pass(c) = Pass(cell) /\ UpTo(c, cell)}
           B == (1 .. rows) \X (1 .. cols)
<1>1. /\ rows \in Nat /\ cols \in Nat /\ rows >= 1 /\ cols >= 1 /\ rows * cols < 128
      /\ m.array_index \in 1 .. rows /\ m.mask_index \in 1 .. (cols - 1)
  <2>1. Rows * Cols < 128 /\ Rows * Cols = Cols * Rows
    BY SizeAssumption, SizeFacts
  <2> QED
    BY <2>1, SizeFacts DEF NumRows, Opp, Side, Moves, Lines
<1> HIDE DEF rows, cols
<1>2. a \in Nat /\ a >= 1 /\ b \in Nat /\ b >= 1
  BY <1>1
<1> HIDE DEF a, b
<1>3. Pass(cell) \in 1 .. 5
  <2>1. a % 2 \in {0, 1} /\ b % 2 \in {0, 1} /\ (a % 2 = 1 => a >= 3 \/ a = 1)
    BY <1>2
  <2>2. cell[1] = a /\ cell[2] = b
    OBVIOUS
  <2> HIDE DEF cell
  <2> QED
    BY <2>1, <2>2 DEF Pass
<1>4. Q \in SUBSET B
  <2>1. (rows + 1) \div 2 <= rows /\ cols \div 2 <= cols
        /\ (rows + 1) \div 2 \in Int /\ cols \div 2 \in Int
    BY <1>1
  <2>2. 1 .. ((rows + 1) \div 2) \subseteq 1 .. rows /\ 1 .. (cols \div 2) \subseteq 1 .. cols
    BY <1>1, <2>1
  <2> QED
    BY <2>2 DEF Quadrant
<1>5. IsFiniteSet(B) /\ Cardinality(B) = rows * cols
  <2>1. /\ IsFiniteSet(1 .. rows) /\ Cardinality(1 .. rows) = rows
        /\ IsFiniteSet(1 .. cols) /\ Cardinality(1 .. cols) = cols
    <3>1. 1 \in Int /\ rows = 1 + rows - 1 /\ cols = 1 + cols - 1
      BY <1>1
    <3>2. IsFiniteSet(1 .. rows) /\ Cardinality(1 .. rows) = rows
      BY <1>1, <3>1, RangeSize, Zenon
    <3>3. IsFiniteSet(1 .. cols) /\ Cardinality(1 .. cols) = cols
      BY <1>1, <3>1, RangeSize, Zenon
    <3> QED
      BY <3>2, <3>3
  <2> QED
    BY <2>1, FS_Product
<1>6. Cardinality(Q) <= rows * cols /\ Cardinality(Q) \in Nat
  BY <1>4, <1>5, FS_Subset, FS_CardinalityType
<1>7. Start[Pass(cell)] \in Int /\ Start[Pass(cell)] >= 30
  BY <1>3 DEF Start
<1>8. PositionValue(rows, cols, m.array_index, m.mask_index)
        = Start[Pass(cell)] - Cardinality(Q)
  BY DEF PositionValue, a, b
<1>9. rows * cols \in Int
  BY <1>1
<1> HIDE DEF Q, cell
<1>10. /\ Start[Pass(cell)] - Cardinality(Q) \in Int
       /\ Start[Pass(cell)] - Cardinality(Q) >= -128
  BY <1>1, <1>6, <1>7, <1>9
<1> QED
  BY <1>8, <1>10 DEF rows, cols

\* The score of a move as the words alone determine it.
RealDiff(v, w, t, n) == CountReal(w[t], n) - CountReal(v[t], n)
SafeDiff(v, w, t, n) == IF n \in Lines(t) THEN CountSafe(w[t], n) - CountSafe(v[t], n) ELSE 0

ChangeOn(v, s, m) ==
  LET w == Flipped(v, s, m)
      l == m.array_index
      b == m.mask_index
      o == Opp(s)
  IN  (RealDiff(v, w, s, l) + SafeDiff(v, w, s, l - 1) + SafeDiff(v, w, s, l)
         + SafeDiff(v, w, s, l + 1))
        - (RealDiff(v, w, o, b) + RealDiff(v, w, o, b + 1)
             + SafeDiff(v, w, o, b - 1) + SafeDiff(v, w, o, b + 2))

ScoreOn(v, s, m) ==
  128 * ChangeOn(v, s, m)
    + PositionValue(NumRows(s), NumRows(Opp(s)), m.array_index, m.mask_index)

LEMMA ScoreOfWords ==
  ASSUME LinesExact, NEW s \in Side, NEW m \in Moves(s)
  PROVE  ScoreMove(s, m) = ScoreOn(board, s, m)
<1> DEFINE w == Flipped(board, s, m)
           o == Opp(s)
           l == m.array_index
           b == m.mask_index
<1>1. Toggled(s, m) = w
  BY DEF Toggled, Flipped
<1>2. l \in Lines(s) /\ b \in Lines(o) /\ b + 1 \in Lines(o) /\ o \in Side
  BY MoveFacts, OppFacts
<1> HIDE DEF w, o, l, b
<1>3. \A t \in Side : \A n \in Lines(t) : RealGain(t, n, w) = RealDiff(board, w, t, n)
  BY DEF RealGain, RealDiff, LinesExact
<1>4. \A t \in Side : \A n : SafeGain(t, n, w) = SafeDiff(board, w, t, n)
  BY DEF SafeGain, SafeDiff, LinesExact
<1>5. ScoreChange(s, m) =
        (RealGain(s, l, w) + SafeGain(s, l - 1, w) + SafeGain(s, l, w) + SafeGain(s, l + 1, w))
        - (RealGain(o, b, w) + RealGain(o, b + 1, w)
             + SafeGain(o, b - 1, w) + SafeGain(o, b + 2, w))
  BY <1>1 DEF ScoreChange, OwnGain, OpponentGain, o, l, b
<1>6. ChangeOn(board, s, m) =
        (RealDiff(board, w, s, l) + SafeDiff(board, w, s, l - 1) + SafeDiff(board, w, s, l)
           + SafeDiff(board, w, s, l + 1))
        - (RealDiff(board, w, o, b) + RealDiff(board, w, o, b + 1)
             + SafeDiff(board, w, o, b - 1) + SafeDiff(board, w, o, b + 2))
  BY DEF ChangeOn, w, o, l, b
<1>7. ScoreChange(s, m) = ChangeOn(board, s, m)
  BY <1>2, <1>3, <1>4, <1>5, <1>6
<1> QED
  BY <1>7 DEF ScoreMove, ScoreOn

\* A line's counts change little when its rows change in the few bits of T.
LEMMA LineChangesLittle ==
  ASSUME NEW v \in [Side -> [Idx -> SUBSET Idx]], NEW w \in [Side -> [Idx -> SUBSET Idx]],
         NEW t \in Side, NEW T \in SUBSET Idx,
         \A k \in Idx : \A x \in Idx \ T : x \in v[t][k] <=> x \in w[t][k],
         NEW a \in Int, NEW c \in Nat, \A x \in T : x >= a /\ x + 1 < a + c
  PROVE  /\ \A n \in Lines(t) : RealDiff(v, w, t, n) \in -c .. c
         /\ \A n : SafeDiff(v, w, t, n) \in -c .. c
<1> DEFINE p == v[t]
           q == w[t]
<1>1. /\ p \in [Idx -> SUBSET Idx] /\ q \in [Idx -> SUBSET Idx]
      /\ \A k \in Idx : \A x \in Idx \ T : x \in p[k] <=> x \in q[k]
      /\ \A k \in Idx : \A x \in Idx \ T : x \in q[k] <=> x \in p[k]
  OBVIOUS
<1>2. \A n \in Lines(t) : n \in Int /\ n - 1 \in Idx /\ n \in Idx /\ n + 1 \in Idx
  BY SizeFacts DEF Lines, NumRows, Side, Idx
<1> HIDE DEF p, q
<1>3. ASSUME NEW n \in Lines(t)
      PROVE  /\ CountReal(q, n) - CountReal(p, n) \in -c .. c
             /\ CountSafe(q, n) - CountSafe(p, n) \in -c .. c
  <2>1. /\ CountReal(p, n) - CountReal(q, n) <= c /\ CountSafe(p, n) - CountSafe(q, n) <= c
        /\ CountReal(p, n) \in Nat /\ CountReal(q, n) \in Nat
        /\ CountSafe(p, n) \in Nat /\ CountSafe(q, n) \in Nat
    BY <1>1, <1>2, CountsKept
  <2>2. CountReal(q, n) - CountReal(p, n) <= c /\ CountSafe(q, n) - CountSafe(p, n) <= c
    BY <1>1, <1>2, CountsKept
  <2> QED
    BY <2>1, <2>2
<1>4. \A n \in Lines(t) : RealDiff(v, w, t, n) \in -c .. c
  BY <1>3 DEF RealDiff, p, q
<1>5. \A n : SafeDiff(v, w, t, n) \in -c .. c
  BY <1>3 DEF SafeDiff, p, q
<1> QED
  BY <1>4, <1>5

(* No move scores as low as the value that marks an empty bucket of sort_moves
   (move.cc:143).                                                             *)
LEMMA ScoreAboveMark ==
  ASSUME NEW v \in [Side -> [Idx -> SUBSET Idx]], NEW s \in Side, NEW m \in Moves(s)
  PROVE  ScoreOn(v, s, m) \in Int /\ ScoreOn(v, s, m) > -5000
<1> DEFINE w == Flipped(v, s, m)
           o == Opp(s)
           l == m.array_index
           b == m.mask_index
<1>1. /\ w \in [Side -> [Idx -> SUBSET Idx]]
      /\ \A n \in Idx : n # l => w[s][n] = v[s][n]
      /\ w[s][l] = Xor(v[s][l], {b, b + 1})
      /\ \A n \in Idx : n \notin {b, b + 1} => w[o][n] = v[o][n]
      /\ \A n \in {b, b + 1} : w[o][n] = Xor(v[o][n], {l})
  BY FlippedWords
<1>2. /\ l \in Lines(s) /\ b \in Lines(o) /\ b + 1 \in Lines(o) /\ o \in Side
      /\ l \in Int /\ b \in Int /\ l \in Idx /\ b \in Idx /\ b + 1 \in Idx
  BY MoveFacts, OppFacts
<1>3. ChangeOn(v, s, m) =
        (RealDiff(v, w, s, l) + SafeDiff(v, w, s, l - 1) + SafeDiff(v, w, s, l)
           + SafeDiff(v, w, s, l + 1))
        - (RealDiff(v, w, o, b) + RealDiff(v, w, o, b + 1)
             + SafeDiff(v, w, o, b - 1) + SafeDiff(v, w, o, b + 2))
  BY DEF ChangeOn
<1> HIDE DEF w, o, l, b
<1>4. \A k \in Idx : \A x \in Idx \ {b, b + 1} : x \in v[s][k] <=> x \in w[s][k]
  BY <1>1, <1>2 DEF Xor
<1>5. \A k \in Idx : \A x \in Idx \ {l} : x \in v[o][k] <=> x \in w[o][k]
  BY <1>1, <1>2 DEF Xor
<1>6. /\ \A n \in Lines(s) : RealDiff(v, w, s, n) \in -3 .. 3
      /\ \A n : SafeDiff(v, w, s, n) \in -3 .. 3
  <2> DEFINE T == {b, b + 1}
             c == 3
  <2>1. T \in SUBSET Idx /\ c \in Nat /\ \A x \in T : x >= b /\ x + 1 < b + c
    BY <1>2
  <2>2. \A k \in Idx : \A x \in Idx \ T : x \in v[s][k] <=> x \in w[s][k]
    BY <1>4
  <2> HIDE DEF T, c
  <2>3. /\ \A n \in Lines(s) : RealDiff(v, w, s, n) \in -c .. c
        /\ \A n : SafeDiff(v, w, s, n) \in -c .. c
    BY <1>1, <1>2, <2>1, <2>2, LineChangesLittle
  <2> QED
    BY <2>3 DEF c
<1>7. /\ \A n \in Lines(o) : RealDiff(v, w, o, n) \in -2 .. 2
      /\ \A n : SafeDiff(v, w, o, n) \in -2 .. 2
  <2> DEFINE T == {l}
             c == 2
  <2>1. T \in SUBSET Idx /\ c \in Nat /\ \A x \in T : x >= l /\ x + 1 < l + c
    BY <1>2
  <2>2. \A k \in Idx : \A x \in Idx \ T : x \in v[o][k] <=> x \in w[o][k]
    BY <1>5
  <2> HIDE DEF T, c
  <2>3. /\ \A n \in Lines(o) : RealDiff(v, w, o, n) \in -c .. c
        /\ \A n : SafeDiff(v, w, o, n) \in -c .. c
    BY <1>1, <1>2, <2>1, <2>2, LineChangesLittle
  <2> QED
    BY <2>3 DEF c
<1>8. /\ RealDiff(v, w, s, l) \in -3 .. 3 /\ SafeDiff(v, w, s, l - 1) \in -3 .. 3
      /\ SafeDiff(v, w, s, l) \in -3 .. 3 /\ SafeDiff(v, w, s, l + 1) \in -3 .. 3
      /\ RealDiff(v, w, o, b) \in -2 .. 2 /\ RealDiff(v, w, o, b + 1) \in -2 .. 2
      /\ SafeDiff(v, w, o, b - 1) \in -2 .. 2 /\ SafeDiff(v, w, o, b + 2) \in -2 .. 2
  BY <1>2, <1>6, <1>7
<1>9. ChangeOn(v, s, m) \in -20 .. 20
  BY <1>3, <1>8
<1> DEFINE pv == PositionValue(NumRows(s), NumRows(Opp(s)), m.array_index, m.mask_index)
<1>10. pv \in Int /\ pv >= -128
  BY PositionValueBound
<1>11. ScoreOn(v, s, m) = 128 * ChangeOn(v, s, m) + pv
  BY DEF ScoreOn
<1> HIDE DEF pv
<1> QED
  BY <1>9, <1>10, <1>11

-----------------------------------------------------------------------------
(* The order of a position's moves, from the words alone.                    *)

Words == [Side -> [Idx -> SUBSET Idx]]

\* The places a move can have.
PlacesOf(s) == Lines(s) \X (1 .. (NumRows(Opp(s)) - 1))

ListedOn(v, s) == {p \in Lines(s) \X Idx : p[2] \in Listed(v[s], p[1])}
OpenOn(v, s)   == {p \in Lines(s) \X Idx : p[2] \in Open(v[s], p[1])}
HalfOn(v, s)   == {p \in Lines(s) \X Idx : p[2] \in HalfSafe(v[s], p[1])}
FirstOn(v, s)  == IF OpenOn(v, s) # {} THEN OpenOn(v, s) ELSE HalfOn(v, s)

ScoresOn(v, s, P) ==
  [i \in DOMAIN Generated(P) |->
     [Generated(P)[i] EXCEPT !.info = ScoreOn(v, s, Where(Generated(P)[i]))]]

\* What stage 0 leaves in the list, and the order after the next stage.
FrontOn(v, s, P) == BestToFront[ScoresOn(v, s, P)]
OrderOn(v, s, P) == IF P = {} THEN <<>> ELSE SortTail(FrontOn(v, s, P))

RestOn(v, s)   == IF OpenOn(v, s) # {} THEN Generated(HalfOn(v, s)) ELSE <<>>
StagedOn(v, s) == OrderOn(v, s, FirstOn(v, s)) \o RestOn(v, s)
AllOn(v, s)    == OrderOn(v, s, ListedOn(v, s))

\* Words on whose border everything is occupied.
Bordered(v) ==
  \A s \in Side : \A l \in Idx : \A b \in Idx \ v[s][l] : l \in Lines(s) /\ b \in Lines(Opp(s))

LEMMA PlacesArePairs ==
  ASSUME NEW s \in Side
  PROVE  /\ PlacesOf(s) \in SUBSET Pair /\ IsFiniteSet(PlacesOf(s))
         /\ \A p \in PlacesOf(s) : [array_index |-> p[1], mask_index |-> p[2]] \in Moves(s)
<1>1. NumRows(s) \in Nat /\ NumRows(Opp(s)) - 1 \in Nat
  BY SizeFacts DEF NumRows, Opp, Side
<1>2. Lines(s) \subseteq Nat /\ 1 .. (NumRows(Opp(s)) - 1) \subseteq Nat
  BY <1>1 DEF Lines
<1>3. IsFiniteSet(Lines(s)) /\ IsFiniteSet(1 .. (NumRows(Opp(s)) - 1))
  <2> DEFINE n == NumRows(Opp(s)) - 1
  <2>1. n \in Int /\ 1 \in Int
    BY <1>1
  <2> HIDE DEF n
  <2>2. IsFiniteSet(1 .. n)
    BY <2>1, FirstNumbers
  <2> QED
    BY <2>2, FiniteIdx DEF n
<1>4. PlacesOf(s) \in SUBSET Pair
  BY <1>2 DEF PlacesOf, Pair
<1>5. IsFiniteSet(PlacesOf(s))
  BY <1>3, FS_Product DEF PlacesOf
<1> QED
  BY <1>4, <1>5 DEF PlacesOf, Moves

\* A listed move is a move, and its squares are free.
LEMMA ListedAreMoves ==
  ASSUME NEW v \in Words, Bordered(v), NEW s \in Side, NEW p \in ListedOn(v, s)
  PROVE  /\ p \in PlacesOf(s)
         /\ p[2] \notin v[s][p[1]] /\ p[2] + 1 \notin v[s][p[1]]
<1>1. p \in Lines(s) \X Idx /\ p[2] \in Listed(v[s], p[1])
  BY DEF ListedOn
<1>2. /\ p = <<p[1], p[2]>> /\ p[1] \in Lines(s) /\ p[2] \in Idx
      /\ p[2] \notin v[s][p[1]] /\ p[2] \notin Shr(v[s][p[1]])
  BY <1>1 DEF Listed, Not
<1>3. p[1] \in Idx
  BY <1>2, SizeFacts DEF Lines, NumRows, Side, Idx
<1>4. p[2] \in Lines(Opp(s))
  BY <1>2, <1>3 DEF Bordered
<1>5. NumRows(Opp(s)) \in Nat /\ NumRows(Opp(s)) <= MaxRows - 2 /\ MaxRows \in Nat
  BY SizeFacts DEF NumRows, Opp, Side
<1>6. p[2] \in Int /\ p[2] + 1 \in Idx
  BY <1>4, <1>5 DEF Lines, Idx
<1>7. p[2] + 1 \notin v[s][p[1]]
  BY <1>2 DEF Shr
<1>8. p[2] + 1 \in Lines(Opp(s))
  BY <1>3, <1>6, <1>7 DEF Bordered
<1>9. p[2] \in 1 .. (NumRows(Opp(s)) - 1)
  BY <1>4, <1>5, <1>6, <1>8 DEF Lines
<1> QED
  BY <1>2, <1>7, <1>9 DEF PlacesOf

LEMMA StagesAreListed ==
  ASSUME NEW v, NEW s \in Side
  PROVE  /\ OpenOn(v, s) \cup HalfOn(v, s) = ListedOn(v, s)
         /\ OpenOn(v, s) \cap HalfOn(v, s) = {}
<1>1. \A p \in Lines(s) \X Idx :
        /\ p[2] \in Open(v[s], p[1]) \/ p[2] \in HalfSafe(v[s], p[1]) <=> p[2] \in Listed(v[s], p[1])
        /\ ~ (p[2] \in Open(v[s], p[1]) /\ p[2] \in HalfSafe(v[s], p[1]))
  BY Zenon DEF Open, HalfSafe, Listed, Not, Xor
<1> QED
  BY <1>1, Zenon DEF OpenOn, HalfOn, ListedOn

-----------------------------------------------------------------------------
(* The order lists every move once.                                          *)

\* The places of P with the scores they have.
Worth(v, s, P) == [p \in P |-> ScoreOn(v, s, [array_index |-> p[1], mask_index |-> p[2]])]

LEMMA WorthIsAboveMark ==
  ASSUME NEW v \in Words, NEW s \in Side, NEW P \in SUBSET PlacesOf(s)
  PROVE  Worth(v, s, P) \in [P -> Int] /\ AboveMark(Marked(P, Worth(v, s, P)))
<1>1. ASSUME NEW p \in P
      PROVE  /\ Worth(v, s, P)[p] \in Int /\ Worth(v, s, P)[p] > -5000
             /\ Mark(p, Worth(v, s, P)[p]).info = Worth(v, s, P)[p]
  <2> DEFINE m == [array_index |-> p[1], mask_index |-> p[2]]
  <2>1. m \in Moves(s)
    BY PlacesArePairs
  <2>2. Worth(v, s, P)[p] = ScoreOn(v, s, m)
    BY DEF Worth
  <2> HIDE DEF m
  <2>3. ScoreOn(v, s, m) \in Int /\ ScoreOn(v, s, m) > -5000
    BY <2>1, ScoreAboveMark DEF Words
  <2> QED
    BY <2>2, <2>3 DEF Mark
<1>2. Worth(v, s, P) \in [P -> Int]
  <2>1. Worth(v, s, P) = [p \in P |-> Worth(v, s, P)[p]]
    BY DEF Worth
  <2> QED
    BY <1>1, <2>1
<1>3. AboveMark(Marked(P, Worth(v, s, P)))
  BY <1>1 DEF AboveMark, Marked
<1> QED
  BY <1>2, <1>3

LEMMA OrderArranges ==
  ASSUME NEW v \in Words, NEW s \in Side, NEW P \in SUBSET PlacesOf(s), P # {}
  PROVE  /\ Arranges(FrontOn(v, s, P), Marked(P, Worth(v, s, P)))
         /\ Arranges(OrderOn(v, s, P), Marked(P, Worth(v, s, P)))
         /\ Marked(P, Worth(v, s, P)) \in SUBSET Entry
         /\ FrontOn(v, s, P) # <<>>
<1> DEFINE w == Worth(v, s, P)
           M == Marked(P, w)
           G == Generated(P)
           out == ScoresOn(v, s, P)
           front == FrontOn(v, s, P)
<1>1. P \in SUBSET Pair /\ IsFiniteSet(P)
  BY PlacesArePairs, FS_Subset
<1>2. w \in [P -> Int] /\ AboveMark(M)
  BY WorthIsAboveMark
<1>3. M \in SUBSET Entry
  BY <1>1, <1>2, MarkedEntries
<1>4. Arranges(G, {Plain(p) : p \in P})
  BY <1>1, GeneratedArranges
<1>5. DOMAIN out = DOMAIN G /\ out = [i \in DOMAIN G |-> out[i]]
  BY DEF ScoresOn
<1>6. ASSUME NEW i \in DOMAIN G
      PROVE  out[i] = [G[i] EXCEPT !.info = w[PlaceOf(G[i])]]
  <2>1. G[i] \in {Plain(p) : p \in P}
    BY <1>4 DEF Arranges
  <2>2. PICK p \in P : G[i] = Plain(p)
    BY <2>1
  <2>3. p \in Pair
    BY <1>1
  <2>4. PlaceOf(G[i]) = p /\ Where(G[i]) = [array_index |-> p[1], mask_index |-> p[2]]
    BY <2>2, <2>3, PairIs DEF PlaceOf, Where, Plain
  <2>5. w[p] = ScoreOn(v, s, Where(G[i]))
    BY <2>4 DEF Worth
  <2>6. out[i] = [G[i] EXCEPT !.info = ScoreOn(v, s, Where(G[i]))]
    BY DEF ScoresOn
  <2> QED
    BY <2>4, <2>5, <2>6
<1> HIDE DEF w, G, out
<1>7. Arranges(out, M)
  BY <1>1, <1>2, <1>4, <1>5, <1>6, ScoredArranges
<1>8. M # {}
  BY DEF Marked
<1>9. out # <<>>
  BY <1>7, <1>8 DEF Arranges
<1>10. front = BestToFront[out]
  BY DEF FrontOn, out
<1> HIDE DEF M, front
<1>11. Arranges(front, M)
  BY <1>3, <1>7, <1>9, <1>10, BestToFrontArranges
<1>12. front # <<>>
  BY <1>8, <1>11 DEF Arranges
<1>13. Arranges(SortTail(front), M)
  BY <1>2, <1>3, <1>11, <1>12, SortTailArranges
<1>14. OrderOn(v, s, P) = SortTail(front)
  BY DEF OrderOn, front
<1> QED
  BY <1>3, <1>11, <1>12, <1>13, <1>14 DEF M, front, w

-----------------------------------------------------------------------------
(* A list that has each place once.                                          *)

Covers(ms, P) ==
  /\ ms \in Seq(Entry)
  /\ \A i \in DOMAIN ms : PlaceOf(ms[i]) \in P
  /\ \A i, j \in DOMAIN ms : PlaceOf(ms[i]) = PlaceOf(ms[j]) => i = j
  /\ \A p \in P : \E i \in DOMAIN ms : PlaceOf(ms[i]) = p

LEMMA ArrangedCovers ==
  ASSUME NEW P \in SUBSET Pair, NEW w \in [P -> Int], NEW ms, Arranges(ms, Marked(P, w))
  PROVE  Covers(ms, P)
<1> DEFINE W == Marked(P, w)
<1>1. ASSUME NEW p \in P
      PROVE  Mark(p, w[p]) \in W /\ Mark(p, w[p]) \in Entry /\ PlaceOf(Mark(p, w[p])) = p
  <2>1. p \in Pair /\ w[p] \in Int
    OBVIOUS
  <2> QED
    BY <2>1, MarkEntry DEF Marked
<1>2. W \in SUBSET Entry
  BY MarkedEntries
<1>3. ASSUME NEW x \in W
      PROVE  \E p \in P : x = Mark(p, w[p]) /\ PlaceOf(x) = p
  BY <1>1 DEF Marked
<1> HIDE DEF W
<1>4. /\ ms \in Seq(W) /\ ms \in Seq(Entry)
      /\ \A i \in DOMAIN ms : ms[i] \in W
      /\ \A i, j \in DOMAIN ms : ms[i] = ms[j] => i = j
      /\ \A x \in W : \E i \in DOMAIN ms : ms[i] = x
  BY <1>2 DEF Arranges, W
<1>5. \A i \in DOMAIN ms : PlaceOf(ms[i]) \in P
  BY <1>3, <1>4
<1>6. ASSUME NEW i \in DOMAIN ms, NEW j \in DOMAIN ms, PlaceOf(ms[i]) = PlaceOf(ms[j])
      PROVE  i = j
  <2>1. PICK p \in P : ms[i] = Mark(p, w[p]) /\ PlaceOf(ms[i]) = p
    BY <1>3, <1>4
  <2>2. PICK q \in P : ms[j] = Mark(q, w[q]) /\ PlaceOf(ms[j]) = q
    BY <1>3, <1>4
  <2>3. ms[i] = ms[j]
    BY <1>6, <2>1, <2>2
  <2> QED
    BY <1>4, <2>3
<1>7. ASSUME NEW p \in P
      PROVE  \E i \in DOMAIN ms : PlaceOf(ms[i]) = p
  <2>1. Mark(p, w[p]) \in W /\ PlaceOf(Mark(p, w[p])) = p
    BY <1>1
  <2>2. PICK i \in DOMAIN ms : ms[i] = Mark(p, w[p])
    BY <1>4, <2>1
  <2> QED
    BY <2>1, <2>2
<1> QED
  BY <1>4, <1>5, <1>6, <1>7 DEF Covers

LEMMA GeneratedCovers ==
  ASSUME NEW P \in SUBSET Pair, IsFiniteSet(P)
  PROVE  Covers(Generated(P), P)
<1> DEFINE w == [p \in P |-> 0]
<1>1. w \in [P -> Int] /\ \A p \in P : Mark(p, w[p]) = Plain(p)
  BY DEF Mark, Plain
<1>2. Marked(P, w) = {Plain(p) : p \in P}
  BY <1>1 DEF Marked
<1>3. Arranges(Generated(P), Marked(P, w))
  BY <1>2, GeneratedArranges
<1> HIDE DEF w
<1> QED
  BY <1>1, <1>3, ArrangedCovers

LEMMA CoversBoth ==
  ASSUME NEW P, NEW Q, P \cap Q = {}, NEW a, NEW b, Covers(a, P), Covers(b, Q),
         NEW c, c = a \o b
  PROVE  Covers(c, P \cup Q)
<1>1. a \in Seq(Entry) /\ b \in Seq(Entry) /\ Len(a) \in Nat /\ Len(b) \in Nat
      /\ DOMAIN a = 1 .. Len(a) /\ DOMAIN b = 1 .. Len(b)
  BY DEF Covers
<1>2. /\ c \in Seq(Entry) /\ DOMAIN c = 1 .. (Len(a) + Len(b))
      /\ \A i \in 1 .. Len(a) : c[i] = a[i]
      /\ \A i \in 1 .. Len(b) : c[Len(a) + i] = b[i]
      /\ \A i \in DOMAIN c : i \notin 1 .. Len(a) => i - Len(a) \in 1 .. Len(b) /\ c[i] = b[i - Len(a)]
  BY <1>1
<1> DEFINE at(i) == PlaceOf(c[i])
<1>3. /\ \A i \in 1 .. Len(a) : at(i) \in P /\ at(i) = PlaceOf(a[i])
      /\ \A i \in DOMAIN c : i \notin 1 .. Len(a) =>
           i - Len(a) \in 1 .. Len(b) /\ at(i) \in Q /\ at(i) = PlaceOf(b[i - Len(a)])
      /\ \A i \in 1 .. Len(b) : at(Len(a) + i) = PlaceOf(b[i])
  <2>1. ASSUME NEW i \in 1 .. Len(a)
        PROVE  at(i) \in P /\ at(i) = PlaceOf(a[i])
    <3>1. c[i] = a[i] /\ i \in DOMAIN a
      BY <1>1, <1>2
    <3> QED
      BY <3>1 DEF Covers
  <2>2. ASSUME NEW i \in DOMAIN c, i \notin 1 .. Len(a)
        PROVE  i - Len(a) \in 1 .. Len(b) /\ at(i) \in Q /\ at(i) = PlaceOf(b[i - Len(a)])
    <3>1. c[i] = b[i - Len(a)] /\ i - Len(a) \in DOMAIN b
      BY <1>1, <1>2, <2>2
    <3> QED
      BY <1>1, <3>1 DEF Covers
  <2>3. ASSUME NEW i \in 1 .. Len(b)
        PROVE  at(Len(a) + i) = PlaceOf(b[i])
    BY <1>2
  <2> QED
    BY <2>1, <2>2, <2>3
<1> HIDE DEF at
<1>4. \A i \in DOMAIN c : at(i) \in P \cup Q
  BY <1>3
<1>5. ASSUME NEW i \in DOMAIN c, NEW j \in DOMAIN c, at(i) = at(j)
      PROVE  i = j
  <2>0. i \in Int /\ j \in Int /\ Len(a) \in Int
    BY <1>1, <1>2
  <2>1. CASE i \in 1 .. Len(a) /\ j \in 1 .. Len(a)
    BY <1>1, <1>3, <1>5, <2>1 DEF Covers
  <2>2. CASE i \notin 1 .. Len(a) /\ j \notin 1 .. Len(a)
    <3>1. PlaceOf(b[i - Len(a)]) = PlaceOf(b[j - Len(a)])
          /\ i - Len(a) \in DOMAIN b /\ j - Len(a) \in DOMAIN b
      BY <1>1, <1>3, <1>5, <2>2
    <3>2. i - Len(a) = j - Len(a)
      BY <3>1 DEF Covers
    <3> QED
      BY <2>0, <3>2
  <2>3. ~ (i \in 1 .. Len(a) /\ j \notin 1 .. Len(a)) /\ ~ (j \in 1 .. Len(a) /\ i \notin 1 .. Len(a))
    BY <1>3, <1>5
  <2> QED
    BY <2>1, <2>2, <2>3
<1>6. ASSUME NEW p \in P
      PROVE  \E i \in DOMAIN c : at(i) = p
  <2>1. PICK i \in DOMAIN a : PlaceOf(a[i]) = p
    BY DEF Covers
  <2>2. i \in DOMAIN c /\ i \in 1 .. Len(a)
    BY <1>1, <1>2
  <2> QED
    BY <1>3, <2>1, <2>2
<1>7. ASSUME NEW p \in Q
      PROVE  \E i \in DOMAIN c : at(i) = p
  <2>1. PICK i \in DOMAIN b : PlaceOf(b[i]) = p
    BY DEF Covers
  <2>2. Len(a) + i \in DOMAIN c /\ i \in 1 .. Len(b)
    BY <1>1, <1>2
  <2> QED
    BY <1>3, <2>1, <2>2
<1> QED
  BY <1>2, <1>4, <1>5, <1>6, <1>7 DEF Covers, at

LEMMA CoversNothing == Covers(<<>>, {})
BY DEF Covers

\* As long as the set is large, and no two of its entries at one place.
LEMMA CoveredSize ==
  ASSUME NEW P \in SUBSET Pair, IsFiniteSet(P), NEW ms, Covers(ms, P)
  PROVE  Len(ms) = Cardinality(P)
<1> DEFINE n == Len(ms)
           D == 1 .. n
           f == [i \in D |-> PlaceOf(ms[i])]
<1>1. ms \in Seq(Entry) /\ n \in Nat /\ DOMAIN ms = D
  BY DEF Covers
<1>2. /\ f \in [D -> P]
      /\ \A i, j \in D : f[i] = f[j] => i = j
      /\ \A p \in P : \E i \in D : f[i] = p
  BY <1>1 DEF Covers
<1>3. IsFiniteSet(D) /\ Cardinality(D) = n
  BY <1>1, FirstNumbers
<1> HIDE DEF f, D, n
<1>4. Cardinality(P) = n
  BY <1>2, <1>3, AsMany
<1> QED
  BY <1>4 DEF n

-----------------------------------------------------------------------------
(* Both orders list every move of the position once.                         *)

LEMMA OrderCovers ==
  ASSUME NEW v \in Words, NEW s \in Side, NEW P \in SUBSET PlacesOf(s), P # {}
  PROVE  Covers(OrderOn(v, s, P), P) /\ Covers(FrontOn(v, s, P), P) /\ FrontOn(v, s, P) # <<>>
<1>1. P \in SUBSET Pair
  BY PlacesArePairs
<1>2. Worth(v, s, P) \in [P -> Int]
  BY WorthIsAboveMark
<1>3. Covers(OrderOn(v, s, P), P)
  BY <1>1, <1>2, OrderArranges, ArrangedCovers
<1>4. Covers(FrontOn(v, s, P), P)
  BY <1>1, <1>2, OrderArranges, ArrangedCovers
<1> QED
  BY <1>3, <1>4, OrderArranges

LEMMA StagesArePlaces ==
  ASSUME NEW v \in Words, Bordered(v), NEW s \in Side
  PROVE  /\ ListedOn(v, s) \in SUBSET PlacesOf(s)
         /\ OpenOn(v, s) \in SUBSET PlacesOf(s)
         /\ HalfOn(v, s) \in SUBSET PlacesOf(s)
         /\ FirstOn(v, s) \in SUBSET PlacesOf(s)
<1>1. ListedOn(v, s) \in SUBSET PlacesOf(s)
  BY ListedAreMoves
<1>2. OpenOn(v, s) \cup HalfOn(v, s) = ListedOn(v, s)
  BY StagesAreListed
<1> QED
  BY <1>1, <1>2 DEF FirstOn

LEMMA OrdersCover ==
  ASSUME NEW v \in Words, Bordered(v), NEW s \in Side, ListedOn(v, s) # {}
  PROVE  /\ Covers(StagedOn(v, s), ListedOn(v, s))
         /\ Covers(AllOn(v, s), ListedOn(v, s))
         /\ FirstOn(v, s) # {}
<1> DEFINE first == FirstOn(v, s)
           open == OpenOn(v, s)
           half == HalfOn(v, s)
           listed == ListedOn(v, s)
<1>1. /\ first \in SUBSET PlacesOf(s) /\ half \in SUBSET PlacesOf(s)
      /\ listed \in SUBSET PlacesOf(s)
  BY StagesArePlaces
<1>2. open \cup half = listed /\ open \cap half = {}
  BY StagesAreListed
<1>3. first = IF open # {} THEN open ELSE half
  BY DEF FirstOn
<1> HIDE DEF first, open, half, listed
<1>4. first # {}
  BY <1>2, <1>3 DEF listed
<1>5. Covers(OrderOn(v, s, first), first)
  BY <1>1, <1>4, OrderCovers
<1>6. Covers(AllOn(v, s), listed)
  BY <1>1, OrderCovers DEF AllOn, listed
<1>7. Covers(RestOn(v, s), listed \ first) /\ first \cap (listed \ first) = {}
      /\ first \cup (listed \ first) = listed
  <2>1. CASE open # {}
    <3>1. listed \ first = half /\ first \cap half = {} /\ first \cup half = listed
      BY <1>2, <1>3, <2>1
    <3>2. half \in SUBSET Pair /\ IsFiniteSet(half)
      BY <1>1, PlacesArePairs, FS_Subset
    <3>3. Covers(Generated(half), half)
      BY <3>2, GeneratedCovers
    <3>4. RestOn(v, s) = Generated(half)
      BY <2>1 DEF RestOn, open, half
    <3> QED
      BY <3>1, <3>3, <3>4
  <2>2. CASE open = {}
    <3>1. listed = first
      BY <1>2, <1>3, <2>2
    <3>2. RestOn(v, s) = <<>>
      BY <2>2 DEF RestOn, open
    <3>3. listed \ first = {} /\ first \cap {} = {}
      BY <3>1
    <3> QED
      BY <3>1, <3>2, <3>3, CoversNothing
  <2> QED
    BY <2>1, <2>2
<1>8. StagedOn(v, s) = OrderOn(v, s, first) \o RestOn(v, s)
  BY DEF StagedOn, first
<1>9. Covers(StagedOn(v, s), first \cup (listed \ first))
  BY <1>5, <1>7, <1>8, CoversBoth
<1>10. Covers(StagedOn(v, s), listed)
  BY <1>7, <1>9
<1> QED
  BY <1>4, <1>6, <1>10 DEF first, listed

-----------------------------------------------------------------------------
(* The orders of MoveOrder are those of the words.                           *)

LEMMA WordsHere ==
  ASSUME IInv
  PROVE  board \in Words /\ Bordered(board)
<1>1. board \in Words
  BY DEF IInv, Typed, Words
<1>2. Bordered(board)
  BY DEF IInv, ViewsAgree, Bordered
<1> QED
  BY <1>1, <1>2

LEMMA MovesHere ==
  ASSUME NEW s \in Side
  PROVE  /\ ListedMoves(s) = ListedOn(board, s)
         /\ OpenMoves(s) = OpenOn(board, s)
         /\ HalfSafeMoves(s) = HalfOn(board, s)
BY DEF ListedMoves, OpenMoves, HalfSafeMoves, ListedOn, OpenOn, HalfOn

LEMMA NothingGenerated ==
  ASSUME NEW s \in Side, NEW P \in SUBSET PlacesOf(s)
  PROVE  Generated(P) = <<>> <=> P = {}
<1>1. P \in SUBSET Pair /\ IsFiniteSet(P)
  BY PlacesArePairs, FS_Subset
<1>2. Covers(Generated(P), P)
  BY <1>1, GeneratedCovers
<1>3. Generated(P) \in Seq(Entry) /\ DOMAIN Generated(P) = 1 .. Len(Generated(P))
  BY <1>2 DEF Covers
<1>4. ASSUME P = {}
      PROVE  Generated(P) = <<>>
  <2>1. Len(Generated(P)) = 0
    BY <1>1, <1>2, <1>4, CoveredSize, FS_EmptySet
  <2> QED
    BY <1>3, <2>1
<1>5. ASSUME Generated(P) = <<>>
      PROVE  P = {}
  BY <1>2, <1>5 DEF Covers
<1> QED
  BY <1>4, <1>5

LEMMA FrontHere ==
  ASSUME IInv, NEW s \in Side, NEW P \in SUBSET PlacesOf(s)
  PROVE  ScoreAndGetFirst(s, Generated(P)) = FrontOn(board, s, P)
<1> DEFINE G == Generated(P)
<1>1. P \in SUBSET Pair /\ IsFiniteSet(P)
  BY PlacesArePairs, FS_Subset
<1>2. Covers(G, P)
  BY <1>1, GeneratedCovers
<1>3. ASSUME NEW i \in DOMAIN G
      PROVE  ScoreMove(s, Where(G[i])) = ScoreOn(board, s, Where(G[i]))
  <2>1. PlaceOf(G[i]) \in P
    BY <1>2 DEF Covers
  <2>2. PlaceOf(G[i]) \in PlacesOf(s)
    BY <2>1
  <2>3. Where(G[i]) = [array_index |-> PlaceOf(G[i])[1], mask_index |-> PlaceOf(G[i])[2]]
    BY DEF Where, PlaceOf
  <2>4. Where(G[i]) \in Moves(s)
    BY <2>2, <2>3, PlacesArePairs
  <2> QED
    BY <2>4, ScoreOfWords DEF IInv
<1>4. Scored(s, G) = ScoresOn(board, s, P)
  BY <1>3 DEF Scored, ScoresOn
<1> QED
  BY <1>4 DEF ScoreAndGetFirst, FrontOn

LEMMA OrderHere ==
  ASSUME IInv, NEW s \in Side, NEW P \in SUBSET PlacesOf(s)
  PROVE  OrderOn(board, s, P) =
           IF Generated(P) = <<>> THEN <<>> ELSE SortTail(ScoreAndGetFirst(s, Generated(P)))
<1>1. Generated(P) = <<>> <=> P = {}
  BY NothingGenerated
<1>2. ScoreAndGetFirst(s, Generated(P)) = FrontOn(board, s, P)
  BY FrontHere
<1> QED
  BY <1>1, <1>2 DEF OrderOn

LEMMA OrdersHere ==
  ASSUME IInv, NEW s \in Side
  PROVE  StagedMoves(s) = StagedOn(board, s) /\ AllMoves(s) = AllOn(board, s)
<1> DEFINE open  == OpenOn(board, s)
           half  == HalfOn(board, s)
           first == FirstOn(board, s)
<1>1. /\ ListedOn(board, s) \in SUBSET PlacesOf(s)
      /\ open \in SUBSET PlacesOf(s) /\ half \in SUBSET PlacesOf(s) /\ first \in SUBSET PlacesOf(s)
  BY WordsHere, StagesArePlaces
<1>2. AllMoves(s) = AllOn(board, s)
  BY <1>1, MovesHere, OrderHere DEF AllMoves, AllOn
<1>3. Generated(open) = <<>> <=> open = {}
  BY <1>1, NothingGenerated
<1>4. OrderOn(board, s, first) =
        IF Generated(first) = <<>> THEN <<>> ELSE SortTail(ScoreAndGetFirst(s, Generated(first)))
  BY <1>1, OrderHere
<1>5. first = IF open # {} THEN open ELSE half
  BY DEF FirstOn
<1>6. StagedOn(board, s) = OrderOn(board, s, first) \o (IF open # {} THEN Generated(half) ELSE <<>>)
  BY DEF StagedOn, RestOn
<1>7. OpenMoves(s) = open /\ HalfSafeMoves(s) = half
  BY MovesHere
<1>8. OrderOn(board, s, first) \in Seq(Entry)
  <2>1. CASE first = {}
    BY <2>1 DEF OrderOn
  <2>2. CASE first # {}
    <3>1. Covers(OrderOn(board, s, first), first)
      BY <1>1, <2>2, WordsHere, OrderCovers
    <3> QED
      BY <3>1 DEF Covers
  <2> QED
    BY <2>1, <2>2
<1>9. OrderOn(board, s, first) \o <<>> = OrderOn(board, s, first)
  BY <1>8
<1> HIDE DEF open, half, first
<1>10. StagedMoves(s) = StagedOn(board, s)
  BY <1>3, <1>4, <1>5, <1>6, <1>7, <1>9, Zenon DEF StagedMoves
<1> QED
  BY <1>2, <1>10

-----------------------------------------------------------------------------
(* The generators.                                                           *)

(* move.h:72: the moves of the two stages are together those of
   move_generator, and no move is in both.                                    *)
THEOREM StagesPartitionMoves ==
  \A s \in Side : /\ OpenMoves(s) \cup HalfSafeMoves(s) = ListedMoves(s)
                  /\ OpenMoves(s) \cap HalfSafeMoves(s) = {}
BY MovesHere, StagesAreListed

-----------------------------------------------------------------------------
(* A position without a move worth playing is decided.                       *)

\* Bit b of a word of real moves: squares b - 1 and b are free.
LEMMA RealBit ==
  ASSUME IInv, NEW s \in Side, NEW l \in Lines(s), NEW b \in RealMask(board[s], l)
  PROVE  /\ b \in Idx /\ b - 1 \in Idx
         /\ b \notin board[s][l] /\ b - 1 \notin board[s][l]
         /\ b \in Lines(Opp(s)) /\ b - 1 \in Lines(Opp(s))
<1>1. l \in Idx
  BY MoveFacts, SizeFacts DEF Lines, NumRows, Side, Idx
<1>2. b \in Idx /\ b \notin board[s][l]
  BY DEF RealMask, Not
<1>3. b \in Lines(Opp(s)) /\ b \in Int /\ b >= 1
  BY <1>1, <1>2 DEF IInv, ViewsAgree, Lines
<1>4. b - 1 \in Idx
  BY <1>2, <1>3, SizeFacts DEF Idx
<1>5. b - 1 \notin board[s][l]
  BY <1>2, <1>4 DEF RealMask, Not, Shl
<1>6. b - 1 \in Lines(Opp(s))
  BY <1>1, <1>4, <1>5 DEF IInv, ViewsAgree
<1> QED
  BY <1>2, <1>3, <1>4, <1>5, <1>6

\* When the generator lists no move of player s, each of its pieces is safe.
LEMMA OwnMovesSafe ==
  ASSUME IInv, NEW s \in Side, ListedMoves(s) = {}, NEW l \in Lines(s),
         NEW b \in RealMask(board[s], l)
  PROVE  /\ b \in SafeMask(board[s], l)
         /\ b \in Guard(board[s], l) /\ b - 1 \in Guard(board[s], l)
<1>1. /\ b \in Idx /\ b - 1 \in Idx /\ b \in Int
      /\ b \notin board[s][l] /\ b - 1 \notin board[s][l]
  BY RealBit, SizeFacts DEF Idx
<1>2. b - 1 \notin Listed(board[s], l)
  <2>1. <<l, b - 1>> \in Lines(s) \X Idx
    BY <1>1
  <2> QED
    BY <2>1 DEF ListedMoves
<1>3. (b - 1) + 1 = b
  BY <1>1
<1>4. b - 1 \notin Shr(board[s][l])
  BY <1>1, <1>3 DEF Shr
<1>5. b - 1 \in Guard(board[s], l) \cap Shr(Guard(board[s], l))
  BY <1>1, <1>2, <1>4 DEF Listed, Not
<1>6. b \in Guard(board[s], l)
  BY <1>3, <1>5 DEF Shr
<1>7. b \in Shl(Guard(board[s], l))
  BY <1>1, <1>5 DEF Shl
<1> QED
  BY <1>5, <1>6, <1>7 DEF SafeMask

\* Two players see a square alike.
LEMMA SameSquare ==
  ASSUME IInv, NEW s \in Side, NEW l \in Idx, NEW b \in Idx
  PROVE  b \in board[s][l] <=> l \in board[Opp(s)][b]
BY DEF IInv, ViewsAgree, Side, Opp

\* Then each piece of the opponent is safe as well.
LEMMA OpponentMovesSafe ==
  ASSUME IInv, NEW s \in Side, ListedMoves(s) = {}, NEW l \in Lines(Opp(s)),
         NEW b \in RealMask(board[Opp(s)], l)
  PROVE  b \in SafeMask(board[Opp(s)], l)
<1> DEFINE o == Opp(s)
<1>1. o \in Side /\ Opp(o) = s
  BY DEF Side, Opp
<1>2. /\ b \in Idx /\ b - 1 \in Idx /\ b \in Int
      /\ b \notin board[o][l] /\ b - 1 \notin board[o][l]
      /\ b \in Lines(s) /\ b - 1 \in Lines(s)
  BY <1>1, RealBit, SizeFacts DEF Idx
<1>3. l \in Idx /\ l - 1 \in Idx /\ l + 1 \in Idx /\ l \in Int
  BY <1>1, SizeFacts DEF Lines, NumRows, Idx, Side
<1> HIDE DEF o
<1>4. l \notin board[s][b] /\ l \notin board[s][b - 1]
  BY <1>1, <1>2, <1>3, SameSquare
\* In the player's view, k next to l is occupied on both lines.
<1>5. ASSUME NEW k \in {l - 1, l + 1}, NEW x \in {b - 1, b}
      PROVE  k \in board[s][x]
  <2> SUFFICES ASSUME k \notin board[s][x]
               PROVE  FALSE
    OBVIOUS
  <2> DEFINE top == IF k = l - 1 THEN l ELSE k
             y   == IF x = b THEN b - 1 ELSE b
  <2>1. /\ k \in Idx /\ x \in Idx /\ x \in Lines(s) /\ y \in Idx
        /\ top \in Idx /\ (top = l \/ top - 1 = l) /\ (top = k \/ top - 1 = k)
        /\ top \notin board[s][x] /\ top - 1 \notin board[s][x]
        /\ l \notin board[s][y]
        /\ (y = x - 1 \/ y = x + 1)
    BY <1>2, <1>3, <1>4
  <2> HIDE DEF top, y
  <2>2. top \in RealMask(board[s], x)
    BY <2>1 DEF RealMask, Not, Shl
  <2>3. top \in Guard(board[s], x) /\ top - 1 \in Guard(board[s], x)
    BY <2>1, <2>2, OwnMovesSafe
  <2>4. l \in board[s][x - 1] /\ l \in board[s][x + 1]
    BY <2>1, <2>3 DEF Guard
  <2> QED
    BY <2>1, <2>4
<1>6. b \in Guard(board[o], l) /\ b - 1 \in Guard(board[o], l)
  <2>1. ASSUME NEW k \in {l - 1, l + 1}, NEW x \in {b - 1, b}
        PROVE  x \in board[o][k]
    <3>1. k \in Idx /\ x \in Idx
      BY <1>2, <1>3
    <3>2. k \in board[s][x]
      BY <1>5
    <3> QED
      BY <1>1, <3>1, <3>2, SameSquare
  <2> QED
    BY <2>1 DEF Guard
<1>7. b \in Shl(Guard(board[o], l))
  BY <1>2, <1>6 DEF Shl
<1> QED
  BY <1>6, <1>7 DEF SafeMask, o

LEMMA AllSafe ==
  ASSUME NEW s \in Side,
         \A l \in Lines(s) : \A b \in RealMask(board[s], l) : b \in SafeMask(board[s], l)
  PROVE  SafePieces(s, board) = RealPieces(s, board)
<1>1. \A l \in Lines(s) : SafeMask(board[s], l) = RealMask(board[s], l)
  BY DEF SafeMask
<1> QED
  BY <1>1 DEF SafePieces, RealPieces

(* Without a move that is not safe, the counts decide: this is what the
   assertions of move.cc rely on.                                             *)
THEOREM NoMoveMeansDecided ==
  ASSUME IInv, NEW s \in Side, ListedMoves(s) = {}
  PROVE  IsGameOver(s) # 0
<1> DEFINE o == Opp(s)
<1>1. o \in Side
  BY DEF Side, Opp
<1>2. SafePieces(s, board) = RealPieces(s, board)
  BY OwnMovesSafe, AllSafe
<1>3. SafePieces(o, board) = RealPieces(o, board)
  BY <1>1, OpponentMovesSafe, AllSafe
<1>4. totalSafe[s] = totalReal[s] /\ totalSafe[o] = totalReal[o]
  BY <1>1, <1>2, <1>3 DEF IInv, TotalsExact
<1>5. totalSafe[s] \in Int /\ totalSafe[o] \in Int
  BY <1>1 DEF IInv, Typed
<1>6. totalSafe[s] > totalReal[o] \/ totalSafe[o] >= totalReal[s]
  BY <1>4, <1>5
<1> QED
  BY <1>6 DEF IsGameOver

-----------------------------------------------------------------------------
(* The lookup tables.                                                        *)

\* Which bits are counted, from the lowest on.
LEMMA CountedInTurn ==
  ASSUME NEW mask \in SUBSET Idx, NEW b \in Int
  PROVE  b \in NonOverlapping(mask) <=> b \in mask /\ b - 1 \notin NonOverlapping(mask)
<1>1. NonOverlapping(mask) \subseteq mask
  BY DEF NonOverlapping
<1>2. b \in mask => b \in NonOverlapping(mask) \/ b - 1 \in NonOverlapping(mask)
  BY CountedOrNextTo
<1>3. b - 1 \in NonOverlapping(mask) => (b - 1) + 1 \notin NonOverlapping(mask)
  BY CountedApart
<1>4. (b - 1) + 1 = b
  OBVIOUS
<1> QED
  BY <1>1, <1>2, <1>3, <1>4

LEMMA HalvesAre ==
  /\ Half \in Nat \ {0} /\ MaxRows = 2 * Half
  /\ \A b \in Int : b \in HalfBits <=> 0 <= b /\ b < Half
  /\ \A b \in Int : b \in Idx <=> 0 <= b /\ b < 2 * Half
  /\ HalfBits \subseteq Idx /\ Idx \subseteq Nat
  /\ \A x \in SUBSET Idx : LowHalf(x) \in SUBSET HalfBits /\ HighHalf(x) \in SUBSET HalfBits
BY HalfAssumption DEF HalfBits, Idx, LowHalf, HighHalf

\* What two numbers agree on from the lowest on, they agree on.
LEMMA AgreeFromZero ==
  ASSUME NEW S, NEW T, 0 \in S <=> 0 \in T,
         \A b \in Nat : (b \in S <=> b \in T) => (b + 1 \in S <=> b + 1 \in T)
  PROVE  \A b \in Nat : b \in S <=> b \in T
<1> DEFINE Agree == {b \in Nat : b \in S <=> b \in T}
<1>1. Agree \in SUBSET Nat /\ 0 \in Agree /\ \A b \in Agree : b + 1 \in Agree
  OBVIOUS
<1> HIDE DEF Agree
<1>2. Agree = Nat
  BY <1>1, InductiveSet
<1> QED
  BY <1>2 DEF Agree

(* countmoves32_16bitmap counts what the loop would have counted in the whole
   word, whatever the word and the width: the low half is counted as it would
   be alone, and the high half as if it were without its first bit when the low
   half's last piece lies on its top bit.                                      *)
LEMMA HalvesCountTogether ==
  ASSUME NEW x \in SUBSET Idx, NEW high,
         high = IF Half - 1 \in NonOverlapping(LowHalf(x)) THEN HighHalf(x) \ {0} ELSE HighHalf(x)
  PROVE  CountMoves(x) = CountMoves(LowHalf(x)) + CountMoves(high)
<1> DEFINE N == NonOverlapping(x)
           L == NonOverlapping(LowHalf(x))
           H == NonOverlapping(high)
           Moved == {b + Half : b \in H}
<1>1. /\ LowHalf(x) \in SUBSET Idx /\ high \in SUBSET Idx /\ high \subseteq HighHalf(x)
      /\ high \in SUBSET HalfBits
  BY HalvesAre
<1>2. N \subseteq x /\ L \subseteq LowHalf(x) /\ H \subseteq high
  BY DEF NonOverlapping
<1>3. /\ \A b \in Int : b \in N <=> b \in x /\ b - 1 \notin N
      /\ \A b \in Int : b \in L <=> b \in LowHalf(x) /\ b - 1 \notin L
      /\ \A b \in Int : b \in H <=> b \in high /\ b - 1 \notin H
  BY <1>1, CountedInTurn
<1>4. /\ \A b \in Nat : b \in LowHalf(x) <=> b < Half /\ b \in x
      /\ \A b \in Nat : b \in HighHalf(x) <=> b < Half /\ b + Half \in x
      /\ -1 \notin x /\ -1 \notin LowHalf(x) /\ -1 \notin high
  BY <1>1, HalvesAre DEF LowHalf, HighHalf
<1> HIDE DEF N, L, H
<1>5. Half \in Nat /\ Half - 1 \in Nat /\ (Half - 1) + 1 = Half
  BY HalvesAre
<1>6. \A b \in Nat : b \in L <=> b < Half /\ b \in N
  <2> DEFINE M == {b \in N : b < Half}
  <2>1. 0 \in L <=> 0 \in M
    BY <1>2, <1>3, <1>4, <1>5
  <2>2. ASSUME NEW b \in Nat, b \in L <=> b \in M
        PROVE  b + 1 \in L <=> b + 1 \in M
    <3>1. b + 1 \in Nat /\ (b + 1) - 1 = b
      OBVIOUS
    <3>2. b + 1 \in N <=> b + 1 \in x /\ b \notin N
      BY <1>3, <3>1
    <3>3. b + 1 \in L <=> b + 1 \in LowHalf(x) /\ b \notin L
      BY <1>3, <3>1
    <3> QED
      BY <1>4, <1>5, <2>2, <3>1, <3>2, <3>3
  <2> HIDE DEF M
  <2>3. \A b \in Nat : b \in L <=> b \in M
    BY <2>1, <2>2, AgreeFromZero
  <2> QED
    BY <2>3 DEF M
<1>7. Half - 1 \in L <=> Half - 1 \in N
  BY <1>5, <1>6
<1>8. \A b \in Nat : b \in high <=> b \in HighHalf(x) /\ (b = 0 => Half - 1 \notin N)
  BY <1>7 DEF L
<1>9. \A b \in Nat : b \in H <=> b < Half /\ b + Half \in N
  <2> DEFINE M == {b \in HalfBits : b + Half \in N}
  <2>1. 0 \in H <=> 0 \in M
    <3>1. 0 \in H <=> 0 \in high
      BY <1>2, <1>3, <1>4
    <3>2. Half \in N <=> Half \in x /\ Half - 1 \notin N
      BY <1>3, <1>5
    <3> QED
      BY <1>4, <1>5, <1>8, <3>1, <3>2, HalvesAre
  <2>2. ASSUME NEW b \in Nat, b \in H <=> b \in M
        PROVE  b + 1 \in H <=> b + 1 \in M
    <3>1. b + 1 \in Nat /\ (b + 1) - 1 = b /\ ((b + 1) + Half) - 1 = b + Half
          /\ (b + 1) + Half \in Int /\ b + 1 # 0
      BY <1>5
    <3>2. (b + 1) + Half \in N <=> (b + 1) + Half \in x /\ b + Half \notin N
      BY <1>3, <3>1
    <3>3. b + 1 \in H <=> b + 1 \in high /\ b \notin H
      BY <1>3, <3>1
    <3>4. b + 1 \in high <=> b + 1 < Half /\ (b + 1) + Half \in x
      BY <1>4, <1>8, <3>1
    <3>5. b + 1 < Half => (b \in M <=> b + Half \in N)
      BY <1>5, HalvesAre
    <3>6. b + 1 \in M <=> b + 1 < Half /\ (b + 1) + Half \in N
      BY <3>1, HalvesAre
    <3> QED
      BY <2>2, <3>2, <3>3, <3>4, <3>5, <3>6
  <2>3. \A b \in Nat : b \in M <=> b < Half /\ b + Half \in N
    BY HalvesAre
  <2> HIDE DEF M
  <2>4. \A b \in Nat : b \in H <=> b \in M
    BY <2>1, <2>2, AgreeFromZero
  <2> QED
    BY <2>3, <2>4
<1>10. N \subseteq Idx /\ L \subseteq Idx /\ H \subseteq Idx
  BY <1>1, <1>2
<1>11. N = L \cup Moved /\ L \cap Moved = {}
  <2>1. \A b \in N : b \in L \/ b \in Moved
    <3> SUFFICES ASSUME NEW b \in N, b \notin L
                 PROVE  b \in Moved
      OBVIOUS
    <3>1. b \in Nat /\ b < 2 * Half /\ ~ (b < Half)
      BY <1>6, <1>10, HalvesAre
    <3>2. b - Half \in Nat /\ b - Half < Half /\ (b - Half) + Half = b
      BY <1>5, <3>1
    <3>3. b - Half \in H
      BY <1>9, <3>2
    <3> QED
      BY <3>2, <3>3
  <2>2. \A b \in L : b \in N /\ b < Half
    BY <1>6, <1>10, HalvesAre
  <2>3. \A b \in H : b \in Nat /\ b + Half \in N
    BY <1>9, <1>10, HalvesAre
  <2>4. \A b \in Moved : b \in N /\ ~ (b < Half)
    BY <1>5, <2>3
  <2> QED
    BY <2>1, <2>2, <2>4
<1>12. IsFiniteSet(L) /\ IsFiniteSet(H)
  <2>1. IsFiniteSet(Idx)
    BY HalvesAre, FS_Interval DEF Idx
  <2> QED
    BY <1>10, <2>1, FS_Subset
<1>13. IsFiniteSet(Moved) /\ Cardinality(Moved) = Cardinality(H)
  <2> DEFINE f == [b \in H |-> b + Half]
  <2>1. /\ f \in [H -> Moved]
        /\ \A a, b \in H : f[a] = f[b] => a = b
        /\ \A t \in Moved : \E a \in H : f[a] = t
    BY <1>5, <1>10, HalvesAre
  <2> HIDE DEF f, Moved
  <2> QED
    BY <1>12, <2>1, AsMany
<1>14. Cardinality(N) = Cardinality(L) + Cardinality(Moved)
  <2> HIDE DEF Moved
  <2> QED
    BY <1>11, <1>12, <1>13, AddedSubset
<1> QED
  BY <1>13, <1>14 DEF CountMoves, N, L, H

LEMMA WordsAreFinite == \A x \in SUBSET Idx : IsFiniteSet(x) /\ Cardinality(x) \in Nat
<1>1. IsFiniteSet(Idx)
  BY HalvesAre, FS_Interval DEF Idx
<1> QED
  BY <1>1, FS_Subset, FS_CardinalityType

LEMMA LowestIs ==
  ASSUME NEW x \in SUBSET Nat, x # {}
  PROVE  Lowest(x) \in x /\ \A b \in x : Lowest(x) <= b
<1>1. \E b \in x : \A c \in x : b <= c
  BY LeastNumber
<1> QED
  BY <1>1 DEF Lowest

\* countbits32_16bitmap and lastbit32_16bitmap.
LEMMA HalvesHoldTheBits ==
  ASSUME NEW x \in SUBSET Idx
  PROVE  /\ Cardinality(x) = Cardinality(LowHalf(x)) + Cardinality(HighHalf(x))
         /\ LastBitByTable(x) = IF x = {} THEN 100 ELSE Lowest(x)
<1> DEFINE L == LowHalf(x)
           H == HighHalf(x)
           Moved == {b + Half : b \in H}
<1>1. /\ L \in SUBSET Idx /\ H \in SUBSET Idx /\ Half \in Nat \ {0} /\ Idx \subseteq Nat
      /\ \A b \in Nat : b \in L <=> b < Half /\ b \in x
      /\ \A b \in Nat : b \in H <=> b < Half /\ b + Half \in x
      /\ \A b \in x : b \in Nat /\ b < 2 * Half
  <2>1. /\ Half \in Nat \ {0} /\ Idx \subseteq Nat /\ HalfBits \subseteq Idx
        /\ L \in SUBSET HalfBits /\ H \in SUBSET HalfBits
        /\ \A b \in Int : b \in HalfBits <=> 0 <= b /\ b < Half
        /\ \A b \in Int : b \in Idx <=> 0 <= b /\ b < 2 * Half
    BY HalvesAre
  <2>2. /\ \A b \in Nat : b \in L <=> b < Half /\ b \in x
        /\ \A b \in Nat : b \in H <=> b < Half /\ b + Half \in x
    BY <2>1 DEF LowHalf, HighHalf
  <2>3. \A b \in x : b \in Nat /\ b < 2 * Half
    BY <2>1
  <2> QED
    BY <2>1, <2>2, <2>3
<1> HIDE DEF L, H
<1>2. ASSUME NEW b \in x, ~ (b < Half)
      PROVE  b - Half \in H /\ b = (b - Half) + Half
  <2>1. b - Half \in Nat /\ b - Half < Half /\ (b - Half) + Half = b
    BY <1>1, <1>2
  <2> QED
    BY <1>1, <2>1
<1>3. x = L \cup Moved /\ L \cap Moved = {}
  <2>1. \A b \in x : b \in L \/ b \in Moved
    BY <1>1, <1>2
  <2>2. \A b \in Moved : b \in x /\ ~ (b < Half)
    BY <1>1
  <2>3. \A b \in L : b \in x /\ b < Half
    BY <1>1
  <2> QED
    BY <2>1, <2>2, <2>3
<1>4. Cardinality(Moved) = Cardinality(H) /\ IsFiniteSet(Moved)
  <2> DEFINE f == [b \in H |-> b + Half]
  <2>1. /\ f \in [H -> Moved]
        /\ \A a, b \in H : f[a] = f[b] => a = b
        /\ \A t \in Moved : \E a \in H : f[a] = t
    BY <1>1
  <2>2. IsFiniteSet(H)
    BY <1>1, WordsAreFinite
  <2> HIDE DEF f, Moved
  <2> QED
    BY <2>1, <2>2, AsMany
<1>5. Cardinality(x) = Cardinality(L) + Cardinality(H)
  <2>1. IsFiniteSet(L)
    BY <1>1, WordsAreFinite
  <2> HIDE DEF Moved
  <2> QED
    BY <1>3, <1>4, <2>1, AddedSubset
<1>6. ASSUME x # {}
      PROVE  Lowest(x) = IF L # {} THEN Lowest(L) ELSE Lowest(H) + Half
  <2>1. x \subseteq Nat /\ Lowest(x) \in x /\ \A b \in x : Lowest(x) <= b
    BY <1>1, <1>6, LowestIs
  <2>2. CASE L # {}
    <3>1. L \subseteq Nat /\ Lowest(L) \in L /\ \A b \in L : Lowest(L) <= b
      BY <1>1, <2>2, LowestIs
    <3>2. Lowest(L) \in x /\ Lowest(L) < Half /\ Lowest(L) \in Nat /\ Lowest(x) \in Nat
      BY <1>1, <2>1, <3>1
    <3>3. Lowest(x) <= Lowest(L)
      BY <2>1, <3>2
    <3>4. Lowest(x) \in L
      BY <1>1, <2>1, <3>2, <3>3
    <3>5. Lowest(L) <= Lowest(x)
      BY <3>1, <3>4
    <3>6. Lowest(x) = Lowest(L)
      BY <3>2, <3>3, <3>5
    <3> QED
      BY <2>2, <3>6
  <2>3. CASE L = {}
    <3>1. \A b \in x : ~ (b < Half)
      BY <1>1, <2>3
    <3>2. Lowest(x) - Half \in H
      BY <1>2, <2>1, <3>1
    <3>3. H \subseteq Nat /\ Lowest(H) \in H /\ \A b \in H : Lowest(H) <= b
      BY <1>1, <3>2, LowestIs
    <3>4. Lowest(H) + Half \in x
      BY <1>1, <3>3
    <3>5. Lowest(x) <= Lowest(H) + Half /\ Lowest(H) <= Lowest(x) - Half
      BY <2>1, <3>2, <3>3, <3>4
    <3>6. Lowest(x) \in Nat /\ Lowest(H) \in Nat
      BY <2>1, <3>3
    <3> QED
      BY <1>1, <2>3, <3>5, <3>6
  <2> QED
    BY <2>2, <2>3
<1> QED
  BY <1>5, <1>6 DEF LastBitByTable, L, H

-----------------------------------------------------------------------------
(* The order in which the entries are stored.                                *)

\* The highest bit in which the two differ is one of x.
Below(y, x) == \E b \in x : b \notin y /\ \A c \in Nat : c > b => (c \in x <=> c \in y)

\* The highest bit that two different words do not share.
LEMMA HighestDifference ==
  ASSUME NEW x \in SUBSET Idx, NEW y \in SUBSET Idx, x # y
  PROVE  Below(x, y) \/ Below(y, x)
<1> DEFINE T == {n \in Nat : n < 2 * Half /\ LET b == (2 * Half - 1) - n IN ~ (b \in x <=> b \in y)}
<1>1. Half \in Nat \ {0} /\ \A b \in Int : b \in Idx <=> 0 <= b /\ b < 2 * Half
  BY HalvesAre
<1>2. PICK d \in Idx : ~ (d \in x <=> d \in y)
  OBVIOUS
<1>3. d \in Nat /\ d < 2 * Half
  BY <1>1, <1>2, HalvesAre
<1>4. (2 * Half - 1) - d \in T
  BY <1>1, <1>2, <1>3
<1>5. PICK n \in T : \A k \in T : n <= k
  <2>1. T \in SUBSET Nat /\ T # {}
    BY <1>4
  <2> HIDE DEF T
  <2> QED
    BY <2>1, LeastNumber
<1> DEFINE b == (2 * Half - 1) - n
<1>6. n \in Nat /\ b \in Nat /\ ~ (b \in x <=> b \in y)
  BY <1>1, <1>5
<1>7. ASSUME NEW c \in Nat, c > b
      PROVE  c \in x <=> c \in y
  <2>1. CASE c < 2 * Half
    <3> DEFINE k == (2 * Half - 1) - c
    <3>1. k \in Nat /\ k < 2 * Half /\ k < n /\ (2 * Half - 1) - k = c
      BY <1>1, <1>6, <1>7, <2>1
    <3>2. k \notin T
      BY <1>5, <1>6, <3>1
    <3> HIDE DEF k
    <3> QED
      BY <3>1, <3>2
  <2>2. CASE ~ (c < 2 * Half)
    <3>1. c \notin Idx
      BY <1>1, <2>2
    <3> QED
      BY <3>1
  <2> QED
    BY <2>1, <2>2
<1> HIDE DEF T, b
<1>8. CASE b \in x
  BY <1>6, <1>7, <1>8 DEF Below
<1>9. CASE b \in y
  BY <1>6, <1>7, <1>9 DEF Below
<1> QED
  BY <1>6, <1>8, <1>9

LEMMA IncrementIs ==
  ASSUME NEW x \in Entries
  PROVE  \E z \in 0 .. Half :
           /\ z \notin x /\ 0 .. (z - 1) \subseteq x
           /\ Increment(x) = {b \in x : b > z} \cup {z}
<1> DEFINE zeros == (0 .. Half) \ x
           z == Lowest(zeros)
<1>1. Half \in Nat \ {0} /\ \A b \in Int : b \in HalfBits <=> 0 <= b /\ b < Half
  BY HalvesAre
<1>2. Half \in zeros /\ zeros \subseteq Nat
  BY <1>1 DEF Entries
<1>3. z \in zeros /\ \A b \in zeros : z <= b
  <2> HIDE DEF zeros
  <2> QED
    BY <1>2, LowestIs
<1>4. Increment(x) = {b \in x : b > z} \cup {z}
  BY DEF Increment
<1> HIDE DEF z
<1>5. z \in 0 .. Half /\ z \notin x
  BY <1>3
<1>6. 0 .. (z - 1) \subseteq x
  <2> SUFFICES ASSUME NEW b \in 0 .. (z - 1), b \notin x
               PROVE  FALSE
    OBVIOUS
  <2>1. b \in zeros /\ b < z
    BY <1>1, <1>5
  <2> QED
    BY <1>3, <1>5, <2>1
<1> QED
  BY <1>4, <1>5, <1>6

LEMMA IncrementGoesOn ==
  ASSUME NEW x \in Entries
  PROVE  /\ Increment(x) \in SUBSET Idx /\ (Increment(x) \in Entries \/ Increment(x) = {Half})
         /\ \A y \in Entries : Below(y, Increment(x)) <=> y = x \/ Below(y, x)
<1>1. PICK z \in 0 .. Half :
        /\ z \notin x /\ 0 .. (z - 1) \subseteq x
        /\ Increment(x) = {b \in x : b > z} \cup {z}
  BY IncrementIs
<1>2. /\ Half \in Nat \ {0} /\ HalfBits \subseteq Idx /\ HalfBits \subseteq Nat
      /\ \A b \in Int : b \in HalfBits <=> 0 <= b /\ b < Half
      /\ \A b \in Int : b \in Idx <=> 0 <= b /\ b < 2 * Half
  BY HalvesAre
<1>3. z \in Nat /\ x \subseteq HalfBits /\ Half \in Idx
  BY <1>1, <1>2 DEF Entries
<1>4. Increment(x) \in SUBSET Idx /\ (Increment(x) \in Entries \/ Increment(x) = {Half})
  <2>1. CASE z = Half
    <3>1. \A b \in x : ~ (b > z)
      BY <1>2, <1>3, <2>1
    <3>2. Increment(x) = {Half}
      BY <1>1, <2>1, <3>1
    <3> QED
      BY <1>3, <3>2
  <2>2. CASE z # Half
    <3>1. z \in HalfBits
      BY <1>1, <1>2, <1>3, <2>2
    <3> QED
      BY <1>1, <1>2, <1>3, <3>1 DEF Entries
  <2> QED
    BY <2>1, <2>2
<1>5. ASSUME NEW y \in Entries
      PROVE  Below(y, Increment(x)) <=> y = x \/ Below(y, x)
  <2> DEFINE next == Increment(x)
  <2>1. /\ \A b \in Nat : b > z => (b \in next <=> b \in x)
        /\ \A b \in Nat : b < z => b \notin next /\ b \in x
        /\ z \in next /\ z \notin x /\ next \subseteq Nat /\ y \subseteq HalfBits /\ y \subseteq Nat
    <3>1. \A b \in Nat : b < z => b \in x
      BY <1>1, <1>3
    <3>2. y \subseteq HalfBits /\ y \subseteq Nat
      BY <1>2 DEF Entries
    <3>3. next \subseteq Nat /\ \A b \in Nat : b \in next <=> b = z \/ (b > z /\ b \in x)
      BY <1>1, <1>2, <1>3
    <3> HIDE DEF next
    <3> QED
      BY <1>1, <1>3, <3>1, <3>2, <3>3
  <2> HIDE DEF next
  <2>2. ASSUME y = x
        PROVE  Below(y, next)
    BY <2>1, <2>2, <1>3 DEF Below
  <2>3. ASSUME Below(y, x)
        PROVE  Below(y, next)
    <3>1. PICK b \in x : b \notin y /\ \A c \in Nat : c > b => (c \in x <=> c \in y)
      BY <2>3 DEF Below
    <3>2. b \in Nat /\ b # z
      BY <1>2, <1>3, <2>1, <3>1
    <3>3. CASE b > z
      <4>1. b \in next /\ \A c \in Nat : c > b => (c \in next <=> c \in y)
        BY <1>3, <2>1, <3>1, <3>2, <3>3
      <4> QED
        BY <3>1, <4>1 DEF Below
    <3>4. CASE b < z
      <4>1. z \notin y /\ \A c \in Nat : c > z => (c \in next <=> c \in y)
        BY <1>3, <2>1, <3>1, <3>2, <3>4
      <4> QED
        BY <2>1, <4>1 DEF Below
    <3> QED
      BY <1>3, <3>2, <3>3, <3>4
  <2>4. ASSUME Below(y, next), y # x
        PROVE  Below(y, x)
    <3>1. PICK b \in next : b \notin y /\ \A c \in Nat : c > b => (c \in next <=> c \in y)
      BY <2>4 DEF Below
    <3>2. b \in Nat /\ ~ (b < z)
      BY <2>1, <3>1
    <3>3. CASE b > z
      <4>1. b \in x /\ \A c \in Nat : c > b => (c \in x <=> c \in y)
        BY <1>3, <2>1, <3>1, <3>2, <3>3
      <4> QED
        BY <3>1, <4>1 DEF Below
    <3>4. CASE b = z
      <4>1. z \notin y /\ \A c \in Nat : c > z => (c \in x <=> c \in y)
        BY <1>3, <2>1, <3>1, <3>4
      <4>2. ~ Below(x, y)
        <5> SUFFICES ASSUME NEW d \in y, d \notin x, \A c \in Nat : c > d => (c \in y <=> c \in x)
                     PROVE  FALSE
          BY DEF Below
        <5>1. d \in Nat
          BY <2>1
        <5>2. CASE d > z
          BY <4>1, <5>1, <5>2
        <5>3. CASE d < z
          BY <2>1, <5>1, <5>3
        <5>4. d # z
          BY <4>1
        <5> QED
          BY <1>3, <5>1, <5>2, <5>3, <5>4
      <4>3. x \in SUBSET Idx /\ y \in SUBSET Idx
        BY <1>2, <1>3, <2>1
      <4> QED
        BY <2>4, <4>2, <4>3, HighestDifference
    <3> QED
      BY <1>3, <3>2, <3>3, <3>4
  <2> QED
    BY <2>2, <2>3, <2>4 DEF next
<1> QED
  BY <1>4, <1>5

\* i >> 1 comes before i, and lacks the lowest bit.
LEMMA HalvedBefore ==
  ASSUME NEW x \in Entries, x # {}
  PROVE  /\ Shr(x) \in Entries /\ Below(Shr(x), x)
         /\ Cardinality(x) = (IF 0 \in x THEN 1 ELSE 0) + Cardinality(Shr(x))
<1> DEFINE y == Shr(x)
<1>1. /\ Half \in Nat \ {0} /\ HalfBits \subseteq Idx /\ HalfBits \subseteq Nat /\ Idx \subseteq Nat
      /\ \A b \in Int : b \in HalfBits <=> 0 <= b /\ b < Half
      /\ \A b \in Int : b \in Idx <=> 0 <= b /\ b < 2 * Half
  BY HalvesAre
<1>2. x \subseteq HalfBits
  BY DEF Entries
<1>3. \A b \in Nat : b \in y <=> b + 1 \in x
  <2> SUFFICES ASSUME NEW b \in Nat, b + 1 \in x
               PROVE  b \in Idx
    BY DEF Shr
  <2> QED
    BY <1>1, <1>2
<1>4. y \subseteq Nat /\ y \in Entries
  <2>1. y \subseteq Nat
    BY <1>1 DEF Shr
  <2>2. \A b \in y : b \in HalfBits
    BY <1>1, <1>2, <1>3, <2>1
  <2> QED
    BY <2>1, <2>2 DEF Entries
<1> HIDE DEF y
<1>5. Below(y, x)
  <2> DEFINE T == {n \in Nat : n < Half /\ (Half - 1) - n \in x}
  <2>1. PICK d \in x : TRUE
    OBVIOUS
  <2>2. (Half - 1) - d \in T
    BY <1>1, <1>2, <2>1
  <2>3. PICK n \in T : \A k \in T : n <= k
    <3>1. T \in SUBSET Nat /\ T # {}
      BY <2>2
    <3> HIDE DEF T
    <3> QED
      BY <3>1, LeastNumber
  <2> DEFINE b == (Half - 1) - n
  <2>4. b \in x /\ b \in Nat /\ n \in Nat
    BY <1>1, <2>3
  <2>5. ASSUME NEW c \in Nat, c > b
        PROVE  c \notin x
    <3> SUFFICES ASSUME c \in x
                 PROVE  FALSE
      OBVIOUS
    <3>1. (Half - 1) - c \in T /\ (Half - 1) - c < n
      BY <1>1, <1>2, <2>4, <2>5
    <3> QED
      BY <2>3, <2>4, <3>1
  <2> HIDE DEF b, T
  <2>6. b \notin y /\ \A c \in Nat : c > b => (c \in x <=> c \in y)
    BY <1>3, <2>4, <2>5
  <2> QED
    BY <2>4, <2>6 DEF Below
<1>6. Cardinality(x \ {0}) = Cardinality(y)
  <2> DEFINE f == [b \in y |-> b + 1]
             T == x \ {0}
  <2>1. \A t \in T : t \in Nat /\ t - 1 \in Nat /\ (t - 1) + 1 = t
    BY <1>1, <1>2
  <2>2. /\ f \in [y -> T]
        /\ \A a, b \in y : f[a] = f[b] => a = b
        /\ \A t \in T : \E a \in y : f[a] = t
    BY <1>3, <1>4, <2>1
  <2>3. IsFiniteSet(y)
    BY <1>1, <1>4, WordsAreFinite DEF Entries
  <2> HIDE DEF f, T
  <2>4. Cardinality(T) = Cardinality(y)
    BY <2>2, <2>3, AsMany
  <2> QED
    BY <2>4 DEF T
<1>7. Cardinality(x) = (IF 0 \in x THEN 1 ELSE 0) + Cardinality(x \ {0})
  <2>1. IsFiniteSet(x) /\ Cardinality(x) \in Nat
    BY <1>1, <1>2, WordsAreFinite
  <2>2. CASE 0 \in x
    <3>1. Cardinality(x \ {0}) = Cardinality(x) - 1
      BY <2>1, <2>2, FS_RemoveElement
    <3> QED
      BY <2>1, <2>2, <3>1
  <2>3. CASE 0 \notin x
    <3>1. x \ {0} = x
      BY <2>3
    <3>2. Cardinality(x \ {0}) = Cardinality(x)
      BY <3>1
    <3> QED
      BY <2>1, <2>3, <3>2
  <2> QED
    BY <2>2, <2>3
<1> QED
  BY <1>4, <1>5, <1>6, <1>7 DEF y

-----------------------------------------------------------------------------
(* The inductive invariant of the tables.                                     *)

WordsTyped ==
  /\ index \in SUBSET Idx /\ (index \in Entries \/ index = {Half})
  /\ asked \in SUBSET Idx

\* The inner loop has counted the pieces up to the last one it took.
CountedSoFar ==
  /\ index \notin Entries => bitsLeft = {}
  /\ index \in Entries =>
       /\ bitsLeft = {b \in index : lastTaken # NoBit => b > lastTaken + 1}
       /\ lastTaken # NoBit => lastTaken \in NonOverlapping(index)
       /\ bitsTaken = Cardinality({b \in NonOverlapping(index) : b <= lastTaken})

\* The tables have the entries before the index, and these are right.
TablesHold ==
  /\ DOMAIN moveTable = {x \in Entries : Below(x, index)}
  /\ DOMAIN bitTable = {x \in Entries : Below(x, index)}
  /\ \A x \in DOMAIN moveTable :
       moveTable[x] = [count |-> CountMoves(x), eraseNext |-> Half - 1 \in NonOverlapping(x)]
  /\ \A x \in DOMAIN bitTable : bitTable[x] = Cardinality(x)

TablesInv == WordsTyped /\ CountedSoFar /\ TablesHold /\ MergedQueriesExact

LEMMA NothingToCount ==
  NonOverlapping({}) = {} /\ CountMoves({}) = 0 /\ Cardinality({}) = 0
BY FS_EmptySet DEF NonOverlapping, CountMoves

\* Before an entry's first bit is taken.
LEMMA CountingStarts ==
  ASSUME index' \in SUBSET Idx, lastTaken' = NoBit, bitsTaken' = 0,
         bitsLeft' = IF index' \in Entries THEN index' ELSE {}
  PROVE  CountedSoFar'
<1> SUFFICES ASSUME NEW word, word = index'
             PROVE  CountedSoFar'
  OBVIOUS
<1>1. NonOverlapping(word) \subseteq Nat
  BY HalvesAre DEF NonOverlapping
<1>2. {b \in NonOverlapping(word) : b <= -1} = {}
  BY <1>1
<1>3. Cardinality({b \in NonOverlapping(word) : b <= lastTaken'}) = 0
  <2>1. {b \in NonOverlapping(word) : b <= lastTaken'} = {}
    BY <1>2 DEF NoBit
  <2> QED
    BY <2>1, FS_EmptySet
<1>4. {b \in word : lastTaken' # NoBit => b > lastTaken' + 1} = word
  OBVIOUS
<1> QED
  BY <1>3, <1>4 DEF CountedSoFar

LEMMA TablesStart == TablesInit => TablesInv
<1> SUFFICES ASSUME TablesInit
             PROVE  TablesInv
  OBVIOUS
<1>1. /\ index = {} /\ bitsLeft = {} /\ bitsTaken = 0 /\ lastTaken = NoBit
      /\ asked = {} /\ answer = [moves |-> 0, bits |-> 0, last |-> 100]
      /\ DOMAIN moveTable = {} /\ DOMAIN bitTable = {}
  BY DEF TablesInit
<1>2. WordsTyped
  BY <1>1 DEF WordsTyped, Entries
<1>3. CountedSoFar
  <2>1. {b \in NonOverlapping(index) : b <= lastTaken} = {}
    BY <1>1, NothingToCount
  <2>2. Cardinality({b \in NonOverlapping(index) : b <= lastTaken}) = 0
    BY <2>1, FS_EmptySet
  <2> QED
    BY <1>1, <2>2 DEF CountedSoFar
<1>4. TablesHold
  <2>1. {x \in Entries : Below(x, index)} = {}
    BY <1>1 DEF Below
  <2> QED
    BY <1>1, <2>1 DEF TablesHold
<1>5. MergedQueriesExact
  BY <1>1, NothingToCount DEF MergedQueriesExact
<1> QED
  BY <1>2, <1>3, <1>4, <1>5 DEF TablesInv

\* The lowest bit that is left is the next one to be counted.
LEMMA TakeBitKeeps == TablesInv /\ TakeBit => TablesInv'
<1> SUFFICES ASSUME TablesInv, TakeBit, NEW t, t = Lowest(bitsLeft), NEW x, x = index
             PROVE  TablesInv'
  OBVIOUS
<1> DEFINE N == NonOverlapping(x)
<1>1. /\ bitsLeft # {} /\ lastTaken' = t /\ bitsLeft' = bitsLeft \ {t, t + 1}
      /\ bitsTaken' = bitsTaken + 1
      /\ UNCHANGED <<index, moveTable, bitTable, asked, answer>>
  BY DEF TakeBit
<1>2. /\ x \in Entries /\ x \in SUBSET Idx
      /\ bitsLeft = {b \in x : lastTaken # NoBit => b > lastTaken + 1}
      /\ lastTaken # NoBit => lastTaken \in N
      /\ bitsTaken = Cardinality({b \in N : b <= lastTaken})
  BY <1>1 DEF TablesInv, CountedSoFar, WordsTyped
<1>3. x \subseteq Nat /\ N \subseteq x /\ \A b \in Int : b \in N <=> b \in x /\ b - 1 \notin N
  BY <1>2, HalvesAre, CountedInTurn DEF NonOverlapping
<1> HIDE DEF N
<1>4. bitsLeft \subseteq Nat /\ t \in bitsLeft /\ \A b \in bitsLeft : t <= b
  <2>1. bitsLeft \subseteq Nat
    BY <1>2, <1>3
  <2> QED
    BY <1>1, <2>1, LowestIs
<1>5. t \in Nat /\ t \in x /\ (lastTaken # NoBit => t > lastTaken + 1)
  BY <1>2, <1>4
<1>6. lastTaken \in Nat \/ lastTaken = -1
  BY <1>2, <1>3 DEF NoBit
\* A counted bit is one of those taken, or left.
<1>7. ASSUME NEW b \in N
      PROVE  b <= lastTaken \/ b \in bitsLeft
  <2>1. CASE lastTaken = NoBit
    BY <1>2, <1>3, <2>1
  <2>2. CASE lastTaken # NoBit
    <3>1. lastTaken \in N /\ lastTaken \in Nat /\ b \in Nat
      BY <1>2, <1>3, <2>2
    <3>2. b # lastTaken + 1
      <4>1. lastTaken + 1 \in Int /\ (lastTaken + 1) - 1 = lastTaken
        BY <3>1
      <4> QED
        BY <1>3, <3>1, <4>1
    <3> QED
      BY <1>2, <1>3, <3>1, <3>2
  <2> QED
    BY <2>1, <2>2
<1>8. t \in N
  <2> SUFFICES ASSUME t - 1 \in N
               PROVE  FALSE
    BY <1>3, <1>5
  <2>1. t - 1 \notin bitsLeft
    BY <1>4, <1>5
  <2>2. t - 1 <= lastTaken /\ t - 1 \in Nat
    BY <1>3, <1>7, <2>1
  <2>3. lastTaken # NoBit
    BY <1>5, <2>2 DEF NoBit
  <2> QED
    BY <1>5, <1>6, <2>2, <2>3
<1>9. {b \in N : b <= t} = {b \in N : b <= lastTaken} \cup {t}
  <2>1. ASSUME NEW b \in N, b <= t
        PROVE  b <= lastTaken \/ b = t
    <3>1. b \in Nat
      BY <1>3
    <3>2. b \in bitsLeft => t <= b
      BY <1>4
    <3> QED
      BY <1>5, <1>7, <2>1, <3>1, <3>2
  <2>2. lastTaken < t
    BY <1>5, <1>6 DEF NoBit
  <2>3. \A b \in N : b <= lastTaken => b <= t
    BY <1>3, <1>5, <1>6, <2>2
  <2>4. t \in N /\ t <= t
    BY <1>5, <1>8
  <2>5. \A b \in N : b <= t <=> b <= lastTaken \/ b = t
    BY <2>1, <2>3, <2>4
  <2> QED
    BY <2>4, <2>5
<1>10. Cardinality({b \in N : b <= t}) = bitsTaken + 1
  <2> DEFINE before == {b \in N : b <= lastTaken}
  <2>1. before \in SUBSET Idx
    BY <1>2, <1>3
  <2>2. t \notin before
    BY <1>5, <1>6 DEF NoBit
  <2>3. IsFiniteSet(before)
    BY <2>1, WordsAreFinite
  <2> HIDE DEF before
  <2>4. Cardinality(before \cup {t}) = Cardinality(before) + 1
    BY <2>2, <2>3, FS_AddElement
  <2> QED
    BY <1>2, <1>9, <2>4 DEF before
<1>11. bitsLeft \ {t, t + 1} = {b \in x : t # NoBit => b > t + 1}
  <2>1. t # NoBit
    BY <1>5 DEF NoBit
  <2>2. \A b \in bitsLeft \ {t, t + 1} : b \in x /\ b > t + 1
    BY <1>2, <1>4, <1>5
  <2>3. ASSUME NEW b \in x, b > t + 1
        PROVE  b \in bitsLeft \ {t, t + 1}
    <3>1. b \in Nat
      BY <1>3
    <3>2. lastTaken # NoBit => b > lastTaken + 1
      BY <1>5, <1>6, <2>3, <3>1
    <3> QED
      BY <1>2, <1>5, <2>3, <3>1, <3>2
  <2> QED
    BY <2>1, <2>2, <2>3
<1>12. CountedSoFar'
  BY <1>1, <1>2, <1>8, <1>10, <1>11 DEF CountedSoFar, N
<1>13. WordsTyped' /\ TablesHold' /\ MergedQueriesExact'
  BY <1>1 DEF TablesInv, WordsTyped, TablesHold, MergedQueriesExact
<1> QED
  BY <1>12, <1>13 DEF TablesInv

LEMMA StoreEntryKeeps == TablesInv /\ StoreEntry => TablesInv'
<1> SUFFICES ASSUME TablesInv, StoreEntry, NEW x, x = index
             PROVE  TablesInv'
  OBVIOUS
<1> DEFINE N == NonOverlapping(x)
           next == Increment(x)
<1>1. /\ bitsLeft = {} /\ x \in Entries /\ x \in SUBSET Idx
      /\ moveTable' = Stored(moveTable, [count |-> bitsTaken, eraseNext |-> lastTaken = Half - 1])
      /\ bitTable' = Stored(bitTable, BitsOfEntry)
      /\ index' = next /\ UNCHANGED <<asked, answer>>
      /\ lastTaken' = NoBit /\ bitsTaken' = 0 /\ bitsLeft' = IF index' \in Entries THEN index' ELSE {}
  BY DEF StoreEntry, NextEntry, TablesInv, WordsTyped
<1>2. /\ next \in SUBSET Idx /\ (next \in Entries \/ next = {Half})
      /\ \A y \in Entries : Below(y, next) <=> y = x \/ Below(y, x)
  BY <1>1, IncrementGoesOn
<1> HIDE DEF next
<1>3. WordsTyped' /\ CountedSoFar'
  <2>1. WordsTyped'
    BY <1>1, <1>2 DEF TablesInv, WordsTyped
  <2>2. CountedSoFar'
    BY <1>1, <1>2, CountingStarts
  <2> QED
    BY <2>1, <2>2
<1>4. /\ {b \in x : lastTaken # NoBit => b > lastTaken + 1} = {}
      /\ lastTaken # NoBit => lastTaken \in N
      /\ bitsTaken = Cardinality({b \in N : b <= lastTaken})
  BY <1>1 DEF TablesInv, CountedSoFar
<1>5. x \subseteq HalfBits /\ x \subseteq Nat /\ N \subseteq x
      /\ \A b \in Int : b \in N <=> b \in x /\ b - 1 \notin N
  BY <1>1, HalvesAre, CountedInTurn DEF NonOverlapping, Entries
<1> HIDE DEF N
<1>6. ASSUME NEW b \in N
      PROVE  b <= lastTaken /\ lastTaken # NoBit
  <2>1. lastTaken # NoBit /\ ~ (b > lastTaken + 1)
    BY <1>4, <1>5
  <2>2. lastTaken \in N /\ lastTaken \in Nat /\ b \in Nat
    BY <1>4, <1>5, <2>1
  <2>3. b # lastTaken + 1
    <3>1. lastTaken + 1 \in Int /\ (lastTaken + 1) - 1 = lastTaken
      BY <2>2
    <3> QED
      BY <1>5, <2>2, <3>1
  <2> QED
    BY <2>1, <2>2, <2>3
<1>7. bitsTaken = CountMoves(x)
  <2>1. {b \in N : b <= lastTaken} = N
    BY <1>6
  <2> QED
    BY <1>4, <2>1 DEF CountMoves, N
<1>8. lastTaken = Half - 1 <=> Half - 1 \in N
  <2>1. Half \in Nat \ {0} /\ \A b \in Int : b \in HalfBits <=> 0 <= b /\ b < Half
    BY HalvesAre
  <2>2. Half - 1 # NoBit
    BY <2>1 DEF NoBit
  <2>3. ASSUME Half - 1 \in N
        PROVE  lastTaken = Half - 1
    <3>1. Half - 1 <= lastTaken /\ lastTaken \in N
      BY <1>4, <1>6, <2>3
    <3>2. lastTaken \in Nat /\ lastTaken < Half
      BY <1>5, <2>1, <3>1
    <3> QED
      BY <2>1, <3>1, <3>2
  <2> QED
    BY <1>4, <2>2, <2>3
<1>9. /\ DOMAIN moveTable = {y \in Entries : Below(y, x)}
      /\ DOMAIN bitTable = {y \in Entries : Below(y, x)}
      /\ \A y \in DOMAIN moveTable :
           moveTable[y] = [count |-> CountMoves(y), eraseNext |-> Half - 1 \in NonOverlapping(y)]
      /\ \A y \in DOMAIN bitTable : bitTable[y] = Cardinality(y)
  BY DEF TablesInv, TablesHold
<1>10. BitsOfEntry = Cardinality(x)
  <2>1. CASE x = {}
    BY <2>1, NothingToCount DEF BitsOfEntry
  <2>2. CASE x # {}
    <3>1. /\ Shr(x) \in DOMAIN bitTable
          /\ Cardinality(x) = (IF 0 \in x THEN 1 ELSE 0) + Cardinality(Shr(x))
      BY <1>1, <1>9, <2>2, HalvedBefore
    <3> QED
      BY <1>9, <2>2, <3>1 DEF BitsOfEntry
  <2> QED
    BY <2>1, <2>2
<1>11. {y \in Entries : Below(y, next)} = {y \in Entries : Below(y, x)} \cup {x}
  BY <1>1, <1>2
<1>12. /\ DOMAIN moveTable' = {y \in Entries : Below(y, next)}
       /\ \A y \in DOMAIN moveTable' :
            moveTable'[y] = [count |-> CountMoves(y), eraseNext |-> Half - 1 \in NonOverlapping(y)]
  <2> DEFINE value == [count |-> bitsTaken, eraseNext |-> lastTaken = Half - 1]
  <2>1. value = [count |-> CountMoves(x), eraseNext |-> Half - 1 \in NonOverlapping(x)]
    BY <1>7, <1>8 DEF N
  <2>2. moveTable' = [y \in DOMAIN moveTable \cup {x} |-> IF y = x THEN value ELSE moveTable[y]]
    BY <1>1 DEF Stored
  <2> HIDE DEF value
  <2>3. DOMAIN moveTable' = DOMAIN moveTable \cup {x}
    BY <2>2
  <2>4. \A y \in DOMAIN moveTable' : moveTable'[y] = IF y = x THEN value ELSE moveTable[y]
    BY <2>2
  <2> QED
    BY <1>9, <1>11, <2>1, <2>3, <2>4
<1>13. /\ DOMAIN bitTable' = {y \in Entries : Below(y, next)}
       /\ \A y \in DOMAIN bitTable' : bitTable'[y] = Cardinality(y)
  <2>1. bitTable' = [y \in DOMAIN bitTable \cup {x} |-> IF y = x THEN Cardinality(x) ELSE bitTable[y]]
    BY <1>1, <1>10 DEF Stored
  <2> QED
    BY <1>9, <1>11, <2>1
<1>14. TablesHold'
  BY <1>1, <1>12, <1>13 DEF TablesHold
<1>15. MergedQueriesExact'
  BY <1>1 DEF TablesInv, MergedQueriesExact
<1> QED
  BY <1>3, <1>14, <1>15 DEF TablesInv

LEMMA QueryKeeps ==
  ASSUME TablesInv, NEW x \in SUBSET Idx, Query(x)
  PROVE  TablesInv'
<1>1. /\ index = {Half} /\ asked' = x
      /\ answer' = [moves |-> CountMovesByTable(x), bits |-> CountBitsByTable(x),
                    last |-> LastBitByTable(x)]
      /\ UNCHANGED <<index, bitsLeft, bitsTaken, lastTaken, moveTable, bitTable>>
  BY DEF Query, TablesInv, WordsTyped
<1>2. \A y \in Entries : Below(y, index)
  <2> SUFFICES ASSUME NEW y \in Entries
               PROVE  Below(y, {Half})
    BY <1>1
  <2>1. /\ Half \in Nat /\ y \subseteq HalfBits
        /\ \A b \in Int : b \in HalfBits <=> 0 <= b /\ b < Half
    BY HalvesAre DEF Entries
  <2>2. \A c \in Nat : c > Half => c \notin y /\ c # Half
    BY <2>1
  <2>3. Half \notin y
    BY <2>1
  <2> QED
    BY <2>1, <2>2, <2>3 DEF Below
<1>3. \A y \in Entries :
        /\ moveTable[y] = [count |-> CountMoves(y), eraseNext |-> Half - 1 \in NonOverlapping(y)]
        /\ bitTable[y] = Cardinality(y)
  BY <1>2 DEF TablesInv, TablesHold
<1>4. LowHalf(x) \in Entries /\ HighHalf(x) \in Entries
  BY HalvesAre DEF Entries
<1>5. CountMovesByTable(x) = CountMoves(x)
  <2> DEFINE high == IF Half - 1 \in NonOverlapping(LowHalf(x)) THEN HighHalf(x) \ {0} ELSE HighHalf(x)
  <2>1. high \in Entries
    BY <1>4 DEF Entries
  <2>2. /\ moveTable[LowHalf(x)].count = CountMoves(LowHalf(x))
        /\ moveTable[LowHalf(x)].eraseNext = (Half - 1 \in NonOverlapping(LowHalf(x)))
        /\ moveTable[high].count = CountMoves(high)
    <3>1. \A n, e : [count |-> n, eraseNext |-> e].count = n
                    /\ [count |-> n, eraseNext |-> e].eraseNext = e
      OBVIOUS
    <3> HIDE DEF high
    <3>2. /\ moveTable[LowHalf(x)] = [count |-> CountMoves(LowHalf(x)),
                                      eraseNext |-> Half - 1 \in NonOverlapping(LowHalf(x))]
          /\ moveTable[high] = [count |-> CountMoves(high),
                                eraseNext |-> Half - 1 \in NonOverlapping(high)]
      BY <1>3, <1>4, <2>1
    <3> QED
      BY <3>1, <3>2
  <2>3. CountMovesByTable(x) = CountMoves(LowHalf(x)) + CountMoves(high)
    BY <2>2 DEF CountMovesByTable
  <2>4. CountMoves(x) = CountMoves(LowHalf(x)) + CountMoves(high)
    BY HalvesCountTogether
  <2> QED
    BY <2>3, <2>4
<1>6. CountBitsByTable(x) = Cardinality(x)
  BY <1>3, <1>4, HalvesHoldTheBits DEF CountBitsByTable
<1>7. MergedQueriesExact'
  BY <1>1, <1>5, <1>6, HalvesHoldTheBits DEF MergedQueriesExact
<1>8. WordsTyped' /\ CountedSoFar' /\ TablesHold'
  BY <1>1 DEF TablesInv, WordsTyped, CountedSoFar, TablesHold
<1> QED
  BY <1>7, <1>8 DEF TablesInv

LEMMA TablesInvHolds == TablesSpec => []TablesInv
<1>1. ASSUME TablesInv, [TablesNext]_tableVars
      PROVE  TablesInv'
  <2>1. CASE UNCHANGED tableVars
    BY <1>1, <2>1 DEF tableVars, TablesInv, WordsTyped, CountedSoFar, TablesHold, MergedQueriesExact
  <2> QED
    BY <1>1, <2>1, TakeBitKeeps, StoreEntryKeeps, QueryKeeps DEF TablesNext
<1> QED
  BY <1>1, TablesStart, PTL DEF TablesSpec

(* What the tables of two halves say together is right for every word of any
   width: MergedQueriesExact, by TakeBit, StoreEntry and Query.                *)
THEOREM TablesMergeExactly == TablesSpec => []MergedQueriesExact
BY TablesInvHolds, PTL DEF TablesInv

(* The count of pieces that a query returns is the most that fit:
   GreedyIsMaximal, by the loop of init_movetable and the merge.               *)
THEOREM TableCountIsMaximal == TablesSpec => []GreedyIsMaximal
<1>1. ASSUME TablesInv
      PROVE  GreedyIsMaximal
  <2>1. asked \in SUBSET Idx /\ answer.moves = CountMoves(asked)
    BY <1>1 DEF TablesInv, WordsTyped, MergedQueriesExact
  <2>2. /\ NonOverlapping(asked) \in SUBSET asked
        /\ \A b \in NonOverlapping(asked) : b + 1 \notin NonOverlapping(asked)
        /\ \A m \in SUBSET asked :
             (\A b \in m : b + 1 \notin m) => Cardinality(m) <= CountMoves(asked)
    BY <2>1, CountMovesIsMaximal
  <2>3. Cardinality(NonOverlapping(asked)) = answer.moves
    BY <2>1 DEF CountMoves
  <2> QED
    BY <2>1, <2>2, <2>3 DEF GreedyIsMaximal
<1> QED
  BY <1>1, TablesInvHolds, PTL
=============================================================================
