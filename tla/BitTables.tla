----------------------------- MODULE BitTables ------------------------------
(***************************************************************************)
(* The lookup tables of src/obsequi/bitops.cc, filled once by the          *)
(* constructor functions that run before main, and the 32-bit queries of   *)
(* bitops.h that merge the entries of two 16-bit halves.  Half is the      *)
(* number of bits of a half (16 in the code).  The index of an entry is a  *)
(* word too: the set of its one bits.                                      *)
(***************************************************************************)
EXTENDS Bitops

CONSTANT Half

ASSUME HalfAssumption == Half \in Nat \ {0} /\ MaxRows = 2 * Half

HalfBits == 0 .. (Half - 1)
Entries  == SUBSET HalfBits
NoBit    == -1

VARIABLES index,      \* i: the entry being computed
          bitsLeft,   \* mask: what is left of its bits
          bitsTaken,  \* count: the ones taken so far
          lastTaken,  \* tmp: the last one taken, NoBit before the first
          moveTable,  \* move_table16: the entries stored so far
          bitTable,   \* countbits16: the entries stored so far
          asked,      \* the word of the last query
          answer      \* what the last query returned

tableVars == <<index, bitsLeft, bitsTaken, lastTaken, moveTable, bitTable, asked, answer>>

\* The lowest one of a word that has any.
Lowest(x) == CHOOSE b \in x : \A c \in x : b <= c

\* i++: the lowest zero becomes a one, the ones below it zeros.
Increment(x) ==
  LET zero == Lowest((0 .. Half) \ x)
  IN  {b \in x : b > zero} \cup {zero}

LowHalf(x)  == {b \in HalfBits : b \in x}
HighHalf(x) == {b \in HalfBits : b + Half \in x}

-----------------------------------------------------------------------------
(* countmoves32_16bitmap: an entry whose last one was the top bit of its
   half says so, and the lowest bit of the next half is dropped.           *)
CountMovesByTable(x) ==
  LET low  == moveTable[LowHalf(x)]
      high == IF low.eraseNext THEN HighHalf(x) \ {0} ELSE HighHalf(x)
  IN  low.count + moveTable[high].count

\* countbits32_16bitmap: the two halves are counted separately.
CountBitsByTable(x) == bitTable[LowHalf(x)] + bitTable[HighHalf(x)]

\* lastbit32_16bitmap: 100 when there is no one, else the lowest.
LastBitByTable(x) ==
  IF x = {} THEN 100
  ELSE IF LowHalf(x) # {} THEN Lowest(LowHalf(x)) ELSE Lowest(HighHalf(x)) + Half

-----------------------------------------------------------------------------
TablesInit ==
  /\ index = {}
  /\ bitsLeft = {}
  /\ bitsTaken = 0
  /\ lastTaken = NoBit
  /\ moveTable = <<>>
  /\ bitTable = <<>>
  /\ asked = {}
  /\ answer = [moves |-> 0, bits |-> 0, last |-> 100]

\* Mutant: only the lowest one is removed, not its neighbour.
TakesBitOnly ==
  /\ bitsLeft # {}
  /\ lastTaken' = Lowest(bitsLeft)
  /\ bitsLeft' = bitsLeft \ {lastTaken'}
  /\ bitsTaken' = bitsTaken + 1
  /\ UNCHANGED <<index, moveTable, bitTable, asked, answer>>

\* The body of init_movetable's inner loop.
TakeBit ==
  /\ bitsLeft # {}
  /\ lastTaken' = Lowest(bitsLeft)
  /\ bitsLeft' = bitsLeft \ {lastTaken', lastTaken' + 1}
  /\ bitsTaken' = bitsTaken + 1
  /\ UNCHANGED <<index, moveTable, bitTable, asked, answer>>

\* A table with one more entry.
Stored(table, value) ==
  [x \in DOMAIN table \cup {index} |-> IF x = index THEN value ELSE table[x]]

\* countbits16[i] is made from that of i >> 1.
BitsOfEntry == IF index = {} THEN 0
               ELSE (IF 0 \in index THEN 1 ELSE 0) + bitTable[Shr(index)]

\* i++, and what the next iteration starts with.
NextEntry ==
  /\ index' = Increment(index)
  /\ bitsLeft' = IF index' \in Entries THEN index' ELSE {}
  /\ bitsTaken' = 0
  /\ lastTaken' = NoBit
  /\ UNCHANGED <<asked, answer>>

\* Mutant: the flag is set whenever the entry has the top bit.
FlagsTopBit ==
  /\ bitsLeft = {} /\ index \in Entries
  /\ moveTable' = Stored(moveTable, [count |-> bitsTaken, eraseNext |-> Half - 1 \in index])
  /\ bitTable' = Stored(bitTable, BitsOfEntry)
  /\ NextEntry

(* The end of an iteration of init_movetable's outer loop, and the iteration
   of init_countbits for the same entry (the two loops are independent).    *)
StoreEntry ==
  /\ bitsLeft = {} /\ index \in Entries
  /\ moveTable' = Stored(moveTable, [count |-> bitsTaken, eraseNext |-> lastTaken = Half - 1])
  /\ bitTable' = Stored(bitTable, BitsOfEntry)
  /\ NextEntry

\* Once the tables are full, a caller asks about any word.
Query(x) ==
  /\ index \notin Entries
  /\ asked' = x
  /\ answer' = [moves |-> CountMovesByTable(x),
                bits  |-> CountBitsByTable(x),
                last  |-> LastBitByTable(x)]
  /\ UNCHANGED <<index, bitsLeft, bitsTaken, lastTaken, moveTable, bitTable>>

TablesNext == TakeBit \/ StoreEntry \/ \E x \in SUBSET Idx : Query(x)

TablesSpec == TablesInit /\ [][TablesNext]_tableVars

-----------------------------------------------------------------------------
(* Each of the three queries merges what two tables say of the halves of a word
   (bitops.h:67): pieces as the greedy loop would place them in the whole word,
   none lost or counted twice where the halves meet; the number of ones; and the
   lowest one, 100 for the empty word, from which the generators make moves.    *)
MergedQueriesExact ==
  /\ answer.moves = CountMoves(asked)
  /\ answer.bits = Cardinality(asked)
  /\ answer.last = IF asked = {} THEN 100 ELSE Lowest(asked)

(* The greedy count is the best possible: no set of more pieces fits in the
   word without two of them sharing a square.  The solver's bounds on how many
   moves a player has left rest on it.                                          *)
GreedyIsMaximal ==
  /\ \E m \in SUBSET asked : Cardinality(m) = answer.moves /\ \A b \in m : b + 1 \notin m
  /\ \A m \in SUBSET asked :
       (\A b \in m : b + 1 \notin m) => Cardinality(m) <= answer.moves

=============================================================================
