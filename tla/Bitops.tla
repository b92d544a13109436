------------------------------- MODULE Bitops -------------------------------
(***************************************************************************)
(* The words of src/obsequi/bitops.h.  A u32bit is the set of the          *)
(* positions of its one bits; MaxRows (32 in base.h) is the width of a     *)
(* word and, as in the code, the length of a board's array of words.       *)
(***************************************************************************)
EXTENDS Integers, FiniteSets

CONSTANT MaxRows

ASSUME MaxRowsAssumption == MaxRows \in Nat \ {0}

Idx == 0 .. (MaxRows - 1)

\* x << 1 and x >> 1: the bit shifted out is lost, a zero is shifted in.
Shl(x) == {i \in Idx : i - 1 \in x}
Shr(x) == {i \in Idx : i + 1 \in x}

\* ~x
Not(x) == Idx \ x

\* x ^ y
Xor(x, y) == (x \ y) \cup (y \ x)

(***************************************************************************)
(* Every second position of each maximal run of ones, from its lowest one: *)
(* the positions the loop of init_movetable takes when it removes the      *)
(* lowest one and its neighbour until nothing is left.  A one at position  *)
(* i of a mask stands for a piece on squares i and i + 1 (or i - 1 and i), *)
(* so these are pieces that do not overlap.                                *)
(***************************************************************************)
NonOverlapping(mask) ==
  {i \in mask : \E k \in mask : /\ k <= i
                                /\ (i - k) % 2 = 0
                                /\ (k .. i) \subseteq mask
                                /\ (k - 1) \notin mask}

\* countmoves32: how many pieces fit in the mask without overlapping.
CountMoves(mask) == Cardinality(NonOverlapping(mask))

=============================================================================
