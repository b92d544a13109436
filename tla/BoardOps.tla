------------------------------ MODULE BoardOps ------------------------------
(***************************************************************************)
(* What board-ops.h and move.cc compute from one player's view of the      *)
(* board: an array of words, rows[l] holding the occupied squares of line  *)
(* l.  Lines and bits are numbered from 1; line 0, bit 0 and everything    *)
(* beyond the last line or bit are occupied.  A player's pieces lie along  *)
(* its own lines, on bits b and b + 1.                                     *)
(***************************************************************************)
EXTENDS Bitops

\* The squares of line l that are walled in by both neighbouring lines.
Guard(rows, l) == rows[l - 1] \cap rows[l + 1]

\* Bit b: squares b - 1 and b of line l are free (a piece fits there).
RealMask(rows, l) == Not(rows[l] \cup Shl(rows[l]))

\* Bit b: a piece fits on b - 1 and b and the opponent can take neither.
SafeMask(rows, l) == RealMask(rows, l) \cap (Guard(rows, l) \cap Shl(Guard(rows, l)))

CountReal(rows, l) == CountMoves(RealMask(rows, l))
CountSafe(rows, l) == CountMoves(SafeMask(rows, l))

-----------------------------------------------------------------------------
(* The generators of move.cc.  Bit b of their masks: squares b and b + 1.   *)

\* move_generator: every piece that fits, except the safe ones.
Listed(rows, l) ==
  Not((rows[l] \cup Shr(rows[l])) \cup (Guard(rows, l) \cap Shr(Guard(rows, l))))

\* move_generator_stage1: neither square is protected.
Open(rows, l) ==
  Not((rows[l] \cup Shr(rows[l])) \cup (Guard(rows, l) \cup Shr(Guard(rows, l))))

\* Mutant: the second stage keeps the safe moves too.
HalfSafeOrSafe(rows, l) ==
  Not((rows[l] \cup Shr(rows[l])) \cup Not(Guard(rows, l) \cup Shr(Guard(rows, l))))

\* move_generator_stage2: exactly one square is protected.
HalfSafe(rows, l) ==
  Not((rows[l] \cup Shr(rows[l])) \cup Not(Xor(Guard(rows, l), Shr(Guard(rows, l)))))

=============================================================================
