---------------------------- MODULE PositionList ----------------------------
(***************************************************************************)
(* What a file of positions to be solved is for: positions are taken up    *)
(* from the first one on, and one that is solved stays solved.  Whoever    *)
(* takes a position up may fail to solve it.                               *)
(***************************************************************************)
EXTENDS Naturals

CONSTANT Line   \* the positions, numbered from 1

VARIABLE status   \* [Line -> {"open", "taken", "solved"}]

Init == status = [l \in Line |-> "open"]

Take(l) == /\ status[l] = "open"
           /\ \A k \in Line : k < l => status[k] # "open"
           /\ status' = [status EXCEPT ![l] = "taken"]

Solve(l) == /\ status[l] = "taken"
            /\ status' = [status EXCEPT ![l] = "solved"]

Next == \E l \in Line : Take(l) \/ Solve(l)

Spec == Init /\ [][Next]_status

=============================================================================
