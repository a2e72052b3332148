------------------------------- MODULE MCTable -------------------------------
(* The floor and the diners' checks for TLC.  A service session is the row    *)
(* the two share: TableFloor opens and closes it, DinerChecks seats diners at *)
(* it, and neither reads what the other keeps about it, so a behaviour        *)
(* follows one of them.  Nothing orders or names a table, host or diner.      *)
EXTENDS TableFloor, DinerChecks, TLC

VARIABLE part

vars == <<floorVars, checkVars, part>>

Symmetry == Permutations(Tables) \cup Permutations(Hosts)

\* Bound: wrong access codes only matter to who joins, so they are tried before
\* anything is ordered.
CodesFirst == (\E s \in Seatings : seating[s].failures > 0) => order = <<>>

Init == FloorInit /\ ChecksInit /\ part \in {"floor", "checks"}
Next ==
    /\ \/ part = "floor" /\ FloorNext /\ UNCHANGED checkVars
       \/ part = "checks" /\ ChecksNext /\ UNCHANGED floorVars
    /\ UNCHANGED part
Spec == Init /\ [][Next]_vars
=============================================================================
