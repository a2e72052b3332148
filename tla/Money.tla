------------------------------- MODULE Money -------------------------------
(***************************************************************************)
(* Totals of amounts.  An amount is a whole number of the currency's       *)
(* smallest unit (the code keeps DECIMAL columns with a fixed scale, so    *)
(* this is exact).  A total is the number of units there are: each amount  *)
(* f[x] stands for f[x] units tagged with the row x that carries them.     *)
(* Counting units says the same as summing them, needs no recursion, and   *)
(* lets the proofs use the theorems about finite sets.                     *)
(***************************************************************************)
EXTENDS Naturals, FiniteSets

Units(f) == UNION {{x} \X (1 .. f[x]) : x \in DOMAIN f}

Total(f) == Cardinality(Units(f))
=============================================================================
