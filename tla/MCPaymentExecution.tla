------------------------ MODULE MCPaymentExecution ------------------------
(* PaymentExecution on small instances.                                    *)
EXTENDS PaymentExecution, FiniteSetsExt, TLC

Symmetry == Permutations(Payments) \cup Permutations(Workers)

\* Counting units is summing amounts.
ASSUME TotalsAreSums ==
    \A f \in [Payments -> 0 .. 3] : Total(f) = MapThenSumSet(LAMBDA p : f[p], Payments)
=============================================================================
