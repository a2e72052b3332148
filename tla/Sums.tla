-------------------------------- MODULE Sums --------------------------------
(* Sums over the rows of a table, in the order of their ids.               *)
EXTENDS Integers

\* The first n entries of f together.
Total(f, n) ==
    LET upTo[k \in 0 .. n] == IF k = 0 THEN 0 ELSE upTo[k - 1] + f[k]
    IN  upTo[n]

\* What entry i gives when q is taken from the entries of f in order.
Share(f, q, i) ==
    LET wanted == q - Total(f, i - 1)
    IN  IF wanted <= 0 THEN 0 ELSE IF wanted < f[i] THEN wanted ELSE f[i]

\* The entry an allocation has for i, if any.
Part(alloc, i) == IF i \in DOMAIN alloc THEN alloc[i] ELSE 0
=============================================================================
