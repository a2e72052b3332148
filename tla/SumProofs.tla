------------------------------ MODULE SumProofs ------------------------------
(***************************************************************************)
(* What sums over the rows of a table obey.  The inductions are over the   *)
(* set of the lengths for which a fact holds.                              *)
(***************************************************************************)
EXTENDS Sums, WellFoundedInduction, TLAPS

\* Induction: a set that holds 0 and, with a number, its successor, holds them all.
LEMMA AllNumbers ==
    ASSUME NEW S, 0 \in S, \A n \in Nat : n \in S => n + 1 \in S
    PROVE  \A n \in Nat : n \in S
<1>1. IsWellFoundedOn({p \in Nat \X Nat : p[1] < p[2]}, Nat)
  BY NatLessThanWellFounded DEF OpToRel
<1>2. PICK R : R = {p \in Nat \X Nat : p[1] < p[2]}
  OBVIOUS
<1>3. IsWellFoundedOn(R, Nat)
  BY <1>1, <1>2
<1>4. PICK T : T = Nat \ S
  OBVIOUS
<1>5. T = {}
  <2> SUFFICES ASSUME T # {} PROVE FALSE
    OBVIOUS
  <2>1. T \subseteq Nat
    BY <1>4
  <2>2. PICK x \in T : \A y \in T : ~(<<y, x>> \in R)
    BY <1>3, <2>1, WFMin
  <2>3. \A y \in T : ~(y < x)
    BY <1>2, <2>1, <2>2
  <2>4. x \in Nat /\ x # 0 /\ x \notin S
    BY <1>4, <2>2
  <2>5. x - 1 \in Nat /\ x - 1 < x /\ (x - 1) + 1 = x
    BY <2>4
  <2>6. x - 1 \in S
    BY <1>4, <2>3, <2>5
  <2>7. QED
    BY <2>4, <2>5, <2>6
<1>6. QED
  BY <1>4, <1>5

\* The running totals of f up to n.
Runs(f, n, g) == /\ g = [k \in 0 .. n |-> g[k]]
                 /\ g[0] = 0 /\ \A k \in 1 .. n : g[k] = g[k - 1] + f[k]

LEMMA RunsExist ==
    ASSUME NEW f
    PROVE  \A n \in Nat : \E g : Runs(f, n, g)
<1>1. PICK S : S = {n \in Nat : \E g : Runs(f, n, g)}
  OBVIOUS
<1>2. 0 \in S
  <2>1. PICK g : g = [k \in 0 .. 0 |-> 0]
    OBVIOUS
  <2>2. Runs(f, 0, g)
    BY <2>1 DEF Runs
  <2>3. QED
    BY <1>1, <2>2
<1>3. ASSUME NEW n \in Nat, n \in S PROVE n + 1 \in S
  <2>1. PICK g : Runs(f, n, g)
    BY <1>1, <1>3
  <2>2. PICK h : h = [k \in 0 .. n + 1 |-> IF k = n + 1 THEN g[n] + f[n + 1] ELSE g[k]]
    OBVIOUS
  <2>3. Runs(f, n + 1, h)
    <3>1. h = [k \in 0 .. n + 1 |-> h[k]] /\ h[0] = 0
      BY <2>1, <2>2 DEF Runs
    <3>2. ASSUME NEW k \in 1 .. n + 1 PROVE h[k] = h[k - 1] + f[k]
      <4>1. CASE k = n + 1
        <5>1. h[k] = g[n] + f[n + 1] /\ h[k - 1] = g[n]
          BY <2>2, <4>1
        <5>2. QED
          BY <4>1, <5>1
      <4>2. CASE k # n + 1
        <5>1. k \in 1 .. n /\ h[k] = g[k] /\ h[k - 1] = g[k - 1]
          BY <2>2, <4>2
        <5>2. QED
          BY <2>1, <5>1 DEF Runs
      <4>3. QED
        BY <4>1, <4>2
    <3>3. QED
      BY <3>1, <3>2 DEF Runs
  <2>4. QED
    BY <1>1, <2>3
<1>4. \A n \in Nat : n \in S
  BY <1>2, <1>3, AllNumbers
<1>5. QED
  BY <1>1, <1>4

\* Running totals of two tables that agree up to n agree.
LEMMA RunsAgree ==
    ASSUME NEW n \in Nat, NEW m \in Nat, n <= m, NEW f, NEW h, \A k \in 1 .. n : f[k] = h[k],
           NEW a, Runs(f, n, a), NEW b, Runs(h, m, b)
    PROVE  \A k \in 0 .. n : a[k] = b[k]
<1>1. PICK S : S = {k \in Nat : k <= n => a[k] = b[k]}
  OBVIOUS
<1>2. 0 \in S
  BY <1>1 DEF Runs
<1>3. ASSUME NEW k \in Nat, k \in S PROVE k + 1 \in S
  <2>1. CASE k + 1 <= n
    <3>1. a[k] = b[k] /\ k + 1 \in 1 .. n /\ k + 1 \in 1 .. m /\ (k + 1) - 1 = k
      BY <1>1, <1>3, <2>1
    <3>2. a[k + 1] = a[k] + f[k + 1] /\ b[k + 1] = b[k] + h[k + 1] /\ f[k + 1] = h[k + 1]
      BY <3>1 DEF Runs
    <3>3. QED
      BY <1>1, <3>1, <3>2
  <2>2. QED
    BY <1>1, <2>1
<1>4. QED
  BY <1>1, <1>2, <1>3, AllNumbers

\* The total is the last of the running totals.
LEMMA TotalRuns ==
    ASSUME NEW n \in Nat, NEW f
    PROVE  \E g : Runs(f, n, g) /\ Total(f, n) = g[n]
<1>1. PICK g : Runs(f, n, g)
  BY RunsExist
<1>2. g = [k \in 0 .. n |-> IF k = 0 THEN 0 ELSE g[k - 1] + f[k]]
  BY <1>1 DEF Runs
<1>3. PICK c : c = CHOOSE u : u = [k \in 0 .. n |-> IF k = 0 THEN 0 ELSE u[k - 1] + f[k]]
  OBVIOUS
<1>4. c = [k \in 0 .. n |-> IF k = 0 THEN 0 ELSE c[k - 1] + f[k]]
  BY <1>2, <1>3
<1>5. Runs(f, n, c)
  BY <1>4 DEF Runs
<1>6. Total(f, n) = c[n]
  BY <1>3 DEF Total
<1>7. QED
  BY <1>5, <1>6

\* Nothing adds up to nothing.
LEMMA TotalZero ==
    ASSUME NEW f
    PROVE  Total(f, 0) = 0
<1>1. PICK g : Runs(f, 0, g) /\ Total(f, 0) = g[0]
  BY TotalRuns
<1>2. QED
  BY <1>1 DEF Runs

\* One more row adds its entry.
LEMMA TotalStep ==
    ASSUME NEW n \in Nat, NEW f
    PROVE  Total(f, n + 1) = Total(f, n) + f[n + 1]
<1>1. PICK g : Runs(f, n, g) /\ Total(f, n) = g[n]
  BY TotalRuns
<1>2. PICK h : Runs(f, n + 1, h) /\ Total(f, n + 1) = h[n + 1]
  BY TotalRuns
<1>3. \A k \in 0 .. n : g[k] = h[k]
  BY <1>1, <1>2, RunsAgree
<1>4. h[n + 1] = h[n] + f[n + 1]
  <2>1. n + 1 \in 1 .. n + 1 /\ (n + 1) - 1 = n
    OBVIOUS
  <2>2. QED
    BY <1>2, <2>1 DEF Runs
<1>5. QED
  BY <1>1, <1>2, <1>3, <1>4

\* Only the rows that are added up matter.
LEMMA TotalSame ==
    ASSUME NEW n \in Nat, NEW f, NEW h, \A k \in 1 .. n : f[k] = h[k]
    PROVE  Total(f, n) = Total(h, n)
<1>1. PICK a : Runs(f, n, a) /\ Total(f, n) = a[n]
  BY TotalRuns
<1>2. PICK b : Runs(h, n, b) /\ Total(h, n) = b[n]
  BY TotalRuns
<1>3. \A k \in 0 .. n : a[k] = b[k]
  BY <1>1, <1>2, RunsAgree
<1>4. QED
  BY <1>1, <1>2, <1>3

\* Integers add up to an integer.
LEMMA TotalInt ==
    ASSUME NEW n \in Nat, NEW f, \A k \in 1 .. n : f[k] \in Int
    PROVE  Total(f, n) \in Int
<1>1. PICK S : S = {k \in Nat : k <= n => Total(f, k) \in Int}
  OBVIOUS
<1>2. 0 \in S
  BY <1>1, TotalZero
<1>3. ASSUME NEW k \in Nat, k \in S PROVE k + 1 \in S
  <2>1. Total(f, k + 1) = Total(f, k) + f[k + 1]
    BY TotalStep
  <2>2. QED
    BY <1>1, <1>3, <2>1
<1>4. \A k \in Nat : k \in S
  BY <1>2, <1>3, AllNumbers
<1>5. QED
  BY <1>1, <1>4

\* Rows that hold nothing add nothing: a longer table has the total of the shorter.
LEMMA TotalTail ==
    ASSUME NEW n \in Nat, NEW m \in Nat, n <= m, NEW f, \A k \in 1 .. n : f[k] \in Int,
           \A k \in n + 1 .. m : f[k] = 0
    PROVE  Total(f, m) = Total(f, n)
<1>0. Total(f, n) \in Int
  BY TotalInt
<1>1. PICK S : S = {d \in Nat : n + d <= m => Total(f, n + d) = Total(f, n)}
  OBVIOUS
<1>2. 0 \in S
  BY <1>1
<1>3. ASSUME NEW d \in Nat, d \in S PROVE d + 1 \in S
  <2>1. CASE n + (d + 1) <= m
    <3>1. n + d \in Nat /\ n + (d + 1) = (n + d) + 1 /\ (n + d) + 1 \in n + 1 .. m /\ n + d <= m
      BY <2>1
    <3>2. Total(f, (n + d) + 1) = Total(f, n + d) + f[(n + d) + 1]
      BY <3>1, TotalStep
    <3>3. Total(f, n + d) = Total(f, n) /\ f[(n + d) + 1] = 0
      BY <1>1, <1>3, <3>1
    <3>4. QED
      BY <1>0, <1>1, <3>1, <3>2, <3>3
  <2>2. QED
    BY <1>1, <2>1
<1>4. \A d \in Nat : d \in S
  BY <1>2, <1>3, AllNumbers
<1>5. m - n \in S /\ n + (m - n) = m
  BY <1>4
<1>6. QED
  BY <1>1, <1>5

LEMMA TotalNone ==
    ASSUME NEW m \in Nat, NEW f, \A k \in 1 .. m : f[k] = 0
    PROVE  Total(f, m) = 0
<1>1. Total(f, m) = Total(f, 0)
  BY TotalTail
<1>2. QED
  BY <1>1, TotalZero

\* Sums add up row by row.
LEMMA TotalAdds ==
    ASSUME NEW n \in Nat, NEW f, NEW g, NEW h,
           \A k \in 1 .. n : f[k] \in Int /\ g[k] \in Int /\ h[k] = f[k] + g[k]
    PROVE  Total(h, n) = Total(f, n) + Total(g, n)
<1>1. PICK S : S = {k \in Nat : k <= n => Total(f, k) \in Int /\ Total(g, k) \in Int /\ Total(h, k) = Total(f, k) + Total(g, k)}
  OBVIOUS
<1>2. 0 \in S
  BY <1>1, TotalZero
<1>3. ASSUME NEW k \in Nat, k \in S PROVE k + 1 \in S
  <2>1. /\ Total(f, k + 1) = Total(f, k) + f[k + 1]
        /\ Total(g, k + 1) = Total(g, k) + g[k + 1]
        /\ Total(h, k + 1) = Total(h, k) + h[k + 1]
    BY TotalStep
  <2>2. CASE k + 1 <= n
    <3>1. k <= n /\ k + 1 \in 1 .. n
      BY <2>2
    <3>2. Total(f, k) \in Int /\ Total(g, k) \in Int /\ Total(h, k) = Total(f, k) + Total(g, k)
      BY <1>1, <1>3, <3>1
    <3>3. f[k + 1] \in Int /\ g[k + 1] \in Int /\ h[k + 1] = f[k + 1] + g[k + 1]
      BY <3>1
    <3>4. QED
      BY <1>1, <2>1, <3>2, <3>3
  <2>3. QED
    BY <1>1, <2>2
<1>4. \A k \in Nat : k \in S
  BY <1>2, <1>3, AllNumbers
<1>5. QED
  BY <1>1, <1>4

\* A table whose entries differ in row p only.
LEMMA TotalDiffers ==
    ASSUME NEW n \in Nat, NEW f, NEW h, NEW p \in 1 .. n, NEW d \in Int,
           \A k \in 1 .. n : f[k] \in Int /\ h[k] = IF k = p THEN f[k] + d ELSE f[k]
    PROVE  Total(h, n) = Total(f, n) + d
<1>1. PICK g : g = [k \in 1 .. n |-> IF k = p THEN d ELSE 0]
  OBVIOUS
<1>2. Total(h, n) = Total(f, n) + Total(g, n)
  BY <1>1, TotalAdds
<1>3. Total(g, n) = Total(g, p)
  <2>1. \A k \in p + 1 .. n : g[k] = 0
    BY <1>1
  <2>2. p \in Nat /\ p <= n /\ \A k \in 1 .. p : g[k] \in Int
    BY <1>1
  <2>3. QED
    BY <2>1, <2>2, TotalTail
<1>4. Total(g, p) = d
  <2>1. p - 1 \in Nat /\ (p - 1) + 1 = p /\ g[p] = d /\ \A k \in 1 .. p - 1 : g[k] = 0
    BY <1>1
  <2>2. Total(g, (p - 1) + 1) = Total(g, p - 1) + g[(p - 1) + 1]
    BY <2>1, TotalStep
  <2>3. Total(g, p - 1) = 0
    BY <2>1, TotalNone
  <2>4. QED
    BY <2>1, <2>2, <2>3
<1>5. QED
  BY <1>2, <1>3, <1>4

\* Entries that are not negative: a longer prefix holds no less.
LEMMA TotalGrows ==
    ASSUME NEW n \in Nat, NEW f, \A k \in 1 .. n : f[k] \in Nat
    PROVE  \A m \in 0 .. n : Total(f, m) \in Nat /\ Total(f, m) <= Total(f, n)
<1>1. PICK S : S = {k \in Nat : k <= n => \A m \in 0 .. k : Total(f, m) \in Nat /\ Total(f, m) <= Total(f, k)}
  OBVIOUS
<1>2. 0 \in S
  <2>1. \A m \in 0 .. 0 : m = 0
    OBVIOUS
  <2>2. QED
    BY <1>1, <2>1, TotalZero
<1>3. ASSUME NEW k \in Nat, k \in S PROVE k + 1 \in S
  <2>1. Total(f, k + 1) = Total(f, k) + f[k + 1]
    BY TotalStep
  <2>2. ASSUME k + 1 <= n, NEW m \in 0 .. k + 1
        PROVE Total(f, m) \in Nat /\ Total(f, m) <= Total(f, k + 1)
    <3>1. k \in 0 .. k /\ k <= n /\ k + 1 \in 1 .. n
      BY <2>2
    <3>2. Total(f, k) \in Nat /\ f[k + 1] \in Nat
      BY <1>1, <1>3, <3>1
    <3>3. CASE m = k + 1
      BY <2>1, <3>2, <3>3
    <3>4. CASE m \in 0 .. k
      <4>1. Total(f, m) \in Nat /\ Total(f, m) <= Total(f, k)
        BY <1>1, <1>3, <3>1, <3>4
      <4>2. QED
        BY <2>1, <3>2, <4>1
    <3>5. QED
      BY <3>3, <3>4
  <2>3. QED
    BY <1>1, <2>2
<1>4. \A k \in Nat : k \in S
  BY <1>2, <1>3, AllNumbers
<1>5. QED
  BY <1>1, <1>4

\* A table with one row more.
LEMMA TotalAppended ==
    ASSUME NEW n \in Nat, NEW f, NEW h, \A k \in 1 .. n : f[k] \in Int /\ h[k] = f[k], h[n + 1] \in Int
    PROVE  Total(h, n + 1) = Total(f, n) + h[n + 1] /\ Total(f, n) \in Int /\ Total(h, n + 1) \in Int
<1>1. Total(h, n + 1) = Total(h, n) + h[n + 1]
  BY TotalStep
<1>2. Total(h, n) = Total(f, n)
  BY TotalSame
<1>3. Total(f, n) \in Int
  BY TotalInt
<1>4. QED
  BY <1>1, <1>2, <1>3

\* A share is no more than what there is.
LEMMA ShareBounds ==
    ASSUME NEW n \in Nat, NEW f, \A k \in 1 .. n : f[k] \in Nat, NEW q \in Int, NEW i \in 1 .. n
    PROVE  Share(f, q, i) \in Nat /\ Share(f, q, i) <= f[i]
<1>1. i - 1 \in Nat /\ \A k \in 1 .. i - 1 : f[k] \in Int
  OBVIOUS
<1>2. Total(f, i - 1) \in Int
  BY <1>1, TotalInt
<1>3. f[i] \in Nat /\ q - Total(f, i - 1) \in Int
  BY <1>2
<1>4. QED
  BY <1>3 DEF Share

\* Nothing is taken from an entry before the ones in front of it are exhausted.
LEMMA ShareOrder ==
    ASSUME NEW n \in Nat, NEW f, \A k \in 1 .. n : f[k] \in Nat, NEW q \in Int,
           NEW i \in 1 .. n, NEW j \in 1 .. n, i < j, Share(f, q, j) > 0
    PROVE  Share(f, q, i) = f[i]
<1>1. /\ i - 1 \in Nat /\ j - 1 \in Nat /\ i \in 0 .. j - 1 /\ (i - 1) + 1 = i /\ f[i] \in Nat /\ f[j] \in Nat
      /\ (\A k \in 1 .. j - 1 : f[k] \in Nat) /\ (\A k \in 1 .. i - 1 : f[k] \in Int)
  OBVIOUS
<1>2. Total(f, i) \in Nat /\ Total(f, i) <= Total(f, j - 1)
  BY <1>1, TotalGrows
<1>3. Total(f, i) = Total(f, i - 1) + f[i]
  <2>1. Total(f, (i - 1) + 1) = Total(f, i - 1) + f[(i - 1) + 1]
    BY <1>1, TotalStep
  <2>2. QED
    BY <1>1, <2>1
<1>4. Total(f, i - 1) \in Int /\ Total(f, j - 1) \in Int
  <2>1. \A k \in 1 .. j - 1 : f[k] \in Int
    BY <1>1
  <2>2. QED
    BY <1>1, <2>1, TotalInt
<1>5. q - Total(f, j - 1) > 0
  <2>1. PICK w \in Int : w = q - Total(f, j - 1)
    BY <1>4
  <2>2. QED
    BY <1>1, <2>1 DEF Share
<1>6. PICK w \in Int : w = q - Total(f, i - 1)
  BY <1>4
<1>7. w > 0 /\ ~(w < f[i])
  BY <1>1, <1>2, <1>3, <1>4, <1>5, <1>6
<1>8. QED
  BY <1>6, <1>7 DEF Share

\* All of q is taken if there is so much, and everything otherwise.
LEMMA ShareTotal ==
    ASSUME NEW n \in Nat, NEW f, \A k \in 1 .. n : f[k] \in Nat, NEW q \in Nat,
           NEW g, \A k \in 1 .. n : g[k] = Share(f, q, k)
    PROVE  Total(g, n) = IF q < Total(f, n) THEN q ELSE Total(f, n)
<1>1. PICK S : S = {k \in Nat : k <= n => Total(f, k) \in Nat /\ Total(g, k) = IF q < Total(f, k) THEN q ELSE Total(f, k)}
  OBVIOUS
<1>2. 0 \in S
  BY <1>1, TotalZero
<1>3. ASSUME NEW k \in Nat, k \in S PROVE k + 1 \in S
  <2>1. Total(f, k + 1) = Total(f, k) + f[k + 1] /\ Total(g, k + 1) = Total(g, k) + g[k + 1]
    BY TotalStep
  <2>2. CASE k + 1 <= n
    <3>1. k <= n /\ k + 1 \in 1 .. n /\ (k + 1) - 1 = k
      BY <2>2
    <3>2. Total(f, k) \in Nat /\ Total(g, k) = IF q < Total(f, k) THEN q ELSE Total(f, k)
      BY <1>1, <1>3, <3>1
    <3>3. f[k + 1] \in Nat /\ g[k + 1] = Share(f, q, k + 1)
      BY <3>1
    <3>4. PICK w \in Int : w = q - Total(f, k)
      BY <3>2
    <3>5. g[k + 1] = IF w <= 0 THEN 0 ELSE IF w < f[k + 1] THEN w ELSE f[k + 1]
      BY <3>1, <3>3, <3>4 DEF Share
    <3>6. QED
      BY <1>1, <2>1, <3>2, <3>3, <3>4, <3>5
  <2>3. QED
    BY <1>1, <2>2
<1>4. \A k \in Nat : k \in S
  BY <1>2, <1>3, AllNumbers
<1>5. QED
  BY <1>1, <1>4

\* Counting the rows of a set one by one meets every number up to how many there are.
LEMMA EveryPlaceTaken ==
    ASSUME NEW n \in Nat, NEW S, NEW f, \A k \in 1 .. n : f[k] = IF k \in S THEN 1 ELSE 0
    PROVE  Total(f, n) \in Nat /\ \A p \in 1 .. Total(f, n) : \E i \in 1 .. n : i \in S /\ Total(f, i) = p
<1>1. PICK U : U = {m \in Nat : m <= n => /\ Total(f, m) \in Nat
                                        /\ \A p \in 1 .. Total(f, m) : \E i \in 1 .. m : i \in S /\ Total(f, i) = p}
  OBVIOUS
<1>2. 0 \in U
  BY <1>1, TotalZero
<1>3. ASSUME NEW m \in Nat, m \in U PROVE m + 1 \in U
  <2>1. Total(f, m + 1) = Total(f, m) + f[m + 1]
    BY TotalStep
  <2>2. CASE m + 1 <= n
    <3>1. m <= n /\ m + 1 \in 1 .. n
      BY <2>2
    <3>2. Total(f, m) \in Nat /\ \A p \in 1 .. Total(f, m) : \E i \in 1 .. m : i \in S /\ Total(f, i) = p
      BY <1>1, <1>3, <3>1
    <3>3. f[m + 1] = IF m + 1 \in S THEN 1 ELSE 0
      BY <3>1
    <3>4. ASSUME NEW p \in 1 .. Total(f, m + 1) PROVE \E i \in 1 .. m + 1 : i \in S /\ Total(f, i) = p
      <4>1. CASE p \in 1 .. Total(f, m)
        <5>1. PICK i \in 1 .. m : i \in S /\ Total(f, i) = p
          BY <3>2, <4>1
        <5>2. i \in 1 .. m + 1
          OBVIOUS
        <5>3. QED
          BY <5>1, <5>2
      <4>2. CASE p \notin 1 .. Total(f, m)
        <5>1. m + 1 \in S /\ p = Total(f, m + 1)
          BY <2>1, <3>2, <3>3, <4>2
        <5>2. m + 1 \in 1 .. m + 1
          OBVIOUS
        <5>3. QED
          BY <5>1, <5>2
      <4>3. QED
        BY <4>1, <4>2
    <3>5. Total(f, m + 1) \in Nat
      BY <2>1, <3>2, <3>3
    <3>6. QED
      BY <1>1, <3>4, <3>5
  <2>3. QED
    BY <1>1, <2>2
<1>4. \A m \in Nat : m \in U
  BY <1>2, <1>3, AllNumbers
<1>5. QED
  BY <1>1, <1>4

\* Numbers have a least one among them.
LEMMA LeastNumber ==
    ASSUME NEW T, T \subseteq Nat, T # {}
    PROVE  \E x \in T : \A y \in T : x <= y
<1>1. PICK R : R = {p \in Nat \X Nat : p[1] < p[2]}
  OBVIOUS
<1>2. IsWellFoundedOn(R, Nat)
  BY <1>1, NatLessThanWellFounded DEF OpToRel
<1>3. PICK x \in T : \A y \in T : ~(<<y, x>> \in R)
  BY <1>2, WFMin
<1>4. ASSUME NEW y \in T PROVE x <= y
  <2>1. x \in Nat /\ y \in Nat /\ ~(<<y, x>> \in R)
    BY <1>3
  <2>2. ~(y < x)
    BY <1>1, <2>1
  <2>3. QED
    BY <2>1, <2>2
<1>5. QED
  BY <1>4
=============================================================================
