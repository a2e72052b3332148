--------------------------- MODULE InventoryProofs ---------------------------
(***************************************************************************)
(* The inventory for any cells, documents, receipts, dates and bounds: the *)
(* ledger, the documents that move it, purchasing and the dated histories, *)
(* each with its part of the inductive invariant, and the theorems of the  *)
(* four together.                                                          *)
(***************************************************************************)
EXTENDS Inventory, SumProofs, FiniteSetTheorems, TLAPS

(***************************************************************************)
(* The stock ledger.                                                       *)
(***************************************************************************)

\* An allocation holds a natural number for every layer it names.
LEMMA AllocationParts ==
    ASSUME NEW f \in Allocation, NEW i
    PROVE  Part(f, i) \in Nat /\ DOMAIN f \subseteq Nat
<1>1. PICK S \in SUBSET Nat : f \in [S -> Nat]
  BY DEF Allocation
<1>2. QED
  BY <1>1 DEF Part

LEMMA EmptyAllocation == <<>> \in Allocation /\ DOMAIN <<>> = {} /\ \A i : Part(<<>>, i) = 0
<1>1. <<>> \in [{} -> Nat]
  OBVIOUS
<1>2. {} \in SUBSET Nat
  OBVIOUS
<1>3. <<>> \in Allocation
  BY <1>1, <1>2 DEF Allocation
<1>4. QED
  BY <1>1, <1>3 DEF Part

LEMMA AllocationMade ==
    ASSUME NEW f, NEW S, S \subseteq Nat, f \in [S -> Nat]
    PROVE  f \in Allocation
BY DEF Allocation

RowAdded(ms, new, r) == new = Append(ms, r)

\* What one more movement changes: the stock of its cell and what its layers have given.
RowEffect(ms, new, r) ==
    /\ new \in Seq(Movement) /\ Len(new) = Len(ms) + 1 /\ new[Len(ms) + 1] = r /\ Len(ms) \in Nat
    /\ DOMAIN ms = 1 .. Len(ms) /\ DOMAIN new = 1 .. Len(ms) + 1 /\ \A k \in DOMAIN ms : new[k] = ms[k] /\ ms[k] \in Movement
    /\ \A i : /\ DrawnFrom(ms, i, Len(ms)) \in Int
              /\ DrawnFrom(new, i, Len(ms) + 1) = DrawnFrom(ms, i, Len(ms)) + Part(r.alloc, i)
    /\ \A c : /\ StockIn(ms, c, Len(ms)) \in Int
              /\ StockIn(new, c, Len(ms) + 1) = StockIn(ms, c, Len(ms)) + (IF r.cell = c THEN r.qty ELSE 0)

LEMMA RowAppended ==
    ASSUME NEW ms \in Seq(Movement), NEW r \in Movement, NEW new, RowAdded(ms, new, r)
    PROVE  RowEffect(ms, new, r)
<1>1. PICK n \in Nat : n = Len(ms)
  OBVIOUS
<1>2. /\ new \in Seq(Movement) /\ Len(new) = n + 1 /\ new[n + 1] = r /\ DOMAIN new = 1 .. n + 1 /\ DOMAIN ms = 1 .. n
      /\ \A k \in 1 .. n : new[k] = ms[k] /\ ms[k] \in Movement
  BY <1>1 DEF RowAdded
<1>3. /\ r.qty \in Int /\ r.alloc \in Allocation
      /\ \A k \in 1 .. n : ms[k].qty \in Int /\ ms[k].alloc \in Allocation
  BY <1>2 DEF Movement
<1>4. ASSUME NEW i
      PROVE  /\ DrawnFrom(ms, i, n) \in Int
             /\ DrawnFrom(new, i, n + 1) = DrawnFrom(ms, i, n) + Part(r.alloc, i)
  <2>1. PICK f : f = [k \in 1 .. n |-> Part(ms[k].alloc, i)]
    OBVIOUS
  <2>2. PICK h : h = [k \in 1 .. n + 1 |-> Part(new[k].alloc, i)]
    OBVIOUS
  <2>3. \A k \in 1 .. n : f[k] \in Int /\ h[k] = f[k]
    BY <1>2, <1>3, <2>1, <2>2, AllocationParts
  <2>4. h[n + 1] = Part(r.alloc, i) /\ h[n + 1] \in Int
    <3>1. h[n + 1] = Part(r.alloc, i)
      BY <1>2, <2>2
    <3>2. Part(r.alloc, i) \in Nat
      BY <1>3, AllocationParts
    <3>3. QED
      BY <3>1, <3>2
  <2>5. Total(h, n + 1) = Total(f, n) + h[n + 1] /\ Total(f, n) \in Int
    BY <2>3, <2>4, TotalAppended
  <2>6. DrawnFrom(ms, i, n) = Total(f, n) /\ DrawnFrom(new, i, n + 1) = Total(h, n + 1)
    BY <2>1, <2>2 DEF DrawnFrom
  <2>7. QED
    BY <2>4, <2>5, <2>6
<1>5. ASSUME NEW c
      PROVE  /\ StockIn(ms, c, n) \in Int
             /\ StockIn(new, c, n + 1) = StockIn(ms, c, n) + (IF r.cell = c THEN r.qty ELSE 0)
  <2>1. PICK f : f = [k \in 1 .. n |-> IF ms[k].cell = c THEN ms[k].qty ELSE 0]
    OBVIOUS
  <2>2. PICK h : h = [k \in 1 .. n + 1 |-> IF new[k].cell = c THEN new[k].qty ELSE 0]
    OBVIOUS
  <2>3. \A k \in 1 .. n : f[k] \in Int /\ h[k] = f[k]
    BY <1>2, <1>3, <2>1, <2>2
  <2>4. h[n + 1] = (IF r.cell = c THEN r.qty ELSE 0) /\ h[n + 1] \in Int
    BY <1>2, <1>3, <2>2
  <2>5. Total(h, n + 1) = Total(f, n) + h[n + 1] /\ Total(f, n) \in Int
    BY <2>3, <2>4, TotalAppended
  <2>6. StockIn(ms, c, n) = Total(f, n) /\ StockIn(new, c, n + 1) = Total(h, n + 1)
    BY <2>1, <2>2 DEF StockIn
  <2>7. QED
    BY <2>4, <2>5, <2>6
<1>6. QED
  BY <1>1, <1>2, <1>4, <1>5 DEF RowEffect

\* The stock at an earlier row does not change.
LEMMA PastStock ==
    ASSUME NEW ms, NEW new, NEW c, NEW n \in Nat, \A k \in 1 .. n : new[k] = ms[k]
    PROVE  StockIn(new, c, n) = StockIn(ms, c, n)
<1>1. PICK f : f = [k \in 1 .. n |-> IF ms[k].cell = c THEN ms[k].qty ELSE 0]
  OBVIOUS
<1>2. PICK h : h = [k \in 1 .. n |-> IF new[k].cell = c THEN new[k].qty ELSE 0]
  OBVIOUS
<1>3. \A k \in 1 .. n : f[k] = h[k]
  BY <1>1, <1>2
<1>4. QED
  BY <1>1, <1>2, <1>3, TotalSame DEF StockIn

\* Nothing was drawn from a layer no movement names.
LEMMA NothingDrawn ==
    ASSUME NEW ms, NEW n \in Nat, NEW i, \A k \in 1 .. n : i \notin DOMAIN ms[k].alloc
    PROVE  DrawnFrom(ms, i, n) = 0
<1>1. PICK f : f = [k \in 1 .. n |-> Part(ms[k].alloc, i)]
  OBVIOUS
<1>2. \A k \in 1 .. n : f[k] = 0
  BY <1>1 DEF Part
<1>3. QED
  BY <1>1, <1>2, TotalNone DEF DrawnFrom

\* A layer that the movements draw from has never given more than it held.
LEMMA LeftIsNat ==
    ASSUME NEW ls \in Seq(Layer), NEW i \in DOMAIN ls
    PROVE  ls[i].left \in Nat /\ ls[i].orig \in Nat /\ ls[i].cell \in Cells /\ ls[i].cur \in Currencies
<1>1. ls[i] \in Layer
  OBVIOUS
<1>2. QED
  BY <1>1 DEF Layer

FreshLayers(add) == add \in Seq(Layer) /\ \A i \in DOMAIN add : add[i].left = add[i].orig
LayersAdded(ls, new, add) == new = ls \o add

LayersEffect(ls, new) ==
    /\ new \in Seq(Layer) /\ Len(ls) \in Nat /\ Len(new) \in Nat /\ Len(ls) <= Len(new)
    /\ DOMAIN ls = 1 .. Len(ls) /\ DOMAIN new = 1 .. Len(new)
    /\ \A i \in DOMAIN ls : new[i] = ls[i]
    /\ \A i \in DOMAIN new : i \in DOMAIN ls \/ new[i].left = new[i].orig

LEMMA LayersAppended ==
    ASSUME NEW ls \in Seq(Layer), NEW add, FreshLayers(add), NEW new, LayersAdded(ls, new, add)
    PROVE  LayersEffect(ls, new)
<1>1. PICK n \in Nat : n = Len(ls) /\ DOMAIN ls = 1 .. n
  OBVIOUS
<1>2. add \in Seq(Layer) /\ \A i \in DOMAIN add : add[i].left = add[i].orig
  BY DEF FreshLayers
<1>3. PICK m \in Nat : m = Len(add) /\ DOMAIN add = 1 .. m
  BY <1>2
<1>4. /\ new \in Seq(Layer) /\ Len(new) = n + m /\ DOMAIN new = 1 .. n + m
      /\ \A i \in 1 .. n : new[i] = ls[i]
      /\ \A i \in n + 1 .. n + m : new[i] = add[i - n]
  BY <1>1, <1>2, <1>3 DEF LayersAdded
<1>5. ASSUME NEW i \in DOMAIN new, i \notin DOMAIN ls PROVE new[i].left = new[i].orig
  <2>1. i \in n + 1 .. n + m /\ i - n \in 1 .. m
    BY <1>1, <1>4, <1>5
  <2>2. QED
    BY <1>2, <1>3, <1>4, <2>1
<1>6. QED
  BY <1>1, <1>4, <1>5 DEF LayersEffect

\* A layer table is an extension of itself.
LEMMA LayersKept == ASSUME NEW ls \in Seq(Layer) PROVE LayersEffect(ls, ls)
<1>1. Len(ls) \in Nat /\ DOMAIN ls = 1 .. Len(ls)
  OBVIOUS
<1>2. QED
  BY <1>1 DEF LayersEffect

\* The movement compensates none, or one that no other compensates, exactly.
Opposes(ms, r) ==
    r.of # 0 => /\ r.of \in DOMAIN ms /\ r.kind = "REVERSAL"
                /\ r.qty = -ms[r.of].qty /\ r.cell = ms[r.of].cell
                /\ \A k \in DOMAIN ms : ms[k].of # r.of

LEMMA OppositesKept ==
    ASSUME NEW ms \in Seq(Movement), OppositesOnce(ms), \A k \in DOMAIN ms : ms[k].of < k,
           NEW r \in Movement, Opposes(ms, r), NEW new, RowEffect(ms, new, r)
    PROVE  OppositesOnce(new)
<1>1. PICK n \in Nat : n = Len(ms) /\ DOMAIN ms = 1 .. n /\ DOMAIN new = 1 .. n + 1
  BY DEF RowEffect
<1>2. new[n + 1] = r /\ \A k \in 1 .. n : new[k] = ms[k] /\ ms[k] \in Movement
  BY <1>1 DEF RowEffect
<1>3. r.of \in Nat /\ \A k \in 1 .. n : ms[k].of \in Nat
  BY <1>2 DEF Movement
<1>4. SUFFICES ASSUME NEW k \in 1 .. n + 1, new[k].of # 0
               PROVE  /\ new[k].qty = -new[new[k].of].qty /\ new[k].cell = new[new[k].of].cell
                      /\ \A j \in 1 .. n + 1 : new[j].of = new[k].of => j = k
  BY <1>1 DEF OppositesOnce
<1>5. CASE k \in 1 .. n
  <2>1. /\ ms[k].qty = -ms[ms[k].of].qty /\ ms[k].cell = ms[ms[k].of].cell
        /\ \A j \in 1 .. n : ms[j].of = ms[k].of => j = k
    BY <1>1, <1>2, <1>4, <1>5 DEF OppositesOnce
  <2>2. ms[k].of \in 1 .. n
    BY <1>1, <1>2, <1>3, <1>4, <1>5
  <2>3. r.of # ms[k].of
    BY <1>1, <1>2, <1>3, <1>4, <1>5 DEF Opposes
  <2>4. QED
    BY <1>2, <1>5, <2>1, <2>2, <2>3
<1>6. CASE k = n + 1
  <2>1. /\ r.of \in 1 .. n /\ r.qty = -ms[r.of].qty /\ r.cell = ms[r.of].cell
        /\ \A j \in 1 .. n : ms[j].of # r.of
    BY <1>1, <1>2, <1>4, <1>6 DEF Opposes
  <2>2. QED
    BY <1>2, <1>6, <2>1
<1>7. QED
  BY <1>5, <1>6

\* Incoming goods, adjustments and reversals: a movement that draws no layer,
\* with the layers it opens.
LEMMA Entered ==
    ASSUME NEW ms, NEW ls, TablesAreSound(ms, ls),
           NEW r \in Movement, r.alloc = <<>>, Opposes(ms, r), NEW new, RowAdded(ms, new, r),
           NEW after, LayersEffect(ls, after)
    PROVE  TablesAreSound(new, after) /\ RowEffect(ms, new, r)
<1>1. ms \in Seq(Movement) /\ ls \in Seq(Layer) /\ OppositesOnce(ms) /\ OldestFirst(ls) /\ DrawnIsAllocated(ms, ls)
      /\ \A k \in DOMAIN ms : /\ DOMAIN ms[k].alloc \subseteq DOMAIN ls
                              /\ ms[k].of < k /\ (ms[k].of # 0 => ms[k].kind = "REVERSAL")
  BY DEF TablesAreSound, TablesAreTyped
<1>2. RowEffect(ms, new, r)
  BY <1>1, RowAppended
<1>3. PICK n \in Nat : n = Len(ms) /\ DOMAIN ms = 1 .. n /\ DOMAIN new = 1 .. n + 1 /\ Len(new) = n + 1
  BY <1>2 DEF RowEffect
<1>4. new[n + 1] = r /\ \A k \in 1 .. n : new[k] = ms[k]
  BY <1>2, <1>3 DEF RowEffect
<1>5. PICK m \in Nat, p \in Nat : /\ m = Len(ls) /\ DOMAIN ls = 1 .. m /\ p = Len(after) /\ DOMAIN after = 1 .. p /\ m <= p
                                  /\ \A i \in 1 .. m : after[i] = ls[i]
                                  /\ \A i \in 1 .. p : i \in 1 .. m \/ after[i].left = after[i].orig
                                  /\ after \in Seq(Layer)
  BY DEF LayersEffect
<1>6. OppositesOnce(new)
  BY <1>1, <1>2, OppositesKept
<1>7. TablesAreTyped(new, after)
  <2>1. new \in Seq(Movement) /\ after \in Seq(Layer)
    BY <1>2, <1>5 DEF RowEffect
  <2>2. DOMAIN r.alloc = {} /\ r.of \in Nat
    BY EmptyAllocation DEF Movement
  <2>3. r.of < n + 1 /\ (r.of # 0 => r.kind = "REVERSAL")
    BY <1>3, <2>2 DEF Opposes
  <2>4. ASSUME NEW k \in 1 .. n + 1
        PROVE  /\ DOMAIN new[k].alloc \subseteq 1 .. p
               /\ new[k].of < k /\ (new[k].of # 0 => new[k].kind = "REVERSAL")
    <3>1. CASE k \in 1 .. n
      BY <1>1, <1>3, <1>4, <1>5, <3>1
    <3>2. CASE k = n + 1
      BY <1>4, <2>2, <2>3, <3>2
    <3>3. QED
      BY <3>1, <3>2
  <2>5. QED
    BY <1>3, <1>5, <2>1, <2>4 DEF TablesAreTyped
<1>8. DrawnIsAllocated(new, after)
  <2>1. ASSUME NEW i \in 1 .. p PROVE after[i].left = after[i].orig - DrawnFrom(new, i, n + 1)
    <3>1. DrawnFrom(ms, i, n) \in Int /\ DrawnFrom(new, i, n + 1) = DrawnFrom(ms, i, n) + Part(r.alloc, i)
      BY <1>2, <1>3 DEF RowEffect
    <3>2. Part(r.alloc, i) = 0
      BY EmptyAllocation
    <3>3. DrawnFrom(new, i, n + 1) = DrawnFrom(ms, i, n)
      BY <3>1, <3>2
    <3>4. CASE i \in 1 .. m
      BY <1>1, <1>3, <1>5, <3>3, <3>4 DEF DrawnIsAllocated
    <3>5. CASE i \notin 1 .. m
      <4>1. \A k \in 1 .. n : i \notin DOMAIN ms[k].alloc
        BY <1>1, <1>3, <1>5, <3>5
      <4>2. DrawnFrom(ms, i, n) = 0
        BY <4>1, NothingDrawn
      <4>3. after[i].left = after[i].orig /\ after[i].orig \in Nat
        BY <1>5, <3>5, LeftIsNat
      <4>4. QED
        BY <3>3, <4>2, <4>3
    <3>6. QED
      BY <3>4, <3>5
  <2>2. QED
    BY <1>3, <1>5, <2>1 DEF DrawnIsAllocated
<1>9. OldestFirst(after)
  <2>1. SUFFICES ASSUME NEW i \in 1 .. p, NEW j \in 1 .. p, i < j, after[i].cell = after[j].cell,
                        after[i].cur = after[j].cur, after[j].left < after[j].orig
                 PROVE  after[i].left = 0
    BY <1>5 DEF OldestFirst
  <2>2. after[j].orig \in Nat
    BY <1>5, LeftIsNat
  <2>3. j \in 1 .. m
    BY <1>5, <2>1, <2>2
  <2>4. i \in 1 .. m
    BY <2>1, <2>3
  <2>5. QED
    BY <1>1, <1>5, <2>1, <2>3, <2>4 DEF OldestFirst
<1>10. QED
  BY <1>2, <1>6, <1>7, <1>8, <1>9 DEF TablesAreSound

\* What an outgoing movement may take: no more than the layers hold, and from a
\* layer only when the older ones of its cell and currency are used up.
AllocationFits(ls, a) ==
    /\ a \in Allocation /\ DOMAIN a \subseteq DOMAIN ls
    /\ \A i \in DOMAIN ls : Part(a, i) <= ls[i].left
    /\ \A i, j \in DOMAIN ls :
          (i < j /\ ls[i].cell = ls[j].cell /\ ls[i].cur = ls[j].cur /\ Part(a, j) > 0) => Part(a, i) = ls[i].left

LayersDrawn(ls, new, a) == new = [i \in DOMAIN ls |-> [ls[i] EXCEPT !.left = @ - Part(a, i)]]

LEMMA DrawnRows ==
    ASSUME NEW ls \in Seq(Layer), NEW a, AllocationFits(ls, a), NEW new, LayersDrawn(ls, new, a)
    PROVE  /\ new \in Seq(Layer) /\ DOMAIN new = DOMAIN ls /\ Len(new) = Len(ls)
           /\ \A i \in DOMAIN ls : /\ new[i].left = ls[i].left - Part(a, i) /\ new[i].cell = ls[i].cell
                                   /\ new[i].cur = ls[i].cur /\ new[i].orig = ls[i].orig /\ Part(a, i) \in Nat
<1>1. PICK m \in Nat : m = Len(ls) /\ DOMAIN ls = 1 .. m
  OBVIOUS
<1>2. \A i \in 1 .. m : ls[i] \in Layer
  BY <1>1
<1>3. \A i \in 1 .. m : Part(a, i) \in Nat /\ Part(a, i) <= ls[i].left
  BY <1>1, AllocationParts DEF AllocationFits
<1>4. DOMAIN new = 1 .. m /\ \A i \in 1 .. m : new[i] = [ls[i] EXCEPT !.left = @ - Part(a, i)]
  BY <1>1 DEF LayersDrawn
<1>5. ASSUME NEW i \in 1 .. m
      PROVE  /\ new[i] \in Layer /\ new[i].left = ls[i].left - Part(a, i) /\ new[i].cell = ls[i].cell
             /\ new[i].cur = ls[i].cur /\ new[i].orig = ls[i].orig
  <2>1. PICK l \in Nat, d \in Nat : l = ls[i].left /\ d = Part(a, i) /\ d <= l
    BY <1>2, <1>3 DEF Layer
  <2>2. l - d \in Nat
    BY <2>1
  <2>3. new[i] = [ls[i] EXCEPT !.left = l - d]
    BY <1>4, <2>1
  <2>4. new[i] \in Layer
    BY <1>2, <2>2, <2>3 DEF Layer
  <2>5. ls[i] \in Layer
    BY <1>2
  <2>6. QED
    BY <2>1, <2>3, <2>4, <2>5 DEF Layer
<1>6. new = [i \in 1 .. m |-> [ls[i] EXCEPT !.left = @ - Part(a, i)]]
  BY <1>1 DEF LayersDrawn
<1>7. new = [i \in 1 .. m |-> new[i]]
  BY <1>4, <1>6
<1>8. new \in Seq(Layer) /\ Len(new) = m
  BY <1>5, <1>7
<1>9. QED
  BY <1>1, <1>3, <1>4, <1>5, <1>8

\* Outgoing goods.
LEMMA Issued ==
    ASSUME NEW ms, NEW ls, TablesAreSound(ms, ls),
           NEW r \in Movement, r.of = 0, AllocationFits(ls, r.alloc), NEW new, RowAdded(ms, new, r),
           NEW after, LayersDrawn(ls, after, r.alloc)
    PROVE  TablesAreSound(new, after) /\ RowEffect(ms, new, r)
<1>1. ms \in Seq(Movement) /\ ls \in Seq(Layer) /\ OppositesOnce(ms) /\ OldestFirst(ls) /\ DrawnIsAllocated(ms, ls)
      /\ \A k \in DOMAIN ms : /\ DOMAIN ms[k].alloc \subseteq DOMAIN ls
                              /\ ms[k].of < k /\ (ms[k].of # 0 => ms[k].kind = "REVERSAL")
  BY DEF TablesAreSound, TablesAreTyped
<1>2. RowEffect(ms, new, r)
  BY <1>1, RowAppended
<1>3. PICK n \in Nat : n = Len(ms) /\ DOMAIN ms = 1 .. n /\ DOMAIN new = 1 .. n + 1 /\ Len(new) = n + 1
  BY <1>2 DEF RowEffect
<1>4. new[n + 1] = r /\ \A k \in 1 .. n : new[k] = ms[k]
  BY <1>2, <1>3 DEF RowEffect
<1>5. /\ after \in Seq(Layer) /\ DOMAIN after = DOMAIN ls
      /\ \A i \in DOMAIN ls : /\ after[i].left = ls[i].left - Part(r.alloc, i) /\ after[i].cell = ls[i].cell
                              /\ after[i].cur = ls[i].cur /\ after[i].orig = ls[i].orig /\ Part(r.alloc, i) \in Nat
  BY <1>1, DrawnRows
<1>6. OppositesOnce(new)
  <2>1. Opposes(ms, r)
    BY DEF Opposes
  <2>2. QED
    BY <1>1, <1>2, <2>1, OppositesKept
<1>7. TablesAreTyped(new, after)
  <2>1. new \in Seq(Movement)
    BY <1>2 DEF RowEffect
  <2>2. DOMAIN r.alloc \subseteq DOMAIN ls
    BY DEF AllocationFits
  <2>3. ASSUME NEW k \in 1 .. n + 1
        PROVE  /\ DOMAIN new[k].alloc \subseteq DOMAIN after
               /\ new[k].of < k /\ (new[k].of # 0 => new[k].kind = "REVERSAL")
    <3>1. CASE k \in 1 .. n
      BY <1>1, <1>3, <1>4, <1>5, <3>1
    <3>2. CASE k = n + 1
      BY <1>4, <1>5, <2>2, <3>2
    <3>3. QED
      BY <3>1, <3>2
  <2>4. QED
    BY <1>3, <1>5, <2>1, <2>3 DEF TablesAreTyped
<1>8. DrawnIsAllocated(new, after)
  <2>1. ASSUME NEW i \in DOMAIN ls PROVE after[i].left = after[i].orig - DrawnFrom(new, i, n + 1)
    <3>1. DrawnFrom(ms, i, n) \in Int /\ DrawnFrom(new, i, n + 1) = DrawnFrom(ms, i, n) + Part(r.alloc, i)
      BY <1>2, <1>3 DEF RowEffect
    <3>2. ls[i].left = ls[i].orig - DrawnFrom(ms, i, n) /\ ls[i].orig \in Nat
      BY <1>1, <1>3, LeftIsNat DEF DrawnIsAllocated
    <3>3. PICK o \in Nat, d \in Int, e \in Nat : o = ls[i].orig /\ d = DrawnFrom(ms, i, n) /\ e = Part(r.alloc, i)
      BY <1>5, <3>1, <3>2
    <3>4. after[i].left = (o - d) - e /\ after[i].orig = o /\ DrawnFrom(new, i, n + 1) = d + e
      BY <1>5, <3>1, <3>2, <3>3
    <3>5. (o - d) - e = o - (d + e)
      BY <3>3
    <3>6. QED
      BY <3>4, <3>5
  <2>2. QED
    BY <1>3, <1>5, <2>1 DEF DrawnIsAllocated
<1>9. OldestFirst(after)
  <2>1. SUFFICES ASSUME NEW i \in DOMAIN ls, NEW j \in DOMAIN ls, i < j, ls[i].cell = ls[j].cell,
                        ls[i].cur = ls[j].cur, ls[j].left - Part(r.alloc, j) < ls[j].orig
                 PROVE  ls[i].left - Part(r.alloc, i) = 0
    BY <1>5 DEF OldestFirst
  <2>2. ls[i].left \in Nat /\ Part(r.alloc, i) \in Nat /\ Part(r.alloc, i) <= ls[i].left
    BY <1>1, <1>5, LeftIsNat DEF AllocationFits
  <2>3. ls[j].left \in Nat /\ ls[j].orig \in Nat /\ Part(r.alloc, j) \in Nat
    BY <1>1, <1>5, LeftIsNat
  <2>4. CASE Part(r.alloc, j) > 0
    <3>1. Part(r.alloc, i) = ls[i].left
      BY <2>1, <2>4 DEF AllocationFits
    <3>2. QED
      BY <2>2, <3>1
  <2>5. CASE Part(r.alloc, j) = 0
    <3>1. ls[j].left < ls[j].orig
      BY <2>1, <2>3, <2>5
    <3>2. ls[i].left = 0
      BY <1>1, <2>1, <3>1 DEF OldestFirst
    <3>3. QED
      BY <2>2, <3>2
  <2>6. QED
    BY <2>3, <2>4, <2>5
<1>10. QED
  BY <1>2, <1>6, <1>7, <1>8, <1>9 DEF TablesAreSound

\* First in, first out takes what the open layers hold, oldest first.
LEMMA FifoFits ==
    ASSUME layers \in Seq(Layer), NEW c, NEW q \in Int
    PROVE  /\ AllocationFits(layers, Fifo(c, q))
           /\ DOMAIN layers = LayerRows
           /\ \A i \in DOMAIN Fifo(c, q) : i \in LayerRows
<1>1. PICK m \in Nat : m = Len(layers) /\ DOMAIN layers = 1 .. m /\ LayerRows = 1 .. m
  BY DEF LayerRows
<1>2. PICK f : f = Available(c)
  OBVIOUS
<1>3. PICK a : a = Fifo(c, q)
  OBVIOUS
<1>4. \A i \in 1 .. m : layers[i].left \in Nat /\ f[i] = IF i \in Reach(c) THEN layers[i].left ELSE 0
  BY <1>1, <1>2, LeftIsNat DEF Available
<1>5. \A i \in 1 .. m : f[i] \in Nat /\ f[i] <= layers[i].left
  BY <1>4
<1>6. \A i \in 1 .. m : Share(f, q, i) \in Nat /\ Share(f, q, i) <= f[i]
  BY <1>5, ShareBounds
<1>7. a = [i \in {j \in 1 .. m : Share(f, q, j) > 0} |-> Share(f, q, i)]
  BY <1>1, <1>2, <1>3 DEF Fifo, Take
<1>8. a \in Allocation
  <2>1. PICK S : S = {j \in 1 .. m : Share(f, q, j) > 0}
    OBVIOUS
  <2>2. S \subseteq Nat /\ a = [i \in S |-> Share(f, q, i)] /\ \A i \in S : Share(f, q, i) \in Nat
    BY <1>6, <1>7, <2>1
  <2>3. a \in [S -> Nat]
    BY <2>2
  <2>4. QED
    BY <2>2, <2>3, AllocationMade
<1>9. ASSUME NEW i \in 1 .. m PROVE Part(a, i) = Share(f, q, i)
  <2>1. CASE Share(f, q, i) > 0
    BY <1>7, <2>1 DEF Part
  <2>2. CASE Share(f, q, i) = 0
    BY <1>7, <2>2 DEF Part
  <2>3. QED
    BY <1>6, <2>1, <2>2
<1>10. \A i \in 1 .. m : Part(a, i) <= layers[i].left
  BY <1>5, <1>6, <1>9, <1>4
<1>11. ASSUME NEW i \in 1 .. m, NEW j \in 1 .. m, i < j, layers[i].cell = layers[j].cell,
              layers[i].cur = layers[j].cur, Part(a, j) > 0
       PROVE  Part(a, i) = layers[i].left
  <2>1. Share(f, q, j) > 0
    BY <1>9, <1>11
  <2>2. j \in Reach(c)
    BY <1>4, <1>6, <2>1
  <2>3. Part(a, i) = f[i]
    BY <1>5, <1>9, <1>11, <2>1, ShareOrder
  <2>4. CASE layers[i].left = 0
    BY <1>4, <2>3, <2>4
  <2>5. CASE layers[i].left > 0
    <3>1. j \in Open(c) /\ \A k \in Open(c) : k <= j => layers[k].cur = layers[j].cur
      BY <2>2 DEF Reach
    <3>2. i \in Open(c)
      BY <1>1, <1>11, <2>5, <3>1 DEF Open
    <3>3. \A k \in Open(c) : k \in 1 .. m
      BY <1>1 DEF Open
    <3>4. \A k \in Open(c) : k <= i => layers[k].cur = layers[i].cur
      BY <1>11, <3>1, <3>3
    <3>5. i \in Reach(c)
      BY <3>2, <3>4 DEF Reach
    <3>6. QED
      BY <1>4, <2>3, <3>5
  <2>6. QED
    BY <1>4, <2>4, <2>5
<1>12. DOMAIN a \subseteq 1 .. m
  BY <1>7
<1>13. AllocationFits(layers, a)
  BY <1>1, <1>8, <1>10, <1>11, <1>12 DEF AllocationFits
<1>14. QED
  BY <1>1, <1>3, <1>12, <1>13

\* A quantity that the layers cover is drawn from one at least.
LEMMA CoveredFromALayer ==
    ASSUME layers \in Seq(Layer), NEW c, NEW q \in Nat, q > 0, Covered(c, q)
    PROVE  AllocatedCurrency(c, q) \in Currencies
<1>1. PICK m \in Nat : m = Len(layers) /\ DOMAIN layers = 1 .. m /\ LayerRows = 1 .. m
  BY DEF LayerRows
<1>2. PICK f : f = [i \in LayerRows |-> Part(Fifo(c, q), i)]
  OBVIOUS
<1>3. Total(f, m) = q
  BY <1>1, <1>2 DEF Covered
<1>4. DOMAIN Fifo(c, q) # {}
  <2>1. SUFFICES ASSUME DOMAIN Fifo(c, q) = {} PROVE FALSE
    OBVIOUS
  <2>2. \A i \in 1 .. m : f[i] = 0
    BY <1>1, <1>2, <2>1 DEF Part
  <2>3. Total(f, m) = 0
    BY <2>2, TotalNone
  <2>4. QED
    BY <1>3, <2>3
<1>5. PICK k : k = CHOOSE i \in DOMAIN Fifo(c, q) : TRUE
  OBVIOUS
<1>6. k \in DOMAIN Fifo(c, q)
  BY <1>4, <1>5
<1>7. k \in DOMAIN layers
  BY <1>6, FifoFits
<1>8. layers[k].cur \in Currencies
  BY <1>7, LeftIsNat
<1>9. QED
  BY <1>5, <1>8 DEF AllocatedCurrency

\* What every step of the services does to the two tables: rows are added, none
\* is changed, no layer disappears.
TablesGrow(ms, ls, new, after) ==
    /\ TablesAreSound(new, after) /\ ms \in Seq(Movement) /\ new \in Seq(Movement)
    /\ Len(ms) \in Nat /\ Len(new) \in Nat /\ Len(ms) <= Len(new)
    /\ DOMAIN ms = 1 .. Len(ms) /\ DOMAIN new = 1 .. Len(new) /\ \A k \in 1 .. Len(ms) : new[k] = ms[k]
    /\ Len(ls) \in Nat /\ Len(after) \in Nat /\ Len(ls) <= Len(after)

OneMore(r) == RowEffect(moves, moves', r) /\ TablesGrow(moves, layers, moves', layers')

LEMMA RowsTyped ==
    ASSUME NEW c \in Cells, NEW kind \in Kinds, NEW q \in Int, NEW of \in Nat, NEW a \in Allocation
    PROVE  /\ Move(c, kind, q, of, a) \in Movement /\ Move(c, kind, q, of, a).cell = c
           /\ Move(c, kind, q, of, a).kind = kind /\ Move(c, kind, q, of, a).qty = q
           /\ Move(c, kind, q, of, a).of = of /\ Move(c, kind, q, of, a).alloc = a
BY DEF Move, Movement

LEMMA GrownByOne ==
    ASSUME LedgerInv, TablesAreSound(moves', layers'), NEW r, RowEffect(moves, moves', r), Len(layers) <= Len(layers')
    PROVE  OneMore(r)
<1>1. /\ moves \in Seq(Movement) /\ moves' \in Seq(Movement) /\ layers \in Seq(Layer) /\ layers' \in Seq(Layer)
  BY DEF LedgerInv, TablesAreSound, TablesAreTyped
<1>2. Len(layers) \in Nat /\ Len(layers') \in Nat
  BY <1>1
<1>3. /\ Len(moves) \in Nat /\ Len(moves') = Len(moves) + 1 /\ DOMAIN moves = 1 .. Len(moves)
      /\ DOMAIN moves' = 1 .. Len(moves) + 1 /\ \A k \in DOMAIN moves : moves'[k] = moves[k]
  BY DEF RowEffect
<1>4. QED
  BY <1>1, <1>2, <1>3 DEF OneMore, TablesGrow

LEMMA ReceiveSound ==
    ASSUME LedgerInv, NEW c \in Cells, NEW kind \in Kinds, NEW q \in Int, NEW add, FreshLayers(add),
           Receive(c, kind, q, add)
    PROVE  OneMore(Move(c, kind, q, 0, <<>>))
<1>1. TablesAreSound(moves, layers) /\ layers \in Seq(Layer)
  BY DEF LedgerInv, TablesAreSound, TablesAreTyped
<1>2. PICK r : r = Move(c, kind, q, 0, <<>>)
  OBVIOUS
<1>3. r \in Movement /\ r.alloc = <<>> /\ r.of = 0
  <2>1. <<>> \in Allocation /\ 0 \in Nat
    BY EmptyAllocation
  <2>2. QED
    BY <1>2, <2>1, RowsTyped
<1>4. RowAdded(moves, moves', r) /\ LayersAdded(layers, layers', add)
  BY <1>2 DEF Receive, RowAdded, LayersAdded
<1>5. LayersEffect(layers, layers')
  BY <1>1, <1>4, LayersAppended
<1>6. Opposes(moves, r)
  BY <1>3 DEF Opposes
<1>7. TablesAreSound(moves', layers') /\ RowEffect(moves, moves', r)
  BY <1>1, <1>3, <1>4, <1>5, <1>6, Entered
<1>8. Len(layers) <= Len(layers')
  BY <1>5 DEF LayersEffect
<1>9. QED
  BY <1>2, <1>7, <1>8, GrownByOne

LEMMA AdjustSound ==
    ASSUME LedgerInv, NEW c \in Cells, NEW v \in Int, Adjust(c, v)
    PROVE  OneMore(Move(c, "ADJUSTMENT", v, 0, <<>>))
<1>1. TablesAreSound(moves, layers) /\ layers \in Seq(Layer)
  BY DEF LedgerInv, TablesAreSound, TablesAreTyped
<1>2. PICK r : r = Move(c, "ADJUSTMENT", v, 0, <<>>)
  OBVIOUS
<1>3. r \in Movement /\ r.alloc = <<>> /\ r.of = 0
  <2>1. PICK kind \in Kinds : kind = "ADJUSTMENT"
    BY DEF Kinds
  <2>2. PICK none \in Allocation : none = <<>>
    BY EmptyAllocation
  <2>3. PICK zero \in Nat : zero = 0
    OBVIOUS
  <2>4. r = Move(c, kind, v, zero, none)
    BY <1>2, <2>1, <2>2, <2>3
  <2>5. r \in Movement /\ r.alloc = none /\ r.of = zero
    BY <2>4, RowsTyped
  <2>6. QED
    BY <2>2, <2>3, <2>5
<1>4. RowAdded(moves, moves', r) /\ layers' = layers
  BY <1>2 DEF Adjust, RowAdded
<1>5. LayersEffect(layers, layers')
  BY <1>1, <1>4, LayersKept
<1>6. Opposes(moves, r)
  BY <1>3 DEF Opposes
<1>7. TablesAreSound(moves', layers') /\ RowEffect(moves, moves', r)
  BY <1>1, <1>3, <1>4, <1>5, <1>6, Entered
<1>8. Len(layers) <= Len(layers')
  BY <1>5 DEF LayersEffect
<1>9. QED
  BY <1>2, <1>7, <1>8, GrownByOne

LEMMA ReverseSound ==
    ASSUME LedgerInv, NEW k \in DOMAIN moves, Reverse(k)
    PROVE  OneMore(Move(moves[k].cell, "REVERSAL", -moves[k].qty, k, <<>>))
<1>1. TablesAreSound(moves, layers) /\ layers \in Seq(Layer) /\ moves \in Seq(Movement)
  BY DEF LedgerInv, TablesAreSound, TablesAreTyped
<1>2. PICK r : r = Move(moves[k].cell, "REVERSAL", -moves[k].qty, k, <<>>)
  OBVIOUS
<1>3. moves[k].cell \in Cells /\ moves[k].qty \in Int /\ k \in Nat /\ DOMAIN moves = Rows
  <2>1. moves[k] \in Movement /\ k \in Nat /\ DOMAIN moves = Rows
    BY <1>1 DEF Rows
  <2>2. QED
    BY <2>1 DEF Movement
<1>4. r \in Movement /\ r.alloc = <<>> /\ r.of = k /\ r.kind = "REVERSAL" /\ r.qty = -moves[k].qty /\ r.cell = moves[k].cell
  <2>1. "REVERSAL" \in Kinds /\ -moves[k].qty \in Int
    BY <1>3 DEF Kinds
  <2>2. QED
    BY <1>2, <1>3, <2>1, EmptyAllocation, RowsTyped
<1>5. RowAdded(moves, moves', r) /\ layers' = layers
  BY <1>2 DEF Reverse, RowAdded
<1>6. LayersEffect(layers, layers')
  BY <1>1, <1>5, LayersKept
<1>7. Opposes(moves, r)
  BY <1>3, <1>4 DEF Opposes, Reverse, Reversible, Reversed
<1>8. TablesAreSound(moves', layers') /\ RowEffect(moves, moves', r)
  BY <1>1, <1>4, <1>5, <1>6, <1>7, Entered
<1>9. Len(layers) <= Len(layers')
  BY <1>6 DEF LayersEffect
<1>10. QED
  BY <1>2, <1>8, <1>9, GrownByOne

LEMMA IssueSound ==
    ASSUME LedgerInv, NEW c \in Cells, NEW kind \in Kinds, NEW q \in Nat, Issue(c, kind, q)
    PROVE  /\ OneMore(Move(c, kind, -q, 0, Fifo(c, q))) /\ Fifo(c, q) \in Allocation
           /\ Len(layers') = Len(layers)
<1>1. TablesAreSound(moves, layers) /\ layers \in Seq(Layer)
  BY DEF LedgerInv, TablesAreSound, TablesAreTyped
<1>2. PICK a : a = Fifo(c, q)
  OBVIOUS
<1>3. PICK r : r = Move(c, kind, -q, 0, a)
  OBVIOUS
<1>4. AllocationFits(layers, a) /\ a \in Allocation /\ DOMAIN layers = LayerRows
  BY <1>1, <1>2, FifoFits DEF AllocationFits
<1>5. r \in Movement /\ r.alloc = a /\ r.of = 0
  <2>1. -q \in Int
    OBVIOUS
  <2>2. QED
    BY <1>3, <1>4, <2>1, RowsTyped
<1>6. RowAdded(moves, moves', r) /\ LayersDrawn(layers, layers', r.alloc)
  BY <1>2, <1>3, <1>4, <1>5 DEF Issue, RowAdded, LayersDrawn, DrawDown
<1>7. TablesAreSound(moves', layers') /\ RowEffect(moves, moves', r)
  BY <1>1, <1>4, <1>5, <1>6, Issued
<1>8. Len(layers') = Len(layers)
  BY <1>1, <1>4, <1>5, <1>6, DrawnRows
<1>9. Len(layers) \in Nat
  BY <1>1
<1>10. OneMore(r)
  BY <1>7, <1>8, <1>9, GrownByOne
<1>11. QED
  BY <1>2, <1>3, <1>4, <1>8, <1>10

LEMMA OrdersFinite ==
    ASSUME NEW ms \in Seq(Movement)
    PROVE  IsFiniteSet(ConsumptionRows(ms)) /\ Cardinality(ConsumptionRows(ms)) \in Nat
<1>1. PICK n \in Nat : n = Len(ms) /\ DOMAIN ms = 1 .. n
  OBVIOUS
<1>2. IsFiniteSet(1 .. n)
  BY FS_Interval
<1>3. ConsumptionRows(ms) \subseteq 1 .. n
  BY <1>1 DEF ConsumptionRows
<1>4. IsFiniteSet(ConsumptionRows(ms))
  BY <1>2, <1>3, FS_Subset
<1>5. QED
  BY <1>4, FS_CardinalityType

LEMMA OrdersCounted ==
    ASSUME NEW ms \in Seq(Movement), NEW r, NEW new, RowEffect(ms, new, r)
    PROVE  /\ r.kind # "CONSUMPTION" => ConsumptionRows(new) = ConsumptionRows(ms)
           /\ Cardinality(ConsumptionRows(new)) <= Cardinality(ConsumptionRows(ms)) + 1
<1>1. PICK n \in Nat : n = Len(ms) /\ DOMAIN ms = 1 .. n /\ DOMAIN new = 1 .. n + 1
  BY DEF RowEffect
<1>2. new[n + 1] = r /\ \A k \in 1 .. n : new[k] = ms[k]
  BY <1>1 DEF RowEffect
<1>3. r.kind # "CONSUMPTION" => ConsumptionRows(new) = ConsumptionRows(ms)
  BY <1>1, <1>2 DEF ConsumptionRows
<1>4. r.kind = "CONSUMPTION" => ConsumptionRows(new) = ConsumptionRows(ms) \cup {n + 1}
  BY <1>1, <1>2 DEF ConsumptionRows
<1>5. n + 1 \notin ConsumptionRows(ms)
  BY <1>1 DEF ConsumptionRows
<1>6. IsFiniteSet(ConsumptionRows(ms)) /\ Cardinality(ConsumptionRows(ms)) \in Nat
  BY OrdersFinite
<1>7. Cardinality(ConsumptionRows(ms) \cup {n + 1}) = Cardinality(ConsumptionRows(ms)) + 1
  BY <1>5, <1>6, FS_AddElement
<1>8. PICK m \in Nat : m = Cardinality(ConsumptionRows(ms))
  BY <1>6
<1>9. Cardinality(ConsumptionRows(new)) \in {m, m + 1}
  BY <1>3, <1>4, <1>7, <1>8, Zenon
<1>10. Cardinality(ConsumptionRows(new)) <= m + 1
  BY <1>8, <1>9
<1>11. QED
  BY <1>3, <1>8, <1>10

\* The kinds of movement that may take a blocked cell below zero.
Unblocked == {"REVERSAL", "CONSUMPTION", "TRANSFER_OUT", "PREPARATION_INPUT", "PREPARATION_OUTPUT"}

LEMMA BlockKept ==
    ASSUME NEW r, RowEffect(moves, moves', r),
           r.cell \in blocked /\ r.qty < 0 /\ Stock(r.cell) + r.qty < 0 => r.kind \in Unblocked
    PROVE  BlockRespected
<1>1. SUFFICES ASSUME NEW c \in blocked, Len(moves') > Len(moves), Stock(c)' < 0, Stock(c)' < Stock(c)
               PROVE  moves'[Len(moves')].kind \in Unblocked
  BY DEF BlockRespected, Unblocked
<1>2. Len(moves) \in Nat /\ Len(moves') = Len(moves) + 1 /\ moves'[Len(moves')] = r
  BY DEF RowEffect
<1>3. Stock(c) = StockIn(moves, c, Len(moves)) /\ Stock(c)' = StockIn(moves', c, Len(moves'))
  BY Zenon DEF Stock, StockAt
<1>4. PICK s, t, q : s = StockIn(moves, c, Len(moves)) /\ t = StockIn(moves', c, Len(moves) + 1) /\ q = r.qty
  OBVIOUS
<1>5. s \in Int /\ t = s + (IF r.cell = c THEN q ELSE 0)
  BY <1>4 DEF RowEffect
<1>6. Stock(c) = s /\ t < 0 /\ t < s
  BY <1>1, <1>2, <1>3, <1>4
<1>7. r.cell = c
  BY <1>5, <1>6
<1>8. t = s + q
  BY <1>5, <1>7
<1>9. r.qty \in Int
  <2>1. moves' \in Seq(Movement) /\ Len(moves') \in DOMAIN moves'
    BY <1>2 DEF RowEffect
  <2>2. moves'[Len(moves')] \in Movement
    BY <2>1
  <2>3. QED
    BY <1>2, <2>2 DEF Movement
<1>10. q < 0
  BY <1>4, <1>5, <1>6, <1>8, <1>9
<1>11. QED
  BY <1>1, <1>2, <1>4, <1>6, <1>7, <1>8, <1>10

LedgerGoal == LedgerInv' /\ TablesGrow(moves, layers, moves', layers') /\ BlockRespected

LEMMA LedgerSame ==
    ASSUME LedgerInv, moves' = moves, layers' = layers, blocked' \subseteq Cells, active' \subseteq Cells, consumed' \subseteq Orders,
           IsFiniteSet(consumed'), Cardinality(consumed) <= Cardinality(consumed')
    PROVE  LedgerGoal
<1>1. /\ TablesAreSound(moves, layers) /\ moves \in Seq(Movement) /\ layers \in Seq(Layer)
      /\ IsFiniteSet(consumed) /\ Cardinality(ConsumptionRows(moves)) <= Cardinality(consumed)
  BY DEF LedgerInv, TablesAreSound, TablesAreTyped
<1>2. Cardinality(ConsumptionRows(moves)) \in Nat /\ Cardinality(consumed) \in Nat /\ Cardinality(consumed') \in Nat
  BY <1>1, OrdersFinite, FS_CardinalityType
<1>3. Cardinality(ConsumptionRows(moves)) <= Cardinality(consumed')
  BY <1>1, <1>2
<1>4. Len(moves) \in Nat /\ DOMAIN moves = 1 .. Len(moves) /\ Len(layers) \in Nat
  BY <1>1
<1>5. LedgerInv'
  BY <1>1, <1>3 DEF LedgerInv
<1>6. TablesGrow(moves, layers, moves', layers')
  BY <1>1, <1>4 DEF TablesGrow
<1>7. BlockRespected
  BY <1>4 DEF BlockRespected
<1>8. QED
  BY <1>5, <1>6, <1>7 DEF LedgerGoal

LEMMA LedgerOneMore ==
    ASSUME LedgerInv, NEW r, OneMore(r), r.kind # "CONSUMPTION", blocked' = blocked, active' = active, consumed' = consumed,
           r.cell \in blocked /\ r.qty < 0 /\ Stock(r.cell) + r.qty < 0 => r.kind \in Unblocked
    PROVE  LedgerGoal
<1>1. moves \in Seq(Movement)
  BY DEF LedgerInv, TablesAreSound, TablesAreTyped
<1>2. RowEffect(moves, moves', r) /\ TablesGrow(moves, layers, moves', layers') /\ TablesAreSound(moves', layers')
  BY DEF OneMore, TablesGrow
<1>3. ConsumptionRows(moves') = ConsumptionRows(moves)
  BY <1>1, <1>2, OrdersCounted
<1>4. LedgerInv'
  BY <1>2, <1>3 DEF LedgerInv
<1>5. BlockRespected
  BY <1>2, BlockKept
<1>6. QED
  BY <1>2, <1>4, <1>5 DEF LedgerGoal

\* An incoming movement of a positive quantity, whatever the policy.
LEMMA ReceiveGoal ==
    ASSUME LedgerInv, NEW c \in Cells, NEW kind \in Kinds, kind # "CONSUMPTION", NEW q \in Nat, NEW add, FreshLayers(add),
           Receive(c, kind, q, add), KeepCells
    PROVE  LedgerGoal
<1>1. PICK r : r = Move(c, kind, q, 0, <<>>)
  OBVIOUS
<1>2. OneMore(r)
  BY <1>1, ReceiveSound
<1>3. r.kind = kind /\ r.qty = q
  BY <1>1 DEF Move
<1>4. QED
  BY <1>2, <1>3, LedgerOneMore DEF KeepCells

\* An outgoing movement tested against the policy, or of an excepted kind.
LEMMA IssueGoal ==
    ASSUME LedgerInv, NEW c \in Cells, NEW kind \in Kinds, kind # "CONSUMPTION", NEW q \in Nat,
           NotBlocked(c, q) \/ kind \in Unblocked, Issue(c, kind, q), KeepCells
    PROVE  LedgerGoal
<1>1. PICK r : r = Move(c, kind, -q, 0, Fifo(c, q))
  OBVIOUS
<1>2. OneMore(r)
  BY <1>1, IssueSound
<1>3. r.kind = kind /\ r.qty = -q /\ r.cell = c
  BY <1>1 DEF Move
<1>4. Stock(c) \in Int
  BY <1>2 DEF OneMore, RowEffect, Stock, StockAt
<1>5. c \in blocked /\ Stock(c) + (-q) < 0 => kind \in Unblocked
  BY <1>4 DEF NotBlocked
<1>6. QED
  BY <1>2, <1>3, <1>5, LedgerOneMore DEF KeepCells

LEMMA ReverseGoal ==
    ASSUME LedgerInv, NEW k \in DOMAIN moves, Reverse(k), KeepCells
    PROVE  LedgerGoal
<1>1. PICK r : r = Move(moves[k].cell, "REVERSAL", -moves[k].qty, k, <<>>)
  OBVIOUS
<1>2. OneMore(r)
  BY <1>1, ReverseSound
<1>3. r.kind = "REVERSAL"
  BY <1>1 DEF Move
<1>4. QED
  BY <1>2, <1>3, LedgerOneMore DEF KeepCells, Unblocked

LEMMA AdjustGoal ==
    ASSUME LedgerInv, NEW c \in Cells, NEW v \in Int, NotBlocked(c, -v), Adjust(c, v), KeepCells
    PROVE  LedgerGoal
<1>1. PICK r : r = Move(c, "ADJUSTMENT", v, 0, <<>>)
  OBVIOUS
<1>2. OneMore(r)
  BY <1>1, AdjustSound
<1>3. r.kind = "ADJUSTMENT" /\ r.qty = v /\ r.cell = c
  BY <1>1 DEF Move
<1>4. Stock(c) \in Int
  BY <1>2 DEF OneMore, RowEffect, Stock, StockAt
<1>5. ~(c \in blocked /\ Stock(c) + v < 0)
  BY <1>4 DEF NotBlocked
<1>6. QED
  BY <1>2, <1>3, <1>5, LedgerOneMore DEF KeepCells

LEMMA NoFreshLayers == FreshLayers(<<>>)
BY DEF FreshLayers

LEMMA OneFreshLayer ==
    ASSUME NEW c \in Cells, NEW q \in Nat, NEW cur \in Currencies
    PROVE  FreshLayers(<<NewLayer(c, q, cur)>>)
<1>1. PICK l : l = NewLayer(c, q, cur)
  OBVIOUS
<1>2. l \in Layer /\ l.left = l.orig
  BY <1>1 DEF NewLayer, Layer
<1>3. <<l>> \in Seq(Layer) /\ DOMAIN <<l>> = 1 .. 1 /\ <<l>>[1] = l
  BY <1>2
<1>4. QED
  BY <1>1, <1>2, <1>3 DEF FreshLayers

LEMMA QuantitiesAreNat == \A q \in Quantities : q \in Nat /\ q > 0
BY StockAssumption DEF Quantities

LEMMA SwitchGoal ==
    ASSUME LedgerInv, NEW c \in Cells, UpdateWarehousePolicy(c) \/ UpdateInventoryItem(c)
    PROVE  LedgerGoal
<1>1. blocked \subseteq Cells /\ active \subseteq Cells /\ consumed \subseteq Orders /\ IsFiniteSet(consumed)
  BY DEF LedgerInv
<1>2. Cardinality(consumed) \in Nat
  BY <1>1, FS_CardinalityType
<1>3. /\ moves' = moves /\ layers' = layers /\ consumed' = consumed
      /\ blocked' \subseteq Cells /\ active' \subseteq Cells
  BY <1>1 DEF UpdateWarehousePolicy, UpdateInventoryItem
<1>4. Cardinality(consumed) <= Cardinality(consumed')
  BY <1>2, <1>3
<1>5. QED
  BY <1>1, <1>3, <1>4, LedgerSame

LEMMA ManualGoal ==
    ASSUME LedgerInv, ManualNext(Cells)
    PROVE  LedgerGoal
<1>1. CASE \E c \in Cells, q \in Quantities : OpeningBalance(c, q) \/ ManualIn(c, q)
  <2>1. PICK c \in Cells, q \in Quantities : OpeningBalance(c, q) \/ ManualIn(c, q)
    BY <1>1
  <2>2. q \in Nat
    BY QuantitiesAreNat
  <2>3. PICK kind : kind \in Kinds /\ kind # "CONSUMPTION" /\ Receive(c, kind, q, <<>>) /\ KeepCells
    BY <2>1 DEF OpeningBalance, ManualIn, Kinds, KeepCells
  <2>4. QED
    BY <2>2, <2>3, NoFreshLayers, ReceiveGoal
<1>2. CASE \E c \in Cells, q \in Quantities : ManualOut(c, q)
  <2>1. PICK c \in Cells, q \in Quantities : ManualOut(c, q)
    BY <1>2
  <2>2. q \in Nat /\ "MANUAL" \in Kinds
    BY QuantitiesAreNat DEF Kinds
  <2>3. NotBlocked(c, q) /\ Issue(c, "MANUAL", q) /\ KeepCells
    BY <2>1 DEF ManualOut, KeepCells
  <2>4. QED
    BY <2>2, <2>3, IssueGoal
<1>3. CASE \E k \in Rows : moves[k].cell \in Cells /\ ManualReversal(k)
  <2>1. PICK k \in Rows : Reverse(k) /\ KeepCells
    BY <1>3 DEF ManualReversal, KeepCells
  <2>2. moves \in Seq(Movement)
    BY DEF LedgerInv, TablesAreSound, TablesAreTyped
  <2>3. k \in DOMAIN moves
    BY <2>2 DEF Rows
  <2>4. QED
    BY <2>1, <2>3, ReverseGoal
<1>4. QED
  BY <1>1, <1>2, <1>3 DEF ManualNext

LEMMA OrderGoal ==
    ASSUME LedgerInv, NEW o \in Orders, NEW q \in Quantities, MaterializeAcceptedOrder(o, q)
    PROVE  LedgerGoal
<1>1. /\ moves \in Seq(Movement) /\ blocked \subseteq Cells /\ active \subseteq Cells /\ consumed \subseteq Orders
      /\ IsFiniteSet(consumed) /\ Cardinality(ConsumptionRows(moves)) <= Cardinality(consumed)
  BY DEF LedgerInv, TablesAreSound, TablesAreTyped
<1>2. o \notin consumed /\ consumed' = consumed \cup {o} /\ blocked' = blocked /\ active' = active
  BY DEF MaterializeAcceptedOrder
<1>3. Cardinality(consumed) \in Nat /\ IsFiniteSet(consumed') /\ Cardinality(consumed') = Cardinality(consumed) + 1
  BY <1>1, <1>2, FS_CardinalityType, FS_AddElement
<1>4. CASE UNCHANGED <<moves, layers>>
  <2>1. consumed' \subseteq Orders /\ Cardinality(consumed) <= Cardinality(consumed')
    BY <1>1, <1>2, <1>3
  <2>2. QED
    BY <1>1, <1>2, <1>3, <1>4, <2>1, LedgerSame
<1>5. CASE Issue(Default, "CONSUMPTION", q)
  <2>1. PICK r : r = Move(Default, "CONSUMPTION", -q, 0, Fifo(Default, q))
    OBVIOUS
  <2>2. OneMore(r)
    <3>1. q \in Nat /\ Default \in Cells /\ "CONSUMPTION" \in Kinds
      BY QuantitiesAreNat, StockAssumption DEF Kinds
    <3>2. QED
      BY <1>5, <2>1, <3>1, IssueSound
  <2>3. RowEffect(moves, moves', r) /\ TablesGrow(moves, layers, moves', layers') /\ TablesAreSound(moves', layers')
    BY <2>2 DEF OneMore, TablesGrow
  <2>4. r.kind \in Unblocked
    BY <2>1 DEF Move, Unblocked
  <2>5. BlockRespected
    BY <2>3, <2>4, BlockKept
  <2>6. Cardinality(ConsumptionRows(moves')) <= Cardinality(consumed')
    <3>1. Cardinality(ConsumptionRows(moves')) <= Cardinality(ConsumptionRows(moves)) + 1
      BY <1>1, <2>3, OrdersCounted
    <3>2. moves' \in Seq(Movement)
      BY <2>3 DEF RowEffect
    <3>3. Cardinality(ConsumptionRows(moves')) \in Nat /\ Cardinality(ConsumptionRows(moves)) \in Nat
      BY <1>1, <3>2, OrdersFinite
    <3>4. QED
      BY <1>1, <1>3, <3>1, <3>3
  <2>7. LedgerInv'
    BY <1>1, <1>2, <1>3, <2>3, <2>6 DEF LedgerInv
  <2>8. QED
    BY <2>3, <2>5, <2>7 DEF LedgerGoal
<1>6. QED
  BY <1>4, <1>5 DEF MaterializeAcceptedOrder

LEMMA LedgerStep ==
    ASSUME LedgerInv, LedgerNext
    PROVE  LedgerGoal
<1>1. CASE PolicyNext(Cells) \/ ItemNext(Cells)
  BY <1>1, SwitchGoal DEF PolicyNext, ItemNext
<1>2. CASE ManualNext(Cells)
  BY <1>2, ManualGoal
<1>3. CASE SupplyNext(Cells, Currencies)
  <2>1. CASE \E c \in Cells, q \in Quantities, cur \in Currencies : GoodsReceipt(c, q, cur)
    <3>1. PICK c \in Cells, q \in Quantities, cur \in Currencies : GoodsReceipt(c, q, cur)
      BY <2>1
    <3>2. q \in Nat /\ "GOODS_RECEIPT" \in Kinds
      BY QuantitiesAreNat DEF Kinds
    <3>3. PICK add : add = <<NewLayer(c, q, cur)>> /\ FreshLayers(add)
      BY <3>2, OneFreshLayer
    <3>4. Receive(c, "GOODS_RECEIPT", q, add) /\ KeepCells
      BY <3>1, <3>3 DEF GoodsReceipt, KeepCells
    <3>5. QED
      BY <3>2, <3>3, <3>4, ReceiveGoal
  <2>2. CASE \E o \in Orders, q \in Quantities : MaterializeAcceptedOrder(o, q)
    BY <2>2, OrderGoal
  <2>3. QED
    BY <1>3, <2>1, <2>2 DEF SupplyNext
<1>4. QED
  BY <1>1, <1>2, <1>3 DEF LedgerNext

\* Two movements and two changes of the layers: the input of a batch, then its
\* output, as if the output had been received after the input was issued.
BatchMoves(in, out, q) ==
    moves' = moves \o << Move(in, "PREPARATION_INPUT", -q, 0, Fifo(in, q)), Move(out, "PREPARATION_OUTPUT", 1, 0, <<>>) >>

BatchLayers(in, out, q) ==
    layers' = IF Covered(in, q) THEN Append(DrawDown(in, q), NewLayer(out, 1, AllocatedCurrency(in, q)))
              ELSE DrawDown(in, q)

LEMMA BatchGoal ==
    ASSUME LedgerInv, NEW in \in Cells, NEW out \in Cells, NEW q \in Nat, q > 0,
           BatchMoves(in, out, q), BatchLayers(in, out, q), KeepCells
    PROVE  LedgerGoal
<1>1. TablesAreSound(moves, layers) /\ moves \in Seq(Movement) /\ layers \in Seq(Layer)
  BY DEF LedgerInv, TablesAreSound, TablesAreTyped
<1>2. PICK a : a = Fifo(in, q)
  OBVIOUS
<1>3. AllocationFits(layers, a) /\ a \in Allocation /\ DOMAIN layers = LayerRows
  BY <1>1, <1>2, FifoFits DEF AllocationFits
<1>4. PICK r : r = Move(in, "PREPARATION_INPUT", -q, 0, a)
  OBVIOUS
<1>5. r \in Movement /\ r.alloc = a /\ r.of = 0 /\ r.kind = "PREPARATION_INPUT"
  <2>1. -q \in Int /\ "PREPARATION_INPUT" \in Kinds /\ 0 \in Nat
    BY DEF Kinds
  <2>2. QED
    BY <1>3, <1>4, <2>1, RowsTyped
<1>6. PICK s : s = Move(out, "PREPARATION_OUTPUT", 1, 0, <<>>)
  OBVIOUS
<1>7. s \in Movement /\ s.alloc = <<>> /\ s.of = 0 /\ s.kind = "PREPARATION_OUTPUT"
  <2>1. 1 \in Int /\ "PREPARATION_OUTPUT" \in Kinds /\ 0 \in Nat /\ <<>> \in Allocation
    BY EmptyAllocation DEF Kinds
  <2>2. QED
    BY <1>6, <2>1, RowsTyped
<1>8. PICK mid : mid = Append(moves, r)
  OBVIOUS
<1>9. PICK low : low = DrawDown(in, q)
  OBVIOUS
<1>10. RowAdded(moves, mid, r) /\ LayersDrawn(layers, low, r.alloc)
  BY <1>2, <1>3, <1>5, <1>8, <1>9 DEF RowAdded, LayersDrawn, DrawDown
<1>11. TablesAreSound(mid, low) /\ RowEffect(moves, mid, r)
  BY <1>1, <1>3, <1>5, <1>10, Issued
<1>12. Len(low) = Len(layers) /\ low \in Seq(Layer) /\ Len(low) \in Nat
  <2>1. Len(low) = Len(layers) /\ low \in Seq(Layer)
    BY <1>1, <1>3, <1>5, <1>10, DrawnRows
  <2>2. QED
    BY <2>1
<1>13. RowAdded(mid, moves', s)
  <2>1. moves' = moves \o <<r, s>>
    BY <1>2, <1>4, <1>6 DEF BatchMoves
  <2>2. moves \o <<r, s>> = Append(Append(moves, r), s)
    BY <1>1, <1>5, <1>7
  <2>3. QED
    BY <1>8, <2>1, <2>2 DEF RowAdded
<1>14. LayersEffect(low, layers')
  <2>1. CASE Covered(in, q)
    <3>1. AllocatedCurrency(in, q) \in Currencies
      BY <1>1, <2>1, CoveredFromALayer
    <3>2. PICK l : l = NewLayer(out, 1, AllocatedCurrency(in, q))
      OBVIOUS
    <3>3. FreshLayers(<<l>>) /\ l \in Layer
      <4>1. 1 \in Nat
        OBVIOUS
      <4>2. FreshLayers(<<l>>)
        BY <3>1, <3>2, <4>1, OneFreshLayer
      <4>3. QED
        BY <3>1, <3>2, <4>1, <4>2 DEF NewLayer, Layer
    <3>4. layers' = Append(low, l)
      BY <1>9, <2>1, <3>2 DEF BatchLayers
    <3>5. Append(low, l) = low \o <<l>>
      BY <1>12, <3>3
    <3>6. LayersAdded(low, layers', <<l>>)
      BY <3>4, <3>5 DEF LayersAdded
    <3>7. QED
      BY <1>12, <3>3, <3>6, LayersAppended
  <2>2. CASE ~Covered(in, q)
    BY <1>9, <1>12, <2>2, LayersKept DEF BatchLayers
  <2>3. QED
    BY <2>1, <2>2
<1>15. TablesAreSound(moves', layers') /\ RowEffect(mid, moves', s)
  <2>0. s.of = 0
    BY <1>7
  <2>1. Opposes(mid, s)
    BY <2>0, Zenon DEF Opposes
  <2>2. QED
    BY <1>7, <1>11, <1>13, <1>14, <2>1, Entered
<1>16. PICK n \in Nat : /\ n = Len(moves) /\ DOMAIN moves = 1 .. n /\ Len(mid) = n + 1 /\ DOMAIN mid = 1 .. n + 1
                        /\ \A k \in 1 .. n : mid[k] = moves[k]
  <2>1. /\ Len(moves) \in Nat /\ DOMAIN moves = 1 .. Len(moves) /\ Len(mid) = Len(moves) + 1
        /\ DOMAIN mid = 1 .. Len(moves) + 1 /\ \A k \in DOMAIN moves : mid[k] = moves[k]
    BY <1>11 DEF RowEffect
  <2>2. PICK n \in Nat : n = Len(moves)
    BY <2>1
  <2>3. \A k \in 1 .. n : mid[k] = moves[k]
    BY <2>1, <2>2
  <2>4. QED
    BY <2>1, <2>2, <2>3
<1>17. /\ moves' \in Seq(Movement) /\ Len(moves') = n + 2 /\ DOMAIN moves' = 1 .. n + 2
       /\ (\A k \in 1 .. n + 1 : moves'[k] = mid[k]) /\ moves'[n + 2] = s
  <2>1. (n + 1) + 1 = n + 2
    OBVIOUS
  <2>2. QED
    BY <1>15, <1>16, <2>1 DEF RowEffect
<1>18. TablesGrow(moves, layers, moves', layers')
  <2>1. \A k \in 1 .. n : moves'[k] = moves[k]
    BY <1>16, <1>17
  <2>2. Len(layers) \in Nat /\ Len(layers') \in Nat /\ Len(layers) <= Len(layers')
    BY <1>12, <1>14 DEF LayersEffect
  <2>3. QED
    BY <1>1, <1>15, <1>16, <1>17, <2>1, <2>2 DEF TablesGrow
<1>19. BlockRespected
  BY <1>7, <1>17 DEF BlockRespected
<1>20. ConsumptionRows(moves') = ConsumptionRows(moves)
  <2>1. mid \in Seq(Movement)
    BY <1>11 DEF RowEffect
  <2>2. ConsumptionRows(mid) = ConsumptionRows(moves)
    BY <1>1, <1>5, <1>11, OrdersCounted
  <2>3. ConsumptionRows(moves') = ConsumptionRows(mid)
    BY <1>7, <1>15, <2>1, OrdersCounted
  <2>4. QED
    BY <2>2, <2>3
<1>21. LedgerInv'
  BY <1>15, <1>20 DEF LedgerInv, KeepCells
<1>22. QED
  BY <1>18, <1>19, <1>21 DEF LedgerGoal

(***************************************************************************)
(* The documents.                                                          *)
(***************************************************************************)

\* Rows without an entry add nothing to a sum.
LEMMA TotalWider ==
    ASSUME NEW n \in Nat, NEW m \in Nat, n <= m, NEW f, NEW h,
           \A k \in 1 .. n : f[k] \in Int /\ h[k] = f[k], \A k \in n + 1 .. m : h[k] = 0
    PROVE  Total(h, m) = Total(f, n)
<1>1. Total(h, n) = Total(f, n)
  BY TotalSame
<1>2. \A k \in 1 .. n : h[k] \in Int
  OBVIOUS
<1>3. Total(h, m) = Total(h, n)
  BY <1>2, TotalTail
<1>4. QED
  BY <1>1, <1>3

\* What the receipts have reproduced of a layer.
LEMMA AlreadyIsNat ==
    ASSUME NEW x, x.taken \in Seq(Allocation), NEW i
    PROVE  /\ Already(x, i) \in Nat
           /\ (\A r \in DOMAIN x.taken : i \notin DOMAIN x.taken[r]) => Already(x, i) = 0
<1>1. PICK n \in Nat : n = Len(x.taken) /\ DOMAIN x.taken = 1 .. n
  OBVIOUS
<1>2. PICK f : f = [r \in DOMAIN x.taken |-> Part(x.taken[r], i)]
  OBVIOUS
<1>3. \A r \in 1 .. n : x.taken[r] \in Allocation
  BY <1>1
<1>4. \A r \in 1 .. n : f[r] \in Nat
  BY <1>1, <1>2, <1>3, AllocationParts
<1>5. n \in 0 .. n
  OBVIOUS
<1>6. Total(f, n) \in Nat
  BY <1>4, <1>5, TotalGrows
<1>7. ASSUME \A r \in 1 .. n : i \notin DOMAIN x.taken[r] PROVE Total(f, n) = 0
  <2>1. \A r \in 1 .. n : f[r] = 0
    BY <1>1, <1>2, <1>7 DEF Part
  <2>2. QED
    BY <2>1, TotalNone
<1>8. Already(x, i) = Total(f, n)
  BY <1>1, <1>2 DEF Already
<1>9. QED
  BY <1>1, <1>6, <1>7, <1>8

\* Documents stay sound while the tables grow beside them.
LEMMA LossKept ==
    ASSUME NEW ms, NEW ls, NEW new, NEW after, TablesGrow(ms, ls, new, after), NEW x, LossSound(x, ms)
    PROVE  LossSound(x, new)
<1>1. PICK n \in Nat, m \in Nat : n <= m /\ DOMAIN ms = 1 .. n /\ DOMAIN new = 1 .. m /\ \A k \in 1 .. n : new[k] = ms[k]
  BY DEF TablesGrow
<1>2. /\ x \in LossRow
      /\ x.state \in {"POSTED", "REVERSED"} =>
            /\ x.move \in DOMAIN new /\ new[x.move].kind = "WASTE" /\ new[x.move].qty = -x.qty
            /\ x.required => x.approver \notin {NoOne, x.requester}
      /\ x.state \notin {"POSTED", "REVERSED"} => x.move = 0
      /\ x.state = "DRAFT" => ~x.required
  BY <1>1 DEF LossSound
<1>3. ASSUME x.state = "REVERSED" PROVE \E r \in DOMAIN new : new[r].of = x.move
  <2>1. PICK r \in 1 .. n : ms[r].of = x.move
    BY <1>1, <1>3 DEF LossSound
  <2>2. r \in 1 .. m /\ new[r].of = x.move
    BY <1>1, <2>1
  <2>3. QED
    BY <1>1, <2>2
<1>4. QED
  BY <1>2, <1>3 DEF LossSound

LEMMA CountKept ==
    ASSUME NEW ms, NEW ls, NEW new, NEW after, TablesGrow(ms, ls, new, after), NEW x, CountSound(x, ms)
    PROVE  CountSound(x, new)
<1>1. PICK n \in Nat, m \in Nat : n <= m /\ Len(ms) = n /\ Len(new) = m /\ \A k \in 1 .. n : new[k] = ms[k]
  BY DEF TablesGrow
<1>2. x \in CountRow /\ x.cursor \in Nat /\ x.cursor <= n
  BY <1>1 DEF CountSound, CountRow
<1>3. \A k \in 1 .. x.cursor : new[k] = ms[k]
  BY <1>1, <1>2
<1>4. StockIn(new, x.cell, x.cursor) = StockIn(ms, x.cell, x.cursor)
  BY <1>2, <1>3, PastStock
<1>5. x.cursor <= m
  BY <1>1, <1>2
<1>6. QED
  BY <1>1, <1>4, <1>5 DEF CountSound

LEMMA TransferKept ==
    ASSUME NEW ms, NEW ls, NEW new, NEW after, TablesGrow(ms, ls, new, after), NEW x, TransferSound(x, ms, Len(ls))
    PROVE  TransferSound(x, new, Len(after))
<1>1. PICK n \in Nat, m \in Nat : n <= m /\ DOMAIN ms = 1 .. n /\ DOMAIN new = 1 .. m /\ \A k \in 1 .. n : new[k] = ms[k]
  BY DEF TablesGrow
<1>2. PICK p \in Nat, q \in Nat : p = Len(ls) /\ q = Len(after) /\ p <= q
  BY DEF TablesGrow
<1>3. x \in TransferRow /\ x.taken \in Seq(Allocation) /\ (x.state # "NONE" => x.sent > 0)
  BY DEF TransferSound, TransferRow
<1>4. x.state \notin {"IN_TRANSIT", "RECEIVED"} => x.received = 0 /\ x.move = 0 /\ x.taken = <<>>
  BY DEF TransferSound
<1>5. ASSUME x.state \in {"IN_TRANSIT", "RECEIVED"}
      PROVE  /\ x.move \in DOMAIN new /\ new[x.move].qty = -x.sent /\ DOMAIN new[x.move].alloc \subseteq 1 .. q
             /\ x.received <= x.sent /\ (x.state = "RECEIVED" <=> x.received = x.sent)
             /\ Total([i \in 1 .. q |-> Part(new[x.move].alloc, i)], q) = x.sent
             /\ Total([i \in 1 .. q |-> Already(x, i)], q) = x.received
             /\ \A i \in 1 .. q : Already(x, i) <= Part(new[x.move].alloc, i)
             /\ \A r \in DOMAIN x.taken : DOMAIN x.taken[r] \subseteq 1 .. q
  <2>1. PICK a : a = ms[x.move].alloc
    OBVIOUS
  <2>2. /\ x.move \in 1 .. n /\ ms[x.move].qty = -x.sent /\ DOMAIN a \subseteq 1 .. p
        /\ x.received <= x.sent /\ (x.state = "RECEIVED" <=> x.received = x.sent)
        /\ Total([i \in 1 .. p |-> Part(a, i)], p) = x.sent
        /\ Total([i \in 1 .. p |-> Already(x, i)], p) = x.received
        /\ \A i \in 1 .. p : Already(x, i) <= Part(a, i)
        /\ \A r \in DOMAIN x.taken : DOMAIN x.taken[r] \subseteq 1 .. p
    BY <1>1, <1>2, <1>5, <2>1 DEF TransferSound
  <2>3. new[x.move] = ms[x.move] /\ x.move \in 1 .. m
    BY <1>1, <2>2
  <2>4. \A i \in 1 .. q : Part(a, i) \in Nat
    <3>1. ms \in Seq(Movement)
      BY DEF TablesGrow
    <3>2. ms[x.move] \in Movement
      BY <1>1, <2>2, <3>1
    <3>3. a \in Allocation
      BY <2>1, <3>2 DEF Movement
    <3>4. QED
      BY <3>3, AllocationParts
  <2>5. \A i \in 1 .. q : Already(x, i) \in Nat
    BY <1>3, AlreadyIsNat
  <2>6. ASSUME NEW i \in p + 1 .. q PROVE Part(a, i) = 0 /\ Already(x, i) = 0
    <3>1. i \notin 1 .. p
      BY <1>2
    <3>2. i \notin DOMAIN a /\ \A r \in DOMAIN x.taken : i \notin DOMAIN x.taken[r]
      BY <2>2, <3>1
    <3>3. QED
      BY <1>3, <3>2, AlreadyIsNat DEF Part
  <2>7. Total([i \in 1 .. q |-> Part(a, i)], q) = x.sent
    <3>1. PICK f : f = [i \in 1 .. p |-> Part(a, i)]
      OBVIOUS
    <3>2. PICK h : h = [i \in 1 .. q |-> Part(a, i)]
      OBVIOUS
    <3>3. (\A i \in 1 .. p : i \in 1 .. q) /\ \A i \in p + 1 .. q : i \in 1 .. q
      BY <1>2
    <3>4. \A i \in 1 .. p : f[i] \in Int /\ h[i] = f[i]
      BY <2>4, <3>1, <3>2, <3>3
    <3>5. \A i \in p + 1 .. q : h[i] = 0
      BY <2>6, <3>2, <3>3
    <3>6. Total(h, q) = Total(f, p)
      <4>1. p <= q
        BY <1>2
      <4>2. QED
        BY <3>4, <3>5, <4>1, TotalWider
    <3>7. QED
      BY <2>2, <3>1, <3>2, <3>6
  <2>8. Total([i \in 1 .. q |-> Already(x, i)], q) = x.received
    <3>1. PICK f : f = [i \in 1 .. p |-> Already(x, i)]
      OBVIOUS
    <3>2. PICK h : h = [i \in 1 .. q |-> Already(x, i)]
      OBVIOUS
    <3>3. (\A i \in 1 .. p : i \in 1 .. q) /\ \A i \in p + 1 .. q : i \in 1 .. q
      BY <1>2
    <3>4. \A i \in 1 .. p : f[i] \in Int /\ h[i] = f[i]
      BY <2>5, <3>1, <3>2, <3>3
    <3>5. \A i \in p + 1 .. q : h[i] = 0
      BY <2>6, <3>2, <3>3
    <3>6. Total(h, q) = Total(f, p)
      <4>1. p <= q
        BY <1>2
      <4>2. QED
        BY <3>4, <3>5, <4>1, TotalWider
    <3>7. QED
      BY <2>2, <3>1, <3>2, <3>6
  <2>9. \A i \in 1 .. q : Already(x, i) <= Part(a, i)
    BY <1>2, <2>2, <2>6
  <2>10. (\A r \in DOMAIN x.taken : DOMAIN x.taken[r] \subseteq 1 .. q) /\ DOMAIN a \subseteq 1 .. q
    BY <1>2, <2>2
  <2>11. QED
    BY <1>1, <2>1, <2>2, <2>3, <2>7, <2>8, <2>9, <2>10
<1>6. QED
  BY <1>2, <1>3, <1>4, <1>5 DEF TransferSound

\* The documents as they are, beside the tables as they will be.
DocumentsBeside ==
    /\ \A l \in Losses : LossSound(loss[l], moves')
    /\ \A n \in Counts : CountSound(count[n], moves')
    /\ \A t \in Transfers : TransferSound(transfer[t], moves', Len(layers'))

LEMMA DocumentsKept ==
    ASSUME DocumentInv, LedgerGoal
    PROVE  DocumentsBeside
<1>1. TablesGrow(moves, layers, moves', layers')
  BY DEF LedgerGoal
<1>2. ASSUME NEW l \in Losses PROVE LossSound(loss[l], moves')
  <2>1. LossSound(loss[l], moves)
    BY DEF DocumentInv
  <2>2. QED
    BY <1>1, <2>1, LossKept
<1>3. ASSUME NEW n \in Counts PROVE CountSound(count[n], moves')
  <2>1. CountSound(count[n], moves)
    BY DEF DocumentInv
  <2>2. QED
    BY <1>1, <2>1, CountKept
<1>4. ASSUME NEW t \in Transfers PROVE TransferSound(transfer[t], moves', Len(layers'))
  <2>1. TransferSound(transfer[t], moves, Len(layers))
    BY DEF DocumentInv
  <2>2. QED
    BY <1>1, <2>1, TransferKept
<1>5. QED
  BY <1>2, <1>3, <1>4 DEF DocumentsBeside

LEMMA LedgerUnchanged ==
    ASSUME LedgerInv, KeepLedger
    PROVE  LedgerGoal
<1>1. blocked \subseteq Cells /\ active \subseteq Cells /\ consumed \subseteq Orders /\ IsFiniteSet(consumed)
  BY DEF LedgerInv
<1>2. moves' = moves /\ layers' = layers /\ blocked' = blocked /\ active' = active /\ consumed' = consumed
  BY DEF KeepLedger, ledgerVars
<1>3. Cardinality(consumed) \in Nat
  BY <1>1, FS_CardinalityType
<1>4. Cardinality(consumed) <= Cardinality(consumed')
  BY <1>2, <1>3
<1>5. QED
  BY <1>1, <1>2, <1>4, LedgerSame

StockInv == LedgerInv /\ DocumentInv

StockGoal == LedgerGoal /\ DocumentInv' /\ CountKeepsLaterMoves

LEMMA SameCounts == ASSUME count' = count PROVE CountKeepsLaterMoves
BY DEF CountKeepsLaterMoves

LEMMA DocumentsUnchanged ==
    ASSUME StockInv, LedgerGoal, threshold' \in 0 .. MaxQuantity, loss' = loss, count' = count, transfer' = transfer, batch' = batch
    PROVE  StockGoal
<1>1. DocumentInv /\ DocumentsBeside
  BY DocumentsKept DEF StockInv
<1>2. DocumentInv'
  BY <1>1, Zenon DEF DocumentInv, DocumentsBeside
<1>3. QED
  BY <1>2, SameCounts DEF StockGoal

LEMMA LossChanged ==
    ASSUME StockInv, LedgerGoal, NEW l \in Losses, NEW row, LossSound(row, moves'), SetLoss(l, row), KeepAllButLoss
    PROVE  StockGoal
<1>1. DocumentInv /\ DocumentsBeside
  BY DocumentsKept DEF StockInv
<1>2. threshold' = threshold /\ count' = count /\ transfer' = transfer /\ batch' = batch
  BY DEF KeepAllButLoss
<1>3. loss' = [loss EXCEPT ![l] = row] /\ loss = [k \in Losses |-> loss[k]]
  BY <1>1 DEF SetLoss, DocumentInv
<1>4. loss' = [k \in Losses |-> loss'[k]] /\ \A k \in Losses : loss'[k] = IF k = l THEN row ELSE loss[k]
  BY <1>3
<1>5. \A k \in Losses : LossSound(loss'[k], moves')
  BY <1>1, <1>4 DEF DocumentsBeside
<1>6. DocumentInv'
  BY <1>1, <1>2, <1>4, <1>5, Zenon DEF DocumentInv, DocumentsBeside
<1>7. QED
  BY <1>2, <1>6, SameCounts DEF StockGoal

LEMMA CountChanged ==
    ASSUME StockInv, LedgerGoal, NEW n \in Counts, NEW row, CountSound(row, moves'), SetCount(n, row), KeepAllButCount,
           (count[n].state = "APPROVED" /\ row.state = "POSTED") =>
               Stock(count[n].cell)' - count[n].counted = Stock(count[n].cell) - StockAt(count[n].cell, count[n].cursor)
    PROVE  StockGoal
<1>1. DocumentInv /\ DocumentsBeside
  BY DocumentsKept DEF StockInv
<1>2. threshold' = threshold /\ loss' = loss /\ transfer' = transfer /\ batch' = batch
  BY DEF KeepAllButCount
<1>3. count' = [count EXCEPT ![n] = row] /\ count = [k \in Counts |-> count[k]]
  BY <1>1 DEF SetCount, DocumentInv
<1>4. count' = [k \in Counts |-> count'[k]] /\ \A k \in Counts : count'[k] = IF k = n THEN row ELSE count[k]
  BY <1>3
<1>5. \A k \in Counts : CountSound(count'[k], moves')
  BY <1>1, <1>4 DEF DocumentsBeside
<1>6. DocumentInv'
  BY <1>1, <1>2, <1>4, <1>5, Zenon DEF DocumentInv, DocumentsBeside
<1>7. CountKeepsLaterMoves
  BY <1>4 DEF CountKeepsLaterMoves
<1>8. QED
  BY <1>6, <1>7 DEF StockGoal

LEMMA TransferChanged ==
    ASSUME StockInv, LedgerGoal, NEW t \in Transfers, NEW row, TransferSound(row, moves', Len(layers')),
           SetTransfer(t, row), KeepAllButTransfer
    PROVE  StockGoal
<1>1. DocumentInv /\ DocumentsBeside
  BY DocumentsKept DEF StockInv
<1>2. threshold' = threshold /\ loss' = loss /\ count' = count /\ batch' = batch
  BY DEF KeepAllButTransfer
<1>3. transfer' = [transfer EXCEPT ![t] = row] /\ transfer = [k \in Transfers |-> transfer[k]]
  BY <1>1 DEF SetTransfer, DocumentInv
<1>4. transfer' = [k \in Transfers |-> transfer'[k]] /\ \A k \in Transfers : transfer'[k] = IF k = t THEN row ELSE transfer[k]
  BY <1>3
<1>5. \A k \in Transfers : TransferSound(transfer'[k], moves', Len(layers'))
  BY <1>1, <1>4 DEF DocumentsBeside
<1>6. DocumentInv'
  BY <1>1, <1>2, <1>4, <1>5, Zenon DEF DocumentInv, DocumentsBeside
<1>7. QED
  BY <1>2, <1>6, SameCounts DEF StockGoal

LEMMA BatchChanged ==
    ASSUME StockInv, LedgerGoal, NEW b \in Batches, NEW row, BatchSound(row), SetBatch(b, row), KeepAllButBatch
    PROVE  StockGoal
<1>1. DocumentInv /\ DocumentsBeside
  BY DocumentsKept DEF StockInv
<1>2. threshold' = threshold /\ loss' = loss /\ count' = count /\ transfer' = transfer
  BY DEF KeepAllButBatch
<1>3. batch' = [batch EXCEPT ![b] = row] /\ batch = [k \in Batches |-> batch[k]]
  BY <1>1 DEF SetBatch, DocumentInv
<1>4. batch' = [k \in Batches |-> batch'[k]] /\ \A k \in Batches : batch'[k] = IF k = b THEN row ELSE batch[k]
  BY <1>3
<1>5. \A k \in Batches : BatchSound(batch'[k])
  BY <1>1, <1>4 DEF DocumentInv
<1>6. DocumentInv'
  BY <1>1, <1>2, <1>4, <1>5, Zenon DEF DocumentInv, DocumentsBeside
<1>7. QED
  BY <1>2, <1>6, SameCounts DEF StockGoal

-----------------------------------------------------------------------------
(* Losses.                                                                 *)

LEMMA PolicyGoal ==
    ASSUME StockInv, NEW v \in 0 .. MaxQuantity, PutPolicy(v)
    PROVE  StockGoal
<1>1. LedgerGoal
  BY LedgerUnchanged DEF PutPolicy, StockInv
<1>2. QED
  BY <1>1, DocumentsUnchanged DEF PutPolicy

LEMMA CreateLossGoal ==
    ASSUME StockInv, NEW l \in Losses, NEW c \in Cells, NEW q \in Quantities, CreateLoss(l, c, q)
    PROVE  StockGoal
<1>1. LedgerGoal
  BY LedgerUnchanged DEF CreateLoss, StockInv
<1>2. PICK row : row = [NoLoss EXCEPT !.state = "DRAFT", !.cell = c, !.qty = q]
  OBVIOUS
<1>3. q \in Nat /\ Default \in Cells
  BY QuantitiesAreNat, StockAssumption
<1>4. row = [state |-> "DRAFT", cell |-> c, qty |-> q, required |-> FALSE,
             requester |-> NoOne, approver |-> NoOne, move |-> 0]
  BY <1>2 DEF NoLoss
<1>5. row \in LossRow
  BY <1>3, <1>4 DEF LossRow, LossStates, Actors
<1>6. LossSound(row, moves')
  BY <1>4, <1>5 DEF LossSound
<1>7. QED
  BY <1>1, <1>2, <1>6, LossChanged DEF CreateLoss

LEMMA UpdateLossGoal ==
    ASSUME StockInv, NEW l \in Losses, NEW q \in Quantities, UpdateLoss(l, q)
    PROVE  StockGoal
<1>1. LedgerGoal
  BY LedgerUnchanged DEF UpdateLoss, StockInv
<1>2. PICK x : x = loss[l]
  OBVIOUS
<1>3. LossSound(x, moves') /\ x.state = "DRAFT"
  BY <1>1, <1>2, DocumentsKept DEF UpdateLoss, StockInv, DocumentsBeside
<1>4. x \in LossRow /\ x.move = 0 /\ ~x.required
  BY <1>3 DEF LossSound
<1>5. PICK row : row = [x EXCEPT !.qty = q]
  OBVIOUS
<1>6. q \in Nat
  BY QuantitiesAreNat
<1>7. row \in LossRow /\ row.state = "DRAFT" /\ row.move = 0 /\ row.required = x.required
  BY <1>3, <1>4, <1>5, <1>6 DEF LossRow
<1>8. LossSound(row, moves')
  BY <1>4, <1>7 DEF LossSound
<1>9. QED
  BY <1>1, <1>2, <1>5, <1>8, LossChanged DEF UpdateLoss

LEMMA AskApproval ==
    ASSUME StockInv, NEW l \in Losses, NEW e \in Staff, NEW known \in BOOLEAN, PostLoss(l, e, known), ApprovalDecision(l, known)
    PROVE  StockGoal
<1>1. LedgerGoal
  BY LedgerUnchanged DEF PostLoss, StockInv
<1>2. PICK x : x = loss[l]
  OBVIOUS
<1>3. LossSound(x, moves') /\ x.state = "DRAFT"
  BY <1>1, <1>2, DocumentsKept DEF PostLoss, StockInv, DocumentsBeside
<1>4. x \in LossRow /\ x.move = 0
  BY <1>3 DEF LossSound
<1>5. PICK row : row = [x EXCEPT !.state = "PENDING_APPROVAL", !.required = TRUE, !.requester = e]
  OBVIOUS
<1>6. row.state = "PENDING_APPROVAL" /\ row.move = 0
  BY <1>4, <1>5 DEF LossRow
<1>7. row \in LossRow
  <2>1. "PENDING_APPROVAL" \in LossStates /\ TRUE \in BOOLEAN /\ e \in Actors
    BY DEF LossStates, Actors
  <2>2. QED
    BY <1>4, <1>5, <2>1 DEF LossRow
<1>8. LossSound(row, moves')
  BY <1>6, <1>7 DEF LossSound
<1>9. QED
  BY <1>1, <1>2, <1>5, <1>8, LossChanged DEF PostLoss

\* A posted loss points at the movement it has just written.
LEMMA WasteWritten ==
    ASSUME StockInv, NEW l \in Losses, PostMovement(l)
    PROVE  /\ LedgerGoal /\ Len(moves) + 1 \in DOMAIN moves' /\ Len(moves) + 1 \in Nat
           /\ moves'[Len(moves) + 1].kind = "WASTE" /\ moves'[Len(moves) + 1].qty = -loss[l].qty
<1>1. LossSound(loss[l], moves) /\ LedgerInv
  BY DEF StockInv, DocumentInv
<1>2. loss[l].cell \in Cells /\ loss[l].qty \in Nat
  BY <1>1 DEF LossSound, LossRow
<1>3. NotBlocked(loss[l].cell, loss[l].qty) /\ Issue(loss[l].cell, "WASTE", loss[l].qty) /\ KeepCells
  BY DEF PostMovement
<1>4. "WASTE" \in Kinds
  BY DEF Kinds
<1>5. LedgerGoal
  BY <1>1, <1>2, <1>3, <1>4, IssueGoal
<1>6. PICK r : r = Move(loss[l].cell, "WASTE", -loss[l].qty, 0, Fifo(loss[l].cell, loss[l].qty))
  OBVIOUS
<1>7. OneMore(r)
  BY <1>1, <1>2, <1>3, <1>4, <1>6, IssueSound
<1>8. r.kind = "WASTE" /\ r.qty = -loss[l].qty
  BY <1>6 DEF Move
<1>9. Len(moves) \in Nat /\ DOMAIN moves' = 1 .. Len(moves) + 1 /\ moves'[Len(moves) + 1] = r
  BY <1>7 DEF OneMore, RowEffect
<1>10. QED
  BY <1>5, <1>8, <1>9

LEMMA PostGoal ==
    ASSUME StockInv, NEW l \in Losses, PostMovement(l), loss[l].state \in {"DRAFT", "PENDING_APPROVAL"},
           NEW who, who \in Staff \/ (who = loss[l].approver /\ loss[l].state = "DRAFT"), who # loss[l].requester \/ loss[l].state = "DRAFT",
           SetLoss(l, [loss[l] EXCEPT !.state = "POSTED", !.approver = who, !.move = Len(moves) + 1]), KeepAllButLoss
    PROVE  StockGoal
<1>1. /\ LedgerGoal /\ Len(moves) + 1 \in DOMAIN moves' /\ Len(moves) + 1 \in Nat
      /\ moves'[Len(moves) + 1].kind = "WASTE" /\ moves'[Len(moves) + 1].qty = -loss[l].qty
  BY WasteWritten
<1>2. PICK m : m = Len(moves) + 1
  OBVIOUS
<1>3. PICK x : x = loss[l]
  OBVIOUS
<1>4. x \in LossRow /\ (x.state = "DRAFT" => ~x.required)
  BY <1>3 DEF StockInv, DocumentInv, LossSound
<1>5. PICK row : row = [x EXCEPT !.state = "POSTED", !.approver = who, !.move = m]
  OBVIOUS
<1>6. row.state = "POSTED" /\ row.approver = who /\ row.move = m /\ row.required = x.required /\ row.requester = x.requester /\ row.qty = x.qty
  BY <1>4, <1>5 DEF LossRow
<1>7. row \in LossRow
  <2>1. "POSTED" \in LossStates /\ who \in Actors /\ m \in Nat
    BY <1>1, <1>2, <1>3, <1>4 DEF LossStates, Actors, LossRow
  <2>2. QED
    BY <1>4, <1>5, <2>1 DEF LossRow
<1>8. row.required => row.approver \notin {NoOne, row.requester}
  BY <1>3, <1>4, <1>6, DocumentAssumption
<1>9. LossSound(row, moves')
  BY <1>1, <1>2, <1>3, <1>6, <1>7, <1>8 DEF LossSound
<1>10. QED
  BY <1>1, <1>2, <1>3, <1>5, <1>9, LossChanged

LEMMA PostLossGoal ==
    ASSUME StockInv, NEW l \in Losses, NEW e \in Staff, NEW known \in BOOLEAN, PostLoss(l, e, known)
    PROVE  StockGoal
<1>1. CASE ApprovalDecision(l, known)
  BY <1>1, AskApproval
<1>2. CASE ~ApprovalDecision(l, known)
  <2>1. /\ loss[l].state = "DRAFT" /\ PostMovement(l) /\ KeepAllButLoss
        /\ SetLoss(l, [loss[l] EXCEPT !.state = "POSTED", !.move = Len(moves) + 1])
    BY <1>2 DEF PostLoss
  <2>2. PICK who : who = loss[l].approver
    OBVIOUS
  <2>3. loss[l] \in LossRow
    BY DEF StockInv, DocumentInv, LossSound
  <2>4. [loss[l] EXCEPT !.state = "POSTED", !.move = Len(moves) + 1]
        = [loss[l] EXCEPT !.state = "POSTED", !.approver = who, !.move = Len(moves) + 1]
    BY <2>2, <2>3 DEF LossRow
  <2>5. SetLoss(l, [loss[l] EXCEPT !.state = "POSTED", !.approver = who, !.move = Len(moves) + 1])
    BY <2>1, <2>4
  <2>6. QED
    BY <2>1, <2>2, <2>5, PostGoal
<1>3. QED
  BY <1>1, <1>2

LEMMA ApproveLossGoal ==
    ASSUME StockInv, NEW l \in Losses, NEW e \in Staff, ApproveLoss(l, e)
    PROVE  StockGoal
BY PostGoal DEF ApproveLoss

LEMMA CancelLossGoal ==
    ASSUME StockInv, NEW l \in Losses, CancelLoss(l)
    PROVE  StockGoal
<1>1. LedgerGoal
  BY LedgerUnchanged DEF CancelLoss, StockInv
<1>2. PICK x : x = loss[l]
  OBVIOUS
<1>3. LossSound(x, moves') /\ x.state \in {"DRAFT", "PENDING_APPROVAL"}
  BY <1>1, <1>2, DocumentsKept DEF CancelLoss, StockInv, DocumentsBeside
<1>4. x \in LossRow /\ x.move = 0
  BY <1>3 DEF LossSound
<1>5. PICK row : row = [x EXCEPT !.state = "CANCELLED"]
  OBVIOUS
<1>6. row \in LossRow /\ row.state = "CANCELLED" /\ row.move = 0
  BY <1>4, <1>5 DEF LossRow, LossStates
<1>7. LossSound(row, moves')
  BY <1>6 DEF LossSound
<1>8. QED
  BY <1>1, <1>2, <1>5, <1>7, LossChanged DEF CancelLoss

LEMMA ReverseLossGoal ==
    ASSUME StockInv, NEW l \in Losses, ReverseLoss(l)
    PROVE  StockGoal
<1>1. PICK x : x = loss[l]
  OBVIOUS
<1>2. LossSound(x, moves) /\ LedgerInv /\ x.state = "POSTED"
  BY <1>1 DEF StockInv, DocumentInv, ReverseLoss
<1>3. x \in LossRow /\ x.move \in DOMAIN moves
  BY <1>2 DEF LossSound
<1>4. Reverse(x.move) /\ KeepCells
  BY <1>1 DEF ReverseLoss
<1>5. LedgerGoal
  BY <1>2, <1>3, <1>4, ReverseGoal
<1>6. PICK r : r = Move(moves[x.move].cell, "REVERSAL", -moves[x.move].qty, x.move, <<>>)
  OBVIOUS
<1>7. OneMore(r) /\ r.of = x.move
  BY <1>2, <1>3, <1>4, <1>6, ReverseSound DEF Move
<1>8. PICK m : m \in DOMAIN moves' /\ moves'[m].of = x.move
  <2>1. Len(moves) \in Nat /\ DOMAIN moves' = 1 .. Len(moves) + 1 /\ moves'[Len(moves) + 1] = r
    BY <1>7 DEF OneMore, RowEffect
  <2>2. Len(moves) + 1 \in DOMAIN moves' /\ moves'[Len(moves) + 1].of = x.move
    BY <1>7, <2>1
  <2>3. QED
    BY <2>2
<1>9. LossSound(x, moves')
  BY <1>1, <1>5, DocumentsKept DEF StockInv, DocumentsBeside
<1>10. PICK row : row = [x EXCEPT !.state = "REVERSED"]
  OBVIOUS
<1>11. /\ row \in LossRow /\ row.state = "REVERSED" /\ row.move = x.move /\ row.qty = x.qty /\ row.required = x.required
       /\ row.approver = x.approver /\ row.requester = x.requester
  BY <1>3, <1>10 DEF LossRow, LossStates
<1>12. LossSound(row, moves')
  BY <1>2, <1>8, <1>9, <1>11 DEF LossSound
<1>13. QED
  BY <1>1, <1>5, <1>10, <1>12, LossChanged DEF ReverseLoss

LEMMA LossStep ==
    ASSUME StockInv, LossNext(Cells)
    PROVE  StockGoal
BY PolicyGoal, CreateLossGoal, UpdateLossGoal, PostLossGoal, ApproveLossGoal, CancelLossGoal, ReverseLossGoal DEF LossNext

-----------------------------------------------------------------------------
(* Physical counts.                                                        *)

LEMMA StockIsInt ==
    ASSUME NEW ms \in Seq(Movement), NEW c, NEW n \in Nat, n <= Len(ms)
    PROVE  StockIn(ms, c, n) \in Int /\ \A k \in 1 .. n : ms[k].qty \in Int
<1>1. PICK f : f = [k \in 1 .. n |-> IF ms[k].cell = c THEN ms[k].qty ELSE 0]
  OBVIOUS
<1>2. \A k \in 1 .. n : ms[k] \in Movement
  OBVIOUS
<1>3. \A k \in 1 .. n : ms[k].qty \in Int
  BY <1>2 DEF Movement
<1>4. \A k \in 1 .. n : f[k] \in Int
  BY <1>1, <1>3
<1>5. Total(f, n) \in Int
  BY <1>4, TotalInt
<1>6. QED
  BY <1>1, <1>3, <1>5 DEF StockIn

\* The columns of the reconciliation report add up when no row is in two.
LEMMA WindowsAdd ==
    ASSUME StockInv, NEW n \in Counts, NEW A, NEW B, A \cap B = {}
    PROVE  /\ Window(n, A) + Window(n, B) = Window(n, A \cup B)
           /\ Window(n, A) \in Int /\ Window(n, B) \in Int
<1>1. PICK x : x = count[n]
  OBVIOUS
<1>2. x \in CountRow /\ x.cursor <= Len(moves) /\ moves \in Seq(Movement)
  BY <1>1 DEF StockInv, DocumentInv, CountSound, LedgerInv, TablesAreSound, TablesAreTyped
<1>3. PICK m \in Nat : m = x.cursor
  BY <1>2 DEF CountRow
<1>4. \A k \in 1 .. m : moves[k].qty \in Int
  BY <1>2, <1>3, StockIsInt
<1>5. PICK f : f = [k \in 1 .. m |-> IF moves[k].cell = x.cell /\ k \in A THEN moves[k].qty ELSE 0]
  OBVIOUS
<1>6. PICK g : g = [k \in 1 .. m |-> IF moves[k].cell = x.cell /\ k \in B THEN moves[k].qty ELSE 0]
  OBVIOUS
<1>7. PICK h : h = [k \in 1 .. m |-> IF moves[k].cell = x.cell /\ k \in A \cup B THEN moves[k].qty ELSE 0]
  OBVIOUS
<1>8. \A k \in 1 .. m : f[k] \in Int /\ g[k] \in Int
  BY <1>4, <1>5, <1>6
<1>9. ASSUME NEW k \in 1 .. m PROVE h[k] = f[k] + g[k]
  <2>1. ~(k \in A /\ k \in B) /\ (k \in A \cup B <=> k \in A \/ k \in B)
    OBVIOUS
  <2>2. PICK u \in Int : u = moves[k].qty
    BY <1>4
  <2>3. CASE moves[k].cell = x.cell /\ k \in A
    <3>1. h[k] = u /\ f[k] = u /\ g[k] = 0
      BY <1>5, <1>6, <1>7, <2>1, <2>2, <2>3
    <3>2. QED
      BY <3>1
  <2>4. CASE moves[k].cell = x.cell /\ k \in B
    <3>1. h[k] = u /\ f[k] = 0 /\ g[k] = u
      BY <1>5, <1>6, <1>7, <2>1, <2>2, <2>4
    <3>2. QED
      BY <3>1
  <2>5. CASE ~(moves[k].cell = x.cell /\ (k \in A \/ k \in B))
    <3>1. h[k] = 0 /\ f[k] = 0 /\ g[k] = 0
      BY <1>5, <1>6, <1>7, <2>1, <2>5
    <3>2. QED
      BY <3>1
  <2>6. QED
    BY <2>3, <2>4, <2>5
<1>10. Total(h, m) = Total(f, m) + Total(g, m)
  BY <1>8, <1>9, TotalAdds
<1>11. Total(f, m) \in Int /\ Total(g, m) \in Int
  BY <1>8, TotalInt
<1>12. Window(n, A) = Total(f, m) /\ Window(n, B) = Total(g, m) /\ Window(n, A \cup B) = Total(h, m)
  BY <1>1, <1>3, <1>5, <1>6, <1>7 DEF Window
<1>13. QED
  BY <1>10, <1>11, <1>12

LEMMA WholeWindow ==
    ASSUME StockInv, NEW n \in Counts, NEW A, Rows \subseteq A
    PROVE  Window(n, A) = StockAt(count[n].cell, count[n].cursor)
<1>1. PICK x : x = count[n]
  OBVIOUS
<1>2. x \in CountRow /\ x.cursor <= Len(moves) /\ moves \in Seq(Movement)
  BY <1>1 DEF StockInv, DocumentInv, CountSound, LedgerInv, TablesAreSound, TablesAreTyped
<1>3. PICK m \in Nat : m = x.cursor
  BY <1>2 DEF CountRow
<1>4. \A k \in 1 .. m : k \in A
  BY <1>2, <1>3 DEF Rows
<1>5. PICK f : f = [k \in 1 .. m |-> IF moves[k].cell = x.cell /\ k \in A THEN moves[k].qty ELSE 0]
  OBVIOUS
<1>6. PICK h : h = [k \in 1 .. m |-> IF moves[k].cell = x.cell THEN moves[k].qty ELSE 0]
  OBVIOUS
<1>7. \A k \in 1 .. m : f[k] = h[k]
  BY <1>4, <1>5, <1>6
<1>8. Total(f, m) = Total(h, m)
  BY <1>7, TotalSame
<1>9. QED
  BY <1>1, <1>3, <1>5, <1>6, <1>8 DEF Window, StockAt, StockIn

\* The report's split loses no movement and counts none twice: a row in the
\* loss column is a waste or compensates one, so it is neither a receipt nor a
\* consumption.
LEMMA ReportIsWhole ==
    ASSUME StockInv, NEW n \in Counts
    PROVE  Theoretical(n) = StockAt(count[n].cell, count[n].cursor)
<1>1. PICK A : A = OfKind({"GOODS_RECEIPT"})
  OBVIOUS
<1>2. PICK B : B = OfKind({"CONSUMPTION"})
  OBVIOUS
<1>3. PICK C : C = OfLoss
  OBVIOUS
<1>4. OfKind({"GOODS_RECEIPT", "CONSUMPTION"}) = A \cup B /\ A \cap B = {}
  BY <1>1, <1>2 DEF OfKind
<1>5. PICK D : D = Rows \ ((A \cup B) \cup C)
  OBVIOUS
<1>6. Theoretical(n) = Window(n, A) + Window(n, B) + Window(n, C) + Window(n, D)
  BY <1>1, <1>2, <1>3, <1>4, <1>5, Zenon DEF Theoretical
<1>7. moves \in Seq(Movement) /\ DOMAIN moves = Rows
  BY DEF StockInv, LedgerInv, TablesAreSound, TablesAreTyped, Rows
<1>8. ASSUME NEW k \in C PROVE moves[k].kind \in {"WASTE", "REVERSAL"}
  <2>1. CASE moves[k].kind = "WASTE"
    BY <2>1
  <2>2. CASE \E l \in Losses : loss[l].state = "REVERSED" /\ moves[k].of = loss[l].move
    <3>1. PICK l \in Losses : loss[l].state = "REVERSED" /\ moves[k].of = loss[l].move
      BY <2>2
    <3>2. loss[l].move \in DOMAIN moves
      BY <3>1 DEF StockInv, DocumentInv, LossSound
    <3>3. moves[k].of # 0
      BY <1>7, <3>1, <3>2 DEF Rows
    <3>4. k \in DOMAIN moves
      BY <1>3, <1>7, <1>8 DEF OfLoss
    <3>5. moves[k].kind = "REVERSAL"
      BY <3>3, <3>4 DEF StockInv, LedgerInv, TablesAreSound, TablesAreTyped
    <3>6. QED
      BY <3>5
  <2>3. QED
    BY <1>3, <1>8, <2>1, <2>2 DEF OfLoss
<1>9. (A \cup B) \cap C = {}
  BY <1>1, <1>2, <1>8 DEF OfKind
<1>10. ((A \cup B) \cup C) \cap D = {} /\ Rows \subseteq ((A \cup B) \cup C) \cup D
  BY <1>5
<1>11. Window(n, A) + Window(n, B) = Window(n, A \cup B) /\ Window(n, A) \in Int /\ Window(n, B) \in Int
  BY <1>4, WindowsAdd
<1>12. Window(n, A \cup B) + Window(n, C) = Window(n, (A \cup B) \cup C) /\ Window(n, C) \in Int
  BY <1>9, WindowsAdd
<1>13. Window(n, (A \cup B) \cup C) + Window(n, D) = Window(n, ((A \cup B) \cup C) \cup D)
  BY <1>10, WindowsAdd
<1>14. Window(n, ((A \cup B) \cup C) \cup D) = StockAt(count[n].cell, count[n].cursor)
  BY <1>10, WholeWindow
<1>15. Theoretical(n) = Window(n, ((A \cup B) \cup C) \cup D)
  BY <1>6, <1>11, <1>12, <1>13, Zenon
<1>16. QED
  BY <1>14, <1>15

LEMMA CreateCountGoal ==
    ASSUME StockInv, NEW n \in Counts, NEW c \in Cells, CreateCount(n, c)
    PROVE  StockGoal
<1>1. LedgerGoal /\ moves' = moves
  BY LedgerUnchanged DEF CreateCount, StockInv, KeepLedger, ledgerVars
<1>2. PICK row : row = [NoCount EXCEPT !.state = "DRAFT", !.cell = c, !.cursor = Len(moves)]
  OBVIOUS
<1>3. Len(moves) \in Nat
  BY <1>1 DEF LedgerGoal, TablesGrow
<1>4. row = [state |-> "DRAFT", cell |-> c, cursor |-> Len(moves), counted |-> 0, variance |-> 0,
             submitter |-> NoOne, approver |-> NoOne, closed |-> "NONE", result |-> 0]
  BY <1>2 DEF NoCount
<1>5. row \in CountRow
  BY <1>3, <1>4 DEF CountRow, CountStates, Actors
<1>6. CountSound(row, moves')
  BY <1>1, <1>3, <1>4, <1>5 DEF CountSound
<1>7. row.state = "DRAFT"
  BY <1>4
<1>8. QED
  BY <1>1, <1>2, <1>6, <1>7, CountChanged DEF CreateCount

LEMMA PutLineGoal ==
    ASSUME StockInv, NEW n \in Counts, NEW q \in 0 .. MaxQuantity, PutLine(n, q)
    PROVE  StockGoal
<1>1. LedgerGoal /\ moves' = moves
  BY LedgerUnchanged DEF PutLine, StockInv, KeepLedger, ledgerVars
<1>2. PICK x : x = count[n]
  OBVIOUS
<1>3. x \in CountRow /\ x.cursor <= Len(moves) /\ x.closed = "NONE" /\ x.cursor \in Nat
  BY <1>2 DEF PutLine, StockInv, DocumentInv, CountSound, CountRow
<1>4. moves \in Seq(Movement)
  BY DEF StockInv, LedgerInv, TablesAreSound, TablesAreTyped
<1>5. PICK s \in Int : s = StockIn(moves, x.cell, x.cursor)
  BY <1>3, <1>4, StockIsInt
<1>6. q \in Nat /\ q - s \in Int
  BY <1>5, StockAssumption
<1>7. PICK row : row = [x EXCEPT !.state = "COUNTING", !.counted = q, !.variance = q - s]
  OBVIOUS
<1>8. row \in CountRow
  BY <1>3, <1>6, <1>7 DEF CountRow, CountStates
<1>9. row.state = "COUNTING" /\ row.counted = q /\ row.variance = q - s /\ row.cell = x.cell /\ row.cursor = x.cursor /\ row.closed = "NONE"
  BY <1>3, <1>7 DEF CountRow
<1>10. CountSound(row, moves')
  BY <1>1, <1>3, <1>5, <1>8, <1>9 DEF CountSound
<1>11. SetCount(n, row) /\ KeepAllButCount
  BY <1>2, <1>5, <1>7 DEF PutLine, StockAt
<1>12. QED
  BY <1>1, <1>9, <1>10, <1>11, CountChanged

\* Submission, approval and cancellation change neither the line nor its report.
LEMMA CountMoves ==
    ASSUME StockInv, NEW n \in Counts, KeepLedger, KeepAllButCount,
           NEW st, NEW su, NEW ap, SetCount(n, [count[n] EXCEPT !.state = st, !.submitter = su, !.approver = ap]),
           \/ count[n].state = "COUNTING" /\ st = "SUBMITTED"
           \/ count[n].state = "SUBMITTED" /\ st = "APPROVED"
           \/ count[n].state \in {"DRAFT", "COUNTING", "SUBMITTED"} /\ st = "CANCELLED",
           su \in Actors, ap \in Actors
    PROVE  StockGoal
<1>1. LedgerGoal /\ moves' = moves
  BY LedgerUnchanged DEF StockInv, KeepLedger, ledgerVars
<1>2. PICK x : x = count[n]
  OBVIOUS
<1>3. CountSound(x, moves)
  BY <1>2 DEF StockInv, DocumentInv
<1>4. x \in CountRow /\ x.closed = "NONE"
  BY <1>2, <1>3 DEF CountSound, CountRow
<1>5. PICK row : row = [x EXCEPT !.state = st, !.submitter = su, !.approver = ap]
  OBVIOUS
<1>6. row \in CountRow
  BY <1>4, <1>5 DEF CountRow, CountStates
<1>7. /\ row.state = st /\ row.counted = x.counted /\ row.variance = x.variance /\ row.cell = x.cell
      /\ row.cursor = x.cursor /\ row.closed = "NONE"
  BY <1>4, <1>5 DEF CountRow
<1>8. CountSound(row, moves')
  BY <1>1, <1>2, <1>3, <1>6, <1>7 DEF CountSound
<1>9. QED
  BY <1>1, <1>2, <1>5, <1>7, <1>8, CountChanged

LEMMA CountActors == ASSUME StockInv, NEW n \in Counts PROVE count[n] \in CountRow /\ count[n].submitter \in Actors /\ count[n].approver \in Actors
BY DEF StockInv, DocumentInv, CountSound, CountRow

LEMMA SubmitCountGoal ==
    ASSUME StockInv, NEW n \in Counts, NEW e \in Staff, SubmitCount(n, e)
    PROVE  StockGoal
<1>1. count[n] \in CountRow /\ count[n].approver \in Actors /\ e \in Actors
  BY CountActors DEF Actors
<1>2. [count[n] EXCEPT !.state = "SUBMITTED", !.submitter = e]
      = [count[n] EXCEPT !.state = "SUBMITTED", !.submitter = e, !.approver = count[n].approver]
  BY <1>1 DEF CountRow
<1>3. SetCount(n, [count[n] EXCEPT !.state = "SUBMITTED", !.submitter = e, !.approver = count[n].approver])
  BY <1>2 DEF SubmitCount
<1>4. count[n].state = "COUNTING" /\ KeepLedger /\ KeepAllButCount
  BY DEF SubmitCount
<1>5. QED
  BY <1>1, <1>3, <1>4, CountMoves

LEMMA ApproveCountGoal ==
    ASSUME StockInv, NEW n \in Counts, NEW e \in Staff, ApproveCount(n, e)
    PROVE  StockGoal
<1>1. count[n] \in CountRow /\ count[n].submitter \in Actors /\ e \in Actors
  BY CountActors DEF Actors
<1>2. [count[n] EXCEPT !.state = "APPROVED", !.approver = e]
      = [count[n] EXCEPT !.state = "APPROVED", !.submitter = count[n].submitter, !.approver = e]
  BY <1>1 DEF CountRow
<1>3. SetCount(n, [count[n] EXCEPT !.state = "APPROVED", !.submitter = count[n].submitter, !.approver = e])
  BY <1>2 DEF ApproveCount
<1>4. QED
  BY <1>1, <1>3, CountMoves DEF ApproveCount

LEMMA CancelCountGoal ==
    ASSUME StockInv, NEW n \in Counts, CancelCount(n)
    PROVE  StockGoal
<1>1. count[n] \in CountRow /\ count[n].submitter \in Actors /\ count[n].approver \in Actors
  BY CountActors
<1>2. [count[n] EXCEPT !.state = "CANCELLED"]
      = [count[n] EXCEPT !.state = "CANCELLED", !.submitter = count[n].submitter, !.approver = count[n].approver]
  BY <1>1 DEF CountRow
<1>3. SetCount(n, [count[n] EXCEPT !.state = "CANCELLED", !.submitter = count[n].submitter, !.approver = count[n].approver])
  BY <1>2 DEF CancelCount
<1>4. QED
  BY <1>1, <1>3, CountMoves DEF CancelCount

LEMMA PostCountGoal ==
    ASSUME StockInv, NEW n \in Counts, PostCount(n)
    PROVE  StockGoal
<1>1. PICK x : x = count[n]
  OBVIOUS
<1>2. CountSound(x, moves) /\ LedgerInv /\ x.state = "APPROVED"
  BY <1>1 DEF StockInv, DocumentInv, PostCount
<1>3. x \in CountRow /\ x.cell \in Cells /\ x.variance \in Int /\ x.counted \in Int /\ x.closed = "NONE" /\ x.cursor \in Nat
  BY <1>2 DEF CountSound, CountRow
<1>4. moves \in Seq(Movement)
  BY <1>2 DEF LedgerInv, TablesAreSound, TablesAreTyped
<1>5. PICK v \in Int, s \in Int : v = x.variance /\ s = StockIn(moves, x.cell, x.cursor) /\ v = x.counted - s
  BY <1>2, <1>3, <1>4, StockIsInt DEF CountSound
<1>6. PICK t \in Int : t = Stock(x.cell)
  <2>1. Len(moves) \in Nat /\ Len(moves) <= Len(moves)
    BY <1>4
  <2>2. QED
    BY <1>4, <2>1, StockIsInt DEF Stock, StockAt
<1>7. LedgerGoal /\ Stock(x.cell)' = t + v
  <2>1. KeepCells /\ (v # 0 => NotBlocked(x.cell, -v)) /\ IF v = 0 THEN UNCHANGED <<moves, layers>> ELSE Adjust(x.cell, v)
    BY <1>1, <1>5 DEF PostCount
  <2>2. CASE v = 0
    <3>1. KeepLedger /\ moves' = moves
      BY <2>1, <2>2 DEF KeepLedger, ledgerVars, KeepCells
    <3>2. LedgerGoal
      BY <1>2, <3>1, LedgerUnchanged
    <3>3. Stock(x.cell)' = Stock(x.cell)
      BY <3>1 DEF Stock, StockAt
    <3>4. t + v = t
      BY <2>2
    <3>5. QED
      BY <1>6, <3>2, <3>3, <3>4
  <2>3. CASE v # 0
    <3>1. NotBlocked(x.cell, -v) /\ Adjust(x.cell, v)
      BY <2>1, <2>3
    <3>2. LedgerGoal
      BY <1>2, <1>3, <2>1, <3>1, AdjustGoal
    <3>3. PICK r : r = Move(x.cell, "ADJUSTMENT", v, 0, <<>>)
      OBVIOUS
    <3>4. OneMore(r) /\ r.cell = x.cell /\ r.qty = v
      BY <1>2, <1>3, <3>1, <3>3, AdjustSound DEF Move
    <3>5. /\ Len(moves') = Len(moves) + 1
          /\ StockIn(moves', x.cell, Len(moves) + 1) = StockIn(moves, x.cell, Len(moves)) + (IF r.cell = x.cell THEN r.qty ELSE 0)
      BY <3>4 DEF OneMore, RowEffect
    <3>6. Stock(x.cell)' = StockIn(moves', x.cell, Len(moves')) /\ Stock(x.cell) = StockIn(moves, x.cell, Len(moves))
      BY Zenon DEF Stock, StockAt
    <3>7. Stock(x.cell)' = t + v
      BY <1>6, <3>4, <3>5, <3>6
    <3>8. QED
      BY <3>2, <3>7
  <2>4. QED
    BY <2>2, <2>3
<1>8. PICK row : row = [x EXCEPT !.state = "POSTED"]
  OBVIOUS
<1>9. row \in CountRow
  BY <1>3, <1>8 DEF CountRow, CountStates
<1>10. /\ row.state = "POSTED" /\ row.counted = x.counted /\ row.variance = x.variance /\ row.cell = x.cell
       /\ row.cursor = x.cursor /\ row.closed = "NONE"
  BY <1>3, <1>8 DEF CountRow
<1>11. CountSound(row, moves')
  <2>1. CountSound(x, moves')
    BY <1>1, <1>7, DocumentsKept DEF StockInv, DocumentsBeside
  <2>2. QED
    BY <1>2, <1>9, <1>10, <2>1 DEF CountSound
<1>12. Stock(x.cell)' - x.counted = Stock(x.cell) - StockAt(x.cell, x.cursor)
  <2>1. PICK c \in Int : c = x.counted
    BY <1>3
  <2>2. (t + v) - c = t - s
    BY <1>5, <2>1
  <2>3. StockAt(x.cell, x.cursor) = s
    BY <1>5 DEF StockAt
  <2>4. QED
    BY <1>6, <1>7, <2>1, <2>2, <2>3
<1>13. SetCount(n, row) /\ KeepAllButCount
  BY <1>1, <1>8 DEF PostCount
<1>14. (count[n].state = "APPROVED" /\ row.state = "POSTED") =>
           Stock(count[n].cell)' - count[n].counted = Stock(count[n].cell) - StockAt(count[n].cell, count[n].cursor)
  <2>1. count'[n] = row
    BY <1>13 DEF SetCount, StockInv, DocumentInv
  <2>2. count'[n].cell = x.cell
    BY <1>10, <2>1
  <2>3. Stock(count[n].cell)' = StockIn(moves', count'[n].cell, Len(moves'))
    BY Zenon DEF Stock, StockAt
  <2>4. Stock(x.cell)' = StockIn(moves', x.cell, Len(moves'))
    BY Zenon DEF Stock, StockAt
  <2>5. Stock(count[n].cell)' = Stock(x.cell)'
    BY <2>2, <2>3, <2>4
  <2>6. QED
    BY <1>1, <1>12, <2>5
<1>15. QED
  BY <1>7, <1>11, <1>13, <1>14, CountChanged

LEMMA ReconciliationGoal ==
    ASSUME StockInv, NEW n \in Counts, CreateReconciliation(n) \/ CloseReconciliation(n)
    PROVE  StockGoal
<1>1. LedgerGoal /\ moves' = moves
  BY LedgerUnchanged DEF CreateReconciliation, CloseReconciliation, StockInv, KeepLedger, ledgerVars
<1>2. PICK x : x = count[n]
  OBVIOUS
<1>3. CountSound(x, moves)
  BY <1>2 DEF StockInv, DocumentInv
<1>4. x \in CountRow /\ x.variance \in Int /\ x.counted \in Nat /\ x.cursor \in Nat
  BY <1>3 DEF CountSound, CountRow
<1>5. CASE CreateReconciliation(n)
  <2>1. PICK row : row = [x EXCEPT !.closed = "OPEN"]
    OBVIOUS
  <2>2. x.state = "POSTED" /\ SetCount(n, row) /\ KeepAllButCount
    BY <1>2, <1>5, <2>1 DEF CreateReconciliation
  <2>3. row \in CountRow
    BY <1>4, <2>1 DEF CountRow
  <2>4. /\ row.state = "POSTED" /\ row.counted = x.counted /\ row.variance = x.variance /\ row.cell = x.cell
        /\ row.cursor = x.cursor /\ row.closed = "OPEN"
    BY <1>4, <2>1, <2>2 DEF CountRow
  <2>5. CountSound(row, moves')
    BY <1>1, <1>3, <2>2, <2>3, <2>4 DEF CountSound
  <2>6. QED
    BY <1>1, <1>2, <2>2, <2>5, CountChanged
<1>6. CASE CloseReconciliation(n)
  <2>1. x.closed = "OPEN" /\ x.state = "POSTED"
    BY <1>2, <1>3, <1>6 DEF CloseReconciliation, CountSound
  <2>2. moves \in Seq(Movement) /\ x.cursor <= Len(moves)
    BY <1>3 DEF StockInv, LedgerInv, TablesAreSound, TablesAreTyped, CountSound
  <2>3. StockAt(x.cell, x.cursor) \in Int
    BY <1>4, <2>2, StockIsInt DEF StockAt
  <2>4. x.counted - Theoretical(n) = x.variance
    BY <1>2, <1>3, <2>1, ReportIsWhole DEF CountSound, StockAt
  <2>5. PICK row : row = [x EXCEPT !.closed = "CLOSED", !.result = x.variance]
    OBVIOUS
  <2>6. SetCount(n, row) /\ KeepAllButCount
    BY <1>2, <1>6, <2>4, <2>5 DEF CloseReconciliation
  <2>7. row \in CountRow
    BY <1>4, <2>5 DEF CountRow
  <2>8. /\ row.state = "POSTED" /\ row.counted = x.counted /\ row.variance = x.variance /\ row.cell = x.cell
        /\ row.cursor = x.cursor /\ row.closed = "CLOSED" /\ row.result = x.variance
    BY <1>4, <2>1, <2>5 DEF CountRow
  <2>9. CountSound(row, moves')
    BY <1>1, <1>3, <2>1, <2>7, <2>8 DEF CountSound
  <2>10. QED
    BY <1>1, <1>2, <2>1, <2>6, <2>9, CountChanged
<1>7. QED
  BY <1>5, <1>6

LEMMA CountStep ==
    ASSUME StockInv, CountNext(Cells)
    PROVE  StockGoal
BY CreateCountGoal, PutLineGoal, SubmitCountGoal, ApproveCountGoal, CancelCountGoal, PostCountGoal, ReconciliationGoal
   DEF CountNext

-----------------------------------------------------------------------------
(* Transfers.                                                              *)

LEMMA CreateTransferGoal ==
    ASSUME StockInv, NEW t \in Transfers, NEW from \in Cells, NEW to \in Cells, NEW q \in Quantities, CreateTransfer(t, from, to, q)
    PROVE  StockGoal
<1>1. LedgerGoal
  BY LedgerUnchanged DEF CreateTransfer, StockInv
<1>2. PICK row : row = [NoTransfer EXCEPT !.state = "DRAFT", !.from = from, !.to = to, !.sent = q]
  OBVIOUS
<1>3. row = [state |-> "DRAFT", from |-> from, to |-> to, sent |-> q, received |-> 0, move |-> 0, taken |-> <<>>, seen |-> 0]
  BY <1>2 DEF NoTransfer
<1>4. q \in Nat /\ q > 0 /\ <<>> \in Seq(Allocation)
  BY QuantitiesAreNat
<1>5. row \in TransferRow
  BY <1>3, <1>4 DEF TransferRow, TransferStates
<1>6. TransferSound(row, moves', Len(layers'))
  BY <1>3, <1>4, <1>5 DEF TransferSound
<1>7. QED
  BY <1>1, <1>2, <1>6, TransferChanged DEF CreateTransfer

LEMMA SubmitTransferGoal ==
    ASSUME StockInv, NEW t \in Transfers, SubmitTransfer(t) \/ CancelTransfer(t)
    PROVE  StockGoal
<1>1. LedgerGoal /\ Len(moves) \in Nat
  BY LedgerUnchanged DEF SubmitTransfer, CancelTransfer, StockInv, LedgerGoal, TablesGrow
<1>2. PICK x : x = transfer[t]
  OBVIOUS
<1>3. TransferSound(x, moves', Len(layers')) /\ x.state \in {"DRAFT", "SUBMITTED"}
  BY <1>1, <1>2, DocumentsKept DEF SubmitTransfer, CancelTransfer, StockInv, DocumentsBeside
<1>4. x \in TransferRow /\ x.received = 0 /\ x.move = 0 /\ x.taken = <<>> /\ x.sent > 0
  BY <1>3 DEF TransferSound
<1>5. PICK row : /\ row = [x EXCEPT !.state = "SUBMITTED", !.seen = Len(moves)] \/ row = [x EXCEPT !.state = "CANCELLED"]
                 /\ SetTransfer(t, row) /\ KeepAllButTransfer
  BY <1>2 DEF SubmitTransfer, CancelTransfer
<1>6. row \in TransferRow
  BY <1>1, <1>4, <1>5 DEF TransferRow, TransferStates
<1>7. row.state \in {"SUBMITTED", "CANCELLED"} /\ row.received = 0 /\ row.move = 0 /\ row.taken = <<>> /\ row.sent > 0
  BY <1>4, <1>5 DEF TransferRow
<1>8. TransferSound(row, moves', Len(layers'))
  BY <1>6, <1>7 DEF TransferSound
<1>9. QED
  BY <1>1, <1>5, <1>8, TransferChanged

LEMMA ShipGoal ==
    ASSUME StockInv, NEW t \in Transfers, NEW n, ShipTransfer(t, n)
    PROVE  StockGoal
<1>1. PICK x : x = transfer[t]
  OBVIOUS
<1>2. TransferSound(x, moves, Len(layers)) /\ LedgerInv /\ x.state = "SUBMITTED" /\ layers \in Seq(Layer)
  BY <1>1 DEF StockInv, DocumentInv, ShipTransfer, LedgerInv, TablesAreSound, TablesAreTyped
<1>3. x \in TransferRow /\ x.received = 0 /\ x.taken = <<>> /\ x.sent > 0
  BY <1>2 DEF TransferSound
<1>4. x.from \in Cells /\ x.sent \in Nat
  BY <1>3 DEF TransferRow
<1>5. Covered(x.from, x.sent) /\ Issue(x.from, "TRANSFER_OUT", x.sent) /\ KeepCells /\ KeepAllButTransfer
  BY <1>1 DEF ShipTransfer, CompleteFifo
<1>6. "TRANSFER_OUT" \in Kinds /\ "TRANSFER_OUT" \in Unblocked
  BY DEF Kinds, Unblocked
<1>7. LedgerGoal
  BY <1>2, <1>4, <1>5, <1>6, IssueGoal
<1>8. PICK a : a = Fifo(x.from, x.sent)
  OBVIOUS
<1>9. PICK r : r = Move(x.from, "TRANSFER_OUT", -x.sent, 0, a)
  OBVIOUS
<1>10. OneMore(r) /\ a \in Allocation /\ Len(layers') = Len(layers)
  BY <1>2, <1>4, <1>5, <1>6, <1>8, <1>9, IssueSound
<1>11. r.qty = -x.sent /\ r.alloc = a
  BY <1>9 DEF Move
<1>12. PICK m \in Nat : m = Len(moves) + 1 /\ m \in DOMAIN moves' /\ moves'[m] = r
  <2>1. Len(moves) \in Nat /\ DOMAIN moves' = 1 .. Len(moves) + 1 /\ moves'[Len(moves) + 1] = r
    BY <1>10 DEF OneMore, RowEffect
  <2>2. QED
    BY <2>1
<1>13. PICK p \in Nat : p = Len(layers) /\ LayerRows = 1 .. p /\ Len(layers') = p
  BY <1>2, <1>10 DEF LayerRows
<1>14. PICK row : row = [x EXCEPT !.state = "IN_TRANSIT", !.move = m]
  OBVIOUS
<1>15. row \in TransferRow
  BY <1>3, <1>14 DEF TransferRow, TransferStates
<1>16. row.state = "IN_TRANSIT" /\ row.move = m /\ row.received = 0 /\ row.taken = <<>> /\ row.sent = x.sent
  BY <1>3, <1>14 DEF TransferRow
<1>17. Total([i \in 1 .. p |-> Part(a, i)], p) = row.sent
  BY <1>5, <1>8, <1>13, <1>16 DEF Covered
<1>18. DOMAIN a \subseteq 1 .. p
  <2>1. \A i \in DOMAIN a : i \in LayerRows
    BY <1>2, <1>4, <1>8, FifoFits
  <2>2. QED
    BY <1>13, <2>1
<1>19. \A i : Already(row, i) = 0
  <2>1. row.taken \in Seq(Allocation) /\ \A r1 \in DOMAIN row.taken : FALSE
    BY <1>16
  <2>2. QED
    BY <2>1, AlreadyIsNat
<1>20. Total([i \in 1 .. p |-> Already(row, i)], p) = row.received
  <2>1. PICK f : f = [i \in 1 .. p |-> Already(row, i)]
    OBVIOUS
  <2>2. \A i \in 1 .. p : f[i] = 0
    BY <1>19, <2>1
  <2>3. Total(f, p) = 0
    BY <2>2, TotalNone
  <2>4. QED
    BY <1>16, <2>1, <2>3
<1>21. \A i \in 1 .. p : Already(row, i) <= Part(a, i)
  BY <1>10, <1>19, AllocationParts
<1>22. row.received <= row.sent /\ row.received # row.sent /\ row.sent > 0
  BY <1>3, <1>4, <1>16
<1>23. TransferSound(row, moves', p)
  BY <1>11, <1>12, <1>15, <1>16, <1>17, <1>18, <1>20, <1>21, <1>22 DEF TransferSound
<1>24. SetTransfer(t, row)
  BY <1>1, <1>12, <1>14 DEF ShipTransfer
<1>25. QED
  BY <1>5, <1>7, <1>13, <1>23, <1>24, TransferChanged

\* The rows of a set, in order.
LEMMA RowsInOrder ==
    ASSUME NEW n \in Nat, NEW S
    PROVE  /\ Place(S, n, n) \in Nat /\ DOMAIN InOrder(S, n) = 1 .. Place(S, n, n)
           /\ \A k \in DOMAIN InOrder(S, n) : InOrder(S, n)[k] \in 1 .. n /\ InOrder(S, n)[k] \in S
<1>1. PICK f : f = [j \in 1 .. n |-> IF j \in S THEN 1 ELSE 0]
  OBVIOUS
<1>2. \A k \in 1 .. n : f[k] = IF k \in S THEN 1 ELSE 0
  BY <1>1
<1>3. Total(f, n) \in Nat /\ \A p \in 1 .. Total(f, n) : \E i \in 1 .. n : i \in S /\ Total(f, i) = p
  BY <1>2, EveryPlaceTaken
<1>4. \A i : Place(S, n, i) = Total(f, i)
  BY <1>1 DEF Place
<1>5. DOMAIN InOrder(S, n) = 1 .. Place(S, n, n)
  BY DEF InOrder
<1>6. ASSUME NEW k \in 1 .. Place(S, n, n)
      PROVE  InOrder(S, n)[k] \in 1 .. n /\ InOrder(S, n)[k] \in S
  <2>1. \E i \in 1 .. n : i \in S /\ Place(S, n, i) = k
    BY <1>3, <1>4
  <2>2. PICK e : e = CHOOSE i \in 1 .. n : i \in S /\ Place(S, n, i) = k
    OBVIOUS
  <2>3. e \in 1 .. n /\ e \in S
    BY <2>1, <2>2
  <2>4. InOrder(S, n)[k] = e
    BY <2>2 DEF InOrder
  <2>5. QED
    BY <2>3, <2>4
<1>7. QED
  BY <1>3, <1>4, <1>5, <1>6

\* What a receipt of q reproduces of the layers of a shipment.
LEMMA Reproduction ==
    ASSUME NEW x, TransferSound(x, moves, Len(layers)), LedgerInv, x.state = "IN_TRANSIT",
           NEW q \in Nat, x.received + q <= x.sent
    PROVE  /\ \A i \in LayerRows : /\ Reproduced(x, q, i) \in Nat
                                   /\ Already(x, i) + Reproduced(x, q, i) <= Part(moves[x.move].alloc, i)
           /\ Total([i \in LayerRows |-> Already(x, i) + Reproduced(x, q, i)], Len(layers)) = x.received + q
<1>1. PICK p \in Nat : p = Len(layers) /\ LayerRows = 1 .. p
  <2>1. layers \in Seq(Layer)
    BY DEF LedgerInv, TablesAreSound, TablesAreTyped
  <2>2. QED
    BY <2>1 DEF LayerRows
<1>2. PICK a : a = moves[x.move].alloc
  OBVIOUS
<1>3. /\ x \in TransferRow /\ x.move \in DOMAIN moves
      /\ Total([i \in 1 .. p |-> Part(a, i)], p) = x.sent
      /\ Total([i \in 1 .. p |-> Already(x, i)], p) = x.received
      /\ \A i \in 1 .. p : Already(x, i) <= Part(a, i)
  BY <1>1, <1>2 DEF TransferSound
<1>4. x.sent \in Nat /\ x.received \in Nat /\ x.taken \in Seq(Allocation)
  BY <1>3 DEF TransferRow
<1>5. a \in Allocation
  <2>1. moves \in Seq(Movement)
    BY DEF LedgerInv, TablesAreSound, TablesAreTyped
  <2>2. moves[x.move] \in Movement
    BY <1>3, <2>1
  <2>3. QED
    BY <1>2, <2>2 DEF Movement
<1>6. PICK f : f = [i \in 1 .. p |-> Part(a, i)]
  OBVIOUS
<1>7. PICK b : b = [i \in 1 .. p |-> Already(x, i)]
  OBVIOUS
<1>8. PICK o : o = Outstanding(x)
  OBVIOUS
<1>9. PICK g : g = [i \in 1 .. p |-> Reproduced(x, q, i)]
  OBVIOUS
<1>10. \A i \in 1 .. p : f[i] \in Nat /\ b[i] \in Nat /\ b[i] <= f[i]
  BY <1>3, <1>4, <1>5, <1>6, <1>7, AlreadyIsNat, AllocationParts
<1>11. \A i \in 1 .. p : o[i] = f[i] - b[i]
  BY <1>1, <1>2, <1>6, <1>7, <1>8 DEF Outstanding
<1>12. \A i \in 1 .. p : o[i] \in Nat
  BY <1>10, <1>11
<1>13. \A i \in 1 .. p : g[i] = Share(o, q, i)
  BY <1>8, <1>9 DEF Reproduced
<1>14. \A i \in 1 .. p : g[i] \in Nat /\ g[i] <= o[i]
  BY <1>12, <1>13, ShareBounds
<1>15. Total(o, p) = x.sent - x.received
  <2>1. \A i \in 1 .. p : o[i] \in Int /\ b[i] \in Int /\ f[i] = o[i] + b[i]
    BY <1>10, <1>11, <1>12
  <2>2. Total(f, p) = Total(o, p) + Total(b, p)
    BY <2>1, TotalAdds
  <2>3. Total(o, p) \in Int
    BY <2>1, TotalInt
  <2>4. Total(f, p) = x.sent /\ Total(b, p) = x.received
    BY <1>3, <1>6, <1>7
  <2>5. QED
    BY <1>4, <2>2, <2>3, <2>4
<1>16. Total(g, p) = q
  <2>1. Total(g, p) = IF q < Total(o, p) THEN q ELSE Total(o, p)
    BY <1>12, <1>13, ShareTotal
  <2>2. q <= x.sent - x.received
    BY <1>4
  <2>3. QED
    BY <1>4, <1>15, <2>1, <2>2
<1>17. PICK h : h = [i \in 1 .. p |-> Already(x, i) + Reproduced(x, q, i)]
  OBVIOUS
<1>18. \A i \in 1 .. p : b[i] \in Int /\ g[i] \in Int /\ h[i] = b[i] + g[i]
  BY <1>7, <1>9, <1>10, <1>14, <1>17
<1>19. Total(h, p) = Total(b, p) + Total(g, p)
  BY <1>18, TotalAdds
<1>20. Total(h, p) = x.received + q
  BY <1>3, <1>7, <1>16, <1>19
<1>21. ASSUME NEW i \in 1 .. p
       PROVE  Reproduced(x, q, i) \in Nat /\ Already(x, i) + Reproduced(x, q, i) <= Part(a, i)
  <2>1. g[i] = Reproduced(x, q, i) /\ b[i] = Already(x, i) /\ f[i] = Part(a, i)
    BY <1>6, <1>7, <1>9
  <2>2. PICK u \in Nat, v \in Nat, w \in Nat : u = g[i] /\ v = b[i] /\ w = f[i] /\ v <= w /\ u <= w - v
    BY <1>10, <1>11, <1>14
  <2>3. v + u <= w
    BY <2>2
  <2>4. QED
    BY <2>1, <2>2, <2>3
<1>22. QED
  BY <1>1, <1>2, <1>17, <1>20, <1>21

LEMMA TakenMore ==
    ASSUME NEW x, x.taken \in Seq(Allocation), NEW a \in Allocation, NEW y, y.taken = Append(x.taken, a), NEW i
    PROVE  Already(y, i) = Already(x, i) + Part(a, i)
<1>1. PICK n \in Nat : n = Len(x.taken) /\ DOMAIN x.taken = 1 .. n
  OBVIOUS
<1>2. /\ Len(y.taken) = n + 1 /\ DOMAIN y.taken = 1 .. n + 1 /\ y.taken[n + 1] = a
      /\ \A r \in 1 .. n : y.taken[r] = x.taken[r] /\ x.taken[r] \in Allocation
  BY <1>1
<1>3. PICK f : f = [r \in 1 .. n |-> Part(x.taken[r], i)]
  OBVIOUS
<1>4. PICK h : h = [r \in 1 .. n + 1 |-> Part(y.taken[r], i)]
  OBVIOUS
<1>5. \A r \in 1 .. n : f[r] \in Int /\ h[r] = f[r]
  BY <1>2, <1>3, <1>4, AllocationParts
<1>6. h[n + 1] = Part(a, i)
  BY <1>2, <1>4
<1>7. h[n + 1] \in Int
  BY <1>6, AllocationParts
<1>8. Total(h, n + 1) = Total(f, n) + h[n + 1]
  BY <1>5, <1>7, TotalAppended
<1>9. Already(x, i) = Total(f, n) /\ Already(y, i) = Total(h, n + 1)
  BY <1>1, <1>2, <1>3, <1>4 DEF Already
<1>10. QED
  BY <1>6, <1>8, <1>9

\* The layers a receipt opens at the destination.
Opened(x, q) ==
    LET src == InOrder(Sources(x, q), Len(layers))
    IN  [k \in DOMAIN src |-> NewLayer(x.to, Reproduced(x, q, src[k]), layers[src[k]].cur)]

LEMMA OpenedAreFresh ==
    ASSUME NEW x, x.to \in Cells, NEW q, layers \in Seq(Layer), \A i \in LayerRows : Reproduced(x, q, i) \in Nat
    PROVE  FreshLayers(Opened(x, q))
<1>1. PICK p \in Nat : p = Len(layers) /\ LayerRows = 1 .. p /\ DOMAIN layers = 1 .. p
  BY DEF LayerRows
<1>2. PICK src : src = InOrder(Sources(x, q), p)
  OBVIOUS
<1>3. PICK n \in Nat : DOMAIN src = 1 .. n
  BY <1>2, RowsInOrder
<1>4. \A k \in 1 .. n : src[k] \in 1 .. p
  BY <1>2, <1>3, RowsInOrder
<1>5. PICK add : add = Opened(x, q)
  OBVIOUS
<1>6. add = [k \in 1 .. n |-> NewLayer(x.to, Reproduced(x, q, src[k]), layers[src[k]].cur)]
  BY <1>1, <1>2, <1>3, <1>5 DEF Opened
<1>7. ASSUME NEW k \in 1 .. n PROVE add[k] \in Layer /\ add[k].left = add[k].orig
  <2>1. PICK e \in 1 .. p : e = src[k]
    BY <1>4
  <2>2. Reproduced(x, q, e) \in Nat /\ layers[e].cur \in Currencies
    BY <1>1, LeftIsNat
  <2>3. add[k] = NewLayer(x.to, Reproduced(x, q, e), layers[e].cur)
    BY <1>6, <2>1
  <2>4. QED
    BY <2>2, <2>3 DEF NewLayer, Layer
<1>8. DOMAIN add = 1 .. n /\ add = [k \in 1 .. n |-> add[k]]
  BY <1>6
<1>9. add \in Seq(Layer)
  BY <1>7, <1>8
<1>10. QED
  BY <1>5, <1>7, <1>8, <1>9 DEF FreshLayers

LEMMA ReceiveTransferGoal ==
    ASSUME StockInv, NEW t \in Transfers, NEW q \in Quantities, ReceiveTransfer(t, q)
    PROVE  StockGoal
<1>1. PICK x : x = transfer[t]
  OBVIOUS
<1>2. TransferSound(x, moves, Len(layers)) /\ LedgerInv /\ layers \in Seq(Layer)
  BY <1>1 DEF StockInv, DocumentInv, LedgerInv, TablesAreSound, TablesAreTyped
<1>3. x.state = "IN_TRANSIT" /\ x.received + q <= x.sent /\ KeepCells /\ KeepAllButTransfer
  BY <1>1 DEF ReceiveTransfer
<1>4. q \in Nat /\ q > 0
  BY QuantitiesAreNat
<1>5. x \in TransferRow /\ x.to \in Cells /\ x.sent \in Nat /\ x.received \in Nat /\ x.taken \in Seq(Allocation) /\ x.sent > 0
  BY <1>2, <1>3 DEF TransferSound, TransferRow
<1>6. /\ \A i \in LayerRows : /\ Reproduced(x, q, i) \in Nat
                              /\ Already(x, i) + Reproduced(x, q, i) <= Part(moves[x.move].alloc, i)
      /\ Total([i \in LayerRows |-> Already(x, i) + Reproduced(x, q, i)], Len(layers)) = x.received + q
  BY <1>2, <1>3, <1>4, Reproduction
<1>7. LedgerGoal
  <2>1. FreshLayers(Opened(x, q))
    BY <1>2, <1>5, <1>6, OpenedAreFresh
  <2>2. Receive(x.to, "TRANSFER_IN", q, Opened(x, q))
    BY <1>1 DEF ReceiveTransfer, Opened
  <2>3. "TRANSFER_IN" \in Kinds /\ "TRANSFER_IN" # "CONSUMPTION"
    BY DEF Kinds
  <2>4. QED
    BY <1>2, <1>3, <1>4, <1>5, <2>1, <2>2, <2>3, ReceiveGoal
<1>8. PICK a : a = [i \in Sources(x, q) |-> Reproduced(x, q, i)]
  OBVIOUS
<1>9. PICK p \in Nat : p = Len(layers) /\ LayerRows = 1 .. p
  BY <1>2 DEF LayerRows
<1>10. a \in Allocation /\ DOMAIN a \subseteq 1 .. p
  <2>1. PICK S : S = Sources(x, q)
    OBVIOUS
  <2>2. S \subseteq 1 .. p /\ S \subseteq Nat /\ \A i \in S : Reproduced(x, q, i) \in Nat
    BY <1>6, <1>9, <2>1 DEF Sources
  <2>3. a = [i \in S |-> Reproduced(x, q, i)]
    BY <1>8, <2>1
  <2>4. a \in [S -> Nat] /\ DOMAIN a = S
    BY <2>2, <2>3
  <2>5. QED
    BY <2>2, <2>4, AllocationMade
<1>11. \A i \in 1 .. p : Part(a, i) = Reproduced(x, q, i)
  <2>1. SUFFICES ASSUME NEW i \in 1 .. p PROVE Part(a, i) = Reproduced(x, q, i)
    OBVIOUS
  <2>2. PICK v \in Nat : v = Reproduced(x, q, i)
    BY <1>6, <1>9
  <2>3. CASE v > 0
    <3>1. i \in Sources(x, q)
      BY <1>9, <2>2, <2>3 DEF Sources
    <3>2. i \in DOMAIN a /\ a[i] = v
      BY <1>8, <2>2, <3>1
    <3>3. QED
      BY <2>2, <3>2 DEF Part
  <2>4. CASE v = 0
    <3>0. ~(Reproduced(x, q, i) > 0)
      BY <2>2, <2>4
    <3>1. i \notin Sources(x, q)
      BY <3>0, Zenon DEF Sources
    <3>2. i \notin DOMAIN a
      BY <1>8, <3>1
    <3>3. QED
      BY <2>2, <2>4, <3>2 DEF Part
  <2>5. QED
    BY <2>2, <2>3, <2>4
<1>12. PICK st : st = IF x.received + q = x.sent THEN "RECEIVED" ELSE "IN_TRANSIT"
  OBVIOUS
<1>13. PICK row : row = [x EXCEPT !.received = x.received + q, !.state = st, !.taken = Append(x.taken, a)]
  OBVIOUS
<1>14. Append(x.taken, a) \in Seq(Allocation) /\ x.received + q \in Nat /\ st \in TransferStates
  BY <1>4, <1>5, <1>10, <1>12 DEF TransferStates
<1>15. row \in TransferRow
  BY <1>5, <1>13, <1>14 DEF TransferRow
<1>16. /\ row.state = st /\ row.move = x.move /\ row.received = x.received + q /\ row.taken = Append(x.taken, a)
       /\ row.sent = x.sent
  BY <1>5, <1>13 DEF TransferRow
<1>17. \A i \in 1 .. p : Already(row, i) = Already(x, i) + Reproduced(x, q, i)
  BY <1>5, <1>10, <1>11, <1>16, TakenMore
<1>18. Total([i \in 1 .. p |-> Already(row, i)], p) = row.received
  <2>1. PICK f : f = [i \in 1 .. p |-> Already(row, i)]
    OBVIOUS
  <2>2. PICK h : h = [i \in 1 .. p |-> Already(x, i) + Reproduced(x, q, i)]
    OBVIOUS
  <2>3. \A i \in 1 .. p : f[i] = h[i]
    BY <1>17, <2>1, <2>2
  <2>4. Total(f, p) = Total(h, p)
    BY <2>3, TotalSame
  <2>5. Total(h, p) = x.received + q
    BY <1>6, <1>9, <2>2
  <2>6. QED
    BY <1>16, <2>1, <2>4, <2>5
<1>19. \A i \in 1 .. p : Already(row, i) <= Part(moves[row.move].alloc, i)
  BY <1>6, <1>9, <1>16, <1>17
<1>20. \A r \in DOMAIN row.taken : DOMAIN row.taken[r] \subseteq 1 .. p
  <2>1. PICK n \in Nat : n = Len(x.taken) /\ DOMAIN x.taken = 1 .. n
    BY <1>5
  <2>2. /\ DOMAIN row.taken = 1 .. n + 1 /\ row.taken[n + 1] = a
        /\ \A r \in 1 .. n : row.taken[r] = x.taken[r]
    BY <1>5, <1>10, <1>16, <2>1
  <2>3. \A r \in 1 .. n : DOMAIN x.taken[r] \subseteq 1 .. p
    BY <1>2, <1>3, <1>9, <2>1 DEF TransferSound
  <2>4. QED
    BY <1>10, <2>2, <2>3
<1>21. /\ x.move \in DOMAIN moves /\ moves[x.move].qty = -x.sent /\ DOMAIN moves[x.move].alloc \subseteq 1 .. p
       /\ Total([i \in 1 .. p |-> Part(moves[x.move].alloc, i)], p) = x.sent
  BY <1>2, <1>3, <1>9 DEF TransferSound
<1>22. TransferSound(row, moves, p)
  <2>1. st \in {"IN_TRANSIT", "RECEIVED"} /\ (st = "RECEIVED" <=> x.received + q = x.sent)
    BY <1>12
  <2>2. QED
    BY <1>3, <1>5, <1>15, <1>16, <1>18, <1>19, <1>20, <1>21, <2>1 DEF TransferSound
<1>23. TransferSound(row, moves', Len(layers'))
  <2>1. TablesGrow(moves, layers, moves', layers')
    BY <1>7 DEF LedgerGoal
  <2>2. QED
    BY <1>9, <1>22, <2>1, TransferKept
<1>24. SetTransfer(t, row)
  <2>1. SetTransfer(t, [x EXCEPT !.received = @ + q, !.state = IF x.received + q = x.sent THEN "RECEIVED" ELSE @,
                                 !.taken = Append(@, [i \in Sources(x, q) |-> Reproduced(x, q, i)])])
    BY <1>1, Zenon DEF ReceiveTransfer
  <2>2. [x EXCEPT !.received = @ + q, !.state = IF x.received + q = x.sent THEN "RECEIVED" ELSE @,
                  !.taken = Append(@, [i \in Sources(x, q) |-> Reproduced(x, q, i)])] = row
    BY <1>3, <1>5, <1>8, <1>12, <1>13 DEF TransferRow
  <2>3. QED
    BY <2>1, <2>2
<1>25. QED
  BY <1>3, <1>7, <1>23, <1>24, TransferChanged

LEMMA TransferStep ==
    ASSUME StockInv, TransferNext(Cells)
    PROVE  StockGoal
BY CreateTransferGoal, SubmitTransferGoal, ShipGoal, ReceiveTransferGoal DEF TransferNext

-----------------------------------------------------------------------------
(* Preparation batches.                                                    *)

LEMMA CreateBatchGoal ==
    ASSUME StockInv, NEW b \in Batches, NEW in \in Cells, NEW out \in Cells, NEW q \in Quantities, CreateBatch(b, in, out, q)
    PROVE  StockGoal
<1>1. LedgerGoal
  BY LedgerUnchanged DEF CreateBatch, StockInv
<1>2. PICK row : row = [state |-> "DRAFT", in |-> in, out |-> out, qty |-> q, seen |-> 0]
  OBVIOUS
<1>3. q \in Nat
  BY QuantitiesAreNat
<1>4. BatchSound(row)
  BY <1>2, <1>3 DEF BatchSound, BatchRow, BatchStates
<1>5. QED
  BY <1>1, <1>2, <1>4, BatchChanged DEF CreateBatch

LEMMA BatchMovesOn ==
    ASSUME StockInv, NEW b \in Batches, StartBatch(b) \/ CancelBatch(b)
    PROVE  StockGoal
<1>1. LedgerGoal /\ Len(moves) \in Nat
  BY LedgerUnchanged DEF StartBatch, CancelBatch, StockInv, LedgerGoal, TablesGrow
<1>2. PICK x : x = batch[b]
  OBVIOUS
<1>3. BatchSound(x) /\ x.state # "NONE"
  BY <1>2 DEF StockInv, DocumentInv, StartBatch, CancelBatch
<1>4. PICK row : /\ row = [x EXCEPT !.state = "IN_PROGRESS", !.seen = Len(moves)] \/ row = [x EXCEPT !.state = "CANCELLED"]
                 /\ SetBatch(b, row) /\ KeepAllButBatch
  BY <1>2 DEF StartBatch, CancelBatch
<1>5. row \in BatchRow /\ row.qty = x.qty
  BY <1>1, <1>3, <1>4 DEF BatchSound, BatchRow, BatchStates
<1>6. BatchSound(row)
  BY <1>3, <1>5 DEF BatchSound
<1>7. QED
  BY <1>1, <1>4, <1>6, BatchChanged

LEMMA CompleteBatchGoal ==
    ASSUME StockInv, NEW b \in Batches, NEW n, CompleteBatch(b, n)
    PROVE  StockGoal
<1>1. PICK x : x = batch[b]
  OBVIOUS
<1>2. BatchSound(x) /\ x.state = "IN_PROGRESS" /\ LedgerInv
  BY <1>1 DEF StockInv, DocumentInv, CompleteBatch
<1>3. x \in BatchRow /\ x.in \in Cells /\ x.out \in Cells /\ x.qty \in Nat /\ x.qty > 0 /\ x.qty \in Quantities
  BY <1>2, QuantitiesAreNat DEF BatchSound, BatchRow
<1>4. BatchMoves(x.in, x.out, x.qty) /\ BatchLayers(x.in, x.out, x.qty) /\ KeepCells /\ KeepAllButBatch
  BY <1>1 DEF CompleteBatch, BatchMoves, BatchLayers
<1>5. LedgerGoal
  BY <1>2, <1>3, <1>4, BatchGoal
<1>6. PICK row : row = [x EXCEPT !.state = "COMPLETED"]
  OBVIOUS
<1>7. row \in BatchRow /\ row.qty = x.qty
  BY <1>3, <1>6 DEF BatchRow, BatchStates
<1>8. BatchSound(row)
  BY <1>3, <1>7 DEF BatchSound
<1>9. SetBatch(b, row)
  BY <1>1, <1>6 DEF CompleteBatch
<1>10. QED
  BY <1>4, <1>5, <1>8, <1>9, BatchChanged

LEMMA BatchStep ==
    ASSUME StockInv, BatchNext(Cells)
    PROVE  StockGoal
BY CreateBatchGoal, BatchMovesOn, CompleteBatchGoal DEF BatchNext

(***************************************************************************)
(* Purchasing.                                                             *)
(***************************************************************************)

\* More goods in more receipts are no fewer goods.
LEMMA TotalBelow ==
    ASSUME NEW n \in Nat, NEW f, NEW g, \A k \in 1 .. n : f[k] \in Nat /\ g[k] \in Nat /\ f[k] <= g[k]
    PROVE  Total(f, n) \in Nat /\ Total(g, n) \in Nat /\ Total(f, n) <= Total(g, n)
<1>1. PICK d : d = [k \in 1 .. n |-> g[k] - f[k]]
  OBVIOUS
<1>2. \A k \in 1 .. n : d[k] \in Nat /\ f[k] \in Nat /\ g[k] \in Nat
  BY <1>1
<1>3. \A k \in 1 .. n : f[k] \in Int /\ d[k] \in Int /\ g[k] = f[k] + d[k]
  BY <1>1, <1>2
<1>4. Total(g, n) = Total(f, n) + Total(d, n)
  BY <1>3, TotalAdds
<1>5. n \in 0 .. n
  OBVIOUS
<1>6. Total(d, n) \in Nat
  BY <1>2, <1>5, TotalGrows
<1>7. Total(f, n) \in Nat
  BY <1>2, <1>5, TotalGrows
<1>8. QED
  BY <1>4, <1>6, <1>7

GoodsOf(rows, S) == Total([r \in Receipts |-> IF r \in S THEN rows[r].accepted ELSE 0], MaxReceipts)

LEMMA GoodsGrow ==
    ASSUME NEW rows, NEW new, NEW S, NEW T, S \subseteq T, \A r \in Receipts : rows[r].accepted \in Nat /\ new[r].accepted \in Nat,
           \A r \in S : new[r].accepted = rows[r].accepted
    PROVE  GoodsOf(rows, S) \in Nat /\ GoodsOf(new, T) \in Nat /\ GoodsOf(rows, S) <= GoodsOf(new, T)
<1>1. PICK f : f = [r \in Receipts |-> IF r \in S THEN rows[r].accepted ELSE 0]
  OBVIOUS
<1>2. PICK g : g = [r \in Receipts |-> IF r \in T THEN new[r].accepted ELSE 0]
  OBVIOUS
<1>3. MaxReceipts \in Nat /\ Receipts = 1 .. MaxReceipts
  BY ProcurementAssumption DEF Receipts
<1>4. \A r \in Receipts : f[r] \in Nat /\ g[r] \in Nat /\ f[r] <= g[r]
  <2>1. SUFFICES ASSUME NEW r \in Receipts PROVE f[r] \in Nat /\ g[r] \in Nat /\ f[r] <= g[r]
    OBVIOUS
  <2>2. PICK u \in Nat, v \in Nat : u = rows[r].accepted /\ v = new[r].accepted
    OBVIOUS
  <2>3. f[r] = (IF r \in S THEN u ELSE 0) /\ g[r] = (IF r \in T THEN v ELSE 0)
    BY <1>1, <1>2, <2>2
  <2>4. r \in S => u = v /\ r \in T
    BY <2>2
  <2>5. QED
    BY <2>3, <2>4
<1>5. \A r \in 1 .. MaxReceipts : f[r] \in Nat /\ g[r] \in Nat /\ f[r] <= g[r]
  BY <1>3, <1>4
<1>6. Total(f, MaxReceipts) \in Nat /\ Total(g, MaxReceipts) \in Nat /\ Total(f, MaxReceipts) <= Total(g, MaxReceipts)
  BY <1>3, <1>5, TotalBelow
<1>7. QED
  BY <1>1, <1>2, <1>6 DEF GoodsOf

LEMMA ReceiptsTyped ==
    ASSUME ProcurementInv
    PROVE  /\ \A r \in Receipts : receipt[r].accepted \in Nat /\ receipt[r] \in [state : ReceiptStates, accepted : Quantity]
           /\ po.ordered \in Nat /\ po \in [state : OrderStates, ordered : Quantity]
<1>1. \A q \in Quantity : q \in Nat
  BY ProcurementAssumption DEF Quantity
<1>2. receipt \in [Receipts -> [state : ReceiptStates, accepted : Quantity]] /\ po \in [state : OrderStates, ordered : Quantity]
  BY DEF ProcurementInv, ProcurementTypeOK
<1>3. QED
  BY <1>1, <1>2

ProcurementGoal == ProcurementInv' /\ AcceptedNeedsApproval

LEMMA OfferingGoal ==
    ASSUME ProcurementInv, UpdateOffering
    PROVE  ProcurementGoal
<1>1. offering' = ~offering /\ po' = po /\ receipt' = receipt /\ stocked' = stocked /\ request' = request
  BY DEF UpdateOffering
<1>2. offering' \in BOOLEAN
  BY <1>1 DEF ProcurementInv, ProcurementTypeOK
<1>3. ProcurementInv'
  BY <1>1, <1>2, Zenon DEF ProcurementInv, ProcurementTypeOK, StockedIffAccepted, Accepted, Goods
<1>4. AcceptedNeedsApproval
  BY <1>1 DEF AcceptedNeedsApproval
<1>5. QED
  BY <1>3, <1>4 DEF ProcurementGoal

\* A change of the order alone that does not declare it received.
LEMMA OrderChanged ==
    ASSUME ProcurementInv, po' \in [state : OrderStates, ordered : Quantity], po'.state # "RECEIVED",
           UNCHANGED <<offering, receipt, stocked, request>>
    PROVE  ProcurementGoal
<1>1. offering' = offering /\ receipt' = receipt /\ stocked' = stocked /\ request' = request
  OBVIOUS
<1>2. ProcurementInv'
  BY <1>1, Zenon DEF ProcurementInv, ProcurementTypeOK, StockedIffAccepted, Accepted, Goods
<1>3. AcceptedNeedsApproval
  BY <1>1 DEF AcceptedNeedsApproval
<1>4. QED
  BY <1>2, <1>3 DEF ProcurementGoal

LEMMA OrderStep ==
    ASSUME ProcurementInv,
           \/ \E q \in 1 .. MaxOrdered : CreateOrder(q) \/ AmendOrder(q)
           \/ \E a \in DOMAIN Command : OrderCommand(a)
    PROVE  ProcurementGoal
<1>1. po \in [state : OrderStates, ordered : Quantity]
  BY ReceiptsTyped
<1>2. \A q \in 1 .. MaxOrdered : q \in Quantity
  BY ProcurementAssumption DEF Quantity
<1>3. CASE \E q \in 1 .. MaxOrdered : CreateOrder(q) \/ AmendOrder(q)
  <2>1. PICK q \in Quantity : CreateOrder(q) \/ AmendOrder(q)
    BY <1>2, <1>3
  <2>2. po' \in [state : OrderStates, ordered : Quantity] /\ po'.state = "DRAFT" /\ UNCHANGED <<offering, receipt, stocked, request>>
    BY <1>1, <2>1 DEF CreateOrder, AmendOrder, OrderStates
  <2>3. QED
    BY <2>2, OrderChanged
<1>4. CASE \E a \in DOMAIN Command : OrderCommand(a)
  <2>1. PICK a \in DOMAIN Command : OrderCommand(a)
    BY <1>4
  <2>2. a \in {"submit", "approve", "cancel", "close"}
    BY <2>1 DEF Command
  <2>3. Command[a].to \in {"SUBMITTED", "APPROVED", "CANCELLED", "CLOSED"}
    BY <2>2 DEF Command
  <2>4. po' = [po EXCEPT !.state = Command[a].to] /\ UNCHANGED <<offering, receipt, stocked, request>>
    BY <2>1 DEF OrderCommand
  <2>5. po' \in [state : OrderStates, ordered : Quantity] /\ po'.state # "RECEIVED"
    BY <1>1, <2>3, <2>4 DEF OrderStates
  <2>6. QED
    BY <2>4, <2>5, OrderChanged
<1>5. QED
  BY <1>3, <1>4

LEMMA GoodsRead == /\ \A S : Goods(S) = GoodsOf(receipt, S)
                   /\ Goods(Accepted)' = GoodsOf(receipt', Accepted')
BY Zenon DEF Goods, GoodsOf

\* Drawing up or cancelling a receipt moves no accepted goods.
LEMMA ReceiptChanged ==
    ASSUME ProcurementInv, NEW r \in Receipts, NEW row \in [state : ReceiptStates, accepted : Quantity],
           receipt[r].state # "ACCEPTED", row.state \notin {"NONE", "ACCEPTED"}, receipt' = [receipt EXCEPT ![r] = row],
           UNCHANGED <<offering, po, stocked, request>>
    PROVE  ProcurementGoal
<1>1. receipt \in [Receipts -> [state : ReceiptStates, accepted : Quantity]]
  BY DEF ProcurementInv, ProcurementTypeOK
<1>2. /\ receipt' \in [Receipts -> [state : ReceiptStates, accepted : Quantity]]
      /\ \A s \in Receipts : receipt'[s] = IF s = r THEN row ELSE receipt[s]
  BY <1>1
<1>3. Accepted' = Accepted
  BY <1>2 DEF Accepted
<1>4. GoodsOf(receipt', Accepted') >= GoodsOf(receipt, Accepted) /\ GoodsOf(receipt', Accepted') \in Nat /\ GoodsOf(receipt, Accepted) \in Nat
  <2>1. \A q \in Quantity : q \in Nat
    BY ProcurementAssumption DEF Quantity
  <2>2. \A s \in Receipts : receipt[s].accepted \in Nat /\ receipt'[s].accepted \in Nat
    BY <1>1, <1>2, <2>1
  <2>3. \A s \in Accepted : receipt'[s].accepted = receipt[s].accepted
    BY <1>2 DEF Accepted
  <2>4. Accepted \subseteq Accepted'
    BY <1>3
  <2>5. GoodsOf(receipt, Accepted) \in Nat /\ GoodsOf(receipt', Accepted') \in Nat /\ GoodsOf(receipt, Accepted) <= GoodsOf(receipt', Accepted')
    BY <2>2, <2>3, <2>4, GoodsGrow
  <2>6. QED
    BY <2>5
<1>5. po'.state = "RECEIVED" => Goods(Accepted)' >= po'.ordered
  <2>1. po' = po
    OBVIOUS
  <2>2. po.state = "RECEIVED" => Goods(Accepted) >= po.ordered
    BY DEF ProcurementInv
  <2>3. po.ordered \in Nat
    BY ReceiptsTyped
  <2>4. QED
    BY <1>4, <2>1, <2>2, <2>3, GoodsRead
<1>6. StockedIffAccepted'
  <2>1. \A s \in Receipts : s \in stocked <=> receipt[s].state = "ACCEPTED" /\ receipt[s].accepted > 0
    BY DEF ProcurementInv, StockedIffAccepted
  <2>2. stocked' = stocked
    OBVIOUS
  <2>3. QED
    BY <1>2, <2>1, <2>2 DEF StockedIffAccepted
<1>7. ProcurementTypeOK'
  BY <1>2 DEF ProcurementInv, ProcurementTypeOK
<1>8. /\ request' = [k \in Clerks |-> request'[k]] /\ \A k \in Clerks : request'[k].seen \subseteq Accepted'
  BY <1>3 DEF ProcurementInv
<1>9. \A s \in Receipts : receipt'[s].state = "NONE" => receipt'[s].accepted = 0
  BY <1>2 DEF ProcurementInv
<1>10. ProcurementInv'
  BY <1>5, <1>6, <1>7, <1>8, <1>9 DEF ProcurementInv
<1>11. AcceptedNeedsApproval
  BY <1>2 DEF AcceptedNeedsApproval
<1>12. QED
  BY <1>10, <1>11 DEF ProcurementGoal

LEMMA DraftStep ==
    ASSUME ProcurementInv, NEW r \in Receipts, (\E q \in Quantity : CreateReceipt(r, q)) \/ CancelReceipt(r)
    PROVE  ProcurementGoal
<1>1. receipt \in [Receipts -> [state : ReceiptStates, accepted : Quantity]]
  BY DEF ProcurementInv, ProcurementTypeOK
<1>2. CASE \E q \in Quantity : CreateReceipt(r, q)
  <2>1. PICK q \in Quantity : CreateReceipt(r, q)
    BY <1>2
  <2>2. PICK row : row = [state |-> "DRAFT", accepted |-> q]
    OBVIOUS
  <2>3. row \in [state : ReceiptStates, accepted : Quantity] /\ row.state \notin {"NONE", "ACCEPTED"}
    BY <2>2 DEF ReceiptStates
  <2>4. receipt[r].state # "ACCEPTED" /\ receipt' = [receipt EXCEPT ![r] = row] /\ UNCHANGED <<offering, po, stocked, request>>
    BY <2>1, <2>2 DEF CreateReceipt
  <2>5. QED
    BY <2>3, <2>4, ReceiptChanged
<1>3. CASE CancelReceipt(r)
  <2>1. PICK row : row = [receipt[r] EXCEPT !.state = "CANCELLED"]
    OBVIOUS
  <2>2. row \in [state : ReceiptStates, accepted : Quantity] /\ row.state \notin {"NONE", "ACCEPTED"}
    BY <1>1, <2>1 DEF ReceiptStates
  <2>3. receipt[r].state # "ACCEPTED" /\ receipt' = [receipt EXCEPT ![r] = row] /\ UNCHANGED <<offering, po, stocked, request>>
    BY <1>3, <2>1 DEF CancelReceipt
  <2>4. QED
    BY <2>2, <2>3, ReceiptChanged
<1>4. QED
  BY <1>2, <1>3

\* The beginning and the end of an acceptance change the clerk's reading only.
LEMMA ClerkStep ==
    ASSUME ProcurementInv, NEW k \in Clerks, (\E r \in Receipts : BeginAccept(k, r)) \/ EndAccept(k)
    PROVE  ProcurementGoal
<1>1. PICK row : request' = [request EXCEPT ![k] = row] /\ row.receipt \in Receipts \cup {0} /\ row.seen \subseteq Accepted
                 /\ UNCHANGED <<offering, po, receipt, stocked>>
  <2>1. CASE \E r \in Receipts : BeginAccept(k, r)
    <3>1. PICK r \in Receipts : BeginAccept(k, r)
      BY <2>1
    <3>2. PICK e : e = [receipt |-> r, seen |-> Accepted]
      OBVIOUS
    <3>3. request' = [request EXCEPT ![k] = e] /\ UNCHANGED <<offering, po, receipt, stocked>>
      BY <3>1, <3>2 DEF BeginAccept
    <3>4. e.receipt \in Receipts \cup {0} /\ e.seen \subseteq Accepted
      BY <3>2
    <3>5. QED
      BY <3>3, <3>4
  <2>2. CASE EndAccept(k)
    <3>1. PICK e : e = NoRequest
      OBVIOUS
    <3>2. request' = [request EXCEPT ![k] = e] /\ UNCHANGED <<offering, po, receipt, stocked>>
      BY <2>2, <3>1 DEF EndAccept
    <3>3. e.receipt \in Receipts \cup {0} /\ e.seen \subseteq Accepted
      BY <3>1 DEF NoRequest
    <3>4. QED
      BY <3>2, <3>3
  <2>3. QED
    BY <2>1, <2>2
<1>2. offering' = offering /\ po' = po /\ receipt' = receipt /\ stocked' = stocked
  BY <1>1
<1>3. request = [j \in Clerks |-> request[j]] /\ \A j \in Clerks : request[j].seen \subseteq Accepted /\ request[j].receipt \in Receipts \cup {0}
  BY DEF ProcurementInv, ProcurementTypeOK
<1>4. request' = [j \in Clerks |-> request'[j]] /\ \A j \in Clerks : request'[j] = IF j = k THEN row ELSE request[j]
  BY <1>1, <1>3
<1>5. Accepted' = Accepted
  BY <1>2 DEF Accepted
<1>6. \A j \in Clerks : request'[j].seen \subseteq Accepted' /\ request'[j].receipt \in Receipts \cup {0}
  BY <1>1, <1>3, <1>4, <1>5
<1>7. ProcurementTypeOK'
  BY <1>2, <1>6 DEF ProcurementInv, ProcurementTypeOK
<1>8. po'.state = "RECEIVED" => Goods(Accepted)' >= po'.ordered
  BY <1>2, <1>5, GoodsRead DEF ProcurementInv
<1>9. ProcurementInv'
  BY <1>2, <1>4, <1>6, <1>7, <1>8 DEF ProcurementInv, StockedIffAccepted
<1>10. AcceptedNeedsApproval
  BY <1>2 DEF AcceptedNeedsApproval
<1>11. QED
  BY <1>9, <1>10 DEF ProcurementGoal

\* What the request saw accepted, and its own receipt, are no more than what is
\* accepted: a stale sum never declares an incomplete order received.
LEMMA AcceptStep ==
    ASSUME ProcurementInv, NEW k \in Clerks, AcceptReceipt(k)
    PROVE  ProcurementGoal
<1>1. PICK r : r = request[k].receipt
  OBVIOUS
<1>2. PICK seen : seen = request[k].seen
  OBVIOUS
<1>3. /\ r # 0 /\ receipt[r].state = "DRAFT" /\ po.state \in Receivable
      /\ receipt' = [receipt EXCEPT ![r].state = "ACCEPTED"]
      /\ stocked' = IF receipt[r].accepted > 0 THEN stocked \cup {r} ELSE stocked
      /\ po' = [po EXCEPT !.state = ReceivedStatus(seen \cup {r})]
      /\ request' = [request EXCEPT ![k] = NoRequest] /\ offering' = offering
  BY <1>1, <1>2 DEF AcceptReceipt, MayAccept
<1>4. /\ receipt \in [Receipts -> [state : ReceiptStates, accepted : Quantity]]
      /\ po \in [state : OrderStates, ordered : Quantity] /\ stocked \subseteq Receipts /\ offering \in BOOLEAN
      /\ request = [j \in Clerks |-> request[j]]
      /\ \A j \in Clerks : request[j].seen \subseteq Accepted /\ request[j].receipt \in Receipts \cup {0}
  BY DEF ProcurementInv, ProcurementTypeOK
<1>5. r \in Receipts /\ seen \subseteq Accepted
  BY <1>1, <1>2, <1>3, <1>4
<1>6. PICK row : row = [receipt[r] EXCEPT !.state = "ACCEPTED"]
  OBVIOUS
<1>7. row \in [state : ReceiptStates, accepted : Quantity] /\ row.state = "ACCEPTED" /\ row.accepted = receipt[r].accepted
  BY <1>4, <1>5, <1>6 DEF ReceiptStates
<1>8. /\ receipt' \in [Receipts -> [state : ReceiptStates, accepted : Quantity]]
      /\ \A s \in Receipts : receipt'[s] = IF s = r THEN row ELSE receipt[s]
  BY <1>3, <1>4, <1>5, <1>6, <1>7
<1>9. Accepted' = Accepted \cup {r}
  BY <1>5, <1>7, <1>8 DEF Accepted
<1>10. GoodsOf(receipt, seen \cup {r}) <= GoodsOf(receipt', Accepted') /\ GoodsOf(receipt', Accepted') \in Nat
       /\ GoodsOf(receipt, seen \cup {r}) \in Nat
  <2>1. \A q \in Quantity : q \in Nat
    BY ProcurementAssumption DEF Quantity
  <2>2. \A s \in Receipts : receipt[s].accepted \in Nat /\ receipt'[s].accepted \in Nat
    BY <1>4, <1>8, <2>1
  <2>3. PICK S : S = seen \cup {r}
    OBVIOUS
  <2>4. \A s \in S : receipt'[s].accepted = receipt[s].accepted
    BY <1>5, <1>7, <1>8, <2>3 DEF Accepted
  <2>5. S \subseteq Accepted'
    BY <1>5, <1>9, <2>3
  <2>6. GoodsOf(receipt, S) \in Nat /\ GoodsOf(receipt', Accepted') \in Nat /\ GoodsOf(receipt, S) <= GoodsOf(receipt', Accepted')
    BY <2>2, <2>4, <2>5, GoodsGrow
  <2>7. QED
    BY <2>3, <2>6
<1>11. /\ ReceivedStatus(seen \cup {r}) \in {"RECEIVED", "PARTIALLY_RECEIVED", "APPROVED"}
       /\ ReceivedStatus(seen \cup {r}) = "RECEIVED" => Goods(seen \cup {r}) >= po.ordered
  BY DEF ReceivedStatus
<1>12. po' \in [state : OrderStates, ordered : Quantity] /\ po'.ordered = po.ordered /\ po'.state = ReceivedStatus(seen \cup {r})
  BY <1>3, <1>4, <1>11 DEF OrderStates
<1>13. po'.state = "RECEIVED" => Goods(Accepted)' >= po'.ordered
  <2>1. po.ordered \in Nat
    BY ReceiptsTyped
  <2>2. QED
    BY <1>10, <1>11, <1>12, <2>1, GoodsRead
<1>14. StockedIffAccepted'
  <2>1. \A s \in Receipts : s \in stocked <=> receipt[s].state = "ACCEPTED" /\ receipt[s].accepted > 0
    BY DEF ProcurementInv, StockedIffAccepted
  <2>2. ASSUME NEW s \in Receipts PROVE s \in stocked' <=> receipt'[s].state = "ACCEPTED" /\ receipt'[s].accepted > 0
    <3>1. CASE s = r
      <4>1. receipt'[s].state = "ACCEPTED" /\ receipt'[s].accepted = receipt[s].accepted
        BY <1>7, <1>8, <3>1
      <4>2. s \notin stocked
        BY <1>3, <2>1, <3>1
      <4>3. s \in stocked' <=> receipt[s].accepted > 0
        BY <1>3, <3>1, <4>2
      <4>4. QED
        BY <4>1, <4>3
    <3>2. CASE s # r
      <4>1. receipt'[s] = receipt[s]
        BY <1>8, <3>2
      <4>2. s \in stocked' <=> s \in stocked
        BY <1>3, <3>2
      <4>3. QED
        BY <2>1, <4>1, <4>2
    <3>3. QED
      BY <3>1, <3>2
  <2>3. QED
    BY <2>2 DEF StockedIffAccepted
<1>15. /\ request' = [j \in Clerks |-> request'[j]]
       /\ \A j \in Clerks : request'[j].seen \subseteq Accepted' /\ request'[j].receipt \in Receipts \cup {0}
  <2>1. NoRequest.seen = {} /\ NoRequest.receipt = 0
    BY DEF NoRequest
  <2>2. request' = [j \in Clerks |-> request'[j]] /\ \A j \in Clerks : request'[j] = IF j = k THEN NoRequest ELSE request[j]
    BY <1>3, <1>4
  <2>3. QED
    BY <1>4, <1>9, <2>1, <2>2
<1>16. stocked' \subseteq Receipts
  BY <1>3, <1>4, <1>5
<1>17. ProcurementTypeOK'
  BY <1>3, <1>4, <1>8, <1>12, <1>15, <1>16 DEF ProcurementTypeOK
<1>18. \A s \in Receipts : receipt'[s].state = "NONE" => receipt'[s].accepted = 0
  BY <1>7, <1>8 DEF ProcurementInv
<1>19. ProcurementInv'
  BY <1>13, <1>14, <1>15, <1>17, <1>18 DEF ProcurementInv
<1>20. AcceptedNeedsApproval
  BY <1>3, <1>8 DEF AcceptedNeedsApproval
<1>21. QED
  BY <1>19, <1>20 DEF ProcurementGoal

LEMMA ProcurementStep ==
    ASSUME ProcurementInv, ProcurementNext
    PROVE  ProcurementGoal
BY OfferingGoal, OrderStep, DraftStep, ClerkStep, AcceptStep DEF ProcurementNext

(***************************************************************************)
(* The dated histories.                                                    *)
(***************************************************************************)

\* The date of the latest revision is the greatest.
LEMMA LatestIsLatest ==
    ASSUME NEW h, DatedInOrder(h)
    PROVE  LatestDate(h) \in Times /\ \A i \in DOMAIN h : h[i].at \in Times /\ h[i].at <= LatestDate(h)
<1>1. h \in Seq(Revision) /\ 0 \in Times /\ \A i \in DOMAIN h : h[i].at \in Times
  <2>1. h \in Seq(Revision) /\ 0 \in Times
    BY HistoryAssumption DEF DatedInOrder, Times
  <2>2. \A i \in DOMAIN h : h[i] \in Revision
    BY <2>1
  <2>3. QED
    BY <2>1, <2>2 DEF Revision
<1>2. CASE h = <<>>
  BY <1>1, <1>2 DEF LatestDate
<1>3. CASE h # <<>>
  <2>1. Len(h) \in DOMAIN h /\ \A i \in DOMAIN h : i <= Len(h)
    BY <1>1, <1>3
  <2>2. QED
    BY <1>1, <1>3, <2>1 DEF LatestDate, DatedInOrder
<1>4. QED
  BY <1>2, <1>3

Revised(h, g, a, v) == g = Append(h, [at |-> a, value |-> v])

\* A revision that is not older than the latest keeps the order, and what was in force
\* before the latest.
LEMMA RevisionAppended ==
    ASSUME NEW h, DatedInOrder(h), NEW a \in Times, LatestDate(h) <= a, NEW v \in Values,
           NEW g, Revised(h, g, a, v)
    PROVE  /\ DatedInOrder(g) /\ g # <<>>
           /\ \A t \in Times : t < LatestDate(h) => AsOf(g, t) = AsOf(h, t)
<1>1. PICK r : r = [at |-> a, value |-> v]
  OBVIOUS
<1>2. r \in Revision /\ r.at = a
  BY <1>1 DEF Revision
<1>3. h \in Seq(Revision)
  BY DEF DatedInOrder
<1>4. PICK n : n = Len(h) + 1
  OBVIOUS
<1>5. /\ g \in Seq(Revision) /\ Len(g) = n /\ n \in Nat /\ DOMAIN g = DOMAIN h \cup {n} /\ g[n] = r /\ g # <<>>
      /\ \A i \in DOMAIN h : g[i] = h[i] /\ i < n /\ i \in Nat
  <2>1. g = Append(h, r)
    BY <1>1 DEF Revised
  <2>2. QED
    BY <1>2, <1>3, <1>4, <2>1
<1>6. \A i \in DOMAIN h : h[i].at \in Times /\ h[i].at <= LatestDate(h) /\ LatestDate(h) \in Times
  BY LatestIsLatest
<1>7. DatedInOrder(g)
  <2>1. ASSUME NEW i \in DOMAIN g, NEW j \in DOMAIN g, i <= j PROVE g[i].at <= g[j].at
    <3>1. CASE j \in DOMAIN h
      <4>1. i \in DOMAIN h
        BY <1>5, <2>1, <3>1
      <4>2. QED
        BY <1>5, <2>1, <3>1, <4>1 DEF DatedInOrder
    <3>2. CASE j = n /\ i \in DOMAIN h
      <4>1. g[i].at \in Times /\ g[i].at <= LatestDate(h) /\ LatestDate(h) \in Times /\ g[j].at = a
        BY <1>2, <1>5, <1>6, <3>2
      <4>2. QED
        BY <4>1, HistoryAssumption DEF Times
    <3>3. CASE j = n /\ i = n
      BY <1>2, <1>5, <3>3, HistoryAssumption DEF Times
    <3>4. QED
      BY <1>5, <3>1, <3>2, <3>3
  <2>2. QED
    BY <1>5, <2>1 DEF DatedInOrder
<1>8. ASSUME NEW t \in Times, t < LatestDate(h) PROVE AsOf(g, t) = AsOf(h, t)
  <2>1. LatestDate(h) \in Times /\ ~(a <= t)
    BY <1>8, LatestIsLatest, HistoryAssumption DEF Times
  <2>2. {i \in DOMAIN g : g[i].at <= t} = {i \in DOMAIN h : h[i].at <= t}
    BY <1>2, <1>5, <2>1
  <2>3. PICK S : S = {i \in DOMAIN h : h[i].at <= t}
    OBVIOUS
  <2>4. \A i \in S : g[i] = h[i]
    BY <1>5, <2>3
  <2>5. {i \in S : \A j \in S : g[j].at <= g[i].at} = {i \in S : \A j \in S : h[j].at <= h[i].at}
    BY <2>4
  <2>6. QED
    BY <2>2, <2>3, <2>5 DEF AsOf
<1>9. QED
  BY <1>5, <1>7, <1>8

\* AppendRevision keeps a history in order, and what was in force before its latest date.
LEMMA RevisionsKept ==
    ASSUME NEW h, DatedInOrder(h), NEW a \in Times, NEW v \in Values, NEW c \in BOOLEAN, NEW g, g = AppendRevision(h, a, v, c)
    PROVE  /\ DatedInOrder(g) /\ (h # <<>> => g # <<>>)
           /\ \A t \in Times : t < LatestDate(h) => AsOf(g, t) = AsOf(h, t)
<1>1. LatestDate(h) \in Times
  BY LatestIsLatest
<1>2. CASE a >= LatestDate(h)
  <2>1. Revised(h, g, a, v) /\ LatestDate(h) <= a
    BY <1>1, <1>2, HistoryAssumption DEF AppendRevision, Times, Revised
  <2>2. QED
    BY <2>1, RevisionAppended
<1>3. CASE ~(a >= LatestDate(h)) /\ c
  <2>1. PICK l : l = LatestDate(h)
    OBVIOUS
  <2>2. Revised(h, g, l, v) /\ l \in Times /\ LatestDate(h) <= l
    BY <1>1, <1>3, <2>1, HistoryAssumption DEF AppendRevision, Times, Revised
  <2>3. QED
    BY <2>2, RevisionAppended
<1>4. CASE ~(a >= LatestDate(h)) /\ ~c
  BY <1>4 DEF AppendRevision
<1>5. QED
  BY <1>2, <1>3, <1>4

\* The latest version of w ends at date t (CloseLatest).
Closed(w, c, t) ==
    c = [i \in DOMAIN w |-> IF i = Len(w) /\ w[i].to = Forever THEN [w[i] EXCEPT !.to = t] ELSE w[i]]

\* Closing the latest version leaves the dates of the others alone.
LEMMA LatestCloses ==
    ASSUME NEW w, VersionsChain(w), NEW t \in Times, NEW c, Closed(w, c, t)
    PROVE  /\ c \in Seq(Version) /\ Len(c) = Len(w)
           /\ \A i \in DOMAIN w : /\ c[i].from = w[i].from
                                  /\ i # Len(w) => c[i].to = w[i].to
                                  /\ i = Len(w) => c[i].to = t
<1>1. w \in Seq(Version) /\ \A i \in DOMAIN w : w[i] \in Version /\ (i = Len(w) => w[i].to = Forever)
  BY DEF VersionsChain
<1>2. ASSUME NEW i \in DOMAIN w
      PROVE  /\ c[i] \in Version /\ c[i].from = w[i].from
             /\ i # Len(w) => c[i].to = w[i].to
             /\ i = Len(w) => c[i].to = t
  <2>1. CASE i = Len(w)
    <3>1. c[i] = [w[i] EXCEPT !.to = t] /\ w[i] \in Version /\ t \in 0 .. Forever
      BY <1>1, <2>1, HistoryAssumption DEF Closed, Times, Forever
    <3>2. QED
      BY <2>1, <3>1 DEF Version
  <2>2. CASE i # Len(w)
    <3>1. c[i] = w[i] /\ w[i] \in Version
      BY <1>1, <2>2 DEF Closed
    <3>2. QED
      BY <2>2, <3>1
  <2>3. QED
    BY <2>1, <2>2
<1>3. DOMAIN c = 1 .. Len(w) /\ Len(w) \in Nat
  BY <1>1 DEF Closed
<1>4. c \in Seq(Version) /\ Len(c) = Len(w)
  <2>1. DOMAIN w = 1 .. Len(w)
    BY <1>1
  <2>2. c \in [1 .. Len(w) -> Version]
    BY <1>2, <1>3, <2>1 DEF Closed
  <2>3. QED
    BY <1>3, <2>2
<1>5. QED
  BY <1>2, <1>4

\* A new version from date t on, behind the closed ones, divides time as before.
LEMMA VersionAdded ==
    ASSUME NEW w, VersionsChain(w), NEW t \in Times, w # <<>> => t >= w[Len(w)].from,
           NEW c, Closed(w, c, t), NEW v \in Version, v.from = t, v.to = Forever, NEW g, g = Append(c, v)
    PROVE  VersionsChain(g)
<1>1. /\ c \in Seq(Version) /\ Len(c) = Len(w)
      /\ \A i \in DOMAIN w : /\ c[i].from = w[i].from
                             /\ i # Len(w) => c[i].to = w[i].to
                             /\ i = Len(w) => c[i].to = t
  BY LatestCloses
<1>2. PICK l, n : l = Len(w) /\ n = l + 1
  OBVIOUS
<1>3. w \in Seq(Version) /\ l \in Nat /\ DOMAIN w = 1 .. l
  BY <1>2 DEF VersionsChain
<1>4. /\ g \in Seq(Version) /\ Len(g) = n /\ DOMAIN g = 1 .. n /\ g[n] = v
      /\ \A i \in 1 .. l : g[i] = c[i]
  BY <1>1, <1>2, <1>3
<1>5. \A i \in 1 .. l : w[i].from \in Times /\ w[i].to \in 0 .. Forever
  <2>1. \A i \in 1 .. l : w[i] \in Version
    BY <1>3
  <2>2. QED
    BY <2>1 DEF Version
<1>6. \A i \in 1 .. l : /\ g[i].from = w[i].from
                        /\ i # l => g[i].to = w[i].to
                        /\ i = l => g[i].to = t
  BY <1>1, <1>2, <1>3, <1>4
<1>7. ASSUME NEW i \in DOMAIN g, NEW j \in DOMAIN g, i < j PROVE g[i].to <= g[j].from
  <2>1. i \in 1 .. l
    BY <1>2, <1>3, <1>4, <1>7
  <2>2. CASE j \in 1 .. l
    <3>1. i # l
      BY <1>3, <1>7, <2>1, <2>2
    <3>2. w[i].to <= w[j].from
      BY <1>3, <1>7, <2>1, <2>2 DEF VersionsChain
    <3>3. QED
      BY <1>6, <2>1, <2>2, <3>1, <3>2
  <2>3. CASE j = n
    <3>1. g[j].from = t
      BY <1>4, <2>3
    <3>2. CASE i = l
      BY <1>6, <2>1, <3>1, <3>2, HistoryAssumption DEF Times
    <3>3. CASE i # l
      <4>1. l \in 1 .. l /\ i < l /\ w # <<>>
        BY <1>3, <2>1, <3>3
      <4>2. w[i].to <= w[l].from /\ w[l].from <= t
        <5>1. w[i].to <= w[l].from
          BY <1>3, <2>1, <4>1 DEF VersionsChain
        <5>2. w[l].from <= t
          BY <1>2, <1>5, <4>1, HistoryAssumption DEF Times
        <5>3. QED
          BY <5>1, <5>2
      <4>3. w[i].to \in Int /\ w[l].from \in Int /\ t \in Int
        BY <1>5, <2>1, <4>1, HistoryAssumption DEF Times, Forever
      <4>4. w[i].to <= t
        BY <4>2, <4>3
      <4>5. QED
        BY <1>6, <2>1, <3>1, <3>3, <4>4
    <3>4. QED
      BY <3>2, <3>3
  <2>4. QED
    BY <1>2, <1>3, <1>4, <2>2, <2>3
<1>8. \A i \in DOMAIN g : i = Len(g) => g[i].to = Forever
  BY <1>4
<1>9. ASSUME NEW u \in Times, g # <<>>, g[1].from <= u PROVE Covers(g, u)
  <2>1. CASE t <= u
    <3>1. v.from <= u /\ u < v.to
      BY <2>1, HistoryAssumption DEF Times, Forever
    <3>2. n \in DOMAIN g
      BY <1>2, <1>3, <1>4
    <3>3. QED
      BY <1>4, <3>1, <3>2 DEF Covers
  <2>2. CASE ~(t <= u)
    <3>1. u < t
      BY <2>2, HistoryAssumption DEF Times
    <3>2. l # 0
      <4>1. SUFFICES ASSUME l = 0 PROVE FALSE
        OBVIOUS
      <4>2. g[1] = v
        BY <1>2, <1>4, <4>1
      <4>3. QED
        BY <1>9, <2>2, <4>2
    <3>3. 1 \in 1 .. l /\ w # <<>>
      BY <1>3, <3>2
    <3>4. w[1].from <= u
      BY <1>6, <1>9, <3>3
    <3>5. PICK i \in DOMAIN w : w[i].from <= u /\ u < w[i].to
      BY <3>3, <3>4 DEF VersionsChain, Covers
    <3>6. i \in 1 .. l /\ i \in DOMAIN g
      BY <1>2, <1>3, <1>4
    <3>7. g[i].from <= u /\ u < g[i].to
      BY <1>6, <3>1, <3>5, <3>6
    <3>8. QED
      BY <3>6, <3>7 DEF Covers
  <2>3. QED
    BY <2>1, <2>2
<1>10. QED
  BY <1>4, <1>7, <1>8, <1>9 DEF VersionsChain
\* What a step must leave: the invariant, and the settled part of both dated histories.
HistoryGoal == HistoryInv' /\ SettledHistoryIsFinal

\* A history that does not change keeps everything.
LEMMA SameHistory == ASSUME costs' = costs, conversions' = conversions PROVE SettledHistoryIsFinal
  BY DEF SettledHistoryIsFinal

\* The date of today is a date, and stays one.
LEMMA TickGoal == HistoryInv /\ Tick => HistoryGoal
<1>1. HAVE HistoryInv /\ Tick
<1>2. now' \in Times
  BY <1>1, HistoryAssumption DEF HistoryInv, HistoryTypeOK, Tick, Times
<1>3. /\ item' = item /\ costs' = costs /\ conversions' = conversions /\ versions' = versions /\ recipes' = recipes
  BY <1>1 DEF Tick
<1>4. SettledHistoryIsFinal
  BY <1>3, SameHistory
<1>5. QED
  BY <1>1, <1>2, <1>3, <1>4 DEF HistoryGoal, HistoryInv, HistoryTypeOK

\* A cost revision, by the manager or by an update of the item.
LEMMA CostGoal ==
    ASSUME HistoryInv, NEW v \in Values,
           (\E t \in Times : CreateCostRevision(t, v)) \/ (\E b \in BOOLEAN : UpdateItem(v, b))
    PROVE  HistoryGoal
<1>1. /\ now \in Times /\ item \in [active : BOOLEAN, cost : Values] /\ DatedInOrder(costs) /\ costs # <<>> /\ DatedInOrder(conversions)
      /\ versions \in Seq(Version) /\ recipes \in Seq(Recipe) /\ VersionsChain(versions)
  BY DEF HistoryInv, HistoryTypeOK
<1>2. now' = now /\ conversions' = conversions /\ versions' = versions /\ recipes' = recipes
  BY DEF CreateCostRevision, UpdateItem
<1>3. item' \in [active : BOOLEAN, cost : Values]
  <2>1. item' = [item EXCEPT !.cost = v] \/ \E b \in BOOLEAN : item' = [active |-> b, cost |-> v]
    BY DEF CreateCostRevision, UpdateItem
  <2>2. CASE item' = [item EXCEPT !.cost = v]
    BY <1>1, <2>2
  <2>3. CASE \E b \in BOOLEAN : item' = [active |-> b, cost |-> v]
    BY <2>3
  <2>4. QED
    BY <2>1, <2>2, <2>3
<1>4. /\ DatedInOrder(costs') /\ costs' # <<>>
      /\ \A t \in Times : t < LatestDate(costs) => AsOf(costs', t) = AsOf(costs, t)
  <2>1. PICK g : g = costs'
    OBVIOUS
  <2>2. \/ g = costs
        \/ \E t \in Times, c \in BOOLEAN : g = AppendRevision(costs, t, v, c)
    BY <1>1, <2>1 DEF CreateCostRevision, UpdateItem
  <2>3. /\ DatedInOrder(g) /\ g # <<>>
        /\ \A t \in Times : t < LatestDate(costs) => AsOf(g, t) = AsOf(costs, t)
    <3>1. CASE g = costs
      BY <1>1, <3>1
    <3>2. CASE \E t \in Times, c \in BOOLEAN : g = AppendRevision(costs, t, v, c)
      BY <1>1, <3>2, RevisionsKept
    <3>3. QED
      BY <2>2, <3>1, <3>2
  <2>4. QED
    BY <2>1, <2>3
<1>5. costs' \in Seq(Revision) /\ conversions' \in Seq(Revision)
  BY <1>1, <1>2, <1>4 DEF DatedInOrder
<1>6. SettledHistoryIsFinal
  BY <1>2, <1>4 DEF SettledHistoryIsFinal
<1>7. QED
  BY <1>1, <1>2, <1>3, <1>4, <1>5, <1>6 DEF HistoryGoal, HistoryInv, HistoryTypeOK

\* A conversion factor.
LEMMA ConversionGoal ==
    ASSUME HistoryInv, NEW t \in Times, NEW v \in Values, AppendConversion(t, v)
    PROVE  HistoryGoal
<1>1. /\ now \in Times /\ item \in [active : BOOLEAN, cost : Values] /\ DatedInOrder(costs) /\ costs # <<>> /\ DatedInOrder(conversions)
      /\ versions \in Seq(Version) /\ recipes \in Seq(Recipe) /\ VersionsChain(versions)
  BY DEF HistoryInv, HistoryTypeOK
<1>2. now' = now /\ item' = item /\ costs' = costs /\ versions' = versions /\ recipes' = recipes
  BY DEF AppendConversion
<1>3. /\ DatedInOrder(conversions')
      /\ \A u \in Times : u < LatestDate(conversions) => AsOf(conversions', u) = AsOf(conversions, u)
  <2>1. PICK g : g = conversions'
    OBVIOUS
  <2>2. \E c \in BOOLEAN : g = AppendRevision(conversions, t, v, c)
    BY <2>1 DEF AppendConversion
  <2>3. /\ DatedInOrder(g)
        /\ \A u \in Times : u < LatestDate(conversions) => AsOf(g, u) = AsOf(conversions, u)
    BY <1>1, <2>2, RevisionsKept
  <2>4. QED
    BY <2>1, <2>3
<1>4. costs' \in Seq(Revision) /\ conversions' \in Seq(Revision)
  BY <1>1, <1>2, <1>3 DEF DatedInOrder
<1>5. SettledHistoryIsFinal
  BY <1>2, <1>3 DEF SettledHistoryIsFinal
<1>6. QED
  BY <1>1, <1>2, <1>3, <1>4, <1>5 DEF HistoryGoal, HistoryInv, HistoryTypeOK

\* A consumption definition closes the one before.
LEMMA ConsumptionGoal ==
    ASSUME HistoryInv, NEW t \in Times, NEW b \in BOOLEAN, NEW mode \in {"DERIVABLE", "NON_DERIVABLE"},
           PutConsumptionDefinition(t, b, mode)
    PROVE  HistoryGoal
<1>1. HistoryTypeOK /\ DatedInOrder(costs) /\ costs # <<>> /\ DatedInOrder(conversions) /\ VersionsChain(versions)
  BY DEF HistoryInv
<1>2. now' = now /\ item' = item /\ costs' = costs /\ conversions' = conversions /\ recipes' = recipes
  BY DEF PutConsumptionDefinition
<1>3. PICK w, c, v, g : /\ w = versions /\ c = CloseLatest(t) /\ g = versions'
                        /\ v = [from |-> t, to |-> Forever, active |-> b, mode |-> mode]
  OBVIOUS
<1>4. VersionsChain(w) /\ Closed(w, c, t) /\ g = Append(c, v) /\ (w # <<>> => t >= w[Len(w)].from)
  BY <1>1, <1>3 DEF PutConsumptionDefinition, CloseLatest, Closed
<1>5. v \in Version /\ v.from = t /\ v.to = Forever
  <2>1. Forever \in 0 .. Forever
    BY HistoryAssumption DEF Forever
  <2>2. QED
    BY <1>3, <2>1 DEF Version
<1>6. VersionsChain(g)
  BY <1>4, <1>5, VersionAdded
<1>7. VersionsChain(versions') /\ versions' \in Seq(Version)
  BY <1>3, <1>6 DEF VersionsChain
<1>8. SettledHistoryIsFinal
  BY <1>2, SameHistory
<1>9. QED
  BY <1>1, <1>2, <1>7, <1>8 DEF HistoryGoal, HistoryInv, HistoryTypeOK

\* A recipe.
LEMMA RecipeGoal ==
    ASSUME HistoryInv, NEW t \in Times, NEW b \in BOOLEAN, NEW to \in Times \cup {Forever}, PublishRecipe(t, to, b)
    PROVE  HistoryGoal
<1>1. HistoryTypeOK /\ DatedInOrder(costs) /\ costs # <<>> /\ DatedInOrder(conversions) /\ VersionsChain(versions)
  BY DEF HistoryInv
<1>2. now' = now /\ item' = item /\ costs' = costs /\ conversions' = conversions /\ versions' = versions
  BY DEF PublishRecipe
<1>3. recipes' \in Seq(Recipe)
  <2>1. PICK r : r = [from |-> t, to |-> to, active |-> b]
    OBVIOUS
  <2>2. to \in 0 .. Forever
    BY HistoryAssumption DEF Times, Forever
  <2>3. r \in Recipe
    BY <2>1, <2>2 DEF Recipe
  <2>4. recipes' = Append(recipes, r) /\ recipes \in Seq(Recipe)
    BY <1>1, <2>1 DEF PublishRecipe, HistoryTypeOK
  <2>5. QED
    BY <2>3, <2>4
<1>4. SettledHistoryIsFinal
  BY <1>2, SameHistory
<1>5. QED
  BY <1>1, <1>2, <1>3, <1>4 DEF HistoryGoal, HistoryInv, HistoryTypeOK

\* The histories of a new item satisfy the invariant.
LEMMA HistoryStarts == HistoryInit => HistoryInv
<1>1. HAVE HistoryInit
<1>2. PICK v \in Values : v = CHOOSE x \in Values : TRUE
  BY HistoryAssumption
<1>3. /\ now = 0 /\ item = [active |-> TRUE, cost |-> v] /\ costs = <<[at |-> 0, value |-> v]>>
      /\ conversions = <<>> /\ versions = <<>> /\ recipes = <<>>
  BY <1>1, <1>2 DEF HistoryInit
<1>4. 0 \in Times
  BY HistoryAssumption DEF Times
<1>5. DatedInOrder(costs) /\ costs # <<>>
  <2>1. PICK r, h : r = [at |-> 0, value |-> v] /\ h = costs
    OBVIOUS
  <2>2. r \in Revision /\ r.at = 0
    BY <1>4, <2>1 DEF Revision
  <2>3. h = <<r>>
    BY <1>3, <2>1
  <2>4. h \in Seq(Revision) /\ DOMAIN h = {1} /\ h[1] = r /\ h # <<>>
    BY <2>2, <2>3
  <2>5. DatedInOrder(h)
    BY <2>2, <2>4 DEF DatedInOrder
  <2>6. QED
    BY <2>1, <2>4, <2>5
<1>6. DatedInOrder(conversions)
  <2>1. PICK h : h = conversions
    OBVIOUS
  <2>2. DatedInOrder(h)
    BY <1>3, <2>1 DEF DatedInOrder
  <2>3. QED
    BY <2>1, <2>2
<1>7. VersionsChain(versions)
  <2>1. PICK w : w = versions
    OBVIOUS
  <2>2. VersionsChain(w)
    BY <1>3, <2>1 DEF VersionsChain
  <2>3. QED
    BY <2>1, <2>2
<1>8. HistoryTypeOK
  <2>1. item \in [active : BOOLEAN, cost : Values]
    BY <1>3
  <2>2. costs \in Seq(Revision) /\ conversions \in Seq(Revision) /\ versions \in Seq(Version)
    BY <1>5, <1>6, <1>7 DEF DatedInOrder, VersionsChain
  <2>3. now \in Times /\ recipes \in Seq(Recipe)
    BY <1>3, <1>4
  <2>4. QED
    BY <2>1, <2>2, <2>3 DEF HistoryTypeOK
<1>9. QED
  BY <1>5, <1>6, <1>7, <1>8 DEF HistoryInv

\* Every step keeps the invariant and the settled days.
LEMMA HistoryStep == HistoryInv /\ [CostNext \/ RecipeNext]_historyVars => HistoryGoal
<1>1. HAVE HistoryInv /\ [CostNext \/ RecipeNext]_historyVars
<1>2. CASE UNCHANGED historyVars
  <2>1. SettledHistoryIsFinal
    BY <1>2, SameHistory DEF historyVars
  <2>2. QED
    BY <1>1, <1>2, <2>1 DEF historyVars, HistoryGoal, HistoryInv, HistoryTypeOK
<1>3. CASE Tick
  BY <1>1, <1>3, TickGoal
<1>4. ASSUME NEW v \in Values, (\E t \in Times : CreateCostRevision(t, v)) \/ (\E b \in BOOLEAN : UpdateItem(v, b)) PROVE HistoryGoal
  BY <1>1, <1>4, CostGoal
<1>5. ASSUME NEW b \in BOOLEAN, UpdateItem(item.cost, b) PROVE HistoryGoal
  <2>1. PICK v \in Values : v = item.cost
    BY <1>1 DEF HistoryInv, HistoryTypeOK
  <2>2. QED
    BY <1>4, <1>5, <2>1
<1>6. ASSUME NEW v \in Values, NEW t \in Times, AppendConversion(t, v) PROVE HistoryGoal
  BY <1>1, <1>6, ConversionGoal
<1>7. ASSUME NEW t \in Times, NEW b \in BOOLEAN, NEW mode \in {"DERIVABLE", "NON_DERIVABLE"}, PutConsumptionDefinition(t, b, mode)
      PROVE  HistoryGoal
  BY <1>1, <1>7, ConsumptionGoal
<1>8. ASSUME NEW t \in Times, NEW b \in BOOLEAN, NEW to \in Times \cup {Forever}, PublishRecipe(t, to, b) PROVE HistoryGoal
  BY <1>1, <1>8, RecipeGoal
<1>9. QED
  BY <1>1, <1>2, <1>3, <1>4, <1>5, <1>6, <1>7, <1>8 DEF CostNext, RecipeNext

\* At most one version is in force, and one from the first date on.
LEMMA HistoryMeans == HistoryInv => VersionsDivideTime
<1>1. HAVE HistoryInv
<1>2. ASSUME NEW t \in Times
      PROVE  /\ Cardinality(InForce(t)) <= 1
             /\ (versions # <<>> /\ versions[1].from <= t) => ResolveConsumptionVersion(t) # 0
  <2>1. PICK w, F : w = versions /\ F = InForce(t)
    OBVIOUS
  <2>2. VersionsChain(w) /\ F = {i \in DOMAIN w : w[i].from <= t /\ t < w[i].to}
    BY <1>1, <2>1 DEF HistoryInv, InForce
  <2>3. \A i \in DOMAIN w : i \in Nat /\ i # 0 /\ w[i].from \in Int /\ w[i].to \in Int
    <3>1. w \in Seq(Version)
      BY <2>2 DEF VersionsChain
    <3>2. \A i \in DOMAIN w : w[i] \in Version /\ i \in Nat /\ i # 0
      BY <3>1
    <3>3. QED
      BY <3>2, HistoryAssumption DEF Version, Times, Forever
  <2>4. ASSUME NEW i \in F, NEW j \in F PROVE i = j
    <3>1. ASSUME NEW a \in F, NEW b \in F PROVE ~(a < b)
      <4>1. SUFFICES ASSUME a < b PROVE FALSE
        OBVIOUS
      <4>2. a \in DOMAIN w /\ b \in DOMAIN w /\ w[a].to <= w[b].from /\ w[b].from <= t /\ t < w[a].to
        BY <2>2, <4>1 DEF VersionsChain
      <4>3. QED
        BY <2>3, <4>2, HistoryAssumption DEF Times
    <3>2. ~(i < j) /\ ~(j < i) /\ i \in Nat /\ j \in Nat
      BY <2>2, <2>3, <3>1
    <3>3. QED
      BY <3>2
  <2>5. CASE F = {}
    <3>1. Cardinality(F) = 0
      BY <2>5, FS_EmptySet
    <3>2. ~(w # <<>> /\ w[1].from <= t)
      BY <2>2, <2>5 DEF VersionsChain, Covers
    <3>3. QED
      BY <2>1, <3>1, <3>2
  <2>6. CASE F # {}
    <3>1. PICK i \in F : F = {i}
      BY <2>4, <2>6
    <3>2. Cardinality(F) = 1
      BY <3>1, FS_Singleton
    <3>3. i \in Nat /\ i # 0
      BY <2>2, <2>3
    <3>4. i \in {i} \cup {0} /\ \A y \in {i} \cup {0} : i >= y
      BY <3>3
    <3>5. \A x \in {i} \cup {0} : (\A y \in {i} \cup {0} : x >= y) => x = i
      BY <3>3
    <3>6. Max({i} \cup {0}) = i
      BY <3>4, <3>5 DEF Max
    <3>7. ResolveConsumptionVersion(t) # 0
      BY <2>1, <3>1, <3>3, <3>6 DEF ResolveConsumptionVersion
    <3>8. QED
      BY <2>1, <3>2, <3>7
  <2>7. QED
    BY <2>5, <2>6
<1>3. QED
  BY <1>1, <1>2 DEF VersionsDivideTime, HistoryInv

\* At any instant at most one consumption version is in force, and from the first effective
\* date on there always is one, for any dates, values and number of revisions.
THEOREM TimeDivided == HistorySpec => []VersionsDivideTime
<1>1. HistoryInv /\ [CostNext \/ RecipeNext]_historyVars => HistoryInv'
  BY HistoryStep DEF HistoryGoal
<1>2. QED
  BY <1>1, HistoryStarts, HistoryMeans, PTL DEF HistorySpec

\* No step changes the cost or the factor of the days before the last dated revision.
THEOREM SettledDaysKept == HistorySpec => [][SettledHistoryIsFinal]_historyVars
<1>1. HistoryInv /\ [CostNext \/ RecipeNext]_historyVars => HistoryInv' /\ [SettledHistoryIsFinal]_historyVars
  BY HistoryStep DEF HistoryGoal
<1>2. QED
  BY <1>1, HistoryStarts, PTL DEF HistorySpec

(***************************************************************************)
(* The inventory as a whole.                                               *)
(***************************************************************************)

InventoryInv == StockInv /\ ProcurementInv /\ HistoryInv

Evidence == BlockRespected /\ CountKeepsLaterMoves /\ AcceptedNeedsApproval /\ SettledHistoryIsFinal

\* Empty tables agree with each other and with the documents not yet drawn up.
LEMMA LedgerStarts == LedgerInit => LedgerInv
<1>1. HAVE LedgerInit
<1>2. moves = <<>> /\ layers = <<>> /\ blocked = {} /\ active = Cells /\ consumed = {}
  BY <1>1 DEF LedgerInit
<1>3. PICK ms : ms = moves
  OBVIOUS
<1>4. PICK ls : ls = layers
  OBVIOUS
<1>5. ms \in Seq(Movement) /\ ls \in Seq(Layer) /\ DOMAIN ms = {} /\ DOMAIN ls = {}
  BY <1>2, <1>3, <1>4
<1>6. TablesAreSound(ms, ls)
  BY <1>5 DEF TablesAreSound, TablesAreTyped, DrawnIsAllocated, OldestFirst, OppositesOnce
<1>7. ConsumptionRows(ms) = {}
  BY <1>5 DEF ConsumptionRows
<1>8. IsFiniteSet({}) /\ Cardinality({}) = 0
  BY FS_EmptySet
<1>9. TablesAreSound(moves, layers) /\ ConsumptionRows(moves) = {}
  BY <1>3, <1>4, <1>6, <1>7, Zenon
<1>10. Cardinality(ConsumptionRows(moves)) = 0 /\ Cardinality(consumed) = 0 /\ IsFiniteSet(consumed)
  BY <1>2, <1>8, <1>9, Zenon
<1>11. Cardinality(ConsumptionRows(moves)) <= Cardinality(consumed)
  BY <1>10
<1>12. QED
  BY <1>2, <1>9, <1>10, <1>11 DEF LedgerInv

LEMMA DocumentsStart == LedgerInit /\ DocumentInit => DocumentInv
<1>1. HAVE LedgerInit /\ DocumentInit
<1>2. /\ moves = <<>> /\ threshold = 0 /\ loss = [l \in Losses |-> NoLoss] /\ count = [n \in Counts |-> NoCount]
      /\ transfer = [t \in Transfers |-> NoTransfer] /\ batch = [b \in Batches |-> NoBatch]
  BY <1>1 DEF LedgerInit, DocumentInit
<1>3. Default \in Cells /\ NoOne \in Actors /\ MaxQuantity \in Nat
  BY StockAssumption DEF Actors
<1>4. LossSound(NoLoss, moves)
  BY <1>3 DEF LossSound, LossRow, NoLoss, LossStates
<1>5. CountSound(NoCount, moves)
  <2>1. NoCount \in CountRow /\ NoCount.cursor = 0 /\ NoCount.state = "NONE" /\ NoCount.closed = "NONE"
    BY <1>3 DEF NoCount, CountRow, CountStates
  <2>2. Len(moves) = 0
    BY <1>2
  <2>3. QED
    BY <2>1, <2>2 DEF CountSound
<1>6. TransferSound(NoTransfer, moves, Len(layers))
  <2>1. <<>> \in Seq(Allocation)
    OBVIOUS
  <2>2. NoTransfer \in TransferRow /\ NoTransfer.state = "NONE" /\ NoTransfer.received = 0 /\ NoTransfer.move = 0 /\ NoTransfer.taken = <<>>
    BY <1>3, <2>1 DEF NoTransfer, TransferRow, TransferStates
  <2>3. QED
    BY <2>2 DEF TransferSound
<1>7. BatchSound(NoBatch)
  BY <1>3 DEF BatchSound, BatchRow, NoBatch, BatchStates
<1>8. threshold \in 0 .. MaxQuantity
  BY <1>2, <1>3
<1>9. /\ loss = [l \in Losses |-> loss[l]] /\ \A l \in Losses : LossSound(loss[l], moves)
      /\ count = [n \in Counts |-> count[n]] /\ \A n \in Counts : CountSound(count[n], moves)
  BY <1>2, <1>4, <1>5
<1>10. /\ transfer = [t \in Transfers |-> transfer[t]] /\ \A t \in Transfers : TransferSound(transfer[t], moves, Len(layers))
       /\ batch = [b \in Batches |-> batch[b]] /\ \A b \in Batches : BatchSound(batch[b])
  BY <1>2, <1>6, <1>7
<1>11. QED
  BY <1>8, <1>9, <1>10 DEF DocumentInv

LEMMA ProcurementStarts == ProcurementInit => ProcurementInv
<1>1. HAVE ProcurementInit
<1>2. 0 \in Quantity
  BY ProcurementAssumption DEF Quantity
<1>3. /\ offering = TRUE /\ po = [state |-> "NONE", ordered |-> 0] /\ stocked = {}
      /\ receipt = [r \in Receipts |-> [state |-> "NONE", accepted |-> 0]]
      /\ request = [k \in Clerks |-> NoRequest]
  BY <1>1 DEF ProcurementInit
<1>4. offering \in BOOLEAN
  BY <1>3
<1>5. po \in [state : OrderStates, ordered : Quantity] /\ po.state = "NONE"
  BY <1>2, <1>3 DEF OrderStates
<1>6. PICK row : row = [state |-> "NONE", accepted |-> 0]
  OBVIOUS
<1>7. row \in [state : ReceiptStates, accepted : Quantity] /\ row.state = "NONE" /\ row.accepted = 0
  BY <1>2, <1>6 DEF ReceiptStates
<1>8. receipt = [r \in Receipts |-> row]
  BY <1>3, <1>6
<1>9. receipt \in [Receipts -> [state : ReceiptStates, accepted : Quantity]] /\ \A r \in Receipts : receipt[r] = row
  BY <1>7, <1>8
<1>10. StockedIffAccepted
  BY <1>3, <1>7, <1>9 DEF StockedIffAccepted
<1>11. /\ request = [k \in Clerks |-> request[k]]
       /\ \A k \in Clerks : request[k].seen \subseteq Accepted /\ request[k].receipt \in Receipts \cup {0}
  BY <1>3 DEF NoRequest
<1>12. ProcurementTypeOK
  BY <1>3, <1>4, <1>5, <1>9, <1>11 DEF ProcurementTypeOK
<1>13. QED
  BY <1>5, <1>7, <1>9, <1>10, <1>11, <1>12 DEF ProcurementInv

LEMMA InventoryStarts == InventoryInit => InventoryInv
BY LedgerStarts, DocumentsStart, ProcurementStarts, HistoryStarts DEF InventoryInit, InventoryInv, StockInv

\* What is not touched stays as it is.
LEMMA StockBeside == StockInv /\ UNCHANGED stockVars => StockInv' /\ BlockRespected /\ CountKeepsLaterMoves
<1>1. HAVE StockInv /\ UNCHANGED stockVars
<1>2. KeepLedger /\ threshold' = threshold /\ loss' = loss /\ count' = count /\ transfer' = transfer /\ batch' = batch
  BY <1>1 DEF stockVars, documentVars, KeepLedger
<1>3. LedgerGoal
  BY <1>1, <1>2, LedgerUnchanged DEF StockInv
<1>4. threshold' \in 0 .. MaxQuantity
  BY <1>1, <1>2 DEF StockInv, DocumentInv
<1>5. StockGoal
  BY <1>1, <1>2, <1>3, <1>4, DocumentsUnchanged
<1>6. QED
  BY <1>3, <1>5 DEF StockGoal, LedgerGoal, StockInv

LEMMA PurchasesBeside == ProcurementInv /\ UNCHANGED procurementVars => ProcurementGoal
<1>1. HAVE ProcurementInv /\ UNCHANGED procurementVars
<1>2. offering' = offering /\ po' = po /\ receipt' = receipt /\ stocked' = stocked /\ request' = request
  BY <1>1 DEF procurementVars
<1>3. ProcurementInv'
  BY <1>1, <1>2, Zenon DEF ProcurementInv, ProcurementTypeOK, StockedIffAccepted, Accepted, Goods
<1>4. AcceptedNeedsApproval
  BY <1>2 DEF AcceptedNeedsApproval
<1>5. QED
  BY <1>3, <1>4 DEF ProcurementGoal

LEMMA HistoryBeside == HistoryInv /\ UNCHANGED historyVars => HistoryGoal
BY HistoryStep

LEMMA InventoryStep == InventoryInv /\ [InventoryNext]_inventoryVars => InventoryInv' /\ Evidence
<1>1. HAVE InventoryInv /\ [InventoryNext]_inventoryVars
<1>2. StockInv /\ ProcurementInv /\ HistoryInv
  BY <1>1 DEF InventoryInv
<1>3. SUFFICES (StockInv' /\ BlockRespected /\ CountKeepsLaterMoves) /\ ProcurementGoal /\ HistoryGoal
  BY DEF InventoryInv, Evidence, ProcurementGoal, HistoryGoal
<1>4. CASE LedgerNext /\ UNCHANGED <<documentVars, procurementVars, historyVars>>
  <2>1. LedgerGoal
    BY <1>2, <1>4, LedgerStep DEF StockInv
  <2>2. threshold' = threshold /\ loss' = loss /\ count' = count /\ transfer' = transfer /\ batch' = batch
    BY <1>4 DEF documentVars
  <2>3. threshold' \in 0 .. MaxQuantity
    BY <1>2, <2>2 DEF StockInv, DocumentInv
  <2>4. StockGoal
    BY <1>2, <2>1, <2>2, <2>3, DocumentsUnchanged
  <2>5. StockInv' /\ BlockRespected /\ CountKeepsLaterMoves
    BY <2>1, <2>4 DEF StockGoal, LedgerGoal, StockInv
  <2>6. UNCHANGED procurementVars /\ UNCHANGED historyVars
    BY <1>4
  <2>7. QED
    BY <1>2, <2>5, <2>6, PurchasesBeside, HistoryBeside
<1>5. CASE DocumentNext /\ UNCHANGED <<procurementVars, historyVars>>
  <2>1. StockGoal
    BY <1>2, <1>5, LossStep, CountStep, TransferStep, BatchStep DEF DocumentNext
  <2>2. StockInv' /\ BlockRespected /\ CountKeepsLaterMoves
    BY <2>1 DEF StockGoal, LedgerGoal, StockInv
  <2>3. UNCHANGED procurementVars /\ UNCHANGED historyVars
    BY <1>5
  <2>4. QED
    BY <1>2, <2>2, <2>3, PurchasesBeside, HistoryBeside
<1>6. CASE ProcurementNext /\ UNCHANGED <<stockVars, historyVars>>
  <2>1. UNCHANGED stockVars /\ UNCHANGED historyVars
    BY <1>6
  <2>2. QED
    BY <1>2, <1>6, <2>1, ProcurementStep, StockBeside, HistoryBeside
<1>7. CASE (CostNext \/ RecipeNext) /\ UNCHANGED <<stockVars, procurementVars>>
  <2>1. UNCHANGED stockVars /\ UNCHANGED procurementVars
    BY <1>7
  <2>2. QED
    BY <1>2, <1>7, <2>1, HistoryStep, StockBeside, PurchasesBeside
<1>8. CASE UNCHANGED inventoryVars
  <2>1. UNCHANGED stockVars /\ UNCHANGED procurementVars /\ UNCHANGED historyVars
    BY <1>8 DEF inventoryVars
  <2>2. QED
    BY <1>2, <2>1, StockBeside, PurchasesBeside, HistoryBeside
<1>9. QED
  BY <1>1, <1>4, <1>5, <1>6, <1>7, <1>8 DEF InventoryNext

\* The invariant says of the tables what the ledger promises.
LEMMA LedgerMeans == LedgerInv => LedgerIsSound
<1>1. HAVE LedgerInv
<1>2. /\ moves \in Seq(Movement) /\ layers \in Seq(Layer) /\ DOMAIN moves = Rows /\ DOMAIN layers = LayerRows
      /\ DrawnIsAllocated(moves, layers) /\ OldestFirst(layers) /\ OppositesOnce(moves)
      /\ \A k \in Rows : DOMAIN moves[k].alloc \subseteq LayerRows /\ moves[k].of < k
  BY <1>1 DEF LedgerInv, TablesAreSound, TablesAreTyped, Rows, LayerRows
<1>3. ASSUME NEW k \in Rows
      PROVE  moves[k].cell \in Cells /\ moves[k].kind \in Kinds /\ moves[k].qty \in Int /\ moves[k].of \in 0 .. k - 1
  <2>1. moves[k] \in Movement /\ k \in Nat
    BY <1>2 DEF Rows
  <2>2. moves[k].of \in Nat /\ moves[k].of < k
    BY <1>2, <2>1 DEF Movement
  <2>3. moves[k].of \in 0 .. k - 1
    BY <2>1, <2>2
  <2>4. QED
    BY <2>1, <2>3 DEF Movement
<1>4. LedgerTypeOK
  BY <1>1, <1>2, <1>3 DEF LedgerTypeOK, LedgerInv
<1>5. LayersMatchAllocations
  <2>1. ASSUME NEW i \in LayerRows PROVE layers[i].left >= 0 /\ layers[i].left = LayerLeftAt(i, Len(moves))
    <3>1. layers[i].left \in Nat
      BY <1>2, LeftIsNat
    <3>2. layers[i].left = LayerLeftAt(i, Len(moves))
      BY <1>2 DEF DrawnIsAllocated, LayerLeftAt, Allocated
    <3>3. QED
      BY <3>1, <3>2
  <2>2. QED
    BY <2>1 DEF LayersMatchAllocations
<1>6. OlderLayersFirst
  BY <1>2 DEF OlderLayersFirst, OldestFirst
<1>7. ReversedAtMostOnce
  BY <1>2 DEF ReversedAtMostOnce, OppositesOnce
<1>8. ConsumedOnce
  <2>1. ConsumptionRows(moves) = {k \in Rows : moves[k].kind = "CONSUMPTION"}
    BY <1>2 DEF ConsumptionRows
  <2>2. QED
    BY <1>1, <2>1 DEF ConsumedOnce, LedgerInv
<1>9. QED
  BY <1>4, <1>5, <1>6, <1>7, <1>8 DEF LedgerIsSound

LEMMA DocumentsMean == StockInv /\ ProcurementInv => DocumentsArePosted
<1>1. HAVE StockInv /\ ProcurementInv
<1>2. /\ moves \in Seq(Movement) /\ layers \in Seq(Layer) /\ DOMAIN moves = Rows /\ DOMAIN moves = 1 .. Len(moves) /\ Len(moves) \in Nat
      /\ DocumentInv
  BY <1>1 DEF StockInv, LedgerInv, TablesAreSound, TablesAreTyped, Rows
<1>3. /\ \A l \in Losses : LossSound(loss[l], moves)
      /\ \A n \in Counts : CountSound(count[n], moves)
      /\ \A t \in Transfers : TransferSound(transfer[t], moves, Len(layers))
      /\ \A b \in Batches : BatchSound(batch[b]) /\ threshold \in 0 .. MaxQuantity
  BY <1>2 DEF DocumentInv
<1>4. DocumentTypeOK
  <2>1. ASSUME NEW l \in Losses PROVE loss[l].state \in LossStates /\ loss[l].move \in 0 .. Len(moves)
    <3>1. loss[l] \in LossRow /\ (loss[l].move = 0 \/ loss[l].move \in 1 .. Len(moves))
      BY <1>2, <1>3 DEF LossSound
    <3>2. QED
      BY <1>2, <3>1 DEF LossRow
  <2>2. ASSUME NEW n \in Counts
        PROVE  count[n].state \in CountStates /\ count[n].cursor <= Len(moves) /\ count[n].variance \in Int
    BY <1>3 DEF CountSound, CountRow
  <2>3. ASSUME NEW t \in Transfers
        PROVE  transfer[t].state \in TransferStates /\ transfer[t].move \in 0 .. Len(moves) /\ transfer[t].received <= transfer[t].sent
    <3>1. PICK x : x = transfer[t]
      OBVIOUS
    <3>2. TransferSound(x, moves, Len(layers))
      BY <1>3, <3>1
    <3>3. /\ x \in TransferRow
          /\ x.move = 0 \/ x.move \in 1 .. Len(moves)
          /\ x.received = 0 \/ x.received <= x.sent
      BY <1>2, <3>2 DEF TransferSound
    <3>4. QED
      BY <1>2, <3>1, <3>3 DEF TransferRow
  <2>4. ASSUME NEW b \in Batches PROVE batch[b].state \in BatchStates
    BY <1>3 DEF BatchSound, BatchRow
  <2>5. threshold \in 0 .. MaxQuantity
    BY <1>2 DEF DocumentInv
  <2>6. QED
    BY <2>1, <2>2, <2>3, <2>4, <2>5 DEF DocumentTypeOK
<1>5. LossesAreInTheLedger
  BY <1>2, <1>3 DEF LossesAreInTheLedger, LossSound, Reversed
<1>6. ReconciledVarianceIsPosted
  BY <1>3 DEF ReconciledVarianceIsPosted, CountSound
<1>7. TransfersConserveGoods
  BY <1>3 DEF TransfersConserveGoods, TransferSound, LayerRows
<1>8. ReceivedIsComplete
  <2>1. po.state = "RECEIVED" => Goods(Accepted) >= po.ordered
    BY <1>1 DEF ProcurementInv
  <2>2. po.state = "RECEIVED" => OnOrder = 0
    BY DEF OnOrder, Receivable
  <2>3. QED
    BY <2>1, <2>2 DEF ReceivedIsComplete
<1>9. QED
  BY <1>1, <1>4, <1>5, <1>6, <1>7, <1>8 DEF DocumentsArePosted, ProcurementInv

\* The ledger is sound whatever documents, orders, reversals and policies make its rows,
\* in any number of cells and currencies and for any quantities.
THEOREM LedgerSound == InventorySpec => []LedgerIsSound
<1>1. InventoryInv /\ [InventoryNext]_inventoryVars => InventoryInv'
  BY InventoryStep
<1>2. InventoryInv => LedgerIsSound
  BY LedgerMeans DEF InventoryInv, StockInv
<1>3. QED
  BY <1>1, <1>2, InventoryStarts, PTL DEF InventorySpec

\* Losses, reconciled counts, transfers and receipts are in the ledger exactly as their
\* documents say, for any number of documents handled side by side.
THEOREM DocumentsTellTheLedger == InventorySpec => []DocumentsArePosted
<1>1. InventoryInv /\ [InventoryNext]_inventoryVars => InventoryInv'
  BY InventoryStep
<1>2. InventoryInv => DocumentsArePosted
  BY DocumentsMean DEF InventoryInv
<1>3. QED
  BY <1>1, <1>2, InventoryStarts, PTL DEF InventorySpec

\* No step of the inventory services takes blocked stock below zero, counts later movements
\* away, accepts goods without an approved order or rewrites settled days.
THEOREM EvidenceKept == InventorySpec => StepsKeepEvidence
<1>1. InventoryInv /\ [InventoryNext]_inventoryVars => InventoryInv' /\ [Evidence]_inventoryVars
  BY InventoryStep
<1>2. StepsKeepEvidence <=> [][Evidence]_inventoryVars
  BY DEF StepsKeepEvidence, Evidence
<1>3. QED
  BY <1>1, <1>2, InventoryStarts, PTL DEF InventorySpec
==============================================================================
