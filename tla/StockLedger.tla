----------------------------- MODULE StockLedger -----------------------------
(***************************************************************************)
(* The stock ledger of a location (restaurant/inventory/service.py,        *)
(* fifo_transfers.py and order_consumption.py).  Stock is never stored: it *)
(* is the sum of an append-only table of movements.  Beside it stands a    *)
(* table of cost layers, which outgoing movements draw down first in,      *)
(* first out.  A movement locks its warehouse and its item, so movements   *)
(* of one cell (a warehouse and an item) are serialised; what a request    *)
(* reads WITHOUT a lock comes from the snapshot its transaction took when  *)
(* the request began.                                                      *)
(***************************************************************************)
EXTENDS Sums, Sequences, FiniteSets

CONSTANTS
    Cells,        \* the <<warehouse, item>> pairs in use
    Default,      \* the cell orders consume from (the DEFAULT warehouse)
    Orders,       \* accepted restaurant orders
    Currencies,   \* currencies a layer may be valued in
    MaxMoves,     \* bound on the movements of a behaviour
    MaxQuantity   \* bound on the quantity of one movement

ASSUME StockAssumption ==
    /\ Cells # {} /\ Default \in Cells
    /\ MaxMoves \in Nat /\ MaxQuantity \in Nat \ {0}

VARIABLES
    moves,     \* StockMovement rows in the order of their ids
    layers,    \* InventoryCostLayer rows in the order of origin_at, id
    blocked,   \* the cells whose warehouse has negative_stock_policy BLOCK
    active,    \* InventoryItem.status is ACTIVE, by cell
    consumed   \* orders with a RestaurantOrderConsumption row

ledgerVars == <<moves, layers, blocked, active, consumed>>

-----------------------------------------------------------------------------
\* Manual ins, outs and adjustments differ in the sign they allow only.
Kinds == {"OPENING_BALANCE", "MANUAL", "REVERSAL", "CONSUMPTION", "WASTE",
          "ADJUSTMENT", "GOODS_RECEIPT", "TRANSFER_OUT", "TRANSFER_IN",
          "PREPARATION_INPUT", "PREPARATION_OUTPUT"}

Quantities == 1 .. MaxQuantity
Rows       == 1 .. Len(moves)
LayerRows  == 1 .. Len(layers)

\* "of" is reversal_of_movement_id (0 is NULL); "alloc" are the movement's
\* InventoryMovementCostAllocation rows, the quantity taken from each layer.
Move(c, kind, q, of, alloc) ==
    [cell |-> c, kind |-> kind, qty |-> q, of |-> of, alloc |-> alloc]

\* Quantities by layer.
Allocation == UNION {[S -> Nat] : S \in SUBSET Nat}

Layer == [cell : Cells, orig : Nat, left : Nat, cur : Currencies]

LedgerTypeOK ==
    /\ \A k \in Rows : /\ moves[k].cell \in Cells /\ moves[k].kind \in Kinds
                       /\ moves[k].qty \in Int /\ moves[k].of \in 0 .. k - 1
                       /\ DOMAIN moves[k].alloc \subseteq LayerRows
    /\ layers \in Seq(Layer)
    /\ blocked \subseteq Cells /\ active \subseteq Cells
    /\ consumed \subseteq Orders

LedgerInit ==
    /\ moves = <<>> /\ layers = <<>>
    /\ blocked = {} /\ active = Cells /\ consumed = {}

-----------------------------------------------------------------------------
(* What the ledger is read for.                                            *)

StockIn(rows, c, n) == Total([k \in 1 .. n |-> IF rows[k].cell = c THEN rows[k].qty ELSE 0], n)

StockAt(c, n) == StockIn(moves, c, n)

Stock(c) == StockAt(c, Len(moves))

Reversed(k) == \E r \in Rows : moves[r].of = k

DrawnFrom(rows, i, n) == Total([k \in 1 .. n |-> Part(rows[k].alloc, i)], n)

Allocated(i, n) == DrawnFrom(moves, i, n)

\* The value side of a FIFO snapshot taken at movement n.
LayerLeftAt(i, n) == layers[i].orig - Allocated(i, n)

-----------------------------------------------------------------------------
(* First in, first out.                                                    *)

Open(c) == {i \in LayerRows : layers[i].cell = c /\ layers[i].left > 0}

\* Allocation stops at the first layer of another currency.
Reach(c) == {i \in Open(c) : \A j \in Open(c) : j <= i => layers[j].cur = layers[i].cur}

Available(c) == [i \in LayerRows |-> IF i \in Reach(c) THEN layers[i].left ELSE 0]

Take(c, q, i) == Share(Available(c), q, i)

Fifo(c, q) == [i \in {j \in LayerRows : Take(c, q, j) > 0} |-> Take(c, q, i)]

Covered(c, q) == Total([i \in LayerRows |-> Part(Fifo(c, q), i)], Len(layers)) = q

\* require_complete: all open layers in one currency, and enough of them.
CompleteFifo(c, q) == Open(c) # {} /\ Reach(c) = Open(c) /\ Covered(c, q)

\* Mutant: a partial allocation is recorded and not taken from the layers.
DrawDownIfCovered(c, q) ==
    [i \in LayerRows |->
        [layers[i] EXCEPT !.left = @ - (IF Covered(c, q) THEN Part(Fifo(c, q), i) ELSE 0)]]

DrawDown(c, q) == [i \in LayerRows |-> [layers[i] EXCEPT !.left = @ - Part(Fifo(c, q), i)]]

NewLayer(c, q, cur) == [cell |-> c, orig |-> q, left |-> q, cur |-> cur]

-----------------------------------------------------------------------------
(* Appending.                                                              *)

Room(n) == Len(moves) + n <= MaxMoves

\* An incoming movement, with the layers it opens.
Receive(c, kind, q, new) ==
    /\ Room(1)
    /\ moves' = Append(moves, Move(c, kind, q, 0, <<>>))
    /\ layers' = layers \o new

\* An outgoing movement draws its cell's layers down, as far as they reach.
Issue(c, kind, q) ==
    /\ Room(1)
    /\ moves' = Append(moves, Move(c, kind, -q, 0, Fifo(c, q)))
    /\ layers' = DrawDown(c, q)

\* negative_stock_policy, against a stock read under the locks.
NotBlocked(c, q) == c \in blocked => Stock(c) >= q

-----------------------------------------------------------------------------
(* Operations.                                                             *)

UpdateWarehousePolicy(c) ==
    /\ blocked' = IF c \in blocked THEN blocked \ {c} ELSE blocked \cup {c}
    /\ UNCHANGED <<moves, layers, active, consumed>>

UpdateInventoryItem(c) ==
    /\ active' = IF c \in active THEN active \ {c} ELSE active \cup {c}
    /\ UNCHANGED <<moves, layers, blocked, consumed>>

OpeningBalance(c, q) ==
    /\ c \in active
    /\ \A k \in Rows : ~(moves[k].cell = c /\ moves[k].kind = "OPENING_BALANCE")
    /\ Receive(c, "OPENING_BALANCE", q, <<>>)
    /\ UNCHANGED <<blocked, active, consumed>>

\* What accepting a receipt line does to the ledger (see Procurement).
GoodsReceipt(c, q, cur) ==
    /\ c \in active
    /\ Receive(c, "GOODS_RECEIPT", q, <<NewLayer(c, q, cur)>>)
    /\ UNCHANGED <<blocked, active, consumed>>

ManualIn(c, q) ==
    /\ c \in active
    /\ Receive(c, "MANUAL", q, <<>>)
    /\ UNCHANGED <<blocked, active, consumed>>

ManualOut(c, q) ==
    /\ c \in active
    /\ NotBlocked(c, q)
    /\ Issue(c, "MANUAL", q)
    /\ UNCHANGED <<blocked, active, consumed>>

\* A reversal is never blocked and gives nothing back to the layers.
Reversible(k) == moves[k].kind # "REVERSAL" /\ ~Reversed(k)

Reverse(k) ==
    /\ Reversible(k)
    /\ Room(1)
    /\ moves' = Append(moves, Move(moves[k].cell, "REVERSAL", -moves[k].qty, k, <<>>))
    /\ UNCHANGED layers

ManualReversal(k) == Reverse(k) /\ UNCHANGED <<blocked, active, consumed>>

\* Acceptance of an order consumes its recipe once, whatever the policy or
\* the item's status; a second materialisation finds the row.  An order whose
\* products have no derivable recipe gets its row and no movement.
MaterializeAcceptedOrder(o, q) ==
    /\ o \notin consumed
    /\ consumed' = consumed \cup {o}
    /\ \/ Issue(Default, "CONSUMPTION", q)
       \/ UNCHANGED <<moves, layers>>
    /\ UNCHANGED <<blocked, active>>

\* The steps on a set C of cells.
PolicyNext(C) == \E c \in C : UpdateWarehousePolicy(c)

ItemNext(C) == \E c \in C : UpdateInventoryItem(c)

ManualNext(C) ==
    \/ \E c \in C, q \in Quantities :
          OpeningBalance(c, q) \/ ManualIn(c, q) \/ ManualOut(c, q)
    \/ \E k \in Rows : moves[k].cell \in C /\ ManualReversal(k)

SupplyNext(C, K) ==
    \/ \E c \in C, q \in Quantities, cur \in K : GoodsReceipt(c, q, cur)
    \/ \E o \in Orders, q \in Quantities : MaterializeAcceptedOrder(o, q)

-----------------------------------------------------------------------------
(* Properties.                                                             *)

\* Every unit a layer has lost is an allocation of some movement, and no layer
\* is drawn below zero: a snapshot of the past, which works from allocations,
\* and allocate_fifo, which works from remaining_quantity, agree.
LayersMatchAllocations ==
    \A i \in LayerRows :
        layers[i].left >= 0 /\ layers[i].left = LayerLeftAt(i, Len(moves))

\* FIFO is strict within a currency: a layer is touched only when every older
\* layer of its cell in that currency is exhausted.  Layers of a cell are
\* created in the order they are listed.
OlderLayersFirst ==
    \A i, j \in LayerRows :
        /\ i < j
        /\ layers[i].cell = layers[j].cell
        /\ layers[i].cur = layers[j].cur
        /\ layers[j].left < layers[j].orig
        => layers[i].left = 0

\* A movement is compensated at most once, by its exact opposite in its cell.
ReversedAtMostOnce ==
    \A k \in Rows : moves[k].of # 0 =>
        /\ moves[k].qty = -moves[moves[k].of].qty
        /\ moves[k].cell = moves[moves[k].of].cell
        /\ \A r \in Rows : moves[r].of = moves[k].of => r = k

\* An order is consumed at most once, however often acceptance is replayed.
ConsumedOnce ==
    Cardinality({k \in Rows : moves[k].kind = "CONSUMPTION"}) <= Cardinality(consumed)

\* (Of a step.)  While a warehouse blocks negative stock, only a reversal or an accepted order
\* takes a cell below zero.  Shipping and batch completion are excepted too: they
\* test a sum read without a lock (fifo_transfers.py:153, preparations.py:318).
BlockRespected ==
    \A c \in blocked :
        (Len(moves') > Len(moves) /\ Stock(c)' < 0 /\ Stock(c)' < Stock(c))
        => moves'[Len(moves')].kind \in {"REVERSAL", "CONSUMPTION", "TRANSFER_OUT",
                                         "PREPARATION_INPUT", "PREPARATION_OUTPUT"}

\* The ledger as a whole: rows of their types, layers that agree with their
\* allocations and are used oldest first, and no movement reversed or order
\* consumed twice, whatever documents, replays and reversals made the rows.
LedgerIsSound ==
    /\ LedgerTypeOK
    /\ LayersMatchAllocations
    /\ OlderLayersFirst
    /\ ReversedAtMostOnce
    /\ ConsumedOnce

-----------------------------------------------------------------------------
(* The inductive invariant behind it, of a table of movements ms and a     *)
(* table of layers ls.                                                     *)

Movement == [cell : Cells, kind : Kinds, qty : Int, of : Nat, alloc : Allocation]

TablesAreTyped(ms, ls) ==
    /\ ms \in Seq(Movement) /\ ls \in Seq(Layer)
    /\ \A k \in DOMAIN ms : /\ DOMAIN ms[k].alloc \subseteq DOMAIN ls
                            /\ ms[k].of < k /\ (ms[k].of # 0 => ms[k].kind = "REVERSAL")

DrawnIsAllocated(ms, ls) == \A i \in DOMAIN ls : ls[i].left = ls[i].orig - DrawnFrom(ms, i, Len(ms))

OldestFirst(ls) ==
    \A i, j \in DOMAIN ls :
        (i < j /\ ls[i].cell = ls[j].cell /\ ls[i].cur = ls[j].cur /\ ls[j].left < ls[j].orig) => ls[i].left = 0

OppositesOnce(ms) ==
    \A k \in DOMAIN ms : ms[k].of # 0 =>
        /\ ms[k].qty = -ms[ms[k].of].qty /\ ms[k].cell = ms[ms[k].of].cell
        /\ \A r \in DOMAIN ms : ms[r].of = ms[k].of => r = k

TablesAreSound(ms, ls) ==
    TablesAreTyped(ms, ls) /\ DrawnIsAllocated(ms, ls) /\ OldestFirst(ls) /\ OppositesOnce(ms)

ConsumptionRows(ms) == {k \in DOMAIN ms : ms[k].kind = "CONSUMPTION"}

LedgerInv ==
    /\ TablesAreSound(moves, layers)
    /\ blocked \subseteq Cells /\ active \subseteq Cells /\ consumed \subseteq Orders
    /\ IsFiniteSet(consumed) /\ Cardinality(ConsumptionRows(moves)) <= Cardinality(consumed)
=============================================================================
