--------------------------- MODULE StockDocuments ---------------------------
(***************************************************************************)
(* The documents that move stock: losses (losses.py), physical counts and  *)
(* their reconciliations (counting.py), transfers (fifo_transfers.py) and  *)
(* preparation batches (preparations.py).  Each is a row with a status and *)
(* a version; a command locks the row, tests both and writes the movements *)
(* in the same transaction.  A command sent twice finds its key and        *)
(* changes nothing.  A command prepared from an older version is refused.  *)
(***************************************************************************)
EXTENDS StockLedger

CONSTANTS
    Losses, Counts, Transfers, Batches,   \* document identities
    Staff,                                \* employees issuing commands
    NoOne                                 \* a NULL actor

ASSUME DocumentAssumption == NoOne \notin Staff

VARIABLES
    threshold, \* InventoryLossPolicy.approval_value_threshold, 0 = no active policy
    loss,      \* InventoryLoss rows
    count,     \* PhysicalCount rows with their one line, and reconciliation
    transfer,  \* InventoryTransfer rows with their one line
    batch      \* PreparationBatch rows with one input and the output

documentVars == <<threshold, loss, count, transfer, batch>>

-----------------------------------------------------------------------------
LossStates     == {"NONE", "DRAFT", "PENDING_APPROVAL", "POSTED", "REVERSED", "CANCELLED"}
CountStates    == {"NONE", "DRAFT", "COUNTING", "SUBMITTED", "APPROVED", "POSTED", "CANCELLED"}
TransferStates == {"NONE", "DRAFT", "SUBMITTED", "IN_TRANSIT", "RECEIVED", "CANCELLED"}
BatchStates    == {"NONE", "DRAFT", "IN_PROGRESS", "COMPLETED", "CANCELLED"}

Actors == Staff \cup {NoOne}

LossRow == [state : LossStates, cell : Cells, qty : Nat, required : BOOLEAN,
            requester : Actors, approver : Actors, move : Nat]
CountRow == [state : CountStates, cell : Cells, cursor : Nat, counted : Nat,
             variance : Int, submitter : Actors, approver : Actors,
             closed : {"NONE", "OPEN", "CLOSED"}, result : Int]
TransferRow == [state : TransferStates, from : Cells, to : Cells, sent : Nat,
                received : Nat, move : Nat, taken : Seq(Allocation), seen : Nat]
BatchRow == [state : BatchStates, in : Cells, out : Cells, qty : Nat, seen : Nat]

DocumentTypeOK ==
    /\ threshold \in 0 .. MaxQuantity
    /\ \A l \in Losses : loss[l].state \in LossStates /\ loss[l].move \in 0 .. Len(moves)
    /\ \A n \in Counts : /\ count[n].state \in CountStates
                         /\ count[n].cursor <= Len(moves)
                         /\ count[n].variance \in Int
    /\ \A t \in Transfers : /\ transfer[t].state \in TransferStates
                            /\ transfer[t].move \in 0 .. Len(moves)
                            /\ transfer[t].received <= transfer[t].sent
    /\ \A b \in Batches : batch[b].state \in BatchStates

NoLoss     == [state |-> "NONE", cell |-> Default, qty |-> 0, required |-> FALSE,
               requester |-> NoOne, approver |-> NoOne, move |-> 0]
NoCount    == [state |-> "NONE", cell |-> Default, cursor |-> 0, counted |-> 0,
               variance |-> 0, submitter |-> NoOne, approver |-> NoOne,
               closed |-> "NONE", result |-> 0]
NoTransfer == [state |-> "NONE", from |-> Default, to |-> Default, sent |-> 0,
               received |-> 0, move |-> 0, taken |-> <<>>, seen |-> 0]
NoBatch    == [state |-> "NONE", in |-> Default, out |-> Default, qty |-> 0, seen |-> 0]

DocumentInit ==
    /\ threshold = 0
    /\ loss = [l \in Losses |-> NoLoss]
    /\ count = [n \in Counts |-> NoCount]
    /\ transfer = [t \in Transfers |-> NoTransfer]
    /\ batch = [b \in Batches |-> NoBatch]

KeepLedger == UNCHANGED ledgerVars
KeepCells  == UNCHANGED <<blocked, active, consumed>>

-----------------------------------------------------------------------------
(* Losses.                                                                 *)

PutPolicy(v) ==
    /\ threshold # v
    /\ threshold' = v
    /\ KeepLedger /\ UNCHANGED <<loss, count, transfer, batch>>

SetLoss(l, row) == loss' = [loss EXCEPT ![l] = row]
KeepAllButLoss  == UNCHANGED <<threshold, count, transfer, batch>>

CreateLoss(l, c, q) ==
    /\ loss[l].state = "NONE"
    /\ c \in active
    /\ SetLoss(l, [NoLoss EXCEPT !.state = "DRAFT", !.cell = c, !.qty = q])
    /\ KeepLedger /\ KeepAllButLoss

UpdateLoss(l, q) ==
    /\ loss[l].state = "DRAFT"
    /\ loss[l].cell \in active
    /\ SetLoss(l, [loss[l] EXCEPT !.qty = q])
    /\ KeepLedger /\ KeepAllButLoss

\* The value of a unit is one; a loss without a cost, without a policy or at
\* or above the threshold needs a second employee.
ApprovalDecision(l, costKnown) ==
    ~costKnown \/ threshold = 0 \/ loss[l].qty >= threshold

PostMovement(l) ==
    /\ NotBlocked(loss[l].cell, loss[l].qty)
    /\ Issue(loss[l].cell, "WASTE", loss[l].qty)
    /\ KeepCells

PostLoss(l, e, costKnown) ==
    /\ loss[l].state = "DRAFT"
    /\ loss[l].cell \in active
    /\ IF ApprovalDecision(l, costKnown)
       THEN /\ SetLoss(l, [loss[l] EXCEPT !.state = "PENDING_APPROVAL",
                                          !.required = TRUE, !.requester = e])
            /\ KeepLedger
       ELSE /\ SetLoss(l, [loss[l] EXCEPT !.state = "POSTED", !.move = Len(moves) + 1])
            /\ PostMovement(l)
    /\ KeepAllButLoss

ApproveLoss(l, e) ==
    /\ loss[l].state = "PENDING_APPROVAL"
    /\ e # loss[l].requester
    /\ loss[l].cell \in active
    /\ SetLoss(l, [loss[l] EXCEPT !.state = "POSTED", !.approver = e,
                                  !.move = Len(moves) + 1])
    /\ PostMovement(l)
    /\ KeepAllButLoss

CancelLoss(l) ==
    /\ loss[l].state \in {"DRAFT", "PENDING_APPROVAL"}
    /\ SetLoss(l, [loss[l] EXCEPT !.state = "CANCELLED"])
    /\ KeepLedger /\ KeepAllButLoss

ReverseLoss(l) ==
    /\ loss[l].state = "POSTED"
    /\ Reverse(loss[l].move)
    /\ SetLoss(l, [loss[l] EXCEPT !.state = "REVERSED"])
    /\ KeepCells /\ KeepAllButLoss

-----------------------------------------------------------------------------
(* Physical counts and reconciliation.                                     *)

SetCount(n, row) == count' = [count EXCEPT ![n] = row]
KeepAllButCount  == UNCHANGED <<threshold, loss, transfer, batch>>

\* The cursor is the last movement of the warehouse.
CreateCount(n, c) ==
    /\ count[n].state = "NONE"
    /\ SetCount(n, [NoCount EXCEPT !.state = "DRAFT", !.cell = c, !.cursor = Len(moves)])
    /\ KeepLedger /\ KeepAllButCount

PutLine(n, counted) ==
    /\ count[n].state \in {"DRAFT", "COUNTING"}
    /\ count[n].cell \in active
    /\ SetCount(n, [count[n] EXCEPT !.state = "COUNTING", !.counted = counted,
                        !.variance = counted - StockAt(count[n].cell, count[n].cursor)])
    /\ KeepLedger /\ KeepAllButCount

SubmitCount(n, e) ==
    /\ count[n].state = "COUNTING"
    /\ SetCount(n, [count[n] EXCEPT !.state = "SUBMITTED", !.submitter = e])
    /\ KeepLedger /\ KeepAllButCount

ApproveCount(n, e) ==
    /\ count[n].state = "SUBMITTED"
    /\ e # count[n].submitter
    /\ SetCount(n, [count[n] EXCEPT !.state = "APPROVED", !.approver = e])
    /\ KeepLedger /\ KeepAllButCount

CancelCount(n) ==
    /\ count[n].state \in {"DRAFT", "COUNTING", "SUBMITTED"}
    /\ SetCount(n, [count[n] EXCEPT !.state = "CANCELLED"])
    /\ KeepLedger /\ KeepAllButCount

\* A variance of zero posts no movement; an adjustment opens and draws no
\* layer, even when it takes stock out.
Adjust(c, v) ==
    /\ Room(1)
    /\ moves' = Append(moves, Move(c, "ADJUSTMENT", v, 0, <<>>))
    /\ UNCHANGED layers

\* Mutant: the counted quantity replaces the present stock.
PostCountAbsolute(n) ==
    LET v == count[n].counted - Stock(count[n].cell)
    IN  /\ count[n].state = "APPROVED"
        /\ count[n].cell \in active
        /\ IF v = 0 THEN UNCHANGED <<moves, layers>> ELSE Adjust(count[n].cell, v)
        /\ SetCount(n, [count[n] EXCEPT !.state = "POSTED"])
        /\ KeepCells /\ KeepAllButCount

PostCount(n) ==
    LET v == count[n].variance
    IN  /\ count[n].state = "APPROVED"
        /\ count[n].cell \in active
        /\ v # 0 => NotBlocked(count[n].cell, -v)
        /\ IF v = 0 THEN UNCHANGED <<moves, layers>> ELSE Adjust(count[n].cell, v)
        /\ SetCount(n, [count[n] EXCEPT !.state = "POSTED"])
        /\ KeepCells /\ KeepAllButCount

CreateReconciliation(n) ==
    /\ count[n].state = "POSTED"
    /\ count[n].closed = "NONE"
    /\ SetCount(n, [count[n] EXCEPT !.closed = "OPEN"])
    /\ KeepLedger /\ KeepAllButCount

\* The period's movements up to the cursor, split the way the report splits
\* them: the loss column holds the rows that carry an inventory_loss_id (the
\* waste and a reversal made by reverse_loss).
Window(n, K) ==
    Total([k \in 1 .. count[n].cursor |->
              IF moves[k].cell = count[n].cell /\ k \in K THEN moves[k].qty ELSE 0], count[n].cursor)
OfLoss == {k \in Rows : \/ moves[k].kind = "WASTE"
                        \/ \E l \in Losses : /\ loss[l].state = "REVERSED"
                                             /\ moves[k].of = loss[l].move}
OfKind(kinds) == {k \in Rows : moves[k].kind \in kinds}

Theoretical(n) ==
    Window(n, OfKind({"GOODS_RECEIPT"})) + Window(n, OfKind({"CONSUMPTION"}))
    + Window(n, OfLoss)
    + Window(n, Rows \ (OfKind({"GOODS_RECEIPT", "CONSUMPTION"}) \cup OfLoss))

CloseReconciliation(n) ==
    /\ count[n].closed = "OPEN"
    /\ SetCount(n, [count[n] EXCEPT !.closed = "CLOSED",
                                    !.result = count[n].counted - Theoretical(n)])
    /\ KeepLedger /\ KeepAllButCount

-----------------------------------------------------------------------------
(* Transfers.  The snapshot of the request that ships can be as old as the *)
(* transfer's submission ("seen"): the stock it tests is that of then.     *)

SetTransfer(t, row) == transfer' = [transfer EXCEPT ![t] = row]
KeepAllButTransfer  == UNCHANGED <<threshold, loss, count, batch>>

CreateTransfer(t, from, to, q) ==
    /\ transfer[t].state = "NONE"
    /\ from # to /\ from[2] = to[2]
    /\ SetTransfer(t, [NoTransfer EXCEPT !.state = "DRAFT", !.from = from, !.to = to, !.sent = q])
    /\ KeepLedger /\ KeepAllButTransfer

SubmitTransfer(t) ==
    /\ transfer[t].state = "DRAFT"
    /\ SetTransfer(t, [transfer[t] EXCEPT !.state = "SUBMITTED", !.seen = Len(moves)])
    /\ KeepLedger /\ KeepAllButTransfer

CancelTransfer(t) ==
    /\ transfer[t].state \in {"DRAFT", "SUBMITTED"}
    /\ SetTransfer(t, [transfer[t] EXCEPT !.state = "CANCELLED"])
    /\ KeepLedger /\ KeepAllButTransfer

ShipTransfer(t, n) ==
    LET x == transfer[t]
    IN  /\ x.state = "SUBMITTED"
        /\ x.from \in blocked => StockAt(x.from, n) >= x.sent
        /\ CompleteFifo(x.from, x.sent)
        /\ Issue(x.from, "TRANSFER_OUT", x.sent)
        /\ SetTransfer(t, [x EXCEPT !.state = "IN_TRANSIT", !.move = Len(moves) + 1])
        /\ KeepCells /\ KeepAllButTransfer

\* What earlier receipts have reproduced of a shipped layer.
Already(x, i) == Total([r \in DOMAIN x.taken |-> Part(x.taken[r], i)], Len(x.taken))

\* Mutant: every receipt reproduces the shipment from its first layer.
OutstandingAfresh(x) == [i \in LayerRows |-> Part(moves[x.move].alloc, i)]

Outstanding(x) == [i \in LayerRows |-> Part(moves[x.move].alloc, i) - Already(x, i)]

\* The layers are reproduced in the order they were drawn.
Reproduced(x, q, i) == Share(Outstanding(x), q, i)

Sources(x, q) == {i \in LayerRows : Reproduced(x, q, i) > 0}

\* How many of the rows in S there are up to row i, and the rows of S in order.
Place(S, n, i) == Total([j \in 1 .. n |-> IF j \in S THEN 1 ELSE 0], i)
InOrder(S, n)  == [k \in 1 .. Place(S, n, n) |-> CHOOSE i \in 1 .. n : i \in S /\ Place(S, n, i) = k]

ReceiveTransfer(t, q) ==
    LET x   == transfer[t]
        src == InOrder(Sources(x, q), Len(layers))
    IN  /\ x.state = "IN_TRANSIT"
        /\ x.received + q <= x.sent
        /\ Receive(x.to, "TRANSFER_IN", q,
                   [k \in DOMAIN src |-> NewLayer(x.to, Reproduced(x, q, src[k]),
                                                  layers[src[k]].cur)])
        /\ SetTransfer(t, [x EXCEPT
                !.received = @ + q,
                !.state = IF x.received + q = x.sent THEN "RECEIVED" ELSE @,
                !.taken = Append(@, [i \in Sources(x, q) |-> Reproduced(x, q, i)])])
        /\ KeepCells /\ KeepAllButTransfer

-----------------------------------------------------------------------------
(* Preparation batches.                                                    *)

SetBatch(b, row) == batch' = [batch EXCEPT ![b] = row]
KeepAllButBatch  == UNCHANGED <<threshold, loss, count, transfer>>

CreateBatch(b, in, out, q) ==
    /\ batch[b].state = "NONE"
    /\ in # out /\ in[1] = out[1] /\ {in, out} \subseteq active
    /\ SetBatch(b, [state |-> "DRAFT", in |-> in, out |-> out, qty |-> q, seen |-> 0])
    /\ KeepLedger /\ KeepAllButBatch

StartBatch(b) ==
    /\ batch[b].state = "DRAFT"
    /\ SetBatch(b, [batch[b] EXCEPT !.state = "IN_PROGRESS", !.seen = Len(moves)])
    /\ KeepLedger /\ KeepAllButBatch

CancelBatch(b) ==
    /\ batch[b].state \in {"DRAFT", "IN_PROGRESS"}
    /\ SetBatch(b, [batch[b] EXCEPT !.state = "CANCELLED"])
    /\ KeepLedger /\ KeepAllButBatch

\* The layers of an allocation are of one currency.
AllocatedCurrency(c, q) == layers[CHOOSE i \in DOMAIN Fifo(c, q) : TRUE].cur

\* Input out, output in; the output is layered only when the whole input was.
CompleteBatch(b, n) ==
    LET x == batch[b]
    IN  /\ x.state = "IN_PROGRESS"
        /\ x.in \in blocked => StockAt(x.in, n) >= x.qty
        /\ Room(2)
        /\ moves' = moves \o << Move(x.in, "PREPARATION_INPUT", -x.qty, 0, Fifo(x.in, x.qty)),
                                Move(x.out, "PREPARATION_OUTPUT", 1, 0, <<>>) >>
        /\ layers' = IF Covered(x.in, x.qty)
                     THEN Append(DrawDown(x.in, x.qty),
                                 NewLayer(x.out, 1, AllocatedCurrency(x.in, x.qty)))
                     ELSE DrawDown(x.in, x.qty)
        /\ SetBatch(b, [x EXCEPT !.state = "COMPLETED"])
        /\ KeepCells /\ KeepAllButBatch

-----------------------------------------------------------------------------
LossNext(C) ==
    \/ \E v \in 0 .. MaxQuantity : PutPolicy(v)
    \/ \E l \in Losses :
          \/ \E c \in C, q \in Quantities : CreateLoss(l, c, q)
          \/ \E q \in Quantities : UpdateLoss(l, q)
          \/ \E e \in Staff, known \in BOOLEAN : PostLoss(l, e, known)
          \/ \E e \in Staff : ApproveLoss(l, e)
          \/ CancelLoss(l) \/ ReverseLoss(l)

CountNext(C) ==
    \E n \in Counts :
       \/ \E c \in C : CreateCount(n, c)
       \/ \E q \in 0 .. MaxQuantity : PutLine(n, q)
       \/ \E e \in Staff : SubmitCount(n, e) \/ ApproveCount(n, e)
       \/ CancelCount(n) \/ PostCount(n)
       \/ CreateReconciliation(n) \/ CloseReconciliation(n)

TransferNext(C) ==
    \E t \in Transfers :
       \/ \E from, to \in C, q \in Quantities : CreateTransfer(t, from, to, q)
       \/ SubmitTransfer(t) \/ CancelTransfer(t)
       \/ \E n \in transfer[t].seen .. Len(moves) : ShipTransfer(t, n)
       \/ \E q \in Quantities : ReceiveTransfer(t, q)

BatchNext(C) ==
    \E b \in Batches :
       \/ \E in, out \in C, q \in Quantities : CreateBatch(b, in, out, q)
       \/ StartBatch(b) \/ CancelBatch(b)
       \/ \E n \in batch[b].seen .. Len(moves) : CompleteBatch(b, n)

-----------------------------------------------------------------------------
(* Properties.                                                             *)

\* A posted loss took its quantity out of the ledger exactly once and a reversed
\* one gave it back; a loss that required approval was approved by someone other
\* than the employee who asked, whatever the policy became in between.
LossesAreInTheLedger ==
    \A l \in Losses :
        LET x == loss[l]
        IN  /\ x.state \in {"POSTED", "REVERSED"} =>
                  /\ moves[x.move].kind = "WASTE" /\ moves[x.move].qty = -x.qty
                  /\ x.required => x.approver \notin {NoOne, x.requester}
            /\ x.state = "REVERSED" => Reversed(x.move)
            /\ x.state \notin {"POSTED", "REVERSED"} => x.move = 0

\* The variance a closed reconciliation reports is the variance its count posted,
\* although the report is made later, from another split of the ledger.
ReconciledVarianceIsPosted ==
    \A n \in Counts : count[n].closed = "CLOSED" => count[n].result = count[n].variance

\* (Of a step.)  A count is posted against the stock at its cursor: what moved between the
\* cursor and the posting is kept, not counted away.
CountKeepsLaterMoves ==
    \A n \in Counts :
        (count[n].state = "APPROVED" /\ count'[n].state = "POSTED") =>
           LET c == count[n].cell
           IN  Stock(c)' - count[n].counted = Stock(c) - StockAt(c, count[n].cursor)

\* Goods are in one place: what a transfer took from the source is what arrived
\* plus what is still in transit, and each shipped layer is reproduced at the
\* destination up to what was drawn from it, no further.
TransfersConserveGoods ==
    \A t \in Transfers :
        LET x == transfer[t]
        IN  x.state \in {"IN_TRANSIT", "RECEIVED"} =>
              /\ moves[x.move].qty = -x.sent
              /\ x.received <= x.sent /\ (x.state = "RECEIVED" <=> x.received = x.sent)
              /\ Total([i \in LayerRows |-> Already(x, i)], Len(layers)) = x.received
              /\ \A i \in LayerRows : Already(x, i) <= Part(moves[x.move].alloc, i)

-----------------------------------------------------------------------------
(* The inductive invariant: each document beside the movements ms and the  *)
(* number of layers.                                                       *)

LossSound(x, ms) ==
    /\ x \in LossRow
    /\ x.state \in {"POSTED", "REVERSED"} =>
          /\ x.move \in DOMAIN ms /\ ms[x.move].kind = "WASTE" /\ ms[x.move].qty = -x.qty
          /\ x.required => x.approver \notin {NoOne, x.requester}
    /\ x.state = "REVERSED" => \E r \in DOMAIN ms : ms[r].of = x.move
    /\ x.state \notin {"POSTED", "REVERSED"} => x.move = 0
    /\ x.state = "DRAFT" => ~x.required

CountSound(x, ms) ==
    /\ x \in CountRow /\ x.cursor <= Len(ms)
    /\ x.state \in {"COUNTING", "SUBMITTED", "APPROVED", "POSTED"} =>
          x.variance = x.counted - StockIn(ms, x.cell, x.cursor)
    /\ x.closed # "NONE" => x.state = "POSTED"
    /\ x.closed = "CLOSED" => x.result = x.variance

TransferSound(x, ms, n) ==
    /\ x \in TransferRow /\ (x.state # "NONE" => x.sent > 0)
    /\ x.state \notin {"IN_TRANSIT", "RECEIVED"} => x.received = 0 /\ x.move = 0 /\ x.taken = <<>>
    /\ x.state \in {"IN_TRANSIT", "RECEIVED"} =>
          /\ x.move \in DOMAIN ms /\ ms[x.move].qty = -x.sent /\ DOMAIN ms[x.move].alloc \subseteq 1 .. n
          /\ x.received <= x.sent /\ (x.state = "RECEIVED" <=> x.received = x.sent)
          /\ Total([i \in 1 .. n |-> Part(ms[x.move].alloc, i)], n) = x.sent
          /\ Total([i \in 1 .. n |-> Already(x, i)], n) = x.received
          /\ \A i \in 1 .. n : Already(x, i) <= Part(ms[x.move].alloc, i)
          /\ \A r \in DOMAIN x.taken : DOMAIN x.taken[r] \subseteq 1 .. n

BatchSound(x) == x \in BatchRow /\ (x.state # "NONE" => x.qty \in Quantities)

DocumentInv ==
    /\ threshold \in 0 .. MaxQuantity
    /\ loss = [l \in Losses |-> loss[l]] /\ \A l \in Losses : LossSound(loss[l], moves)
    /\ count = [n \in Counts |-> count[n]] /\ \A n \in Counts : CountSound(count[n], moves)
    /\ transfer = [t \in Transfers |-> transfer[t]] /\ \A t \in Transfers : TransferSound(transfer[t], moves, Len(layers))
    /\ batch = [b \in Batches |-> batch[b]] /\ \A b \in Batches : BatchSound(batch[b])
=============================================================================
