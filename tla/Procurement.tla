----------------------------- MODULE Procurement -----------------------------
(***************************************************************************)
(* Suppliers, offerings, purchase orders and goods receipts                *)
(* (inventory/receiving.py, purchase_orders.py) and what replenishment     *)
(* reads of them (replenishment_lots_valuation.py).  One order has one     *)
(* line; receipts of it are accepted by overlapping requests.  MySQL gives *)
(* a transaction the snapshot of its first unlocked read: the route reads  *)
(* the receipt's location before accept_receipt takes its locks, so the    *)
(* quantities already accepted, which accept_receipt sums without a lock,  *)
(* are those of the beginning of the request.                              *)
(***************************************************************************)
EXTENDS Sums

CONSTANTS
    MaxReceipts,  \* goods receipts drawn up against the order
    Clerks,       \* concurrent requests to accept a receipt
    MaxOrdered    \* bound on ordered and accepted quantities

ASSUME ProcurementAssumption == MaxOrdered \in Nat \ {0} /\ MaxReceipts \in Nat

VARIABLES
    offering,  \* supplier, its location, the offering and the item are ACTIVE
    po,        \* PurchaseOrder status and the ordered quantity of its line
    receipt,   \* GoodsReceipt rows: status and accepted quantity of the line
    stocked,   \* the receipts whose line has a GOODS_RECEIPT movement and layer
    request    \* what each clerk's acceptance has read

procurementVars == <<offering, po, receipt, stocked, request>>

-----------------------------------------------------------------------------
OrderStates   == {"NONE", "DRAFT", "SUBMITTED", "APPROVED", "PARTIALLY_RECEIVED",
                  "RECEIVED", "CLOSED", "CANCELLED"}
Receivable    == {"APPROVED", "PARTIALLY_RECEIVED"}
ReceiptStates == {"NONE", "DRAFT", "ACCEPTED", "CANCELLED"}
Quantity      == 0 .. MaxOrdered
Receipts      == 1 .. MaxReceipts

NoRequest == [receipt |-> 0, seen |-> {}]

ProcurementTypeOK ==
    /\ offering \in BOOLEAN
    /\ po \in [state : OrderStates, ordered : Quantity]
    /\ receipt \in [Receipts -> [state : ReceiptStates, accepted : Quantity]]
    /\ stocked \subseteq Receipts
    /\ \A k \in Clerks : request[k].receipt \in Receipts \cup {0}

ProcurementInit ==
    /\ offering = TRUE
    /\ po = [state |-> "NONE", ordered |-> 0]
    /\ receipt = [r \in Receipts |-> [state |-> "NONE", accepted |-> 0]]
    /\ stocked = {}
    /\ request = [k \in Clerks |-> NoRequest]

Accepted == {r \in Receipts : receipt[r].state = "ACCEPTED"}
Goods(S) == Total([r \in Receipts |-> IF r \in S THEN receipt[r].accepted ELSE 0], MaxReceipts)

-----------------------------------------------------------------------------
(* Suppliers and offerings, purchase orders.                               *)

UpdateOffering ==
    /\ offering' = ~offering
    /\ UNCHANGED <<po, receipt, stocked, request>>

CreateOrder(q) ==
    /\ po.state = "NONE" /\ offering
    /\ po' = [state |-> "DRAFT", ordered |-> q]
    /\ UNCHANGED <<offering, receipt, stocked, request>>

AmendOrder(q) ==
    /\ po.state = "DRAFT" /\ offering
    /\ po' = [po EXCEPT !.ordered = q]
    /\ UNCHANGED <<offering, receipt, stocked, request>>

\* The states each command leaves and the state it leads to.
Command ==
    [submit  |-> [from |-> {"DRAFT"}, to |-> "SUBMITTED"],
     approve |-> [from |-> {"SUBMITTED"}, to |-> "APPROVED"],
     cancel  |-> [from |-> {"DRAFT", "SUBMITTED"} \cup Receivable, to |-> "CANCELLED"],
     close   |-> [from |-> {"RECEIVED", "PARTIALLY_RECEIVED"}, to |-> "CLOSED"]]

OrderCommand(a) ==
    /\ po.state \in Command[a].from
    /\ po' = [po EXCEPT !.state = Command[a].to]
    /\ UNCHANGED <<offering, receipt, stocked, request>>

-----------------------------------------------------------------------------
(* Receipts.                                                               *)

\* A line of which nothing was accepted is recorded as rejected only.
CreateReceipt(r, q) ==
    /\ receipt[r].state = "NONE" /\ offering /\ po.state \in Receivable
    /\ receipt' = [receipt EXCEPT ![r] = [state |-> "DRAFT", accepted |-> q]]
    /\ UNCHANGED <<offering, po, stocked, request>>

CancelReceipt(r) ==
    /\ receipt[r].state = "DRAFT"
    /\ receipt' = [receipt EXCEPT ![r].state = "CANCELLED"]
    /\ UNCHANGED <<offering, po, stocked, request>>

\* The request reads the receipt's location: its snapshot.
BeginAccept(k, r) ==
    /\ request[k] = NoRequest
    /\ receipt[r].state # "NONE"
    /\ request' = [request EXCEPT ![k] = [receipt |-> r, seen |-> Accepted]]
    /\ UNCHANGED <<offering, po, receipt, stocked>>

ReceivedStatus(S) ==
    IF Goods(S) >= po.ordered THEN "RECEIVED"
    ELSE IF Goods(S) > 0 THEN "PARTIALLY_RECEIVED" ELSE "APPROVED"

MayAccept(r) == receipt[r].state = "DRAFT"

\* Under the locks of the receipt, the supplier, the warehouse and the order.
AcceptReceipt(k) ==
    LET r    == request[k].receipt
        seen == request[k].seen
    IN  /\ r # 0
        /\ MayAccept(r) /\ offering
        /\ po.state \in Receivable
        /\ Goods(seen) + receipt[r].accepted <= po.ordered
        /\ receipt' = [receipt EXCEPT ![r].state = "ACCEPTED"]
        /\ stocked' = IF receipt[r].accepted > 0 THEN stocked \cup {r} ELSE stocked
        /\ po' = [po EXCEPT !.state = ReceivedStatus(seen \cup {r})]
        /\ request' = [request EXCEPT ![k] = NoRequest]
        /\ UNCHANGED offering

\* Refused, replayed, or the process died: the transaction is rolled back.
EndAccept(k) ==
    /\ request[k] # NoRequest
    /\ request' = [request EXCEPT ![k] = NoRequest]
    /\ UNCHANGED <<offering, po, receipt, stocked>>

ProcurementNext ==
    \/ UpdateOffering
    \/ \E q \in 1 .. MaxOrdered : CreateOrder(q) \/ AmendOrder(q)
    \/ \E a \in DOMAIN Command : OrderCommand(a)
    \/ \E r \in Receipts :
          \/ \E q \in Quantity : CreateReceipt(r, q)
          \/ CancelReceipt(r)
          \/ \E k \in Clerks : BeginAccept(k, r)
    \/ \E k \in Clerks : AcceptReceipt(k) \/ EndAccept(k)

-----------------------------------------------------------------------------
(* What replenishment reads.                                               *)

OnOrder ==
    IF po.state \in Receivable /\ po.ordered > Goods(Accepted)
    THEN po.ordered - Goods(Accepted) ELSE 0

-----------------------------------------------------------------------------
(* Properties.                                                             *)

\* A receipt is in stock once and only while accepted; a cancelled one never is.
StockedIffAccepted ==
    \A r \in Receipts : r \in stocked <=> receipt[r].state = "ACCEPTED" /\ receipt[r].accepted > 0

\* (Of a step.)  Goods are accepted only against an order that was approved and is not
\* closed or cancelled at that moment, and an order that was never approved
\* has no accepted goods.
AcceptedNeedsApproval ==
    \A r \in Receipts :
        (receipt[r].state # "ACCEPTED" /\ receipt'[r].state = "ACCEPTED")
        => po.state \in Receivable /\ receipt[r].state = "DRAFT"

\* RECEIVED is never said of an order that still has an obligation, and an
\* order that is still open for goods is on order for what is missing: a stale
\* sum can leave PARTIALLY_RECEIVED on a complete order, not the opposite.
ReceivedIsComplete ==
    po.state = "RECEIVED" => Goods(Accepted) >= po.ordered /\ OnOrder = 0

\* The inductive invariant: what a request saw accepted is accepted.
ProcurementInv ==
    /\ ProcurementTypeOK /\ StockedIffAccepted
    /\ request = [k \in Clerks |-> request[k]] /\ \A k \in Clerks : request[k].seen \subseteq Accepted
    /\ po.state = "RECEIVED" => Goods(Accepted) >= po.ordered
    /\ \A r \in Receipts : receipt[r].state = "NONE" => receipt[r].accepted = 0
=============================================================================
