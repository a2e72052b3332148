---------------------------- MODULE MCInventory ----------------------------
(* The inventory modules for TLC.  Documents of different kinds touch one  *)
(* another only through the ledger, so a behaviour follows one kind of     *)
(* document beside manual movements, receipts and orders; purchasing and   *)
(* the dated histories are followed by themselves.                         *)
EXTENDS Inventory, TLC

CONSTANTS w1, w2, i1, i2, o1, l1, n1, n2, t1, b1, ana, ben, k1, k2, v1, v2

TwoWarehouses == {<<w1, i1>>, <<w2, i1>>, <<w1, i2>>}
MainCell      == <<w1, i1>>

\* People are told apart only by equality.
People == Permutations(Staff) \cup Permutations(Clerks)

VARIABLE part   \* the kind of document this behaviour follows

vars == <<inventoryVars, part>>

OneCell  == {<<w1, i1>>}
OneItem  == {<<w1, i1>>, <<w2, i1>>}
OneStore == {<<w1, i1>>, <<w1, i2>>}

\* Movements a behaviour of each part may make.
Bound == [loss |-> 3, count |-> 3, transfer |-> 5, batch |-> 4]

Init ==
    /\ InventoryInit
    /\ part \in {"loss", "count", "transfer", "batch", "procurement", "costs", "recipes"}

PartNext ==
    \/ part = "loss" /\ (ItemNext(OneCell) \/ ManualNext(OneCell))
    \/ part = "count" /\ ManualNext(OneCell)
    \/ part # "count" /\ PolicyNext(OneCell)
    \/ SupplyNext(OneCell, IF part = "batch" THEN Currencies ELSE {"MXN"})

StockNext ==
    /\ part \in DOMAIN Bound
    /\ \/ PartNext /\ UNCHANGED documentVars
       \/ part = "loss" /\ LossNext(OneCell)
       \/ part = "count" /\ CountNext(OneCell)
       \/ part = "transfer" /\ TransferNext(OneItem)
       \/ part = "batch" /\ BatchNext(OneStore)
    /\ Len(moves') <= Bound[part]

Next ==
    /\ \/ StockNext /\ UNCHANGED <<procurementVars, historyVars>>
       \/ /\ part = "procurement" /\ ProcurementNext
          /\ UNCHANGED <<stockVars, historyVars>>
       \/ /\ \/ part = "costs" /\ CostNext
             \/ part = "recipes" /\ RecipeNext
          /\ UNCHANGED <<stockVars, procurementVars>>
    /\ UNCHANGED part

Spec == Init /\ [][Next]_vars
=============================================================================
