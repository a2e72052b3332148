------------------------------ MODULE Inventory ------------------------------
(* The inventory of a location as a whole: the ledger and the documents    *)
(* that move it, purchasing and the dated histories, run beside each other.*)
EXTENDS StockDocuments, Procurement, InventoryHistory

stockVars     == <<ledgerVars, documentVars>>
inventoryVars == <<stockVars, procurementVars, historyVars>>

InventoryInit == LedgerInit /\ DocumentInit /\ ProcurementInit /\ HistoryInit

LedgerNext ==
    \/ PolicyNext(Cells) \/ ItemNext(Cells) \/ ManualNext(Cells) \/ SupplyNext(Cells, Currencies)

DocumentNext == LossNext(Cells) \/ CountNext(Cells) \/ TransferNext(Cells) \/ BatchNext(Cells)

InventoryNext ==
    \/ LedgerNext /\ UNCHANGED <<documentVars, procurementVars, historyVars>>
    \/ DocumentNext /\ UNCHANGED <<procurementVars, historyVars>>
    \/ ProcurementNext /\ UNCHANGED <<stockVars, historyVars>>
    \/ (CostNext \/ RecipeNext) /\ UNCHANGED <<stockVars, procurementVars>>

InventorySpec == InventoryInit /\ [][InventoryNext]_inventoryVars

-----------------------------------------------------------------------------
\* Documents and the ledger tell the same story: losses, reconciled counts and
\* transfers are in the ledger exactly as their documents say, accepted receipts
\* are in stock, and an order said to be received is complete.
DocumentsArePosted ==
    /\ DocumentTypeOK /\ ProcurementTypeOK
    /\ LossesAreInTheLedger
    /\ ReconciledVarianceIsPosted
    /\ TransfersConserveGoods
    /\ StockedIffAccepted
    /\ ReceivedIsComplete

\* What no step of the inventory services does: go below zero where stock is
\* blocked, count later movements away, accept goods without an approved order,
\* or change the cost or the factor of days already settled.
StepsKeepEvidence ==
    [][BlockRespected /\ CountKeepsLaterMoves /\ AcceptedNeedsApproval /\ SettledHistoryIsFinal]_inventoryVars
=============================================================================
