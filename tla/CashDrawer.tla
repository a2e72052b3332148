----------------------------- MODULE CashDrawer -----------------------------
(***************************************************************************)
(* Cash sessions of a location's registers: cash_management/service.py,    *)
(* and the movements that cash payments leave in them (payments/service.py).*)
(* Sessions, movements and counts are appended under the lock of the       *)
(* session.  Closing reads the sum of the movements without a lock: it is  *)
(* that of the snapshot the request began with.  A repeated idempotency    *)
(* key replays its first answer or is refused: a stuttering step.          *)
(***************************************************************************)
EXTENDS Sums, FiniteSets, Sequences, SequencesExt

CONSTANTS Registers, Cashiers,
          Closings,        \* requests to close that can be under way at once
          CashAmounts,     \* amounts of payments and tenders
          ManualAmounts,   \* amounts of counts and, without sign, of manual movements
          MaxSessions, MaxMovements, MaxCounts, MaxCashPayments

ASSUME CashAssumption ==
    /\ CashAmounts \subseteq Nat /\ ManualAmounts \subseteq Nat
    /\ MaxSessions \in Nat /\ MaxMovements \in Nat /\ MaxCounts \in Nat /\ MaxCashPayments \in Nat

VARIABLES activated,     \* cash management is active at the location
          cashSession,   \* sequence of sessions
          movement,      \* sequence of movements
          cashCount,     \* sequence of counts
          cashPayment,   \* sequence of cash payments
          closing        \* Closing -> what it does, NoClosing

cashVars == <<activated, cashSession, movement, cashCount, cashPayment, closing>>

NoClosing == [count |-> 0]
NoSession == 0
MovementTypes == {"OPENING_FLOAT", "CASH_IN", "CASH_OUT", "WITHDRAWAL", "ADJUSTMENT"}
Signed == ManualAmounts \cup {-a : a \in ManualAmounts}

CashSession ==
    [register : Registers, cashier : Cashiers, status : {"OPEN", "CLOSED"}, version : 0 .. MaxMovements,
     selected : 0 .. MaxCounts, final : 0 .. MaxMovements, expected : Int, variance : Int, reasoned : BOOLEAN, by : Cashiers]
CashMovement ==
    [session : 1 .. MaxSessions, type : MovementTypes \cup {"CUSTOMER_TENDER", "CUSTOMER_CHANGE"}, amount : Int,
     payment : 0 .. MaxCashPayments, actor : Cashiers \cup {"payment"}]
CashCount == [session : 1 .. MaxSessions, amount : ManualAmounts \cup {0}, version : 0 .. MaxMovements, actor : Cashiers]

CashInit ==
    /\ activated = FALSE
    /\ cashSession = <<>> /\ movement = <<>> /\ cashCount = <<>> /\ cashPayment = <<>>
    /\ closing = [k \in Closings |-> NoClosing]

\* Provisioning the first register of a location activates it for good.
ActivateCashManagement ==
    /\ ~activated
    /\ activated' = TRUE
    /\ UNCHANGED <<cashSession, movement, cashCount, cashPayment, closing>>

\* The open slot is unique per register.
OpenCashSession(c, r) ==
    /\ Len(cashSession) < MaxSessions
    /\ activated
    /\ \A s \in Range(cashSession) : ~(s.register = r /\ s.status = "OPEN")
    /\ cashSession' = Append(cashSession,
           [register |-> r, cashier |-> c, status |-> "OPEN", version |-> 0, selected |-> 0, final |-> 0,
            expected |-> 0, variance |-> 0, reasoned |-> FALSE, by |-> c])
    /\ UNCHANGED <<activated, movement, cashCount, cashPayment, closing>>

\* What the rows moved in a session, and for a payment.
CashOf(rows, s) == Total([m \in DOMAIN rows |-> IF rows[m].session = s THEN rows[m].amount ELSE 0], Len(rows))
PaidOf(rows, p) == Total([m \in DOMAIN rows |-> IF rows[m].payment = p THEN rows[m].amount ELSE 0], Len(rows))

ExpectedCash(s) == CashOf(movement, s)

ValidateManualMovement(type, amount) ==
    /\ type \in {"OPENING_FLOAT", "CASH_IN"} => amount > 0
    /\ type \in {"CASH_OUT", "WITHDRAWAL"} => amount < 0

CreateManualMovement(c, s, type, amount) ==
    /\ Len(movement) < MaxMovements
    /\ ValidateManualMovement(type, amount)
    /\ cashSession[s].status = "OPEN"
    /\ \A m \in Range(movement) : ~(m.session = s /\ m.type = "OPENING_FLOAT" /\ type = "OPENING_FLOAT")
    /\ movement' = Append(movement, [session |-> s, type |-> type, amount |-> amount, payment |-> 0, actor |-> c])
    /\ cashSession' = [cashSession EXCEPT ![s].version = @ + 1]
    /\ UNCHANGED <<activated, cashCount, cashPayment, closing>>

CreateCashCount(c, s, amount) ==
    /\ Len(cashCount) < MaxCounts
    /\ cashSession[s].status = "OPEN"
    /\ cashCount' = Append(cashCount, [session |-> s, amount |-> amount, version |-> cashSession[s].version, actor |-> c])
    /\ UNCHANGED <<activated, cashSession, movement, cashPayment, closing>>

\* Without cash management the payment names no session and leaves no movement.
CashSessionForPayment(s) ==
    IF activated THEN s # NoSession /\ cashSession[s].status = "OPEN" ELSE s = NoSession

PaymentMovements(s, p, amount, tender) ==
    LET row(type, value) == [session |-> s, type |-> type, amount |-> value, payment |-> p, actor |-> "payment"]
    IN <<row("CUSTOMER_TENDER", tender)>>
       \o IF tender > amount THEN <<row("CUSTOMER_CHANGE", amount - tender)>> ELSE <<>>

\* A cash payment succeeds in one transaction with its movements.
PayCash(s, amount, tender) ==
    LET p == Len(cashPayment) + 1
        rows == IF s = NoSession THEN <<>> ELSE PaymentMovements(s, p, amount, tender)
    IN
    /\ Len(movement) + 2 <= MaxMovements
    /\ p <= MaxCashPayments
    /\ amount <= tender
    /\ CashSessionForPayment(s)
    /\ cashPayment' = Append(cashPayment, [session |-> s, amount |-> amount])
    /\ movement' = movement \o rows
    /\ cashSession' = IF s = NoSession THEN cashSession
                      ELSE [cashSession EXCEPT ![s].version = @ + Len(rows)]
    /\ UNCHANGED <<activated, cashCount, closing>>

\* The client names a count it was told of, so the snapshot holds it.
BeginClose(k, n) ==
    /\ closing[k] = NoClosing
    /\ n \in DOMAIN cashCount
    /\ closing' = [closing EXCEPT ![k] = [count |-> n, expected |-> ExpectedCash(cashCount[n].session)]]
    /\ UNCHANGED <<activated, cashSession, movement, cashCount, cashPayment>>

\* Mutant: any count of the session closes it.
CountIsKnown(n) == n \in DOMAIN cashCount

\* A count taken before the last movement is stale.
CountIsCurrent(n) == cashCount[n].version = cashSession[cashCount[n].session].version

CloseCashSession(c, k, reasoned) ==
    LET n == closing[k].count
        s == cashCount[n].session
        variance == cashCount[n].amount - closing[k].expected
    IN
    /\ closing[k] # NoClosing
    /\ cashSession[s].status = "OPEN"
    /\ CountIsCurrent(n)
    /\ variance # 0 => reasoned
    /\ cashSession' = [cashSession EXCEPT ![s].selected = n, ![s].final = cashSession[s].version,
           ![s].expected = closing[k].expected, ![s].variance = variance, ![s].reasoned = (variance # 0),
           ![s].status = "CLOSED", ![s].by = c]
    /\ closing' = [closing EXCEPT ![k] = NoClosing]
    /\ UNCHANGED <<activated, movement, cashCount, cashPayment>>

RefuseClose(k) ==
    /\ closing[k] # NoClosing
    /\ closing' = [closing EXCEPT ![k] = NoClosing]
    /\ UNCHANGED <<activated, cashSession, movement, cashCount, cashPayment>>

CashNext ==
    \/ ActivateCashManagement
    \/ \E c \in Cashiers :
          \/ \E r \in Registers : OpenCashSession(c, r)
          \/ \E s \in DOMAIN cashSession :
                \/ \E t \in MovementTypes, a \in Signed : CreateManualMovement(c, s, t, a)
                \/ \E a \in ManualAmounts \cup {0} : CreateCashCount(c, s, a)
          \/ \E k \in Closings, reasoned \in BOOLEAN : CloseCashSession(c, k, reasoned)
    \/ \E k \in Closings : (\E n \in DOMAIN cashCount : BeginClose(k, n)) \/ RefuseClose(k)
    \/ \E s \in DOMAIN cashSession \cup {NoSession}, a, t \in CashAmounts : PayCash(s, a, t)

CashSpec == CashInit /\ [][CashNext]_cashVars

CashTypeOK ==
    /\ \A s \in DOMAIN cashSession : cashSession[s] \in CashSession
    /\ \A m \in DOMAIN movement : movement[m] \in CashMovement
    /\ \A n \in DOMAIN cashCount : cashCount[n] \in CashCount

MovementsOf(rows, s) == {m \in DOMAIN rows : rows[m].session = s}

\* A closed session balances for good: what it froze as expected is the sum of all its
\* movements, its variance is what the selected count found beyond it, the count was taken
\* after the last movement, and nothing moved since.  No register has two open sessions.
SessionsBalance ==
    /\ \A s \in DOMAIN cashSession :
          LET closed == cashSession[s] IN
          closed.status = "CLOSED" =>
            /\ closed.expected = ExpectedCash(s)
            /\ cashCount[closed.selected].session = s
            /\ closed.variance = cashCount[closed.selected].amount - ExpectedCash(s)
            /\ closed.final = Cardinality(MovementsOf(movement, s))
            /\ closed.reasoned <=> closed.variance # 0
    /\ \A s, t \in DOMAIN cashSession :
          cashSession[s].status = "OPEN" /\ cashSession[t].status = "OPEN" /\ cashSession[s].register = cashSession[t].register => s = t

\* What a cash payment moved in its drawer is its amount, and a payment taken before cash
\* management was active moved nothing.
DrawerTellsPayments ==
    \A p \in DOMAIN cashPayment :
        PaidOf(movement, p) = (IF cashPayment[p].session = NoSession THEN 0 ELSE cashPayment[p].amount)

\* Cash as a whole: rows of their types, closed sessions that balance, and payments that
\* moved in the drawer what they are worth.
ClosedSessionsBalance == CashTypeOK /\ SessionsBalance /\ DrawerTellsPayments

-----------------------------------------------------------------------------
(* The inductive invariant behind it.                                       *)

CashRows ==
    /\ activated \in BOOLEAN
    /\ cashSession \in Seq(CashSession) /\ Len(cashSession) <= MaxSessions
    /\ movement \in Seq(CashMovement) /\ Len(movement) <= MaxMovements
    /\ cashCount \in Seq(CashCount) /\ Len(cashCount) <= MaxCounts
    /\ cashPayment \in Seq([session : 0 .. MaxSessions, amount : CashAmounts]) /\ Len(cashPayment) <= MaxCashPayments

\* The version of a session numbers its movements; every movement is of a session there is.
VersionsNumberMovements ==
    /\ \A m \in DOMAIN movement : movement[m].session \in DOMAIN cashSession /\ movement[m].payment <= Len(cashPayment)
    /\ \A s \in DOMAIN cashSession : cashSession[s].version = Cardinality(MovementsOf(movement, s))

CountsAreOfThePast ==
    \A n \in DOMAIN cashCount :
        /\ cashCount[n].session \in DOMAIN cashSession
        /\ cashCount[n].version <= cashSession[cashCount[n].session].version

\* A request to close that still finds its count current has the sum that is current: it
\* read it after the count was taken, and nothing moved since.
ClosingsKnowTheSum ==
    \A k \in Closings :
        \/ closing[k] = NoClosing
        \/ /\ closing[k] \in [count : DOMAIN cashCount, expected : Int]
           /\ CountIsCurrent(closing[k].count) => closing[k].expected = ExpectedCash(cashCount[closing[k].count].session)

SelectedCountsExist ==
    \A s \in DOMAIN cashSession : cashSession[s].status = "CLOSED" => cashSession[s].selected \in DOMAIN cashCount

CashInv ==
    /\ CashRows /\ VersionsNumberMovements /\ CountsAreOfThePast
    /\ closing = [k \in Closings |-> closing[k]] /\ ClosingsKnowTheSum
    /\ SelectedCountsExist /\ SessionsBalance /\ DrawerTellsPayments
=============================================================================
