--------------------------- MODULE SettlementLedger ---------------------------
(***************************************************************************)
(* What settlement promises about one restaurant check, without saying     *)
(* how: money is first held against the check's liability and then either  *)
(* released or confirmed; it can never be held or confirmed beyond the     *)
(* liability; the check is settled by the very step that confirms the last *)
(* unit, and by no other.  PaymentExecution implements this specification  *)
(* through workers, leases, provider calls and crashes, none of which is   *)
(* visible here.                                                           *)
(***************************************************************************)
EXTENDS Naturals

CONSTANTS
    Payments,
    Total(_)    \* what a function from payments to amounts adds up to

VARIABLES
    liability,  \* what the diners owe
    held,       \* held[p]: units reserved for payment p
    confirmed,  \* confirmed[p]: units settled by payment p
    settled     \* the check has been settled in full

vars == <<liability, held, confirmed, settled>>

Untouched(p) == held[p] = 0 /\ confirmed[p] = 0

Fits(a) == Total(confirmed) + Total(held) + a <= liability

Init ==
    /\ liability \in Nat
    /\ held = [p \in Payments |-> 0]
    /\ confirmed = [p \in Payments |-> 0]
    /\ settled = FALSE

\* The liability is renegotiated only while nothing is held or confirmed.
Reprice ==
    /\ ~settled
    /\ \A p \in Payments : Untouched(p)
    /\ liability' \in Nat
    /\ UNCHANGED <<held, confirmed, settled>>

Hold(p, a) ==
    /\ Untouched(p)
    /\ Fits(a)
    /\ held' = [held EXCEPT ![p] = a]
    /\ UNCHANGED <<liability, confirmed, settled>>

Release(p) ==
    /\ held[p] > 0
    /\ held' = [held EXCEPT ![p] = 0]
    /\ UNCHANGED <<liability, confirmed, settled>>

\* Held money becomes settled money; the last unit settles the check.
Confirm(p) ==
    /\ held[p] > 0
    /\ confirmed[p] = 0
    /\ held' = [held EXCEPT ![p] = 0]
    /\ confirmed' = [confirmed EXCEPT ![p] = held[p]]
    /\ settled' = (settled \/ Total(confirmed) + held[p] = liability)
    /\ UNCHANGED liability

\* Cash is held and confirmed at once.
PayNow(p, a) ==
    /\ Untouched(p)
    /\ Fits(a)
    /\ confirmed' = [confirmed EXCEPT ![p] = a]
    /\ settled' = (settled \/ Total(confirmed) + a = liability)
    /\ UNCHANGED <<liability, held>>

Next ==
    \/ Reprice
    \/ \E p \in Payments, a \in 1 .. liability : Hold(p, a) \/ PayNow(p, a)
    \/ \E p \in Payments : Release(p) \/ Confirm(p)

Spec == Init /\ [][Next]_vars
=============================================================================
