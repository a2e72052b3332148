-------------------------- MODULE PaymentExecution --------------------------
(***************************************************************************)
(* Payments of one restaurant check: apps/api/app/restaurant/payments/     *)
(* service.py and the Conekta adapter it calls.  Several request handlers  *)
(* (workers) run concurrently; every database transaction is one action,   *)
(* because each of them locks the check row or the payment row first.      *)
(* Between two transactions of one request anything may happen: the other  *)
(* requests, a crash of this one, the expiry of its lease, the provider    *)
(* changing its mind about a pending order.                                *)
(***************************************************************************)
EXTENDS Money, Sequences

CONSTANTS
    Payments,     \* one per (actor, idempotency key): RestaurantPayment rows
    NoPayment,    \* what an idle worker works on
    Workers,      \* concurrent requests
    Configs,      \* LocationPaymentExecutorConfiguration rows
    NoConfig,     \* executor_configuration_id of a cash payment
    MaxLiability, \* bound on liability_total
    MaxAttempts,  \* bound on attempt_count
    ProviderReusesOrders \* may the provider answer with an order it already has?

ASSUME PaymentAssumption ==
    /\ IsFiniteSet(Payments)
    /\ NoPayment \notin Payments
    /\ NoConfig \notin Configs
    /\ MaxLiability \in Nat
    /\ MaxAttempts \in Nat
    /\ ProviderReusesOrders \in BOOLEAN

VARIABLES
    checkStatus, \* RestaurantCheck.status
    liability,   \* RestaurantCheck.liability_total
    state,       \* RestaurantPayment.state; "NONE" before the row exists
    amount,      \* RestaurantPayment.amount
    config,      \* RestaurantPayment.executor_configuration_id
    claim,       \* claim_token: the sequence of the attempt owning it, 0 = NULL
    lapsed,      \* claim_expires_at has passed
    ref,         \* RestaurantPayment.external_reference
    attempts,    \* RestaurantPaymentAttempt rows of each payment, in sequence
    settlement,  \* sum of the RestaurantCheckSettlement rows of each payment
    active,      \* configurations with status ACTIVE
    orders,      \* the provider's orders
    job          \* what each worker is doing

checkVars   == <<checkStatus, liability>>
claimVars   == <<claim, lapsed>>
paymentVars == <<state, amount, config, claim, lapsed, ref, attempts, settlement>>
vars == <<checkStatus, liability, state, amount, config, claim, lapsed, ref,
          attempts, settlement, active, orders, job>>

-----------------------------------------------------------------------------
\* An order is identified by the call that created it.
Refs  == Payments \X (1 .. MaxAttempts)
NoRef == <<>>

OrderStatus     == {"none", "pending", "paid", "declined", "failed"}
ReservingStates == {"RESERVED", "IN_PROGRESS", "UNCERTAIN"}
ResultStates    == {"SUCCEEDED", "FAILED", "REJECTED", "UNCERTAIN"}
PaymentStates   == {"NONE"} \cup ReservingStates \cup ResultStates

AttemptRow ==
    [type   : {"EXECUTE", "RETRY", "RECOVER", "STALE_RECOVERY"},
     result : {"IN_PROGRESS", "FENCED"} \cup ResultStates,
     ref    : Refs \cup {NoRef}]

\* token is the claim token a worker holds; before a recovery has claimed, it
\* is the attempt_count of the row as that worker loaded it.
Job ==
    [pc      : {"idle", "claim", "execute", "call", "reclaim", "query", "finish"},
     payment : Payments \cup {NoPayment},
     token   : Nat,
     type    : {"NONE", "RECOVER", "STALE_RECOVERY"},
     state   : {"NONE"} \cup ResultStates,
     ref     : Refs \cup {NoRef}]

Idle == [pc |-> "idle", payment |-> NoPayment, token |-> 0, type |-> "NONE",
         state |-> "NONE", ref |-> NoRef]

\* _totals
Held      == [p \in Payments |-> IF state[p] \in ReservingStates THEN amount[p] ELSE 0]
Confirmed == Total(settlement)
Reserved  == Total(Held)

\* Mutant: money in flight is forgotten.
FitsIgnoringReserved(a) == Confirmed + a <= liability

Fits(a) == Confirmed + Reserved + a <= liability

TypeOK ==
    /\ checkStatus \in {"OPEN", "FROZEN", "SETTLED", "CANCELLED"}
    /\ liability \in 0 .. MaxLiability
    /\ state \in [Payments -> PaymentStates]
    /\ amount \in [Payments -> 0 .. MaxLiability]
    /\ config \in [Payments -> Configs \cup {NoConfig}]
    /\ claim \in [Payments -> 0 .. MaxAttempts]
    /\ lapsed \in [Payments -> BOOLEAN]
    /\ ref \in [Payments -> Refs \cup {NoRef}]
    /\ attempts \in [Payments -> Seq(AttemptRow)]
    /\ settlement \in [Payments -> Nat]
    /\ active \in SUBSET Configs
    /\ orders \in [Refs -> OrderStatus]
    /\ job \in [Workers -> Job]

Init ==
    /\ checkStatus = "OPEN"
    /\ liability \in 0 .. MaxLiability
    /\ state = [p \in Payments |-> "NONE"]
    /\ amount = [p \in Payments |-> 0]
    /\ config = [p \in Payments |-> NoConfig]
    /\ claim = [p \in Payments |-> 0]
    /\ lapsed = [p \in Payments |-> FALSE]
    /\ ref = [p \in Payments |-> NoRef]
    /\ attempts = [p \in Payments |-> <<>>]
    /\ settlement = [p \in Payments |-> 0]
    /\ active = Configs
    /\ orders = [r \in Refs |-> "none"]
    /\ job = [w \in Workers |-> Idle]

-----------------------------------------------------------------------------
(* The check while it is open (checks/service.py).                         *)

UpdateGratuity(l) ==
    /\ checkStatus = "OPEN"
    /\ liability' = l
    /\ UNCHANGED <<checkStatus, paymentVars, active, orders, job>>

FreezeCheck ==
    /\ checkStatus = "OPEN"
    /\ checkStatus' = "FROZEN"
    /\ UNCHANGED <<liability, paymentVars, active, orders, job>>

CancelCheck ==
    /\ checkStatus = "OPEN"
    /\ checkStatus' = "CANCELLED"
    /\ UNCHANGED <<liability, paymentVars, active, orders, job>>

-----------------------------------------------------------------------------
(* Initiation.                                                             *)

\* The guards initiate_payment shares between cash and card: the key is new,
\* the check is payable and the amount fits what is left of the liability.
MayInitiate(p, a) ==
    /\ state[p] = "NONE"
    /\ checkStatus \in {"OPEN", "FROZEN"}
    /\ Fits(a)

\* _apply_success and _finalize_full_check: the settlement row, and the check
\* settled when the row covers the liability.  Each refusal rolls back.
Settleable(p, a) ==
    /\ settlement[p] = 0
    /\ Confirmed + a <= liability
    /\ Confirmed + a = liability => Reserved = Held[p]

ApplySuccess(p, a, status) ==
    /\ Settleable(p, a)
    /\ settlement' = [settlement EXCEPT ![p] = a]
    /\ checkStatus' = IF Confirmed + a = liability THEN "SETTLED" ELSE status

InitiateCash(p, a) ==
    /\ MayInitiate(p, a)
    /\ ApplySuccess(p, a, "FROZEN")
    /\ state' = [state EXCEPT ![p] = "SUCCEEDED"]
    /\ amount' = [amount EXCEPT ![p] = a]
    /\ UNCHANGED <<liability, config, claimVars, ref, attempts, active, orders, job>>

\* First transaction of a card payment: the durable reservation.
InitiateCard(w, p, a, c) ==
    /\ job[w] = Idle
    /\ MayInitiate(p, a)
    /\ c \in active
    /\ checkStatus' = "FROZEN"
    /\ state' = [state EXCEPT ![p] = "RESERVED"]
    /\ amount' = [amount EXCEPT ![p] = a]
    /\ config' = [config EXCEPT ![p] = c]
    /\ job' = [job EXCEPT ![w] = [Idle EXCEPT !.pc = "claim", !.payment = p]]
    /\ UNCHANGED <<liability, claimVars, ref, attempts, settlement, active, orders>>

-----------------------------------------------------------------------------
(* Claims.                                                                 *)

\* _claim: a fresh token, a fresh lease and the attempt row.
Claim(p, type) ==
    /\ state' = [state EXCEPT ![p] = "IN_PROGRESS"]
    /\ claim' = [claim EXCEPT ![p] = Len(attempts[p]) + 1]
    /\ lapsed' = [lapsed EXCEPT ![p] = FALSE]
    /\ attempts' = [attempts EXCEPT ![p] =
            Append(@, [type |-> type, result |-> "IN_PROGRESS", ref |-> NoRef])]
    /\ UNCHANGED <<checkVars, amount, config, ref, settlement, active, orders>>

ClaimExecute(w) ==
    LET p == job[w].payment IN
    /\ job[w].pc = "claim"
    /\ state[p] = "RESERVED"
    /\ Len(attempts[p]) < MaxAttempts
    /\ Claim(p, "EXECUTE")
    /\ job' = [job EXCEPT ![w] = [@ EXCEPT !.pc = "execute", !.token = Len(attempts[p]) + 1]]

\* Mutants: the amount is not checked again; a rejected payment is retried.
RetryUnchecked(w, p) ==
    /\ job[w] = Idle
    /\ state[p] = "FAILED"
    /\ Len(attempts[p]) < MaxAttempts
    /\ Claim(p, "RETRY")
    /\ job' = [job EXCEPT ![w] = [Idle EXCEPT !.pc = "execute", !.payment = p,
                                              !.token = Len(attempts[p]) + 1]]

RetryRejected(w, p) ==
    /\ job[w] = Idle
    /\ state[p] \in {"FAILED", "REJECTED"}
    /\ Fits(amount[p])
    /\ Len(attempts[p]) < MaxAttempts
    /\ Claim(p, "RETRY")
    /\ job' = [job EXCEPT ![w] = [Idle EXCEPT !.pc = "execute", !.payment = p,
                                              !.token = Len(attempts[p]) + 1]]

\* retry_payment: only a FAILED payment, and its amount must fit again.
Retry(w, p) ==
    /\ job[w] = Idle
    /\ state[p] = "FAILED"
    /\ Fits(amount[p])
    /\ Len(attempts[p]) < MaxAttempts
    /\ Claim(p, "RETRY")
    /\ job' = [job EXCEPT ![w] = [Idle EXCEPT !.pc = "execute", !.payment = p,
                                              !.token = Len(attempts[p]) + 1]]

\* The nth attempt of a payment gets its result and the reference reported.
Complete(p, n, result, r) ==
    attempts' = [attempts EXCEPT ![p][n] =
                    [type |-> attempts[p][n].type, result |-> result, ref |-> r]]

\* The clock passes claim_expires_at.
LeaseExpires(p) ==
    /\ state[p] = "IN_PROGRESS"
    /\ ~lapsed[p]
    /\ lapsed' = [lapsed EXCEPT ![p] = TRUE]
    /\ UNCHANGED <<checkVars, state, amount, config, claim, ref, attempts,
                   settlement, active, orders, job>>

-----------------------------------------------------------------------------
(* Execution: revalidation, the provider call.                             *)

\* A worker has the result it will hand to _finish.
Answer(w, s, r) ==
    job' = [job EXCEPT ![w] = [@ EXCEPT !.pc = "finish", !.state = s, !.ref = r]]

\* The bound configuration is still eligible and its credential resolves.
Revalidate(w) ==
    /\ job[w].pc = "execute"
    /\ config[job[w].payment] \in active
    /\ job' = [job EXCEPT ![w] = [@ EXCEPT !.pc = "call"]]
    /\ UNCHANGED <<checkVars, paymentVars, active, orders>>

\* The configuration was disabled, or the credential does not resolve (which
\* may happen at any time): a definite failure without a call.
ExecutorUnavailable(w) ==
    /\ job[w].pc = "execute"
    /\ Answer(w, "FAILED", NoRef)
    /\ UNCHANGED <<checkVars, paymentVars, active, orders>>

\* ConektaPaymentExecutor._result on the status of an order.
ExecutionState(s) ==
    CASE s = "paid"     -> "SUCCEEDED"
      [] s = "declined" -> "REJECTED"
      [] s = "failed"   -> "FAILED"
      [] OTHER          -> "UNCERTAIN"

\* Mutant: a lost answer is taken for a failure.
ExecutionAnswersLostIsFailed(r, s) ==
    {<<"FAILED", NoRef>>}
    \cup IF s = "none" THEN {<<"REJECTED", NoRef>>} ELSE {<<ExecutionState(s), r>>}

\* What the adapter may report about an order of status s: an interrupted or
\* unintelligible answer tells nothing, HTTP 401/422 and 402 tell that there
\* is no order, and any other answer tells the order.
ExecutionAnswers(r, s) ==
    {<<"UNCERTAIN", NoRef>>}
    \cup IF s = "none" THEN {<<"FAILED", NoRef>>, <<"REJECTED", NoRef>>}
                       ELSE {<<ExecutionState(s), r>>}

\* create_order: every call makes a new order, the request carries no key.
CreateOrder(w) ==
    LET r == <<job[w].payment, job[w].token>> IN
    /\ job[w].pc = "call"
    /\ \E s \in OrderStatus : \E answer \in ExecutionAnswers(r, s) :
          /\ orders' = [orders EXCEPT ![r] = s]
          /\ Answer(w, answer[1], answer[2])
    /\ UNCHANGED <<checkVars, paymentVars, active>>

\* A provider that answers with an order it already has for this merchant.
ReuseOrder(w, r) ==
    /\ ProviderReusesOrders
    /\ job[w].pc = "call"
    /\ orders[r] # "none"
    /\ config[r[1]] = config[job[w].payment]
    /\ Answer(w, ExecutionState(orders[r]), r)
    /\ UNCHANGED <<checkVars, paymentVars, active, orders>>

\* The provider decides a pending order.
OrderResolves(r) ==
    /\ orders[r] = "pending"
    /\ \E s \in {"paid", "declined", "failed"} : orders' = [orders EXCEPT ![r] = s]
    /\ UNCHANGED <<checkVars, paymentVars, active, job>>

ToggleConfig(c) ==
    /\ active' = IF c \in active THEN active \ {c} ELSE active \cup {c}
    /\ UNCHANGED <<checkVars, paymentVars, orders, job>>

-----------------------------------------------------------------------------
(* Recovery.                                                               *)

\* Mutants: the expired attempt is not fenced; only uncertain payments are
\* recovered.
RecoverStaleWithoutFence(w, p) ==
    /\ job[w] = Idle
    /\ state[p] = "IN_PROGRESS"
    /\ lapsed[p]
    /\ Len(attempts[p]) < MaxAttempts
    /\ state' = [state EXCEPT ![p] = "UNCERTAIN"]
    /\ claim' = [claim EXCEPT ![p] = 0]
    /\ lapsed' = [lapsed EXCEPT ![p] = FALSE]
    /\ job' = [job EXCEPT ![w] = [Idle EXCEPT !.pc = "reclaim", !.payment = p,
                    !.token = Len(attempts[p]), !.type = "STALE_RECOVERY"]]
    /\ UNCHANGED <<checkVars, amount, config, ref, attempts, settlement, active, orders>>

RecoverStaleRefused(w, p) ==
    /\ state[p] = "UNCERTAIN"
    /\ RecoverStaleWithoutFence(w, p)

\* First transaction of recover_payment on a claim that has expired: the
\* attempt is fenced and the payment is uncertain.
RecoverStale(w, p) ==
    /\ job[w] = Idle
    /\ state[p] = "IN_PROGRESS"
    /\ lapsed[p]
    /\ Len(attempts[p]) < MaxAttempts
    /\ IF attempts[p][claim[p]].result = "IN_PROGRESS"
       THEN Complete(p, claim[p], "FENCED", NoRef)
       ELSE UNCHANGED attempts
    /\ state' = [state EXCEPT ![p] = "UNCERTAIN"]
    /\ claim' = [claim EXCEPT ![p] = 0]
    /\ lapsed' = [lapsed EXCEPT ![p] = FALSE]
    /\ job' = [job EXCEPT ![w] = [Idle EXCEPT !.pc = "reclaim", !.payment = p,
                    !.token = Len(attempts[p]), !.type = "STALE_RECOVERY"]]
    /\ UNCHANGED <<checkVars, amount, config, ref, settlement, active, orders>>

\* ... and on an uncertain payment: nothing is written.
RecoverUncertain(w, p) ==
    /\ job[w] = Idle
    /\ state[p] = "UNCERTAIN"
    /\ Len(attempts[p]) < MaxAttempts
    /\ job' = [job EXCEPT ![w] = [Idle EXCEPT !.pc = "reclaim", !.payment = p,
                    !.token = Len(attempts[p]), !.type = "RECOVER"]]
    /\ UNCHANGED <<checkVars, paymentVars, active, orders>>

\* The claim of a recovery works on the row loaded by the first transaction.
\* If an attempt was added since, the attempt sequence it inserts is a
\* duplicate and the transaction fails; otherwise the row is as it was.
ClaimRecover(w) ==
    LET p == job[w].payment IN
    /\ job[w].pc = "reclaim"
    /\ Len(attempts[p]) = job[w].token
    /\ Claim(p, job[w].type)
    /\ job' = [job EXCEPT ![w] = [@ EXCEPT !.pc = "query",
                                         !.token = Len(attempts[p]) + 1, !.ref = ref[p]]]

ClaimLost(w) ==
    /\ job[w].pc = "reclaim"
    /\ Len(attempts[job[w].payment]) # job[w].token
    /\ job' = [job EXCEPT ![w] = Idle]
    /\ UNCHANGED <<checkVars, paymentVars, active, orders>>

\* ConektaPaymentExecutor._recovery_result on the status of an order.
RecoveryState(s) ==
    CASE s = "paid"                  -> "SUCCEEDED"
      [] s \in {"declined", "failed"} -> "FAILED"
      [] OTHER                       -> "UNCERTAIN"

\* Without the executor or its credential, or after an unexpected exception,
\* the result carries no reference; a transport failure keeps the known one.
RecoveryAnswers(r) ==
    {<<"UNCERTAIN", NoRef>>, <<"UNCERTAIN", r>>}
    \cup IF r = NoRef THEN {} ELSE {<<RecoveryState(orders[r]), r>>}

QueryOrder(w) ==
    /\ job[w].pc = "query"
    /\ \E answer \in RecoveryAnswers(job[w].ref) : Answer(w, answer[1], answer[2])
    /\ UNCHANGED <<checkVars, paymentVars, active, orders>>

-----------------------------------------------------------------------------
(* _finish: the result becomes canonical, if the worker still owns it.     *)

Owns(w) ==
    LET p == job[w].payment IN
    /\ claim[p] = job[w].token
    /\ attempts[p][claim[p]].result = "IN_PROGRESS"

\* Mutant: references are not compared.
DuplicateNever(p, r) == FALSE

\* Another payment of the same configuration already carries the reference.
Duplicate(p, r) ==
    /\ r # NoRef
    /\ \E q \in Payments \ {p} : config[q] = config[p] /\ ref[q] = r

\* The columns every finish writes: state s, reference r on the payment and
\* the reported reference on the attempt.
Record(w, s, r) ==
    LET p == job[w].payment IN
    /\ state' = [state EXCEPT ![p] = s]
    /\ claim' = [claim EXCEPT ![p] = 0]
    /\ lapsed' = [lapsed EXCEPT ![p] = FALSE]
    /\ ref' = [ref EXCEPT ![p] = r]
    /\ Complete(p, job[w].token, s, job[w].ref)
    /\ job' = [job EXCEPT ![w] = Idle]
    /\ UNCHANGED <<liability, amount, config, active, orders>>

\* The result of a fenced attempt is dropped.
FinishDiscarded(w) ==
    /\ job[w].pc = "finish"
    /\ ~Owns(w)
    /\ job' = [job EXCEPT ![w] = Idle]
    /\ UNCHANGED <<checkVars, paymentVars, active, orders>>

FinishSucceeded(w) ==
    LET p == job[w].payment IN
    /\ job[w].pc = "finish"
    /\ Owns(w)
    /\ job[w].state = "SUCCEEDED"
    /\ ~Duplicate(p, job[w].ref)
    /\ ApplySuccess(p, amount[p], checkStatus)
    /\ Record(w, "SUCCEEDED", job[w].ref)

\* A success under a reference another payment has is only uncertain.
FinishConflict(w) ==
    /\ job[w].pc = "finish"
    /\ Owns(w)
    /\ job[w].state = "SUCCEEDED"
    /\ Duplicate(job[w].payment, job[w].ref)
    /\ Record(w, "UNCERTAIN", NoRef)
    /\ UNCHANGED <<checkStatus, settlement>>

FinishUnsuccessful(w) ==
    /\ job[w].pc = "finish"
    /\ Owns(w)
    /\ job[w].state # "SUCCEEDED"
    /\ ~Duplicate(job[w].payment, job[w].ref)
    /\ Record(w, job[w].state, job[w].ref)
    /\ UNCHANGED <<checkStatus, settlement>>

\* The transaction fails, on the unique index over the configuration and the
\* reference or because the success cannot be applied, and the claim stays as
\* it is until its lease expires.
FinishRolledBack(w) ==
    LET p == job[w].payment IN
    /\ job[w].pc = "finish"
    /\ Owns(w)
    /\ IF job[w].state = "SUCCEEDED"
       THEN ~Duplicate(p, job[w].ref) /\ ~Settleable(p, amount[p])
       ELSE Duplicate(p, job[w].ref)
    /\ job' = [job EXCEPT ![w] = Idle]
    /\ UNCHANGED <<checkVars, paymentVars, active, orders>>

\* The process dies, or the request is cancelled, between two transactions.
Crash(w) ==
    /\ job[w] # Idle
    /\ job' = [job EXCEPT ![w] = Idle]
    /\ UNCHANGED <<checkVars, paymentVars, active, orders>>

-----------------------------------------------------------------------------
Request(w) ==
    \E p \in Payments :
        \/ \E a \in 1 .. MaxLiability, c \in Configs : InitiateCard(w, p, a, c)
        \/ Retry(w, p)
        \/ RecoverStale(w, p)
        \/ RecoverUncertain(w, p)

Step(w) ==
    \/ ClaimExecute(w) \/ Revalidate(w) \/ ExecutorUnavailable(w) \/ CreateOrder(w)
    \/ \E r \in Refs : ReuseOrder(w, r)
    \/ ClaimRecover(w) \/ ClaimLost(w) \/ QueryOrder(w)
    \/ FinishDiscarded(w) \/ FinishSucceeded(w) \/ FinishConflict(w)
    \/ FinishUnsuccessful(w) \/ FinishRolledBack(w)

Next ==
    \/ \E l \in 0 .. MaxLiability : UpdateGratuity(l)
    \/ FreezeCheck \/ CancelCheck
    \/ \E p \in Payments, a \in 1 .. MaxLiability : InitiateCash(p, a)
    \/ \E w \in Workers : Request(w) \/ Step(w) \/ Crash(w)
    \/ \E p \in Payments : LeaseExpires(p)
    \/ \E r \in Refs : OrderResolves(r)
    \/ \E c \in Configs : ToggleConfig(c)

Spec == Init /\ [][Next]_vars

-----------------------------------------------------------------------------
(* Correctness.                                                            *)

\* Money settled and money that may still settle never exceed what the check
\* owes, whatever initiations, retries and recoveries race for the last unit.
ExposureWithinLiability == Confirmed + Reserved <= liability

\* A payment has exactly one settlement, of its own amount, if it SUCCEEDED,
\* and none otherwise: no retry, late answer or recovery settles it twice.
SettlementIffSucceeded ==
    \A p \in Payments :
        settlement[p] = IF state[p] = "SUCCEEDED" THEN amount[p] ELSE 0

\* The check is SETTLED by the payment that covers the liability: never with
\* money missing or still in flight, and never left open when it is covered.
SettledIffCovered ==
    /\ checkStatus = "SETTLED" => Confirmed = liability /\ Reserved = 0
    /\ Confirmed = liability /\ liability > 0 => checkStatus = "SETTLED"

\* The three together: what the check owes, what its payments hold and settled, and its
\* status agree, whatever the workers do.
MoneyAddsUp == ExposureWithinLiability /\ SettlementIffSucceeded /\ SettledIffCovered

\* A payment in progress has one attempt in progress, the last one, and its
\* claim is the payment's; a payment not in progress has none.
OwnedOnce(p) ==
    LET running == {n \in DOMAIN attempts[p] : attempts[p][n].result = "IN_PROGRESS"}
    IN  IF state[p] = "IN_PROGRESS"
        THEN running = {Len(attempts[p])} /\ claim[p] = Len(attempts[p])
        ELSE running = {} /\ claim[p] = 0

SingleOwner == \A p \in Payments : OwnedOnce(p)

\* The claims of service.py as a whole: every row and every worker is of its
\* type, and a payment in progress has exactly one attempt in progress, its
\* last, whose token is the claim; no other payment has any.
ClaimsAreSound == TypeOK /\ SingleOwner

\* Every settled card payment is backed by a paid order of the provider, and
\* no order backs two payments of one merchant configuration.
SettlementsBackedByDistinctOrders ==
    LET settledCards == {p \in Payments : state[p] = "SUCCEEDED" /\ config[p] # NoConfig}
    IN  /\ \A p \in settledCards : ref[p] # NoRef /\ orders[ref[p]] = "paid"
        /\ \A p, q \in settledCards :
              config[p] = config[q] /\ ref[p] = ref[q] => p = q

\* Whether an order of payment p took the money, or may still take it.
Chargeable(p) == \E n \in 1 .. MaxAttempts : orders[<<p, n>>] \in {"paid", "pending"}

Retried(p) == \E n \in DOMAIN attempts[p] : attempts[p][n].type = "RETRY"

\* A payment that was never retried is not given up (FAILED or REJECTED, its
\* exposure released) while the provider has charged it or still may: crashes
\* and lost answers leave it uncertain.
ChargeNotForgottenWithoutRetry ==
    \A p \in Payments :
        state[p] \in {"FAILED", "REJECTED"} /\ ~Retried(p) => ~Chargeable(p)

\* What has been recorded stays: an attempt row is never removed and no later worker, least
\* of all a fenced one, changes its result; SUCCEEDED and REJECTED are final, and so are the
\* amount and the reference of such a payment.
RecordKept(p) ==
    /\ \A n \in DOMAIN attempts[p] :
          /\ n \in DOMAIN attempts'[p]
          /\ attempts[p][n].result # "IN_PROGRESS" => attempts'[p][n] = attempts[p][n]
    /\ state[p] \in {"SUCCEEDED", "REJECTED"} =>
          state'[p] = state[p] /\ ref'[p] = ref[p] /\ amount'[p] = amount[p]

RecordsAreFinal == [][\A p \in Payments : RecordKept(p)]_vars

\* Payments implement the settlement ledger: see SettlementLedger.
Ledger == INSTANCE SettlementLedger
            WITH held <- Held, confirmed <- settlement, settled <- (checkStatus = "SETTLED")

LedgerSpec == Ledger!Spec

\* WS-24 section 23: "FAILED requires authoritative evidence that no financial
\* effect occurred or can occur."
FailedMeansNoCharge == \A p \in Payments : state[p] = "FAILED" => ~Chargeable(p)

-----------------------------------------------------------------------------
(* What makes the properties inductive.                                    *)

Owning == {"execute", "call", "query", "finish"}

\* A worker past its claim works on an attempt that exists; a recovery that
\* has not lost its race finds the payment as it left it.
JobConsistent(w) ==
    LET j == job[w] IN
    /\ j.pc # "idle" => j.payment \in Payments
    /\ j.pc \in Owning => j.token \in 1 .. Len(attempts[j.payment])
    /\ j.pc = "finish" => j.state \in ResultStates
    /\ j.pc = "reclaim" => /\ j.type # "NONE"
                           /\ j.token < MaxAttempts
                           /\ j.token <= Len(attempts[j.payment])
                           /\ j.token = Len(attempts[j.payment])
                                 => state[j.payment] = "UNCERTAIN"

\* No two workers work on the same attempt.
ExclusiveAttempts ==
    \A v, w \in Workers :
        /\ v # w
        /\ {job[v].pc, job[w].pc} \subseteq Owning
        /\ job[v].payment = job[w].payment
        => job[v].token # job[w].token

JobsConsistent == (\A w \in Workers : JobConsistent(w)) /\ ExclusiveAttempts

AttemptsBounded == \A p \in Payments : Len(attempts[p]) <= MaxAttempts

ClaimInv == TypeOK /\ JobsConsistent /\ AttemptsBounded /\ SingleOwner

\* A payment exists only on a check that was frozen for it.
RowsConsistent ==
    \A p \in Payments :
        IF state[p] = "NONE"
        THEN amount[p] = 0 /\ config[p] = NoConfig /\ ref[p] = NoRef /\ attempts[p] = <<>>
        ELSE amount[p] > 0 /\ checkStatus \in {"FROZEN", "SETTLED"}

MoneyInv ==
    /\ RowsConsistent
    /\ SettlementIffSucceeded
    /\ ExposureWithinLiability
    /\ SettledIffCovered

\* Orders come from calls, one per attempt, and a success a worker carries is
\* that of a paid order; the unique index on references.
OrdersConsistent ==
    /\ \A p \in Payments : \A n \in 1 .. MaxAttempts :
          n > Len(attempts[p]) => orders[<<p, n>>] = "none"
    /\ \A w \in Workers :
          /\ job[w].pc \in {"execute", "call"}
                => orders[<<job[w].payment, job[w].token>>] = "none"
          /\ job[w].pc = "finish" /\ job[w].state = "SUCCEEDED"
                => job[w].ref # NoRef /\ orders[job[w].ref] = "paid"
    /\ \A p, q \in Payments :
          config[p] = config[q] /\ ref[p] = ref[q] /\ ref[p] # NoRef => p = q

OrderInv == OrdersConsistent /\ SettlementsBackedByDistinctOrders

\* Worker w is about to call the provider for payment p, or has an answer for it.
Calling(w, p) == job[w].payment = p /\ job[w].pc \in {"execute", "call"}
Asking(w, p)  == job[w].payment = p /\ job[w].pc \in {"query", "finish"}

NoCaller(p) == \A w \in Workers : ~Calling(w, p)

\* What reference r tells of a payment that was never retried: the one call
\* that may have charged it is over, and if it made an order, r names it.
Traced(p, r) ==
    r # NoRef => /\ NoCaller(p)
                 /\ \A n \in 1 .. MaxAttempts : orders[<<p, n>>] # "none" => r = <<p, n>>

GivenUp(p) == NoCaller(p) /\ ~Chargeable(p)

\* Orders are made by executions and retries only, an execution is the first
\* attempt, and what is known of a payment that was never retried is so in
\* every place that knows it: its row and the workers that ask for it.
ChargeTold(p) ==
    /\ state[p] = "RESERVED" => attempts[p] = <<>> /\ ref[p] = NoRef
    /\ \A n \in DOMAIN attempts[p] :
          /\ attempts[p][n].type = "EXECUTE" => n = 1
          /\ orders[<<p, n>>] # "none" => attempts[p][n].type \in {"EXECUTE", "RETRY"}
    /\ \A w \in Workers : Calling(w, p) =>
          attempts[p][job[w].token].type \in {"EXECUTE", "RETRY"}
    /\ ~Retried(p) =>
          /\ Traced(p, ref[p])
          /\ state[p] \in {"FAILED", "REJECTED"} => GivenUp(p)
          /\ \A w \in Workers : Asking(w, p) =>
                /\ Traced(p, job[w].ref)
                /\ job[w].pc = "finish" /\ job[w].state \in {"FAILED", "REJECTED"} => GivenUp(p)

ChargeInv == \A p \in Payments : ChargeTold(p)

-----------------------------------------------------------------------------
(* Liveness.  Requests that started run on (or crash), time passes, and    *)
(* staff ask for the recovery of a stale payment, as the payment panel     *)
(* offers for every payment that is not terminal.                          *)

FairSpec ==
    /\ Spec
    /\ \A w \in Workers : WF_vars(Step(w))
    /\ \A p \in Payments : WF_vars(LeaseExpires(p))
    /\ \A p \in Payments : SF_vars(\E w \in Workers : RecoverStale(w, p))

\* A payment does not stay in progress for ever, whoever crashed: the worker
\* finishes it or a recovery takes it over (up to the bound on attempts).
ClaimIsReleased ==
    \A p \in Payments : state[p] = "IN_PROGRESS" ~>
        (state[p] # "IN_PROGRESS" \/ Len(attempts[p]) = MaxAttempts)
=============================================================================
