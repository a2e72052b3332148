---------------------------- MODULE OrderDispatch ----------------------------
(***************************************************************************)
(* What happens to one accepted restaurant order: who prepares it          *)
(* (preparation/service.py freezes an owner and routes the order) and how  *)
(* it reaches the point-of-sale system (pos_submissions/service.py).       *)
(* A submission is claimed, called and finished in separate transactions,  *)
(* as a payment is; unlike a payment, the row a submit request works on    *)
(* may have been read before the row lock was taken, because the session   *)
(* does not refresh rows it already holds.  Only the constraints of the    *)
(* tables stand between such a request and the rows.                       *)
(***************************************************************************)
EXTENDS Naturals, Sequences, FiniteSets

CONSTANTS
    Workers,           \* concurrent requests
    MaxAttempts,       \* bound on attempt_count
    StableReplay,      \* LocationPosConnection.stable_replay_supported
    RecoverySupported  \* recovery_supported, and the adapter is an OrderRecoveryPort

ASSUME DispatchAssumption ==
    /\ MaxAttempts \in Nat
    /\ StableReplay \in BOOLEAN
    /\ RecoverySupported \in BOOLEAN
    /\ StableReplay \/ RecoverySupported

VARIABLES
    accepted,    \* RestaurantOrder exists, with status ACCEPTED
    configured,  \* LocationPreparationConfiguration.preparation_owner
    connection,  \* the active LocationPosConnection and what it may print
    owner,       \* PreparationRouting.preparation_owner
    routing,     \* PreparationRouting.state, with the error codes the code tests
    works,       \* PreparationWork rows exist
    submission,  \* PosOrderSubmission.state
    claim,       \* claim_token: the sequence of the attempt owning it, 0 = NULL
    lapsed,      \* claim_expires_at has passed
    externalId,  \* PosOrderSubmission.external_order_id, 0 = NULL
    attempts,    \* PosOrderSubmissionAttempt rows, in sequence
    posOrders,   \* the orders the POS system has made for this order
    job          \* what each worker is doing

routingVars == <<accepted, configured, connection, owner, routing, works>>
rowVars     == <<submission, claim, lapsed, externalId, attempts>>
vars == <<accepted, configured, connection, owner, routing, works,
          submission, claim, lapsed, externalId, attempts, posOrders, job>>

-----------------------------------------------------------------------------
Owners        == {"PLATFORM", "EXTERNAL_POS"}
Settled       == {"ROUTED", "EXTERNAL_POS_OWNED"}
ResultStates  == {"SUCCEEDED", "RETRYABLE_FAILURE", "REJECTED", "UNCERTAIN",
                  "ACTION_REQUIRED"}
Submissions   == {"NONE", "IN_PROGRESS"} \cup ResultStates
RoutingStates == {"NONE", "PENDING", "UNRESOLVED", "LEGACY", "ACTION_REQUIRED"} \cup Settled

AttemptRow == [type   : {"CREATE", "RETRY", "RECOVER", "STALE_RECOVERY"},
               result : {"IN_PROGRESS"} \cup ResultStates]

\* An order at the POS: the attempt that made it, and whether the connection
\* was declared to print for the kitchen when the attempt was claimed.
PosOrder == [id : 1 .. MaxAttempts, prints : BOOLEAN]

\* The row as a submit request has read it.
View == [state : Submissions, claim : 0 .. MaxAttempts, count : 0 .. MaxAttempts]

Job == [pc    : {"idle", "submit", "call", "finish"},
        view  : View,
        token : 0 .. MaxAttempts,
        prints : BOOLEAN,
        state : {"NONE"} \cup ResultStates,
        id    : 0 .. MaxAttempts]

NoView == [state |-> "NONE", claim |-> 0, count |-> 0]
Idle   == [pc |-> "idle", view |-> NoView, token |-> 0, prints |-> FALSE,
           state |-> "NONE", id |-> 0]

TypeOK ==
    /\ accepted \in BOOLEAN
    /\ configured \in Owners \cup {"NONE"}
    /\ connection \in {"NONE", "SILENT", "PRINTING"}
    /\ owner \in Owners \cup {"NONE"}
    /\ routing \in RoutingStates
    /\ works \in BOOLEAN
    /\ submission \in Submissions
    /\ claim \in 0 .. MaxAttempts
    /\ lapsed \in BOOLEAN
    /\ externalId \in 0 .. MaxAttempts
    /\ attempts \in Seq(AttemptRow)
    /\ posOrders \in SUBSET PosOrder
    /\ job \in [Workers -> Job]

\* The order is a draft, or was accepted before acceptance froze an owner.
Init ==
    /\ accepted \in BOOLEAN
    /\ configured \in Owners \cup {"NONE"}
    /\ connection \in {"NONE", "SILENT", "PRINTING"}
    /\ owner = "NONE"
    /\ routing = "NONE"
    /\ works = FALSE
    /\ submission = "NONE"
    /\ claim = 0
    /\ lapsed = FALSE
    /\ externalId = 0
    /\ attempts = <<>>
    /\ posOrders = {}
    /\ job = [w \in Workers |-> Idle]

-----------------------------------------------------------------------------
(* Configuration.                                                          *)

ProvisionConfiguration(o) ==
    /\ configured # o
    /\ configured' = o
    /\ UNCHANGED <<accepted, connection, owner, routing, works, rowVars, posOrders, job>>

PutPosPreparationBehavior(c) ==
    /\ connection # "NONE"
    /\ connection # c
    /\ connection' = c
    /\ UNCHANGED <<accepted, configured, owner, routing, works, rowVars, posOrders, job>>

\* The connection is activated or deactivated (no code of this service).
SwitchConnection ==
    /\ connection' = IF connection = "NONE" THEN "PRINTING" ELSE "NONE"
    /\ UNCHANGED <<accepted, configured, owner, routing, works, rowVars, posOrders, job>>

-----------------------------------------------------------------------------
(* Ownership and routing.                                                  *)

\* Mutant: the owner follows the configuration.
FreezeFollowsConfiguration(rejectLegacy) ==
    IF configured = "NONE"
    THEN [owner |-> "NONE", routing |-> "UNRESOLVED"]
    ELSE [owner |-> configured, routing |-> IF routing = "NONE" THEN "PENDING" ELSE routing]

\* freeze_ownership: the routing row as it leaves it.
FreezeOwnership(rejectLegacy) ==
    LET fresh == IF configured = "NONE"
                 THEN [owner |-> "NONE", routing |-> "UNRESOLVED"]
                 ELSE [owner |-> configured, routing |-> "PENDING"]
    IN  CASE routing = "UNRESOLVED" /\ configured # "NONE" -> fresh
          [] routing # "NONE" -> [owner |-> owner, routing |-> routing]
          [] routing = "NONE" /\ rejectLegacy /\ submission # "NONE" ->
                [owner |-> "NONE", routing |-> "LEGACY"]
          [] OTHER -> fresh

\* confirm_current_order: the order and its owner, in one transaction.
Accept ==
    /\ ~accepted
    /\ accepted' = TRUE
    /\ owner' = FreezeOwnership(TRUE).owner
    /\ routing' = FreezeOwnership(TRUE).routing
    /\ UNCHANGED <<configured, connection, works, rowVars, posOrders, job>>

\* What the routes of the order's items and components come to: one of them
\* is missing, inactive or invalid; none needs preparation; or some do.
Plans == {"UNRESOLVED", "NO_PREPARATION", "AREAS"}

\* Where an order of owner o goes.
Destination(o, plan) ==
    CASE o = "EXTERNAL_POS" /\ connection # "NONE"                          -> "EXTERNAL_POS_OWNED"
      [] o = "PLATFORM" /\ connection # "PRINTING" /\ plan # "UNRESOLVED"   -> "ROUTED"
      [] OTHER                                                              -> "ACTION_REQUIRED"

\* route_order, after an acceptance, its replay, or by staff.
RouteOrder(plan) ==
    LET frozen == FreezeOwnership(TRUE)
        final  == frozen.routing \in Settled \cup {"LEGACY", "UNRESOLVED"}
        to     == IF final THEN frozen.routing ELSE Destination(frozen.owner, plan)
    IN  /\ accepted
        /\ owner' = frozen.owner
        /\ routing' = to
        /\ works' = (works \/ (~final /\ to = "ROUTED" /\ plan = "AREAS"))
        /\ UNCHANGED <<accepted, configured, connection, rowVars, posOrders, job>>

-----------------------------------------------------------------------------
(* Claims of the submission.                                               *)

\* A request reads the submission and only later locks it.
SubmitRead(w) ==
    /\ job[w] = Idle
    /\ accepted
    /\ job' = [job EXCEPT ![w] = [Idle EXCEPT !.pc = "submit",
                    !.view = [state |-> submission, claim |-> claim, count |-> Len(attempts)]]]
    /\ UNCHANGED <<routingVars, rowVars, posOrders>>

\* What _initialize decides before it looks at the submission.
Compatible(frozen) ==
    /\ frozen.owner # "NONE"
    /\ connection # "NONE"
    /\ ~(frozen.owner = "PLATFORM" /\ connection = "PRINTING")

\* The request ends without a claim; its transaction left the routing as given.
SubmitEnds(w, o, r) ==
    /\ owner' = o
    /\ routing' = r
    /\ job' = [job EXCEPT ![w] = Idle]
    /\ UNCHANGED <<accepted, configured, connection, works, rowVars, posOrders>>

\* Without an owner the routing row is kept; without a connection the
\* transaction is rolled back; a printing connection for a platform order is
\* recorded, unless the row has been routed: then its constraint fails.
SubmitIncompatible(w) ==
    LET frozen == FreezeOwnership(FALSE) IN
    /\ job[w].pc = "submit"
    /\ ~Compatible(frozen)
    /\ CASE frozen.owner = "NONE" -> SubmitEnds(w, frozen.owner, frozen.routing)
         [] frozen.owner # "NONE" /\ connection = "PRINTING" /\ frozen.routing \notin Settled ->
               SubmitEnds(w, frozen.owner, "ACTION_REQUIRED")
         [] OTHER -> SubmitEnds(w, owner, routing)

\* The attempt that opens: _new_attempt, with the claim it carries.
Open(w, type, rows) ==
    /\ submission' = "IN_PROGRESS"
    /\ claim' = Len(rows) + 1
    /\ lapsed' = FALSE
    /\ attempts' = Append(rows, [type |-> type, result |-> "IN_PROGRESS"])
    /\ job' = [job EXCEPT ![w] = [Idle EXCEPT !.pc = "call", !.token = Len(rows) + 1,
                                              !.prints = connection = "PRINTING"]]
    /\ UNCHANGED <<externalId, posOrders>>

KeepFrozen(frozen) ==
    /\ owner' = frozen.owner
    /\ routing' = frozen.routing
    /\ UNCHANGED <<accepted, configured, connection, works>>

\* The first submission; two requests that both saw none are told apart by
\* the unique index on order and connector.
SubmitCreate(w) ==
    LET frozen == FreezeOwnership(FALSE) IN
    /\ job[w].pc = "submit"
    /\ Compatible(frozen)
    /\ job[w].view.state = "NONE"
    /\ submission = "NONE"
    /\ 0 < MaxAttempts
    /\ KeepFrozen(frozen)
    /\ \/ Open(w, "CREATE", <<>>)
       \/ /\ submission' = "ACTION_REQUIRED"    \* a product has no single mapping
          /\ attempts' = <<[type |-> "CREATE", result |-> "ACTION_REQUIRED"]>>
          /\ job' = [job EXCEPT ![w] = Idle]
          /\ UNCHANGED <<claim, lapsed, externalId, posOrders>>

\* The expired attempt is fenced and the claim passes on.
Fenced == [attempts EXCEPT ![claim].result = "UNCERTAIN"]

\* A submission seen in progress with an expired claim is taken over.  The
\* state column is not written, since the request believes it unchanged: if
\* the row was finished meanwhile, the constraint between state and claim
\* fails, and if it was claimed again, the attempt sequence is a duplicate.
SubmitReclaim(w) ==
    LET v == job[w].view IN
    /\ job[w].pc = "submit"
    /\ Compatible(FreezeOwnership(FALSE))
    /\ v.state = "IN_PROGRESS"
    /\ submission = "IN_PROGRESS"
    /\ Len(attempts) = v.count
    /\ lapsed
    /\ Len(attempts) < MaxAttempts
    /\ KeepFrozen(FreezeOwnership(FALSE))
    /\ Open(w, "STALE_RECOVERY", Fenced)

\* Nothing to claim: the request answers with the row it has (the routing is
\* kept), or fails on the row's state or on a constraint (it is not).
SubmitUnclaimed(w) ==
    LET v      == job[w].view
        frozen == FreezeOwnership(FALSE)
        active == v.state = "IN_PROGRESS" /\ ~(v.claim = claim /\ lapsed)
    IN  /\ job[w].pc = "submit"
        /\ Compatible(frozen)
        /\ \/ /\ v.state \in {"SUCCEEDED", "ACTION_REQUIRED"} \/ active
              /\ SubmitEnds(w, frozen.owner, frozen.routing)
           \/ /\ \/ v.state \in {"RETRYABLE_FAILURE", "REJECTED", "UNCERTAIN"}
                 \/ v.state = "NONE" /\ submission # "NONE"
                 \/ v.state = "IN_PROGRESS" /\ (submission # "IN_PROGRESS" \/ Len(attempts) # v.count)
              /\ SubmitEnds(w, owner, routing)

\* retry: the row is locked and read at once.
Retry(w) ==
    /\ job[w] = Idle
    /\ submission = "RETRYABLE_FAILURE"
    /\ Len(attempts) < MaxAttempts
    /\ Open(w, "RETRY", attempts)
    /\ UNCHANGED routingVars

\* Mutant: an expired claim cannot be recovered.
RecoverUncertainOnly(w) ==
    /\ job[w] = Idle
    /\ Len(attempts) < MaxAttempts
    /\ submission = "UNCERTAIN" /\ Open(w, "RECOVER", attempts)
    /\ UNCHANGED routingVars

\* recover: an uncertain submission, or one whose claim has expired.
Recover(w) ==
    /\ job[w] = Idle
    /\ Len(attempts) < MaxAttempts
    /\ \/ submission = "UNCERTAIN" /\ Open(w, "RECOVER", attempts)
       \/ submission = "IN_PROGRESS" /\ lapsed /\ Open(w, "STALE_RECOVERY", Fenced)
    /\ UNCHANGED routingVars

LeaseExpires ==
    /\ submission = "IN_PROGRESS"
    /\ ~lapsed
    /\ lapsed' = TRUE
    /\ UNCHANGED <<routingVars, submission, claim, externalId, attempts, posOrders, job>>

-----------------------------------------------------------------------------
(* The POS adapter.                                                        *)

Answer(w, s, id) ==
    job' = [job EXCEPT ![w] = [@ EXCEPT !.pc = "finish", !.state = s, !.id = id]]

Recovering(w) == attempts[job[w].token].type \in {"RECOVER", "STALE_RECOVERY"}

\* _error_state: what an adapter may raise, whatever the POS has.
ErrorStates == {"RETRYABLE_FAILURE", "REJECTED", "UNCERTAIN", "ACTION_REQUIRED"}

\* The adapter is not configured, or cannot recover safely.
AdapterUnavailable(w) ==
    /\ job[w].pc = "call"
    /\ Answer(w, "ACTION_REQUIRED", 0)
    /\ UNCHANGED <<routingVars, rowVars, posOrders>>

\* Mutant: every attempt creates.
CreatesAlways(w) == TRUE

\* Which attempts call create_order: first ones, retries, and recoveries
\* that have nothing but a stable replay.
Creates(w) == ~Recovering(w) \/ (~RecoverySupported /\ StableReplay)

\* A connector with stable replay answers a repeated key with the first order.
CreateOrder(w) ==
    LET order == [id |-> job[w].token, prints |-> job[w].prints] IN
    /\ job[w].pc = "call"
    /\ Creates(w)
    /\ \E now \in {posOrders} \cup
                  {IF StableReplay /\ posOrders # {} THEN posOrders ELSE posOrders \cup {order}} :
          /\ posOrders' = now
          /\ \/ \E s \in IF now = posOrders THEN ErrorStates ELSE {"UNCERTAIN"} : Answer(w, s, 0)
             \/ \E o \in now :
                   /\ now = posOrders => StableReplay
                   /\ now # posOrders => o = order
                   /\ Answer(w, "SUCCEEDED", o.id)
    /\ UNCHANGED <<routingVars, rowVars>>

\* recover_create_order, for connectors that support it.
QueryOrder(w) ==
    /\ job[w].pc = "call"
    /\ Recovering(w)
    /\ RecoverySupported
    /\ \/ \E s \in ErrorStates : Answer(w, s, 0)
       \/ \E o \in posOrders : Answer(w, "SUCCEEDED", o.id)
    /\ UNCHANGED <<routingVars, rowVars, posOrders>>

-----------------------------------------------------------------------------
(* _finish.  The row lock does not refresh the claim the request compares, *)
(* so what fences a late worker is the result of its attempt.              *)

\* Mutant: the attempt is not checked.
OwnsAlways(w) == TRUE

Owns(w) == attempts[job[w].token].result = "IN_PROGRESS"

Finish(w) ==
    /\ job[w].pc = "finish"
    /\ Owns(w)
    /\ submission' = job[w].state
    /\ claim' = 0
    /\ lapsed' = FALSE
    /\ externalId' = IF job[w].state = "SUCCEEDED" THEN job[w].id ELSE externalId
    /\ attempts' = [attempts EXCEPT ![job[w].token].result = job[w].state]
    /\ job' = [job EXCEPT ![w] = Idle]
    /\ UNCHANGED <<routingVars, posOrders>>

FinishStale(w) ==
    /\ job[w].pc = "finish"
    /\ ~Owns(w)
    /\ job' = [job EXCEPT ![w] = Idle]
    /\ UNCHANGED <<routingVars, rowVars, posOrders>>

Crash(w) ==
    /\ job[w] # Idle
    /\ job' = [job EXCEPT ![w] = Idle]
    /\ UNCHANGED <<routingVars, rowVars, posOrders>>

-----------------------------------------------------------------------------
Step(w) ==
    \/ SubmitIncompatible(w) \/ SubmitCreate(w) \/ SubmitReclaim(w) \/ SubmitUnclaimed(w)
    \/ AdapterUnavailable(w) \/ CreateOrder(w) \/ QueryOrder(w)
    \/ Finish(w) \/ FinishStale(w)

Next ==
    \/ \E o \in Owners : ProvisionConfiguration(o)
    \/ \E c \in {"SILENT", "PRINTING"} : PutPosPreparationBehavior(c)
    \/ SwitchConnection
    \/ Accept
    \/ \E plan \in Plans : RouteOrder(plan)
    \/ \E w \in Workers : SubmitRead(w) \/ Retry(w) \/ Recover(w) \/ Step(w) \/ Crash(w)
    \/ LeaseExpires

Spec == Init /\ [][Next]_vars

-----------------------------------------------------------------------------
(* Correctness.                                                            *)

\* A submission in progress has one attempt in progress, the last, and its
\* claim; any other has none.  Neither requests that overlap nor rows read too
\* early break it, as long as the tables' constraints hold.
SingleOwner ==
    LET running == {n \in DOMAIN attempts : attempts[n].result = "IN_PROGRESS"}
    IN  IF submission = "IN_PROGRESS"
        THEN running = {Len(attempts)} /\ claim = Len(attempts)
        ELSE running = {} /\ claim = 0

\* A submission that succeeded names an order the POS has.
SucceededHasOrder ==
    submission = "SUCCEEDED" => \E o \in posOrders : o.id = externalId

\* Recoveries and take-overs never make an order of their own at a connector
\* that cannot recognise a repeated key: a second order needs a retry.
DuplicatesNeedRetry ==
    LET retries == {n \in DOMAIN attempts : attempts[n].type = "RETRY"}
    IN  Cardinality(posOrders) <= 1 + Cardinality(retries)

\* Kitchen work exists only for orders routed to the platform: whatever fails
\* or conflicts later, no work is left behind that nobody may execute.
WorksOnlyIfRouted == works => routing = "ROUTED" /\ owner = "PLATFORM"

\* What a submission and its routing say is true of the POS and the kitchen, whatever rows
\* a request had read too early.
SubmissionIsTrue == TypeOK /\ SucceededHasOrder /\ DuplicatesNeedRetry /\ WorksOnlyIfRouted

\* What is decided stays decided: a success or a rejection, whoever answers, reclaims or
\* recovers later; the result of an attempt; the preparation owner, whatever the location's
\* configuration becomes; and a routed order with its kitchen work, which
\* transition_work_item refuses in any other state.
DecisionsKept ==
    /\ submission \in {"SUCCEEDED", "REJECTED"} => submission' = submission /\ externalId' = externalId
    /\ \A n \in DOMAIN attempts :
          /\ n \in DOMAIN attempts'
          /\ attempts[n].result # "IN_PROGRESS" => attempts'[n] = attempts[n]
    /\ owner # "NONE" => owner' = owner
    /\ routing \in Settled => routing' = routing /\ works' = works

DecisionsAreFinal == [][DecisionsKept]_vars

-----------------------------------------------------------------------------
(* What makes the properties inductive.                                    *)

\* An order nobody owns is one whose routing has not been decided.
RoutingConsistent ==
    /\ owner = "NONE" <=> routing \in {"NONE", "UNRESOLVED", "LEGACY"}
    /\ routing = "ROUTED" => owner = "PLATFORM"
    /\ WorksOnlyIfRouted

\* The first attempt, and only that, creates.
RowsConsistent ==
    /\ Len(attempts) <= MaxAttempts
    /\ submission = "NONE" => attempts = <<>>
    /\ \A n \in DOMAIN attempts : attempts[n].type = "CREATE" => n = 1

\* A worker past its claim works on an attempt that exists and is its own.
JobsConsistent ==
    /\ \A w \in Workers : job[w].pc \in {"call", "finish"} => job[w].token \in DOMAIN attempts
    /\ \A w \in Workers : job[w].pc = "finish" => job[w].state \in ResultStates
    /\ \A v, w \in Workers :
          v # w /\ {job[v].pc, job[w].pc} \subseteq {"call", "finish"} => job[v].token # job[w].token

ClaimInv == TypeOK /\ RowsConsistent /\ JobsConsistent /\ SingleOwner

\* Each order at the POS comes from one attempt: at a connector without
\* stable replay from one that creates, at any other there is but one.
OrdersConsistent ==
    /\ \A o \in posOrders :
          /\ o.id \in DOMAIN attempts
          /\ ~StableReplay => attempts[o.id].type \in {"CREATE", "RETRY"}
          /\ \A w \in Workers : job[w].pc = "call" => job[w].token # o.id
    /\ \A o, q \in posOrders : StableReplay \/ o.id = q.id => o = q
    /\ \A w \in Workers : job[w].pc = "finish" /\ job[w].state = "SUCCEEDED" =>
          \E o \in posOrders : o.id = job[w].id
    /\ SucceededHasOrder

DispatchInv == ClaimInv /\ RoutingConsistent /\ OrdersConsistent

-----------------------------------------------------------------------------
(* Liveness: requests run on, time passes, and staff ask for the recovery  *)
(* of a submission that hangs.                                             *)

FairSpec ==
    /\ Spec
    /\ \A w \in Workers : WF_vars(Step(w))
    /\ WF_vars(LeaseExpires)
    /\ SF_vars(\E w \in Workers : Recover(w))

\* A submission does not stay in progress for ever, whoever crashed (up to
\* the bound on attempts).
ClaimIsReleased ==
    submission = "IN_PROGRESS" ~> (submission # "IN_PROGRESS" \/ Len(attempts) = MaxAttempts)
=============================================================================
