------------------------- MODULE OrderDispatchProofs -------------------------
(***************************************************************************)
(* OrderDispatch for any number of concurrent requests and attempts, and   *)
(* for every connector the repository accepts.                             *)
(***************************************************************************)
EXTENDS OrderDispatch, FiniteSetTheorems, TLAPS

\* Every step of the system is one of these.
LEMMA NextCases ==
    ASSUME [Next]_vars
    PROVE  \/ UNCHANGED vars
           \/ \E o \in Owners : ProvisionConfiguration(o)
           \/ \E c \in {"SILENT", "PRINTING"} : PutPosPreparationBehavior(c)
           \/ SwitchConnection \/ Accept \/ LeaseExpires
           \/ \E plan \in Plans : RouteOrder(plan)
           \/ \E w \in Workers :
                 \/ SubmitRead(w) \/ Retry(w) \/ Recover(w) \/ Crash(w)
                 \/ SubmitIncompatible(w) \/ SubmitCreate(w) \/ SubmitReclaim(w)
                 \/ SubmitUnclaimed(w) \/ AdapterUnavailable(w) \/ CreateOrder(w)
                 \/ QueryOrder(w) \/ Finish(w) \/ FinishStale(w)
  BY DEF Next, Step

-----------------------------------------------------------------------------
(* Ownership and routing.                                                  *)

RoutingTyped ==
    /\ accepted \in BOOLEAN
    /\ configured \in Owners \cup {"NONE"}
    /\ connection \in {"NONE", "SILENT", "PRINTING"}
    /\ owner \in Owners \cup {"NONE"}
    /\ routing \in RoutingStates
    /\ works \in BOOLEAN

\* freeze_ownership keeps what was decided, and decides only what was open.
LEMMA FreezeFacts ==
    ASSUME RoutingTyped, RoutingConsistent, NEW b \in BOOLEAN
    PROVE  LET f == FreezeOwnership(b) IN
           /\ f.owner \in Owners \cup {"NONE"} /\ f.routing \in RoutingStates
           /\ f.owner = "NONE" <=> f.routing \in {"NONE", "UNRESOLVED", "LEGACY"}
           /\ owner # "NONE" => f.owner = owner /\ f.routing = routing
           /\ owner = "NONE" => f.routing \in {"PENDING", "UNRESOLVED", "LEGACY"}
           /\ f.routing = "ROUTED" => routing = "ROUTED" /\ f.owner = "PLATFORM"
           /\ f.routing \in Settled => routing = f.routing
  BY DEF RoutingTyped, RoutingConsistent, FreezeOwnership, RoutingStates, Settled, Owners

\* What a transaction that leaves owner o and routing r, and adds no work,
\* keeps of the decisions and of their consistency.
LEMMA RoutingLeft ==
    ASSUME RoutingTyped, RoutingConsistent,
           UNCHANGED <<accepted, configured, connection, works>>,
           owner' \in Owners \cup {"NONE"}, routing' \in RoutingStates,
           owner' = "NONE" <=> routing' \in {"NONE", "UNRESOLVED", "LEGACY"},
           owner # "NONE" => owner' = owner,
           routing \in Settled => routing' = routing,
           routing' = "ROUTED" => routing = "ROUTED"
    PROVE  /\ RoutingTyped' /\ RoutingConsistent'
           /\ owner # "NONE" => owner' = owner
           /\ routing \in Settled => routing' = routing /\ works' = works
  BY DEF RoutingTyped, RoutingConsistent, WorksOnlyIfRouted, Settled

\* One step of the system, as far as ownership and routing go.
LEMMA RoutingNext ==
    ASSUME RoutingTyped, RoutingConsistent, [Next]_vars
    PROVE  /\ RoutingTyped' /\ RoutingConsistent'
           /\ owner # "NONE" => owner' = owner
           /\ routing \in Settled => routing' = routing /\ works' = works
<1> DEFINE Goal == /\ RoutingTyped' /\ RoutingConsistent'
                   /\ owner # "NONE" => owner' = owner
                   /\ routing \in Settled => routing' = routing /\ works' = works
<1>1. CASE UNCHANGED <<accepted, owner, routing, works>>
           /\ configured' \in Owners \cup {"NONE"}
           /\ connection' \in {"NONE", "SILENT", "PRINTING"}
  BY <1>1 DEF RoutingTyped, RoutingConsistent, WorksOnlyIfRouted, Settled
<1>2. CASE \/ UNCHANGED vars \/ SwitchConnection \/ LeaseExpires
           \/ \E o \in Owners : ProvisionConfiguration(o)
           \/ \E c \in {"SILENT", "PRINTING"} : PutPosPreparationBehavior(c)
  BY <1>1, <1>2 DEF vars, SwitchConnection, LeaseExpires, ProvisionConfiguration,
                    PutPosPreparationBehavior, RoutingTyped, routingVars
<1>3. ASSUME NEW w \in Workers,
             \/ SubmitRead(w) \/ Retry(w) \/ Recover(w) \/ Crash(w) \/ AdapterUnavailable(w)
             \/ CreateOrder(w) \/ QueryOrder(w) \/ Finish(w) \/ FinishStale(w)
      PROVE  Goal
  <2>1. UNCHANGED routingVars
    BY <1>3, Zenon DEF SubmitRead, Retry, Recover, Crash, AdapterUnavailable, CreateOrder,
                       QueryOrder, Finish, FinishStale
  <2>2. QED
    BY <1>1, <2>1 DEF routingVars, RoutingTyped
<1>4. ASSUME Accept PROVE Goal
  <2> DEFINE f == FreezeOwnership(TRUE)
  <2>1. /\ owner' = f.owner /\ routing' = f.routing /\ accepted' = TRUE
        /\ UNCHANGED <<configured, connection, works>>
    BY <1>4 DEF Accept
  <2>2. /\ f.owner \in Owners \cup {"NONE"} /\ f.routing \in RoutingStates
        /\ f.owner = "NONE" <=> f.routing \in {"NONE", "UNRESOLVED", "LEGACY"}
        /\ owner # "NONE" => f.owner = owner /\ f.routing = routing
        /\ owner = "NONE" => f.routing \in {"PENDING", "UNRESOLVED", "LEGACY"}
    BY FreezeFacts
  <2> HIDE DEF f
  <2>3. QED
    BY <2>1, <2>2 DEF RoutingTyped, RoutingConsistent, WorksOnlyIfRouted, Settled
<1>5. ASSUME NEW plan \in Plans, RouteOrder(plan) PROVE Goal
  <2> DEFINE f     == FreezeOwnership(TRUE)
             final == f.routing \in Settled \cup {"LEGACY", "UNRESOLVED"}
             to    == IF final THEN f.routing ELSE Destination(f.owner, plan)
  <2>1. /\ owner' = f.owner /\ routing' = to
        /\ works' = (works \/ (~final /\ to = "ROUTED" /\ plan = "AREAS"))
        /\ UNCHANGED <<accepted, configured, connection>>
    BY <1>5 DEF RouteOrder
  <2>2. /\ f.owner \in Owners \cup {"NONE"} /\ f.routing \in RoutingStates
        /\ f.owner = "NONE" <=> f.routing \in {"NONE", "UNRESOLVED", "LEGACY"}
        /\ owner # "NONE" => f.owner = owner /\ f.routing = routing
        /\ owner = "NONE" => f.routing \in {"PENDING", "UNRESOLVED", "LEGACY"}
        /\ f.routing = "ROUTED" => routing = "ROUTED" /\ f.owner = "PLATFORM"
    BY FreezeFacts
  <2>3. /\ Destination(f.owner, plan) \in {"EXTERNAL_POS_OWNED", "ROUTED", "ACTION_REQUIRED"}
        /\ Destination(f.owner, plan) = "ROUTED" => f.owner = "PLATFORM"
    BY DEF Destination
  <2> HIDE DEF f
  <2>4. CASE final
    BY <2>1, <2>2, <2>4 DEF RoutingTyped, RoutingConsistent, WorksOnlyIfRouted, Settled
  <2>5. CASE ~final
    <3>1. to = Destination(f.owner, plan) /\ f.owner # "NONE" /\ routing \notin Settled
      BY <2>2, <2>5 DEF Settled, RoutingConsistent, RoutingStates
    <3>2. works = FALSE
      BY <3>1 DEF RoutingConsistent, WorksOnlyIfRouted, RoutingTyped, Settled
    <3>3. QED
      BY <2>1, <2>2, <2>3, <3>1, <3>2
      DEF RoutingTyped, RoutingConsistent, WorksOnlyIfRouted, Settled, RoutingStates
  <2>6. QED
    BY <2>4, <2>5
<1>6. ASSUME NEW w \in Workers, SubmitIncompatible(w) PROVE Goal
  <2> DEFINE f == FreezeOwnership(FALSE)
  <2>1. /\ UNCHANGED <<accepted, configured, connection, works>>
        /\ \/ f.owner = "NONE" /\ owner' = f.owner /\ routing' = f.routing
           \/ /\ f.owner # "NONE" /\ f.routing \notin Settled
              /\ owner' = f.owner /\ routing' = "ACTION_REQUIRED"
           \/ owner' = owner /\ routing' = routing
    BY <1>6 DEF SubmitIncompatible, SubmitEnds
  <2>2. /\ f.owner \in Owners \cup {"NONE"} /\ f.routing \in RoutingStates
        /\ f.owner = "NONE" <=> f.routing \in {"NONE", "UNRESOLVED", "LEGACY"}
        /\ owner # "NONE" => f.owner = owner /\ f.routing = routing
        /\ owner = "NONE" => f.routing \in {"PENDING", "UNRESOLVED", "LEGACY"}
    BY FreezeFacts
  <2> HIDE DEF f
  <2>3. routing \in Settled => owner # "NONE"
    BY DEF RoutingConsistent, Settled
  <2>4. QED
    BY <2>1, <2>2, <2>3, RoutingLeft DEF RoutingTyped, RoutingConsistent, RoutingStates, Settled
<1>7. ASSUME UNCHANGED <<accepted, configured, connection, works>>,
             \/ owner' = owner /\ routing' = routing
             \/ /\ owner' = FreezeOwnership(FALSE).owner
                /\ routing' = FreezeOwnership(FALSE).routing
      PROVE  Goal
  <2> DEFINE f == FreezeOwnership(FALSE)
  <2>1. /\ f.owner \in Owners \cup {"NONE"} /\ f.routing \in RoutingStates
        /\ f.owner = "NONE" <=> f.routing \in {"NONE", "UNRESOLVED", "LEGACY"}
        /\ owner # "NONE" => f.owner = owner /\ f.routing = routing
        /\ owner = "NONE" => f.routing \in {"PENDING", "UNRESOLVED", "LEGACY"}
    BY FreezeFacts
  <2>2. (owner' = owner /\ routing' = routing) \/ (owner' = f.owner /\ routing' = f.routing)
    BY <1>7
  <2> HIDE DEF f
  <2>3. QED
    BY <1>7, <2>1, <2>2, RoutingLeft DEF RoutingTyped, RoutingConsistent, Settled
<1>8. ASSUME NEW w \in Workers, SubmitCreate(w) \/ SubmitReclaim(w) \/ SubmitUnclaimed(w)
      PROVE  Goal
  <2>1. CASE SubmitCreate(w)
    BY <1>7, <2>1 DEF SubmitCreate, KeepFrozen
  <2>2. CASE SubmitReclaim(w)
    BY <1>7, <2>2 DEF SubmitReclaim, KeepFrozen
  <2>3. CASE SubmitUnclaimed(w)
    BY <1>7, <2>3 DEF SubmitUnclaimed, SubmitEnds
  <2>4. QED
    BY <1>8, <2>1, <2>2, <2>3
<1>9. QED
  BY <1>2, <1>3, <1>4, <1>5, <1>6, <1>8, NextCases

-----------------------------------------------------------------------------
(* The submission, its attempts and the workers.                           *)

RowsTyped ==
    /\ submission \in Submissions
    /\ claim \in 0 .. MaxAttempts
    /\ lapsed \in BOOLEAN
    /\ externalId \in 0 .. MaxAttempts
    /\ attempts \in Seq(AttemptRow)
    /\ posOrders \in SUBSET PosOrder
    /\ job \in [Workers -> Job]

\* What holds of the rows, the workers and the orders at the POS together.
RowInv == RowsTyped /\ RowsConsistent /\ JobsConsistent /\ SingleOwner /\ OrdersConsistent

\* The two halves of the invariant.
LEMMA DispatchInvParts == DispatchInv <=> RoutingTyped /\ RoutingConsistent /\ RowInv
  BY DEF DispatchInv, ClaimInv, RowInv, TypeOK, RoutingTyped, RowsTyped

\* What a step has recorded of the submission stays.
RowsKept ==
    /\ submission \in {"SUCCEEDED", "REJECTED"} => submission' = submission /\ externalId' = externalId
    /\ \A n \in DOMAIN attempts :
          /\ n \in DOMAIN attempts'
          /\ attempts[n].result # "IN_PROGRESS" => attempts'[n] = attempts[n]

\* An idle worker, and what any worker may be.
LEMMA IdleIsJob == Idle \in Job /\ Idle.pc = "idle"
<1>1. NoView \in View /\ 0 \in 0 .. MaxAttempts
  BY DispatchAssumption DEF NoView, View, Submissions
<1>2. QED
  BY <1>1 DEF Idle, Job

\* Before anything happened.
LEMMA RowInvInit == Init => RowInv
<1> SUFFICES ASSUME Init PROVE RowInv
  OBVIOUS
<1>1. RowsTyped
  <2>1. 0 \in 0 .. MaxAttempts /\ <<>> \in Seq(AttemptRow) /\ "NONE" \in Submissions
    BY DispatchAssumption DEF Submissions
  <2>2. [w \in Workers |-> Idle] \in [Workers -> Job]
    BY IdleIsJob
  <2>3. QED
    BY <2>1, <2>2 DEF Init, RowsTyped
<1>2. RowsConsistent /\ SingleOwner
  BY DispatchAssumption DEF Init, RowsConsistent, SingleOwner
<1>3. JobsConsistent /\ OrdersConsistent
  BY IdleIsJob DEF Init, JobsConsistent, OrdersConsistent, SucceededHasOrder
<1>4. QED
  BY <1>1, <1>2, <1>3 DEF RowInv

\* Steps that touch neither the submission nor a worker, but for the lease.
LEMMA QuietKeepsRows ==
    ASSUME RowInv, UNCHANGED <<submission, claim, externalId, attempts, posOrders, job>>,
           lapsed' \in BOOLEAN
    PROVE  RowInv' /\ RowsKept
<1>1. RowsTyped'
  BY DEF RowInv, RowsTyped
<1>2. RowsConsistent' /\ SingleOwner' /\ JobsConsistent'
  BY DEF RowInv, RowsConsistent, SingleOwner, JobsConsistent
<1>3. OrdersConsistent'
  BY DEF RowInv, OrdersConsistent, SucceededHasOrder
<1>4. QED
  BY <1>1, <1>2, <1>3 DEF RowInv, RowsKept

\* Steps that only give one worker a task without an attempt.
LEMMA TaskKeepsRows ==
    ASSUME RowInv, NEW w \in Workers, NEW j \in Job, j.pc \notin {"call", "finish"},
           job' = [job EXCEPT ![w] = j], UNCHANGED <<rowVars, posOrders>>
    PROVE  RowInv' /\ RowsKept
<1>1. /\ job'[w] = j /\ \A v \in Workers \ {w} : job'[v] = job[v]
      /\ UNCHANGED <<submission, claim, lapsed, externalId, attempts>>
  BY DEF RowInv, RowsTyped, rowVars
<1>2. RowsTyped'
  BY <1>1 DEF RowInv, RowsTyped
<1>3. RowsConsistent' /\ SingleOwner'
  BY <1>1 DEF RowInv, RowsConsistent, SingleOwner
<1>4. JobsConsistent'
  BY <1>1 DEF RowInv, JobsConsistent
<1>5. OrdersConsistent'
  <2>1. \A v \in Workers : job'[v].pc \in {"call", "finish"} => job'[v] = job[v]
    BY <1>1
  <2>2. QED
    BY <1>1, <2>1 DEF RowInv, OrdersConsistent, SucceededHasOrder
<1>6. QED
  BY <1>1, <1>2, <1>3, <1>4, <1>5 DEF RowInv, RowsKept

\* A worker ends its request.
LEMMA EndKeepsRows ==
    ASSUME RowInv, NEW w \in Workers, job' = [job EXCEPT ![w] = Idle],
           UNCHANGED <<rowVars, posOrders>>
    PROVE  RowInv' /\ RowsKept
  BY IdleIsJob, TaskKeepsRows

\* A claim of a submission nobody is working on, or whose last attempt has
\* just been fenced: the new attempt is the only one in progress.
LEMMA OpenKeepsRows ==
    ASSUME RowInv, NEW w \in Workers, NEW type \in {"CREATE", "RETRY", "RECOVER", "STALE_RECOVERY"},
           NEW rows \in Seq(AttemptRow), Len(rows) = Len(attempts), Len(rows) < MaxAttempts,
           \A n \in DOMAIN rows : rows[n].result # "IN_PROGRESS" /\ rows[n].type = attempts[n].type,
           type = "CREATE" => rows = <<>>,
           submission \notin {"SUCCEEDED", "REJECTED"},
           \A n \in DOMAIN attempts : attempts[n].result # "IN_PROGRESS" => rows[n] = attempts[n],
           Open(w, type, rows)
    PROVE  RowInv' /\ RowsKept
<1>n. PICK n : n = Len(rows)
  OBVIOUS
<1> DEFINE row == [type |-> type, result |-> "IN_PROGRESS"]
           j   == [Idle EXCEPT !.pc = "call", !.token = n + 1, !.prints = connection = "PRINTING"]
<1>1. /\ attempts \in Seq(AttemptRow) /\ n \in Nat /\ row \in AttemptRow
      /\ DOMAIN attempts = 1 .. n /\ DOMAIN rows = 1 .. n
      /\ row.type = type /\ row.result = "IN_PROGRESS"
  BY <1>n DEF RowInv, RowsTyped, AttemptRow
<1>2. n + 1 \in 0 .. MaxAttempts
  BY <1>n, <1>1, DispatchAssumption
<1>3. j \in Job /\ j.pc = "call" /\ j.token = n + 1
  <2>1. Idle \in Job /\ (connection = "PRINTING") \in BOOLEAN
    BY IdleIsJob
  <2>2. QED
    BY <1>2, <2>1 DEF Job
<1>4. /\ submission' = "IN_PROGRESS" /\ claim' = n + 1 /\ lapsed' = FALSE
      /\ attempts' = Append(rows, row) /\ job' = [job EXCEPT ![w] = j]
      /\ UNCHANGED <<externalId, posOrders>>
  BY <1>n DEF Open
<1> HIDE DEF row, j
<1>5. /\ attempts' \in Seq(AttemptRow) /\ Len(attempts') = n + 1 /\ DOMAIN attempts' = 1 .. (n + 1)
      /\ attempts'[n + 1] = row /\ \A i \in 1 .. n : attempts'[i] = rows[i]
  BY <1>n, <1>1, <1>4
<1>6. job'[w] = j /\ \A v \in Workers \ {w} : job'[v] = job[v]
  BY <1>4 DEF RowInv, RowsTyped
<1>7. RowsTyped'
  BY <1>2, <1>3, <1>4, <1>5 DEF RowInv, RowsTyped, Submissions
<1>8. RowsConsistent'
  <2>1. Len(attempts') <= MaxAttempts /\ submission' # "NONE"
    BY <1>2, <1>4, <1>5
  <2>2. ASSUME NEW i \in DOMAIN attempts', attempts'[i].type = "CREATE" PROVE i = 1
    <3>1. CASE i = n + 1
      <4>1. rows = <<>>
        BY <1>1, <1>5, <2>2, <3>1
      <4>2. QED
        BY <1>n, <3>1, <4>1
    <3>2. CASE i \in 1 .. n
      BY <1>1, <1>5, <2>2, <3>2 DEF RowInv, RowsConsistent
    <3>3. QED
      BY <1>1, <1>5, <3>1, <3>2
  <2>3. QED
    BY <2>1, <2>2 DEF RowsConsistent
<1>9. \A v \in Workers \ {w} : job[v].pc \in {"call", "finish"} => job[v].token \in 1 .. n
  BY <1>1 DEF RowInv, JobsConsistent
<1>10. JobsConsistent'
  <2>1. \A v \in Workers : job'[v].pc \in {"call", "finish"} => job'[v].token \in DOMAIN attempts'
    BY <1>1, <1>3, <1>5, <1>6, <1>9
  <2>2. \A v \in Workers : job'[v].pc = "finish" => job'[v].state \in ResultStates
    BY <1>3, <1>6 DEF RowInv, JobsConsistent
  <2>3. ASSUME NEW u \in Workers, NEW v \in Workers, u # v,
               {job'[u].pc, job'[v].pc} \subseteq {"call", "finish"}
        PROVE  job'[u].token # job'[v].token
    BY <1>1, <1>3, <1>6, <1>9, <2>3 DEF RowInv, JobsConsistent
  <2>4. QED
    BY <2>1, <2>2, <2>3 DEF JobsConsistent
<1>11. SingleOwner'
  <2>1. {i \in DOMAIN attempts' : attempts'[i].result = "IN_PROGRESS"} = {n + 1}
    BY <1>1, <1>5
  <2>2. QED
    BY <1>4, <1>5, <2>1 DEF SingleOwner
<1>12. OrdersConsistent'
  <2>1. ASSUME NEW o \in posOrders
        PROVE  /\ o.id \in DOMAIN attempts'
               /\ ~StableReplay => attempts'[o.id].type \in {"CREATE", "RETRY"}
               /\ \A v \in Workers : job'[v].pc = "call" => job'[v].token # o.id
    <3>1. o.id \in 1 .. n
      BY <1>1 DEF RowInv, OrdersConsistent
    <3>2. attempts'[o.id].type = attempts[o.id].type
      BY <1>1, <1>5, <3>1
    <3>3. QED
      BY <1>1, <1>3, <1>5, <1>6, <3>1, <3>2 DEF RowInv, OrdersConsistent
  <2>2. \A v \in Workers : job'[v].pc = "finish" => job'[v] = job[v]
    BY <1>3, <1>6
  <2>3. QED
    BY <1>4, <2>1, <2>2 DEF RowInv, OrdersConsistent, SucceededHasOrder
<1>13. RowsKept
  BY <1>1, <1>5 DEF RowsKept
<1>14. QED
  BY <1>7, <1>8, <1>10, <1>11, <1>12, <1>13 DEF RowInv

\* The adapter answers, perhaps after the POS made the order of this attempt.
LEMMA AnswerKeepsRows ==
    ASSUME RowInv, NEW w \in Workers, job[w].pc = "call", NEW s \in ResultStates,
           NEW id \in 0 .. MaxAttempts, Answer(w, s, id), UNCHANGED rowVars,
           NEW order \in PosOrder, order.id = job[w].token,
           \/ posOrders' = posOrders
           \/ /\ posOrders' = posOrders \cup {order}
              /\ StableReplay => posOrders = {}
              /\ ~StableReplay => attempts[job[w].token].type \in {"CREATE", "RETRY"},
           s = "SUCCEEDED" => \E o \in posOrders' : o.id = id
    PROVE  RowInv' /\ RowsKept
<1> DEFINE j == [job[w] EXCEPT !.pc = "finish", !.state = s, !.id = id]
<1>1. job[w] \in Job /\ job' = [job EXCEPT ![w] = j]
  BY DEF RowInv, RowsTyped, Answer
<1>2. j \in Job /\ j.pc = "finish" /\ j.token = job[w].token /\ j.state = s /\ j.id = id
  BY <1>1 DEF Job
<1> HIDE DEF j
<1>3. /\ job'[w] = j /\ \A v \in Workers \ {w} : job'[v] = job[v]
      /\ UNCHANGED <<submission, claim, lapsed, externalId, attempts>>
  BY <1>1 DEF RowInv, RowsTyped, rowVars
<1>4. RowsTyped'
  BY <1>1, <1>2, <1>3 DEF RowInv, RowsTyped
<1>5. RowsConsistent' /\ SingleOwner' /\ RowsKept
  BY <1>3 DEF RowInv, RowsConsistent, SingleOwner, RowsKept
<1>6. JobsConsistent'
  BY <1>2, <1>3 DEF RowInv, JobsConsistent
<1>7. OrdersConsistent'
  <2>1. ASSUME NEW o \in posOrders'
        PROVE  /\ o.id \in DOMAIN attempts'
               /\ ~StableReplay => attempts'[o.id].type \in {"CREATE", "RETRY"}
               /\ \A v \in Workers : job'[v].pc = "call" => job'[v].token # o.id
    <3>1. \A v \in Workers : job'[v].pc = "call" => v # w /\ job'[v] = job[v]
      BY <1>2, <1>3
    <3>2. CASE o \in posOrders
      BY <1>3, <3>1, <3>2 DEF RowInv, OrdersConsistent
    <3>3. CASE o = order /\ o \notin posOrders
      <4>1. \A v \in Workers : job'[v].pc = "call" => job[v].token # job[w].token
        BY <3>1 DEF RowInv, JobsConsistent
      <4>2. QED
        BY <1>3, <3>1, <3>3, <4>1 DEF RowInv, JobsConsistent
    <3>4. QED
      BY <3>2, <3>3
  <2>2. ASSUME NEW o \in posOrders', NEW q \in posOrders', StableReplay \/ o.id = q.id
        PROVE  o = q
    <3>1. \A x \in posOrders : x.id # order.id
      BY DEF RowInv, OrdersConsistent
    <3>2. QED
      BY <2>2, <3>1 DEF RowInv, OrdersConsistent
  <2>3. posOrders \subseteq posOrders'
    OBVIOUS
  <2>4. ASSUME NEW v \in Workers, job'[v].pc = "finish", job'[v].state = "SUCCEEDED"
        PROVE  \E o \in posOrders' : o.id = job'[v].id
    <3>1. CASE v = w
      BY <1>2, <1>3, <2>4, <3>1
    <3>2. CASE v # w
      BY <1>3, <2>3, <2>4, <3>2 DEF RowInv, OrdersConsistent
    <3>3. QED
      BY <3>1, <3>2
  <2>5. SucceededHasOrder'
    BY <1>3, <2>3 DEF RowInv, OrdersConsistent, SucceededHasOrder
  <2>6. QED
    BY <2>1, <2>2, <2>4, <2>5 DEF OrdersConsistent
<1>8. QED
  BY <1>4, <1>5, <1>6, <1>7 DEF RowInv

\* The owner of the attempt in progress records its result.
LEMMA FinishKeepsRows ==
    ASSUME RowInv, NEW w \in Workers, Finish(w)
    PROVE  RowInv' /\ RowsKept
<1>n. PICK n \in DOMAIN attempts, s \in ResultStates : n = job[w].token /\ s = job[w].state
  BY DEF Finish, RowInv, JobsConsistent
<1>1. /\ attempts \in Seq(AttemptRow) /\ DOMAIN attempts = 1 .. Len(attempts)
      /\ job[w] \in Job /\ job[w].pc = "finish" /\ attempts[n] \in AttemptRow
      /\ attempts[n].result = "IN_PROGRESS"
  BY <1>n DEF RowInv, RowsTyped, Finish, Owns
<1>2. submission = "IN_PROGRESS" /\ n = Len(attempts)
      /\ {i \in DOMAIN attempts : attempts[i].result = "IN_PROGRESS"} = {n}
  BY <1>1 DEF RowInv, SingleOwner
<1>3. /\ submission' = s /\ claim' = 0 /\ lapsed' = FALSE /\ posOrders' = posOrders
      /\ externalId' = (IF s = "SUCCEEDED" THEN job[w].id ELSE externalId)
      /\ attempts' = [attempts EXCEPT ![n].result = s] /\ job' = [job EXCEPT ![w] = Idle]
  BY <1>n DEF Finish
<1>4. /\ DOMAIN attempts' = DOMAIN attempts /\ attempts' \in Seq(AttemptRow)
      /\ Len(attempts') = Len(attempts)
      /\ attempts'[n].result = s /\ attempts'[n].type = attempts[n].type
      /\ \A i \in DOMAIN attempts : i # n => attempts'[i] = attempts[i]
  <2>1. [attempts[n] EXCEPT !.result = s] \in AttemptRow
    BY <1>1 DEF AttemptRow
  <2>2. attempts' = [attempts EXCEPT ![n] = [attempts[n] EXCEPT !.result = s]]
    BY <1>3
  <2>3. [attempts[n] EXCEPT !.result = s].result = s
        /\ [attempts[n] EXCEPT !.result = s].type = attempts[n].type
    BY <1>1 DEF AttemptRow
  <2> HIDE <1>3
  <2>4. QED
    BY <1>1, <2>1, <2>2, <2>3
<1>5. job'[w] = Idle /\ \A v \in Workers \ {w} : job'[v] = job[v]
  BY <1>3 DEF RowInv, RowsTyped
<1>6. RowsTyped'
  <2>1. job[w].id \in 0 .. MaxAttempts
    BY <1>1 DEF Job
  <2>2. submission' \in Submissions /\ claim' \in 0 .. MaxAttempts /\ lapsed' \in BOOLEAN
    <3>1. 0 \in 0 .. MaxAttempts /\ s \in Submissions
      BY DispatchAssumption DEF Submissions
    <3>2. QED
      BY <1>3, <3>1
  <2>3. externalId' \in 0 .. MaxAttempts
    BY <1>3, <2>1 DEF RowInv, RowsTyped
  <2>4. job' \in [Workers -> Job] /\ posOrders' \in SUBSET PosOrder
    BY <1>3, IdleIsJob DEF RowInv, RowsTyped
  <2>5. QED
    BY <1>4, <2>2, <2>3, <2>4 DEF RowsTyped
<1>7. RowsConsistent'
  BY <1>3, <1>4 DEF RowInv, RowsConsistent, ResultStates
<1>8. JobsConsistent'
  BY <1>4, <1>5, IdleIsJob DEF RowInv, JobsConsistent
<1>9. SingleOwner'
  <2>1. s # "IN_PROGRESS"
    BY DEF ResultStates
  <2>2. {i \in DOMAIN attempts' : attempts'[i].result = "IN_PROGRESS"} = {}
    BY <1>2, <1>4, <2>1
  <2>3. QED
    BY <1>3, <2>1, <2>2 DEF SingleOwner
<1>10. OrdersConsistent'
  <2>1. \A i \in DOMAIN attempts : attempts'[i].type = attempts[i].type
    BY <1>4
  <2>2. \A v \in Workers : job'[v].pc \in {"call", "finish"} => job'[v] = job[v]
    BY <1>5, IdleIsJob
  <2>3. SucceededHasOrder'
    BY <1>n, <1>1, <1>3 DEF RowInv, OrdersConsistent, SucceededHasOrder
  <2>4. QED
    BY <1>3, <1>4, <2>1, <2>2, <2>3 DEF RowInv, OrdersConsistent
<1>11. RowsKept
  BY <1>2, <1>4 DEF RowsKept
<1>12. QED
  BY <1>6, <1>7, <1>8, <1>9, <1>10, <1>11 DEF RowInv

\* An expired attempt is fenced: the rows a take-over starts from.
LEMMA FencedFacts ==
    ASSUME RowInv, submission = "IN_PROGRESS"
    PROVE  /\ Fenced \in Seq(AttemptRow) /\ Len(Fenced) = Len(attempts)
           /\ \A n \in DOMAIN Fenced : /\ Fenced[n].result # "IN_PROGRESS"
                                       /\ Fenced[n].type = attempts[n].type
           /\ \A n \in DOMAIN attempts : attempts[n].result # "IN_PROGRESS" => Fenced[n] = attempts[n]
<1> DEFINE row == [attempts[claim] EXCEPT !.result = "UNCERTAIN"]
<1>1. /\ attempts \in Seq(AttemptRow) /\ claim \in DOMAIN attempts
      /\ {i \in DOMAIN attempts : attempts[i].result = "IN_PROGRESS"} = {claim}
  BY DEF RowInv, RowsTyped, SingleOwner
<1>2. row \in AttemptRow /\ row.result = "UNCERTAIN" /\ row.type = attempts[claim].type
  <2>1. attempts[claim] \in AttemptRow
    BY <1>1
  <2>2. QED
    BY <2>1 DEF AttemptRow, ResultStates
<1>3. Fenced = [attempts EXCEPT ![claim] = row]
  BY DEF Fenced
<1> HIDE DEF row
<1>4. QED
  BY <1>1, <1>2, <1>3

\* One step of the system, as far as the submission goes.
LEMMA RowInvNext ==
    ASSUME RowInv, [Next]_vars PROVE RowInv' /\ RowsKept
<1>t. RowsTyped /\ attempts \in Seq(AttemptRow) /\ Len(attempts) \in Nat
  BY DEF RowInv, RowsTyped
<1>1. CASE \/ UNCHANGED vars \/ SwitchConnection \/ LeaseExpires \/ Accept
           \/ \E o \in Owners : ProvisionConfiguration(o)
           \/ \E c \in {"SILENT", "PRINTING"} : PutPosPreparationBehavior(c)
           \/ \E plan \in Plans : RouteOrder(plan)
  <2>1. /\ UNCHANGED <<submission, claim, externalId, attempts, posOrders, job>>
        /\ lapsed' \in {lapsed, TRUE}
    BY <1>1 DEF vars, SwitchConnection, LeaseExpires, Accept, ProvisionConfiguration,
                PutPosPreparationBehavior, RouteOrder, rowVars
  <2>2. QED
    BY <1>t, <2>1, QuietKeepsRows DEF RowsTyped
<1>2. ASSUME NEW w \in Workers, SubmitRead(w) PROVE RowInv' /\ RowsKept
  <2> DEFINE v == [state |-> submission, claim |-> claim, count |-> Len(attempts)]
             j == [Idle EXCEPT !.pc = "submit", !.view = v]
  <2>1. v \in View
    <3>1. Len(attempts) \in 0 .. MaxAttempts
      BY <1>t, DispatchAssumption DEF RowInv, RowsConsistent
    <3>2. QED
      BY <1>t, <3>1 DEF RowsTyped, View
  <2>2. job' = [job EXCEPT ![w] = j] /\ UNCHANGED <<rowVars, posOrders>>
    BY <1>2 DEF SubmitRead
  <2> HIDE DEF v
  <2>3. j \in Job /\ j.pc = "submit"
    BY <2>1, IdleIsJob DEF Job
  <2> HIDE DEF j
  <2>4. QED
    BY <2>2, <2>3, TaskKeepsRows
<1>3. ASSUME NEW w \in Workers, \/ Crash(w) \/ FinishStale(w) \/ SubmitIncompatible(w)
                                \/ SubmitUnclaimed(w)
      PROVE  RowInv' /\ RowsKept
  <2>1. job' = [job EXCEPT ![w] = Idle] /\ UNCHANGED <<rowVars, posOrders>>
    BY <1>3 DEF Crash, FinishStale, SubmitIncompatible, SubmitUnclaimed, SubmitEnds
  <2>2. QED
    BY <2>1, EndKeepsRows
<1>4. ASSUME submission # "IN_PROGRESS" PROVE \A n \in DOMAIN attempts : attempts[n].result # "IN_PROGRESS"
  BY <1>4 DEF RowInv, SingleOwner
<1>5. ASSUME NEW w \in Workers, Retry(w) PROVE RowInv' /\ RowsKept
  BY <1>4, <1>5, <1>t, OpenKeepsRows DEF Retry
<1>6. ASSUME NEW w \in Workers, Recover(w) PROVE RowInv' /\ RowsKept
  <2>1. CASE submission = "UNCERTAIN" /\ Open(w, "RECOVER", attempts)
    BY <1>4, <1>6, <1>t, <2>1, OpenKeepsRows DEF Recover
  <2>2. CASE submission = "IN_PROGRESS" /\ Open(w, "STALE_RECOVERY", Fenced)
    BY <1>6, <2>2, FencedFacts, OpenKeepsRows DEF Recover
  <2>3. QED
    BY <1>6, <2>1, <2>2 DEF Recover
<1>7. ASSUME NEW w \in Workers, SubmitReclaim(w) PROVE RowInv' /\ RowsKept
  BY <1>7, FencedFacts, OpenKeepsRows DEF SubmitReclaim
<1>8. ASSUME NEW w \in Workers, SubmitCreate(w) PROVE RowInv' /\ RowsKept
  <2>1. submission = "NONE" /\ attempts = <<>> /\ 0 < MaxAttempts
    BY <1>8 DEF SubmitCreate, RowInv, RowsConsistent
  <2>2. CASE Open(w, "CREATE", <<>>)
    <3>1. <<>> \in Seq(AttemptRow) /\ Len(<<>>) = 0 /\ DOMAIN <<>> = {} /\ Len(attempts) = 0
          /\ DOMAIN attempts = {}
      BY <2>1
    <3> DEFINE none == <<>>
    <3>2. /\ none \in Seq(AttemptRow) /\ Len(none) = Len(attempts) /\ Len(none) < MaxAttempts
          /\ DOMAIN none = {} /\ none = <<>> /\ Open(w, "CREATE", none)
      BY <2>1, <2>2, <3>1
    <3> HIDE DEF none
    <3>3. QED
      BY <2>1, <3>1, <3>2, OpenKeepsRows
  <2>3. CASE /\ submission' = "ACTION_REQUIRED"
             /\ attempts' = <<[type |-> "CREATE", result |-> "ACTION_REQUIRED"]>>
             /\ job' = [job EXCEPT ![w] = Idle]
             /\ UNCHANGED <<claim, lapsed, externalId, posOrders>>
    <3> DEFINE row == [type |-> "CREATE", result |-> "ACTION_REQUIRED"]
    <3>1. row \in AttemptRow /\ row.result = "ACTION_REQUIRED" /\ attempts' = <<row>>
      BY <2>3 DEF AttemptRow, ResultStates
    <3> HIDE DEF row
    <3>2. /\ attempts' \in Seq(AttemptRow) /\ Len(attempts') = 1 /\ DOMAIN attempts' = {1}
          /\ attempts'[1] = row
      BY <3>1
    <3>3. \A v \in Workers : job[v].pc \notin {"call", "finish"}
      BY <2>1 DEF RowInv, JobsConsistent
    <3>4. \A v \in Workers : job'[v].pc \notin {"call", "finish"}
      BY <1>t, <2>3, <3>3, IdleIsJob DEF RowsTyped
    <3>5. posOrders = {} /\ claim = 0
      BY <2>1 DEF RowInv, OrdersConsistent, SingleOwner
    <3>6. RowsTyped'
      BY <1>t, <2>3, <3>2, IdleIsJob DEF RowsTyped, Submissions, ResultStates
    <3>7. RowsConsistent' /\ SingleOwner'
      BY <2>1, <2>3, <3>1, <3>2, <3>5, DispatchAssumption DEF RowsConsistent, SingleOwner
    <3>8. JobsConsistent' /\ OrdersConsistent'
      BY <2>3, <3>4, <3>5 DEF JobsConsistent, OrdersConsistent, SucceededHasOrder
    <3>9. QED
      BY <2>1, <3>6, <3>7, <3>8 DEF RowInv, RowsKept
  <2>4. QED
    BY <1>8, <2>2, <2>3 DEF SubmitCreate
<1>9. ASSUME NEW w \in Workers, job[w].pc = "call"
      PROVE  LET order == [id |-> job[w].token, prints |-> job[w].prints] IN
             order \in PosOrder /\ order.id = job[w].token /\ 0 \in 0 .. MaxAttempts
  <2>1. job[w] \in Job /\ job[w].token \in DOMAIN attempts /\ Len(attempts) <= MaxAttempts
    BY <1>9, <1>t DEF RowsTyped, RowInv, JobsConsistent, RowsConsistent
  <2>2. job[w].token \in 1 .. MaxAttempts /\ job[w].prints \in BOOLEAN
    BY <1>t, <2>1, DispatchAssumption DEF Job
  <2>3. QED
    BY <2>2, DispatchAssumption DEF PosOrder
<1>10. ASSUME NEW w \in Workers, AdapterUnavailable(w) PROVE RowInv' /\ RowsKept
  BY <1>9, <1>10, AnswerKeepsRows DEF AdapterUnavailable, ResultStates
<1>11. \A o \in posOrders : o.id \in 0 .. MaxAttempts
  BY <1>t, DispatchAssumption DEF RowsTyped, PosOrder
<1>12. ErrorStates \subseteq ResultStates /\ "SUCCEEDED" \in ResultStates
       /\ "SUCCEEDED" \notin ErrorStates
  BY DEF ErrorStates, ResultStates
<1>13. ASSUME NEW w \in Workers, QueryOrder(w) PROVE RowInv' /\ RowsKept
  <2>1. job[w].pc = "call" /\ UNCHANGED <<rowVars, posOrders>>
    BY <1>13 DEF QueryOrder
  <2>p. PICK order \in PosOrder : order.id = job[w].token /\ 0 \in 0 .. MaxAttempts
    BY <1>9, <2>1
  <2>2. ASSUME NEW s \in ErrorStates, Answer(w, s, 0) PROVE RowInv' /\ RowsKept
    BY <1>12, <2>p, <2>1, <2>2, AnswerKeepsRows
  <2>3. ASSUME NEW o \in posOrders, Answer(w, "SUCCEEDED", o.id) PROVE RowInv' /\ RowsKept
    BY <1>11, <1>12, <2>p, <2>1, <2>3, AnswerKeepsRows
  <2>4. QED
    BY <1>13, <2>2, <2>3 DEF QueryOrder
<1>14. ASSUME NEW w \in Workers, CreateOrder(w) PROVE RowInv' /\ RowsKept
  <2> DEFINE order == [id |-> job[w].token, prints |-> job[w].prints]
  <2>1. job[w].pc = "call" /\ UNCHANGED rowVars /\ Creates(w)
    BY <1>14 DEF CreateOrder
  <2>2. order \in PosOrder /\ order.id = job[w].token /\ 0 \in 0 .. MaxAttempts
    BY <1>9, <2>1
  <2>3. PICK now \in {posOrders} \cup
                     {IF StableReplay /\ posOrders # {} THEN posOrders ELSE posOrders \cup {order}} :
           /\ posOrders' = now
           /\ \/ \E s \in IF now = posOrders THEN ErrorStates ELSE {"UNCERTAIN"} : Answer(w, s, 0)
              \/ \E o \in now : /\ now = posOrders => StableReplay
                                /\ now # posOrders => o = order
                                /\ Answer(w, "SUCCEEDED", o.id)
    BY <1>14 DEF CreateOrder
  <2>4. ~StableReplay => attempts[job[w].token].type \in {"CREATE", "RETRY"}
    <3>1. job[w].token \in DOMAIN attempts
      BY <2>1 DEF RowInv, JobsConsistent
    <3>2. attempts[job[w].token] \in AttemptRow
      BY <1>t, <3>1
    <3>3. QED
      BY <2>1, <3>2, DispatchAssumption DEF Creates, Recovering, AttemptRow
  <2> HIDE DEF order
  <2>5. \/ posOrders' = posOrders
        \/ /\ posOrders' = posOrders \cup {order}
           /\ StableReplay => posOrders = {}
           /\ ~StableReplay => attempts[job[w].token].type \in {"CREATE", "RETRY"}
    BY <2>3, <2>4
  <2>6. ASSUME NEW s \in ErrorStates, Answer(w, s, 0) PROVE RowInv' /\ RowsKept
    BY <1>12, <2>1, <2>2, <2>5, <2>6, AnswerKeepsRows
  <2>7. ASSUME NEW o \in posOrders', Answer(w, "SUCCEEDED", o.id) PROVE RowInv' /\ RowsKept
    <3>1. o.id \in 0 .. MaxAttempts
      BY <1>11, <2>2, <2>5, <2>7, DispatchAssumption DEF PosOrder
    <3>2. QED
      BY <1>12, <2>1, <2>2, <2>5, <2>7, <3>1, AnswerKeepsRows
  <2>8. QED
    BY <2>3, <2>6, <2>7 DEF ErrorStates
<1>15. ASSUME NEW w \in Workers, Finish(w) PROVE RowInv' /\ RowsKept
  BY <1>15, FinishKeepsRows
<1>16. QED
  BY <1>1, <1>2, <1>3, <1>5, <1>6, <1>7, <1>8, <1>10, <1>13, <1>14, <1>15, NextCases

-----------------------------------------------------------------------------
(* What follows.                                                           *)

\* The invariant holds throughout.
LEMMA DispatchInvariant == Spec => []DispatchInv
<1>1. Init => DispatchInv
  <2>1. Init => RoutingTyped /\ RoutingConsistent
    BY DEF Init, RoutingTyped, RoutingConsistent, WorksOnlyIfRouted, RoutingStates
  <2>2. QED
    BY <2>1, RowInvInit, DispatchInvParts
<1>2. DispatchInv /\ [Next]_vars => DispatchInv'
  <2>1. (RoutingTyped /\ RoutingConsistent /\ RowInv)' => DispatchInv'
    BY DEF DispatchInv, ClaimInv, RowInv, TypeOK, RoutingTyped, RowsTyped
  <2>2. QED
    BY <2>1, DispatchInvParts, RoutingNext, RowInvNext
<1>3. QED
  BY <1>1, <1>2, PTL DEF Spec

\* The orders at the POS are told apart by the attempts that made them, of
\* which only the first and the retries may make one.
LEMMA OrdersNeedRetries ==
    ASSUME DispatchInv PROVE DuplicatesNeedRetry
<1> DEFINE retries == {n \in DOMAIN attempts : attempts[n].type = "RETRY"}
           makers  == retries \cup {1}
<1>1. /\ attempts \in Seq(AttemptRow) /\ DOMAIN attempts = 1 .. Len(attempts)
      /\ Len(attempts) \in Nat
  BY DEF DispatchInv, ClaimInv, TypeOK
<1>2. IsFiniteSet(retries) /\ Cardinality(retries) \in Nat
  <2>1. IsFiniteSet(DOMAIN attempts)
    BY <1>1, FS_Interval
  <2>2. IsFiniteSet(retries)
    BY <2>1, FS_Subset
  <2>3. QED
    BY <2>2, FS_CardinalityType
<1>3. /\ IsFiniteSet(makers) /\ Cardinality(makers) \in Nat
      /\ Cardinality(makers) <= Cardinality(retries) + 1
  <2>1. /\ IsFiniteSet(makers)
        /\ Cardinality(makers) = IF 1 \in retries THEN Cardinality(retries) ELSE Cardinality(retries) + 1
    BY <1>2, FS_AddElement
  <2> HIDE DEF makers, retries
  <2>2. QED
    BY <1>2, <2>1, FS_CardinalityType
<1>4. CASE StableReplay
  <2>1. \A o, q \in posOrders : o = q
    BY <1>4 DEF DispatchInv, OrdersConsistent
  <2>2. Cardinality(posOrders) <= 1
    <3>1. CASE posOrders = {}
      BY <3>1, FS_EmptySet
    <3>2. CASE posOrders # {}
      <4>1. PICK o \in posOrders : posOrders = {o}
        BY <2>1, <3>2
      <4>2. QED
        BY <4>1, FS_Singleton
    <3>3. QED
      BY <3>1, <3>2
  <2>3. Cardinality(posOrders) \in Nat
    <3>1. CASE posOrders = {}
      BY <3>1, FS_EmptySet
    <3>2. CASE posOrders # {}
      <4>1. PICK o \in posOrders : posOrders = {o}
        BY <2>1, <3>2
      <4>2. QED
        BY <4>1, FS_Singleton
    <3>3. QED
      BY <3>1, <3>2
  <2>4. QED
    <3> HIDE DEF retries
    <3>1. Cardinality(posOrders) <= 1 + Cardinality(retries)
      BY <1>2, <2>2, <2>3
    <3>2. QED
      BY <3>1 DEF DuplicatesNeedRetry, retries
<1>5. CASE ~StableReplay
  <2> DEFINE maker == [o \in posOrders |-> o.id]
  <2>1. \A o \in posOrders : o.id \in makers
    <3>1. SUFFICES ASSUME NEW o \in posOrders PROVE o.id \in makers
      OBVIOUS
    <3>2. o.id \in DOMAIN attempts /\ attempts[o.id].type \in {"CREATE", "RETRY"}
      BY <1>5 DEF DispatchInv, OrdersConsistent
    <3>3. attempts[o.id].type = "CREATE" => o.id = 1
      BY <3>2 DEF DispatchInv, ClaimInv, RowsConsistent
    <3>4. QED
      BY <3>2, <3>3
  <2>2. \A o, q \in posOrders : o.id = q.id => o = q
    BY DEF DispatchInv, OrdersConsistent
  <2> HIDE DEF makers, retries
  <2>3. maker \in Injection(posOrders, makers)
    BY <2>1, <2>2 DEF Injection, IsInjective
  <2>4. IsFiniteSet(posOrders) /\ Cardinality(posOrders) <= Cardinality(makers)
    BY <1>3, <2>3, FS_Injection
  <2>5. Cardinality(posOrders) \in Nat
    BY <2>4, FS_CardinalityType
  <2>6. Cardinality(posOrders) <= 1 + Cardinality(retries)
    BY <1>2, <1>3, <2>4, <2>5
  <2>7. QED
    BY <2>6 DEF DuplicatesNeedRetry, retries
<1>6. QED
  BY <1>4, <1>5

\* pos_submissions: whatever requests overlap and however early they read the
\* row, a submission in progress has exactly one attempt in progress, its last,
\* whose claim it carries, and no other submission has any.
THEOREM OneOwner == Spec => []SingleOwner
<1>1. DispatchInv => SingleOwner
  BY DEF DispatchInv, ClaimInv
<1>2. QED
  BY <1>1, DispatchInvariant, PTL

\* A submission that succeeded names an order the POS has; a second order there
\* needs a retry; and kitchen work exists only for orders routed to the platform.
THEOREM SubmissionTrue == Spec => []SubmissionIsTrue
<1>1. DispatchInv => SubmissionIsTrue
  BY OrdersNeedRetries
  DEF SubmissionIsTrue, DispatchInv, ClaimInv, OrdersConsistent, RoutingConsistent
<1>2. QED
  BY <1>1, DispatchInvariant, PTL

\* What is decided of an order (a success, a rejection, the result of an attempt,
\* the preparation owner, a routed order and its work) is never changed again.
THEOREM DecisionsFinal == Spec => DecisionsAreFinal
<1>1. DispatchInv /\ [Next]_vars => DecisionsKept
  BY DispatchInvParts, RoutingNext, RowInvNext DEF DecisionsKept, RowsKept
<1>2. DispatchInv /\ [Next]_vars => [DecisionsKept]_vars
  BY <1>1
<1>3. QED
  BY <1>2, DispatchInvariant, PTL DEF Spec, DecisionsAreFinal
=============================================================================
