----------------------- MODULE PaymentExecutionProofs -----------------------
(***************************************************************************)
(* PaymentExecution for any number of payments, workers, configurations,   *)
(* attempts and units of money.                                            *)
(***************************************************************************)
EXTENDS PaymentExecution, FiniteSetTheorems, TLAPS

(***************************************************************************)
(* What the proofs need to know of totals: a total is a natural number,    *)
(* the total of nothing is 0, and changing one amount changes the total by *)
(* the difference.                                                         *)
(***************************************************************************)
\* The units of one row are as many as its amount.
LEMMA RowUnits ==
    ASSUME NEW x, NEW n \in Nat
    PROVE  /\ IsFiniteSet({x} \X (1 .. n))
           /\ Cardinality({x} \X (1 .. n)) = n
<1>1. IsFiniteSet({x}) /\ Cardinality({x}) = 1
  BY FS_Singleton
<1>2. IsFiniteSet(1 .. n) /\ Cardinality(1 .. n) = n
  BY FS_Interval, SMT
<1>3. /\ IsFiniteSet({x} \X (1 .. n))
      /\ Cardinality({x} \X (1 .. n)) = Cardinality({x}) * Cardinality(1 .. n)
  BY <1>1, <1>2, FS_Product, Zenon
<1>4. 1 * n = n
  OBVIOUS
<1>5. QED
  BY <1>1, <1>2, <1>3, <1>4, Zenon

\* Finitely many rows have finitely many units.
LEMMA UnitsFinite ==
    ASSUME NEW S, IsFiniteSet(S), NEW f \in [S -> Nat]
    PROVE  IsFiniteSet(Units(f)) /\ Total(f) \in Nat
<1> DEFINE Row(x) == {x} \X (1 .. f[x])
           Rows   == {Row(x) : x \in S}
<1> DEFINE row == [x \in S |-> Row(x)]
<1>1. IsFiniteSet(Rows)
  <2>1. row \in Surjection(S, Rows)
    BY DEF Surjection
  <2>2. QED
    BY <2>1, FS_Surjection, Zenon
<1>2. \A r \in Rows : IsFiniteSet(r)
  <2>1. \A x \in S : f[x] \in Nat
    OBVIOUS
  <2>2. \A x \in S : IsFiniteSet(Row(x))
    BY <2>1, RowUnits, Zenon
  <2>3. QED
    BY <2>2, Zenon
<1>3. QED
  BY <1>1, <1>2, FS_UNION, FS_CardinalityType DEF Units, Total

\* Nothing held, nothing counted.
LEMMA TotalOfNothing ==
    ASSUME NEW S
    PROVE  Total([x \in S |-> 0]) = 0
<1>1. Units([x \in S |-> 0]) = {}
  BY SMT DEF Units
<1>2. QED
  BY <1>1, FS_EmptySet DEF Total

\* What the rows other than x have.
Without(f, x) == Total([f EXCEPT ![x] = 0])

\* A total is the total of the other rows and the amount of one.
LEMMA TotalSplit ==
    ASSUME NEW S, IsFiniteSet(S), NEW f \in [S -> Nat], NEW x \in S
    PROVE  Total(f) = Cardinality(UNION {{y} \X (1 .. f[y]) : y \in S \ {x}}) + f[x]
<1> DEFINE Rest == UNION {{y} \X (1 .. f[y]) : y \in S \ {x}}
           Row  == {x} \X (1 .. f[x])
<1>1. Units(f) = Rest \cup Row
  BY DEF Units
<1>2. Rest \cap Row = {}
  OBVIOUS
<1>3. IsFiniteSet(Rest)
  BY <1>1, UnitsFinite, FS_Subset
<1>4. f[x] \in Nat
  OBVIOUS
<1>5. IsFiniteSet(Row) /\ Cardinality(Row) = f[x]
  BY <1>4, RowUnits, Zenon
<1> HIDE DEF Row, Rest
<1>6. Cardinality(Rest \cup Row)
        = Cardinality(Rest) + Cardinality(Row) - Cardinality(Rest \cap Row)
  BY <1>3, <1>5, FS_Union
<1>7. Cardinality(Rest) \in Nat /\ Cardinality(Rest \cap Row) = 0
  BY <1>2, <1>3, FS_CardinalityType, FS_EmptySet, Zenon
<1>8. Cardinality(Rest \cup Row) = Cardinality(Rest) + f[x]
  BY <1>4, <1>5, <1>6, <1>7
<1>9. QED
  BY <1>1, <1>8 DEF Total, Rest

\* Changing the amount of one row leaves what the other rows have.
LEMMA TotalUpdate ==
    ASSUME NEW S, IsFiniteSet(S), NEW f \in [S -> Nat], NEW x \in S, NEW v \in Nat
    PROVE  Total([f EXCEPT ![x] = v]) = Without(f, x) + v
<1> DEFINE Rest(g) == Cardinality(UNION {{y} \X (1 .. g[y]) : y \in S \ {x}})
           g == [f EXCEPT ![x] = v]
           z == [f EXCEPT ![x] = 0]
<1>1. /\ g \in [S -> Nat] /\ g[x] = v
      /\ z \in [S -> Nat] /\ z[x] = 0
      /\ \A y \in S \ {x} : g[y] = f[y] /\ z[y] = f[y]
  OBVIOUS
<1> HIDE DEF g, z
<1>2. Total(g) = Rest(g) + g[x] /\ Total(z) = Rest(z) + z[x]
  BY <1>1, TotalSplit
<1>3. Rest(g) = Rest(z)
  BY <1>1
<1>4. Total(z) \in Nat
  BY <1>1, UnitsFinite
<1>5. Rest(z) \in Nat
  <2>1. UNION {{y} \X (1 .. z[y]) : y \in S \ {x}} \subseteq Units(z)
    BY <1>1 DEF Units
  <2>2. QED
    BY <1>1, <2>1, UnitsFinite, FS_Subset, FS_CardinalityType
<1> HIDE DEF Rest
<1>6. Total(z) = Rest(z)
  BY <1>1, <1>2, <1>5
<1>7. QED
  BY <1>1, <1>2, <1>3, <1>6 DEF Without, g, z

\* The amount of a row is part of the total.
LEMMA RowWithinTotal ==
    ASSUME NEW S, IsFiniteSet(S), NEW f \in [S -> Nat], NEW x \in S
    PROVE  Without(f, x) \in Nat /\ Total(f) = Without(f, x) + f[x]
<1>1. [f EXCEPT ![x] = 0] \in [S -> Nat] /\ f[x] \in Nat /\ [f EXCEPT ![x] = f[x]] = f
  OBVIOUS
<1>2. Without(f, x) \in Nat
  BY <1>1, UnitsFinite DEF Without
<1>3. \A v \in Nat : Total([f EXCEPT ![x] = v]) = Without(f, x) + v
  BY TotalUpdate
<1>4. QED
  BY <1>1, <1>2, <1>3

(***************************************************************************)
(* The invariants of PaymentExecution.                                     *)
(***************************************************************************)
\* Every step of the system is one of these.
LEMMA NextCases ==
    ASSUME Next
    PROVE  \/ \E l \in 0 .. MaxLiability : UpdateGratuity(l)
           \/ FreezeCheck
           \/ CancelCheck
           \/ \E p \in Payments, a \in 1 .. MaxLiability : InitiateCash(p, a)
           \/ \E w \in Workers, p \in Payments, a \in 1 .. MaxLiability, c \in Configs :
                 InitiateCard(w, p, a, c)
           \/ \E w \in Workers, p \in Payments :
                 Retry(w, p) \/ RecoverStale(w, p) \/ RecoverUncertain(w, p)
           \/ \E w \in Workers : ClaimExecute(w) \/ ClaimRecover(w) \/ ClaimLost(w)
           \/ \E w \in Workers : Revalidate(w) \/ ExecutorUnavailable(w)
                                 \/ CreateOrder(w) \/ QueryOrder(w)
           \/ \E w \in Workers, r \in Refs : ReuseOrder(w, r)
           \/ \E w \in Workers : FinishDiscarded(w) \/ FinishRolledBack(w) \/ Crash(w)
           \/ \E w \in Workers : FinishSucceeded(w) \/ FinishConflict(w)
                                 \/ FinishUnsuccessful(w)
           \/ \E p \in Payments : LeaseExpires(p)
           \/ \E r \in Refs : OrderResolves(r)
           \/ \E c \in Configs : ToggleConfig(c)
  BY DEF Next, Request, Step

-----------------------------------------------------------------------------
(* Claims and workers.                                                     *)

\* The initial state.
LEMMA ClaimInvInit == Init => ClaimInv
  BY PaymentAssumption
  DEF Init, ClaimInv, TypeOK, JobsConsistent, AttemptsBounded, SingleOwner, Idle, Job,
      JobConsistent, ExclusiveAttempts, OwnedOnce, Owning, PaymentStates, OrderStatus, Refs, NoRef

\* Steps that touch neither a claim, an attempt nor a worker.
LEMMA QuietKeepsClaimInv ==
    ASSUME ClaimInv, UNCHANGED <<state, claim, attempts, job>>, TypeOK'
    PROVE  ClaimInv'
  BY DEF ClaimInv, JobsConsistent, JobConsistent, ExclusiveAttempts, AttemptsBounded,
         SingleOwner, OwnedOnce

\* Steps that only end one worker's request.
LEMMA IdleKeepsClaimInv ==
    ASSUME ClaimInv, NEW w \in Workers, job' = [job EXCEPT ![w] = Idle],
           UNCHANGED <<checkVars, paymentVars, active, orders>>
    PROVE  ClaimInv'
<1>1. TypeOK'
  <2>1. Idle \in Job
    BY DEF Idle, Job
  <2>2. QED
    BY <2>1 DEF ClaimInv, TypeOK, checkVars, paymentVars
<1>2. JobsConsistent'
  <2>1. job'[w].pc = "idle" /\ \A v \in Workers \ {w} : job'[v] = job[v]
    BY DEF ClaimInv, TypeOK, Idle
  <2>2. QED
    BY <2>1 DEF ClaimInv, JobsConsistent, JobConsistent, ExclusiveAttempts, Owning, paymentVars
<1>3. AttemptsBounded' /\ SingleOwner'
  BY DEF ClaimInv, AttemptsBounded, SingleOwner, OwnedOnce, paymentVars
<1>4. QED
  BY <1>1, <1>2, <1>3 DEF ClaimInv

\* Steps that only give one worker, on the attempt it owns, its next task.
LEMMA AdvanceKeepsClaimInv ==
    ASSUME ClaimInv, NEW w \in Workers, job[w].pc \in {"execute", "call", "query"},
           NEW j \in Job, job' = [job EXCEPT ![w] = j],
           j.payment = job[w].payment, j.token = job[w].token,
           j.pc = "call" \/ (j.pc = "finish" /\ j.state \in ResultStates),
           UNCHANGED <<checkVars, paymentVars, active>>, orders' \in [Refs -> OrderStatus]
    PROVE  ClaimInv'
<1>1. TypeOK'
  BY DEF ClaimInv, TypeOK, checkVars, paymentVars
<1>2. JobsConsistent'
  <2>1. job'[w] = j /\ \A v \in Workers \ {w} : job'[v] = job[v]
    BY DEF ClaimInv, TypeOK
  <2>2. state' = state /\ attempts' = attempts
    BY DEF paymentVars
  <2>3. QED
    BY <2>1, <2>2
    DEF ClaimInv, JobsConsistent, JobConsistent, ExclusiveAttempts, Owning
<1>3. AttemptsBounded' /\ SingleOwner'
  BY DEF ClaimInv, AttemptsBounded, SingleOwner, OwnedOnce, paymentVars
<1>4. QED
  BY <1>1, <1>2, <1>3 DEF ClaimInv

\* A worker gets a result for its attempt.
LEMMA AnswerKeepsClaimInv ==
    ASSUME ClaimInv, NEW w \in Workers, job[w].pc \in {"execute", "call", "query"},
           NEW s \in ResultStates, NEW r \in Refs \cup {NoRef}, Answer(w, s, r),
           UNCHANGED <<checkVars, paymentVars, active>>, orders' \in [Refs -> OrderStatus]
    PROVE  ClaimInv'
<1> DEFINE j == [job[w] EXCEPT !.pc = "finish", !.state = s, !.ref = r]
<1>1. job[w] \in Job
  BY DEF ClaimInv, TypeOK
<1>2. /\ j \in Job
      /\ j.payment = job[w].payment /\ j.token = job[w].token
      /\ j.pc = "finish" /\ j.state \in ResultStates
  BY <1>1 DEF Job
<1>3. job' = [job EXCEPT ![w] = j]
  BY DEF Answer
<1> HIDE DEF j
<1>4. QED
  BY <1>2, <1>3, AdvanceKeepsClaimInv

\* A worker claims a payment nobody owns: the new attempt is the only one in
\* progress, and recoveries that were about to claim it have lost.
LEMMA ClaimKeepsClaimInv ==
    ASSUME ClaimInv, NEW w \in Workers, NEW p \in Payments,
           state[p] # "IN_PROGRESS", Len(attempts[p]) < MaxAttempts,
           NEW type \in {"EXECUTE", "RETRY", "RECOVER", "STALE_RECOVERY"}, Claim(p, type),
           NEW j \in Job, job' = [job EXCEPT ![w] = j], j.pc \in {"execute", "query"},
           j.payment = p, j.token = Len(attempts[p]) + 1
    PROVE  ClaimInv'
<1> DEFINE row == [type |-> type, result |-> "IN_PROGRESS", ref |-> NoRef]
           n   == Len(attempts[p])
<1>1. /\ attempts \in [Payments -> Seq(AttemptRow)] /\ attempts[p] \in Seq(AttemptRow)
      /\ row \in AttemptRow /\ n \in Nat
  <2>1. attempts \in [Payments -> Seq(AttemptRow)]
    BY DEF ClaimInv, TypeOK
  <2>2. row \in AttemptRow
    BY DEF AttemptRow
  <2>3. QED
    BY <2>1, <2>2
<1>2. attempts' = [attempts EXCEPT ![p] = Append(attempts[p], row)]
  BY DEF Claim
<1>3. /\ Append(attempts[p], row) \in Seq(AttemptRow)
      /\ Len(Append(attempts[p], row)) = n + 1
      /\ Append(attempts[p], row)[n + 1] = row
      /\ \A i \in 1 .. n : Append(attempts[p], row)[i] = attempts[p][i]
      /\ DOMAIN Append(attempts[p], row) = 1 .. (n + 1) /\ DOMAIN attempts[p] = 1 .. n
  BY <1>1
<1>4. /\ attempts'[p] = Append(attempts[p], row)
      /\ \A q \in Payments \ {p} : attempts'[q] = attempts[q]
      /\ attempts' \in [Payments -> Seq(AttemptRow)]
  BY <1>1, <1>2, <1>3
<1> HIDE DEF row
<1>5. TypeOK'
  <2>1. n + 1 \in 0 .. MaxAttempts
    BY <1>1, PaymentAssumption
  <2>2. QED
    BY <1>4, <2>1 DEF ClaimInv, TypeOK, Claim, checkVars, PaymentStates, ReservingStates
<1>6. /\ claim'[p] = n + 1 /\ state'[p] = "IN_PROGRESS"
      /\ \A q \in Payments \ {p} : claim'[q] = claim[q] /\ state'[q] = state[q]
  BY DEF Claim, ClaimInv, TypeOK
<1>7. JobsConsistent'
  <2>1. job'[w] = j /\ \A v \in Workers \ {w} : job'[v] = job[v] /\ job[v] \in Job
    BY DEF ClaimInv, TypeOK
  <2>2. Len(attempts'[p]) = n + 1
    BY <1>3, <1>4
  <2>3. \A v \in Workers \ {w} :
          /\ job[v].pc \in Owning /\ job[v].payment = p => job[v].token \in 1 .. n
          /\ job[v].pc = "reclaim" /\ job[v].payment = p => job[v].token <= n
    BY DEF ClaimInv, JobsConsistent, JobConsistent
  <2>4. ASSUME NEW v \in Workers
        PROVE  JobConsistent(v)'
    <3>1. CASE v = w
      BY <1>1, <2>1, <2>2, <3>1 DEF Owning, JobConsistent
    <3>2. CASE v # w /\ job[v].payment = p
      BY <1>1, <2>1, <2>2, <2>3, <3>2 DEF ClaimInv, JobsConsistent, JobConsistent, Job
    <3>3. CASE v # w /\ job[v].payment # p
      <4>1. job[v].pc # "idle" =>
              /\ attempts'[job[v].payment] = attempts[job[v].payment]
              /\ state'[job[v].payment] = state[job[v].payment]
        BY <1>4, <1>6, <3>3 DEF ClaimInv, JobsConsistent, JobConsistent
      <4>2. QED
        BY <2>1, <3>3, <4>1 DEF ClaimInv, JobsConsistent, JobConsistent, Owning
    <3>4. QED
      BY <3>1, <3>2, <3>3
  <2>5. ASSUME NEW u \in Workers, NEW v \in Workers, u # v,
               {job'[u].pc, job'[v].pc} \subseteq Owning, job'[u].payment = job'[v].payment
        PROVE  job'[u].token # job'[v].token
    <3>1. CASE u = w
      BY <1>1, <2>1, <2>3, <2>5, <3>1
    <3>2. CASE v = w
      BY <1>1, <2>1, <2>3, <2>5, <3>2
    <3>3. CASE u # w /\ v # w
      BY <2>1, <2>5, <3>3 DEF ClaimInv, JobsConsistent, ExclusiveAttempts
    <3>4. QED
      BY <3>1, <3>2, <3>3
  <2>6. QED
    BY <2>4, <2>5 DEF JobsConsistent, ExclusiveAttempts
<1>8. AttemptsBounded'
  BY <1>1, <1>3, <1>4, PaymentAssumption DEF ClaimInv, AttemptsBounded
<1>9. SingleOwner'
  <2>1. \A i \in 1 .. n : attempts[p][i].result # "IN_PROGRESS"
    BY <1>3 DEF ClaimInv, SingleOwner, OwnedOnce
  <2>2. {i \in DOMAIN attempts'[p] : attempts'[p][i].result = "IN_PROGRESS"} = {n + 1}
    BY <1>1, <1>3, <1>4, <2>1 DEF row
  <2>3. ASSUME NEW q \in Payments, q # p
        PROVE  attempts'[q] = attempts[q] /\ claim'[q] = claim[q] /\ state'[q] = state[q]
    BY <1>4, <1>6, <2>3
  <2>4. ASSUME NEW q \in Payments
        PROVE  OwnedOnce(q)'
    <3>1. CASE q = p
      <4>1. Len(attempts'[p]) = n + 1
        BY <1>3, <1>4
      <4>2. QED
        BY <1>6, <2>2, <3>1, <4>1 DEF OwnedOnce
    <3>2. CASE q # p
      <4>1. OwnedOnce(q)
        BY DEF ClaimInv, SingleOwner
      <4>2. QED
        BY <2>3, <3>2, <4>1 DEF OwnedOnce
    <3>3. QED
      BY <3>1, <3>2
  <2>5. QED
    BY <2>4 DEF SingleOwner
<1>10. QED
  BY <1>5, <1>7, <1>8, <1>9 DEF ClaimInv

\* The owner's attempt gets a result and the payment is released: by _finish,
\* or by the recovery that fences an expired attempt.
LEMMA ReleaseKeepsClaimInv ==
    ASSUME ClaimInv, NEW w \in Workers, NEW p \in Payments, state[p] = "IN_PROGRESS",
           NEW row \in AttemptRow, row.result # "IN_PROGRESS",
           NEW s \in ResultStates, NEW j \in Job,
           attempts' = [attempts EXCEPT ![p][claim[p]] = row],
           state' = [state EXCEPT ![p] = s], claim' = [claim EXCEPT ![p] = 0],
           job' = [job EXCEPT ![w] = j],
           \/ j = Idle
           \/ /\ j.pc = "reclaim" /\ j.payment = p /\ j.token = Len(attempts[p])
              /\ j.type # "NONE" /\ Len(attempts[p]) < MaxAttempts /\ s = "UNCERTAIN",
           TypeOK'
    PROVE  ClaimInv'
<1> DEFINE n == Len(attempts[p])
<1>1. /\ attempts[p] \in Seq(AttemptRow) /\ attempts \in [Payments -> Seq(AttemptRow)]
      /\ n \in Nat /\ DOMAIN attempts[p] = 1 .. n
  BY DEF ClaimInv, TypeOK
<1>2. /\ claim[p] = n
      /\ {i \in DOMAIN attempts[p] : attempts[p][i].result = "IN_PROGRESS"} = {n}
  BY DEF ClaimInv, SingleOwner, OwnedOnce
<1>3. /\ Len(attempts'[p]) = n /\ DOMAIN attempts'[p] = 1 .. n
      /\ \A i \in 1 .. n : attempts'[p][i] = IF i = n THEN row ELSE attempts[p][i]
      /\ \A q \in Payments \ {p} : attempts'[q] = attempts[q]
  BY <1>1, <1>2
<1>4. /\ claim'[p] = 0 /\ state'[p] = s /\ s # "IN_PROGRESS"
      /\ \A q \in Payments \ {p} : claim'[q] = claim[q] /\ state'[q] = state[q]
  BY DEF ClaimInv, TypeOK, ResultStates
<1>5. JobsConsistent'
  <2>1. job'[w] = j /\ \A v \in Workers \ {w} : job'[v] = job[v]
    BY DEF ClaimInv, TypeOK
  <2>2. \A q \in Payments : Len(attempts'[q]) = Len(attempts[q])
    BY <1>3
  <2>3. ASSUME NEW v \in Workers PROVE JobConsistent(v)'
    <3>1. CASE v = w
      BY <1>1, <1>4, <2>1, <2>2, <3>1 DEF JobConsistent, Idle, Owning
    <3>2. CASE v # w
      <4>1. JobConsistent(v)
        BY DEF ClaimInv, JobsConsistent
      <4>2. job[v].pc = "reclaim" /\ state[job[v].payment] = "UNCERTAIN" => job[v].payment # p
        OBVIOUS
      <4>3. QED
        BY <1>4, <2>1, <2>2, <3>2, <4>1, <4>2 DEF JobConsistent, Owning
    <3>3. QED
      BY <3>1, <3>2
  <2>4. ExclusiveAttempts'
    <3>1. job'[w].pc \notin Owning
      BY <2>1 DEF Idle, Owning
    <3>2. QED
      BY <2>1, <3>1 DEF ClaimInv, JobsConsistent, ExclusiveAttempts
  <2>5. QED
    BY <2>3, <2>4 DEF JobsConsistent
<1>6. AttemptsBounded'
  BY <1>3 DEF ClaimInv, AttemptsBounded
<1>7. ASSUME NEW q \in Payments PROVE OwnedOnce(q)'
  <2>1. CASE q = p
    BY <1>2, <1>1, <1>3, <1>4, <2>1 DEF OwnedOnce
  <2>2. CASE q # p
    <3>1. OwnedOnce(q)
      BY DEF ClaimInv, SingleOwner
    <3>2. QED
      BY <1>3, <1>4, <2>2, <3>1 DEF OwnedOnce
  <2>3. QED
    BY <2>1, <2>2
<1>8. QED
  BY <1>5, <1>6, <1>7 DEF ClaimInv, SingleOwner

\* One step of the system, action by action.
LEMMA ClaimInvNext == ASSUME ClaimInv, [Next]_vars PROVE ClaimInv'
<1>t. TypeOK /\ JobsConsistent /\ AttemptsBounded /\ SingleOwner
  BY DEF ClaimInv
<1>1. CASE UNCHANGED vars
  BY <1>1, <1>t, QuietKeepsClaimInv DEF vars, TypeOK
<1>2. ASSUME NEW l \in 0 .. MaxLiability, UpdateGratuity(l) PROVE ClaimInv'
  BY <1>2, <1>t, QuietKeepsClaimInv DEF UpdateGratuity, paymentVars, TypeOK
<1>3. CASE FreezeCheck \/ CancelCheck
  BY <1>3, <1>t, QuietKeepsClaimInv DEF FreezeCheck, CancelCheck, paymentVars, TypeOK
<1>4. ASSUME NEW p \in Payments, LeaseExpires(p) PROVE ClaimInv'
  BY <1>4, <1>t, QuietKeepsClaimInv DEF LeaseExpires, checkVars, TypeOK
<1>5. ASSUME NEW r \in Refs, OrderResolves(r) PROVE ClaimInv'
  <2>1. TypeOK'
    BY <1>5, <1>t DEF OrderResolves, checkVars, paymentVars, TypeOK, OrderStatus
  <2>2. QED
    BY <1>5, <2>1, QuietKeepsClaimInv DEF OrderResolves, paymentVars
<1>6. ASSUME NEW c \in Configs, ToggleConfig(c) PROVE ClaimInv'
  <2>1. TypeOK'
    BY <1>6, <1>t DEF ToggleConfig, checkVars, paymentVars, TypeOK
  <2>2. QED
    BY <1>6, <2>1, QuietKeepsClaimInv DEF ToggleConfig, paymentVars
<1>7. ASSUME NEW p \in Payments, NEW a \in 1 .. MaxLiability, InitiateCash(p, a)
      PROVE  ClaimInv'
  <2>1. /\ state[p] = "NONE" /\ state' = [state EXCEPT ![p] = "SUCCEEDED"]
        /\ UNCHANGED <<claim, attempts, job>>
    BY <1>7 DEF InitiateCash, MayInitiate, claimVars
  <2>2. TypeOK'
    <3>1. a \in Nat /\ a \in 0 .. MaxLiability
      BY PaymentAssumption
    <3>2. checkStatus' \in {"FROZEN", "SETTLED"} /\ settlement' \in [Payments -> Nat]
      BY <1>7, <1>t, <3>1 DEF InitiateCash, ApplySuccess, TypeOK
    <3>3. QED
      BY <1>7, <1>t, <3>1, <3>2
      DEF InitiateCash, claimVars, TypeOK, PaymentStates, ResultStates
  <2>3. SingleOwner'
    BY <1>t, <2>1 DEF SingleOwner, OwnedOnce, TypeOK
  <2>4. JobsConsistent' /\ AttemptsBounded'
    BY <1>t, <2>1
    DEF JobsConsistent, JobConsistent, ExclusiveAttempts, AttemptsBounded, TypeOK
  <2>5. QED
    BY <2>2, <2>3, <2>4 DEF ClaimInv
<1>8. ASSUME NEW w \in Workers, NEW p \in Payments, NEW a \in 1 .. MaxLiability,
             NEW c \in Configs, InitiateCard(w, p, a, c)
      PROVE  ClaimInv'
  <2> DEFINE j == [Idle EXCEPT !.pc = "claim", !.payment = p]
  <2>1. /\ state[p] = "NONE" /\ state' = [state EXCEPT ![p] = "RESERVED"]
        /\ UNCHANGED <<claim, attempts>> /\ job' = [job EXCEPT ![w] = j]
    BY <1>8 DEF InitiateCard, MayInitiate, claimVars
  <2>2. j \in Job /\ j.pc = "claim" /\ j.payment = p
    BY DEF Idle, Job
  <2> HIDE DEF j
  <2>3. TypeOK'
    <3>1. a \in 0 .. MaxLiability
      BY PaymentAssumption
    <3>2. QED
      BY <1>8, <1>t, <2>1, <2>2, <3>1
      DEF InitiateCard, claimVars, TypeOK, PaymentStates, ReservingStates
  <2>4. SingleOwner'
    BY <1>t, <2>1 DEF SingleOwner, OwnedOnce, TypeOK
  <2>5. job'[w] = j /\ \A v \in Workers \ {w} : job'[v] = job[v]
    BY <1>t, <2>1 DEF TypeOK
  <2>6. JobsConsistent' /\ AttemptsBounded'
    BY <1>t, <2>1, <2>2, <2>5
    DEF JobsConsistent, JobConsistent, ExclusiveAttempts, AttemptsBounded, TypeOK, Owning
  <2>7. QED
    BY <2>3, <2>4, <2>6 DEF ClaimInv
<1>9. ASSUME NEW w \in Workers, NEW p \in Payments, Retry(w, p) PROVE ClaimInv'
  <2> DEFINE m == Len(attempts[p]) + 1
             j == [Idle EXCEPT !.pc = "execute", !.payment = p, !.token = m]
  <2>1. /\ state[p] # "IN_PROGRESS" /\ Len(attempts[p]) < MaxAttempts
        /\ Claim(p, "RETRY") /\ job' = [job EXCEPT ![w] = j]
    BY <1>9 DEF Retry
  <2>2. m \in Nat
    BY <1>t DEF TypeOK
  <2> HIDE DEF m
  <2>3. j \in Job /\ j.pc = "execute" /\ j.payment = p /\ j.token = m
    BY <2>2 DEF Idle, Job
  <2> HIDE DEF j
  <2>4. QED
    BY <2>1, <2>3, ClaimKeepsClaimInv DEF m
<1>10. ASSUME NEW w \in Workers, ClaimExecute(w) PROVE ClaimInv'
  <2> DEFINE p == job[w].payment
             m == Len(attempts[p]) + 1
             j == [job[w] EXCEPT !.pc = "execute", !.token = m]
  <2>1. /\ state[p] # "IN_PROGRESS" /\ Len(attempts[p]) < MaxAttempts
        /\ Claim(p, "EXECUTE") /\ job' = [job EXCEPT ![w] = j]
    BY <1>10 DEF ClaimExecute
  <2>2. job[w] \in Job /\ p \in Payments /\ m \in Nat
    BY <1>10, <1>t DEF ClaimExecute, TypeOK, JobsConsistent, JobConsistent
  <2> HIDE DEF m
  <2>3. j \in Job /\ j.pc = "execute" /\ j.payment = p /\ j.token = m
    BY <2>2 DEF Job
  <2> HIDE DEF j, p
  <2>4. QED
    BY <2>1, <2>2, <2>3, ClaimKeepsClaimInv DEF m
<1>11. ASSUME NEW w \in Workers, ClaimRecover(w) PROVE ClaimInv'
  <2> DEFINE p == job[w].payment
             m == Len(attempts[p]) + 1
             j == [job[w] EXCEPT !.pc = "query", !.token = m, !.ref = ref[p]]
  <2>1. /\ job[w].pc = "reclaim" /\ Len(attempts[p]) = job[w].token
        /\ Claim(p, job[w].type) /\ job' = [job EXCEPT ![w] = j]
    BY <1>11 DEF ClaimRecover
  <2>2. job[w] \in Job /\ JobConsistent(w)
    BY <1>t DEF TypeOK, JobsConsistent
  <2>3. /\ p \in Payments /\ Len(attempts[p]) < MaxAttempts /\ state[p] # "IN_PROGRESS"
        /\ job[w].type \in {"EXECUTE", "RETRY", "RECOVER", "STALE_RECOVERY"}
    BY <2>1, <2>2 DEF JobConsistent, Job
  <2>4. ref[p] \in Refs \cup {NoRef} /\ m \in Nat
    BY <1>t, <2>3 DEF TypeOK
  <2> HIDE DEF m
  <2>5. j \in Job /\ j.pc = "query" /\ j.payment = p /\ j.token = m
    BY <2>2, <2>4 DEF Job
  <2> HIDE DEF j, p
  <2>6. QED
    BY <2>1, <2>3, <2>5, ClaimKeepsClaimInv DEF m
<1>12. ASSUME NEW w \in Workers, ClaimLost(w) \/ FinishDiscarded(w)
                                \/ FinishRolledBack(w) \/ Crash(w)
       PROVE  ClaimInv'
  BY <1>12, IdleKeepsClaimInv DEF ClaimLost, FinishDiscarded, FinishRolledBack, Crash
<1>13. ASSUME NEW w \in Workers, Revalidate(w) PROVE ClaimInv'
  <2> DEFINE j == [job[w] EXCEPT !.pc = "call"]
  <2>1. job[w] \in Job /\ orders' \in [Refs -> OrderStatus]
    BY <1>13, <1>t DEF TypeOK, Revalidate
  <2>2. j \in Job /\ j.pc = "call" /\ j.payment = job[w].payment /\ j.token = job[w].token
    BY <2>1 DEF Job
  <2>3. /\ job[w].pc = "execute" /\ job' = [job EXCEPT ![w] = j]
        /\ UNCHANGED <<checkVars, paymentVars, active>>
    BY <1>13 DEF Revalidate
  <2> HIDE DEF j
  <2>4. QED
    BY <2>1, <2>2, <2>3, AdvanceKeepsClaimInv
<1>14. ASSUME NEW w \in Workers, ExecutorUnavailable(w) PROVE ClaimInv'
  <2>1. "FAILED" \in ResultStates /\ orders' \in [Refs -> OrderStatus]
    BY <1>14, <1>t DEF ExecutorUnavailable, TypeOK, ResultStates
  <2>2. QED
    BY <1>14, <2>1, AnswerKeepsClaimInv DEF ExecutorUnavailable
<1>15. ASSUME NEW w \in Workers, CreateOrder(w) PROVE ClaimInv'
  <2> DEFINE r == <<job[w].payment, job[w].token>>
  <2>1. PICK s \in OrderStatus : \E answer \in ExecutionAnswers(r, s) :
            /\ orders' = [orders EXCEPT ![r] = s]
            /\ Answer(w, answer[1], answer[2])
    BY <1>15 DEF CreateOrder
  <2>2. PICK answer \in ExecutionAnswers(r, s) : Answer(w, answer[1], answer[2])
    BY <2>1
  <2>3. r \in Refs
    <3>1. job[w].pc = "call" /\ JobConsistent(w)
      BY <1>15, <1>t DEF CreateOrder, JobsConsistent
    <3>2. /\ job[w].payment \in Payments /\ Len(attempts[job[w].payment]) <= MaxAttempts
          /\ job[w].token \in 1 .. Len(attempts[job[w].payment])
          /\ Len(attempts[job[w].payment]) \in Nat
      BY <1>t, <3>1 DEF JobConsistent, AttemptsBounded, Owning, TypeOK
    <3>3. QED
      BY <3>2, PaymentAssumption DEF Refs
  <2>4. answer[1] \in ResultStates /\ answer[2] \in Refs \cup {NoRef}
    BY <2>2, <2>3 DEF ExecutionAnswers, ExecutionState, ResultStates
  <2>5. orders' \in [Refs -> OrderStatus]
    BY <1>t, <2>1 DEF TypeOK
  <2>6. QED
    BY <1>15, <2>2, <2>4, <2>5, AnswerKeepsClaimInv DEF CreateOrder
<1>16. ASSUME NEW w \in Workers, NEW r \in Refs, ReuseOrder(w, r) PROVE ClaimInv'
  <2>1. ExecutionState(orders[r]) \in ResultStates /\ orders' \in [Refs -> OrderStatus]
    BY <1>16, <1>t DEF ReuseOrder, ExecutionState, ResultStates, TypeOK
  <2>2. QED
    BY <1>16, <2>1, AnswerKeepsClaimInv DEF ReuseOrder
<1>17. ASSUME NEW w \in Workers, QueryOrder(w) PROVE ClaimInv'
  <2>1. PICK answer \in RecoveryAnswers(job[w].ref) : Answer(w, answer[1], answer[2])
    BY <1>17 DEF QueryOrder
  <2>2. job[w].ref \in Refs \cup {NoRef} /\ orders' \in [Refs -> OrderStatus]
    BY <1>17, <1>t DEF TypeOK, Job, QueryOrder
  <2>3. answer[1] \in ResultStates /\ answer[2] \in Refs \cup {NoRef}
    BY <2>1, <2>2 DEF RecoveryAnswers, RecoveryState, ResultStates
  <2>4. QED
    BY <1>17, <2>1, <2>2, <2>3, AnswerKeepsClaimInv DEF QueryOrder
<1>18. ASSUME NEW w \in Workers, NEW p \in Payments, RecoverUncertain(w, p) PROVE ClaimInv'
  <2> DEFINE j == [Idle EXCEPT !.pc = "reclaim", !.payment = p,
                    !.token = Len(attempts[p]), !.type = "RECOVER"]
  <2>1. Len(attempts[p]) \in Nat
    BY <1>t DEF TypeOK
  <2>2. /\ j \in Job /\ j.pc = "reclaim" /\ j.payment = p
        /\ j.token = Len(attempts[p]) /\ j.type = "RECOVER"
    BY <2>1 DEF Idle, Job
  <2>3. /\ state[p] = "UNCERTAIN" /\ Len(attempts[p]) < MaxAttempts
        /\ job' = [job EXCEPT ![w] = j]
        /\ UNCHANGED <<checkVars, paymentVars, active, orders>>
    BY <1>18 DEF RecoverUncertain
  <2> HIDE DEF j
  <2>4. TypeOK'
    BY <1>t, <2>2, <2>3 DEF TypeOK, checkVars, paymentVars
  <2>5. job'[w] = j /\ \A v \in Workers \ {w} : job'[v] = job[v]
    BY <1>t, <2>3 DEF TypeOK
  <2>6. JobsConsistent'
    BY <1>t, <2>1, <2>2, <2>3, <2>5
    DEF JobsConsistent, JobConsistent, ExclusiveAttempts, Owning, paymentVars
  <2>7. AttemptsBounded' /\ SingleOwner'
    BY <1>t, <2>3 DEF AttemptsBounded, SingleOwner, OwnedOnce, paymentVars
  <2>8. QED
    BY <2>4, <2>6, <2>7 DEF ClaimInv
<1>19. ASSUME NEW w \in Workers, NEW p \in Payments, RecoverStale(w, p) PROVE ClaimInv'
  <2> DEFINE n   == claim[p]
             row == [type |-> attempts[p][n].type, result |-> "FENCED", ref |-> NoRef]
             j   == [Idle EXCEPT !.pc = "reclaim", !.payment = p,
                       !.token = Len(attempts[p]), !.type = "STALE_RECOVERY"]
  <2>1. /\ state[p] = "IN_PROGRESS" /\ Len(attempts[p]) < MaxAttempts
        /\ state' = [state EXCEPT ![p] = "UNCERTAIN"]
        /\ claim' = [claim EXCEPT ![p] = 0] /\ lapsed' = [lapsed EXCEPT ![p] = FALSE]
        /\ job' = [job EXCEPT ![w] = j]
        /\ UNCHANGED <<checkVars, amount, config, ref, settlement, active, orders>>
    BY <1>19 DEF RecoverStale
  <2>2. /\ attempts[p] \in Seq(AttemptRow) /\ Len(attempts[p]) \in Nat
        /\ n \in DOMAIN attempts[p] /\ attempts[p][n].result = "IN_PROGRESS"
    BY <1>t, <2>1 DEF TypeOK, SingleOwner, OwnedOnce
  <2>3. attempts[p][n] \in AttemptRow
    BY <2>2
  <2>4. row \in AttemptRow /\ row.result = "FENCED"
    BY <2>3 DEF AttemptRow
  <2>5. attempts' = [attempts EXCEPT ![p][claim[p]] = row]
    BY <1>19, <2>2 DEF RecoverStale, Complete
  <2>6. /\ j \in Job /\ j.pc = "reclaim" /\ j.payment = p
        /\ j.token = Len(attempts[p]) /\ j.type # "NONE"
    BY <2>2 DEF Idle, Job
  <2> HIDE DEF j, row
  <2>7. TypeOK'
    <3>1. attempts' \in [Payments -> Seq(AttemptRow)]
      BY <1>t, <2>2, <2>4, <2>5 DEF TypeOK
    <3>2. state' \in [Payments -> PaymentStates] /\ claim' \in [Payments -> 0 .. MaxAttempts]
      BY <1>t, <2>1, PaymentAssumption DEF TypeOK, PaymentStates, ReservingStates
    <3>3. lapsed' \in [Payments -> BOOLEAN] /\ job' \in [Workers -> Job]
      BY <1>t, <2>1, <2>6 DEF TypeOK
    <3>4. QED
      BY <1>t, <2>1, <3>1, <3>2, <3>3 DEF TypeOK, checkVars
  <2>8. "UNCERTAIN" \in ResultStates
    BY DEF ResultStates
  <2>9. QED
    BY <2>1, <2>4, <2>5, <2>6, <2>7, <2>8, ReleaseKeepsClaimInv
<1>20. ASSUME NEW w \in Workers, NEW s \in ResultStates, NEW r \in Refs \cup {NoRef},
              job[w].pc = "finish", Owns(w), Record(w, s, r),
              checkStatus' \in {"OPEN", "FROZEN", "SETTLED", "CANCELLED"},
              settlement' \in [Payments -> Nat]
       PROVE  ClaimInv'
  <2> DEFINE p   == job[w].payment
             n   == job[w].token
             row == [type |-> attempts[p][n].type, result |-> s, ref |-> job[w].ref]
  <2>1. /\ p \in Payments /\ n \in 1 .. Len(attempts[p]) /\ job[w] \in Job
        /\ attempts[p] \in Seq(AttemptRow) /\ Len(attempts[p]) \in Nat
    BY <1>20, <1>t DEF JobsConsistent, JobConsistent, Owning, TypeOK
  <2>2. claim[p] = n /\ attempts[p][n].result = "IN_PROGRESS"
    BY <1>20 DEF Owns
  <2>3. state[p] = "IN_PROGRESS"
    BY <1>t, <2>1, <2>2 DEF SingleOwner, OwnedOnce
  <2>4. attempts[p][n] \in AttemptRow
    BY <2>1
  <2>5. row \in AttemptRow /\ row.result # "IN_PROGRESS"
    BY <2>1, <2>4 DEF AttemptRow, Job, ResultStates
  <2>6. /\ attempts' = [attempts EXCEPT ![p][claim[p]] = row]
        /\ state' = [state EXCEPT ![p] = s] /\ claim' = [claim EXCEPT ![p] = 0]
        /\ lapsed' = [lapsed EXCEPT ![p] = FALSE] /\ ref' = [ref EXCEPT ![p] = r]
        /\ job' = [job EXCEPT ![w] = Idle]
        /\ UNCHANGED <<liability, amount, config, active, orders>>
    BY <1>20, <2>2 DEF Record, Complete
  <2>7. Idle \in Job
    BY DEF Idle, Job
  <2> HIDE DEF p, n, row
  <2>8. TypeOK'
    <3>1. attempts' \in [Payments -> Seq(AttemptRow)]
      BY <1>t, <2>1, <2>2, <2>5, <2>6 DEF TypeOK
    <3>2. QED
      BY <1>20, <1>t, <2>1, <2>6, <2>7, <3>1, PaymentAssumption
      DEF TypeOK, PaymentStates
  <2>9. QED
    BY <2>1, <2>3, <2>5, <2>6, <2>7, <2>8, ReleaseKeepsClaimInv
<1>21. ASSUME NEW w \in Workers, FinishSucceeded(w) PROVE ClaimInv'
  <2>1. /\ job[w].pc = "finish" /\ Owns(w) /\ Record(w, "SUCCEEDED", job[w].ref)
        /\ ApplySuccess(job[w].payment, amount[job[w].payment], checkStatus)
    BY <1>21 DEF FinishSucceeded
  <2>2. job[w] \in Job /\ job[w].payment \in Payments
    BY <1>t, <2>1 DEF TypeOK, JobsConsistent, JobConsistent
  <2>3. "SUCCEEDED" \in ResultStates /\ job[w].ref \in Refs \cup {NoRef}
    BY <2>2 DEF ResultStates, Job
  <2>4. amount[job[w].payment] \in Nat
    BY <1>t, <2>2, PaymentAssumption DEF TypeOK
  <2>5. /\ checkStatus' \in {"OPEN", "FROZEN", "SETTLED", "CANCELLED"}
        /\ settlement' \in [Payments -> Nat]
    BY <1>t, <2>1, <2>4 DEF ApplySuccess, TypeOK
  <2>6. QED
    BY <1>20, <2>1, <2>3, <2>5
<1>22. ASSUME NEW w \in Workers, FinishConflict(w) PROVE ClaimInv'
  <2>1. /\ checkStatus' \in {"OPEN", "FROZEN", "SETTLED", "CANCELLED"}
        /\ settlement' \in [Payments -> Nat] /\ "UNCERTAIN" \in ResultStates
    BY <1>22, <1>t DEF FinishConflict, TypeOK, ResultStates
  <2>2. QED
    BY <1>20, <1>22, <2>1 DEF FinishConflict
<1>23. ASSUME NEW w \in Workers, FinishUnsuccessful(w) PROVE ClaimInv'
  <2>1. job[w] \in Job /\ job[w].state \in ResultStates
    BY <1>23, <1>t DEF FinishUnsuccessful, TypeOK, JobsConsistent, JobConsistent
  <2>2. /\ checkStatus' \in {"OPEN", "FROZEN", "SETTLED", "CANCELLED"}
        /\ settlement' \in [Payments -> Nat] /\ job[w].ref \in Refs \cup {NoRef}
    BY <1>23, <1>t, <2>1 DEF FinishUnsuccessful, TypeOK, Job
  <2>3. QED
    BY <1>20, <1>23, <2>1, <2>2 DEF FinishUnsuccessful
<1>24. QED
  BY <1>1, <1>2, <1>3, <1>4, <1>5, <1>6, <1>7, <1>8, <1>9, <1>10, <1>11, <1>12, <1>13,
     <1>14, <1>15, <1>16, <1>17, <1>18, <1>19, <1>21, <1>22, <1>23, NextCases

\* Claims exclude each other and fence what they replace, in every behaviour:
\* the workers, leases and recoveries of service.py have the types the model
\* gives them and never leave two attempts of a payment in progress.
THEOREM ClaimsExclusive == Spec => []ClaimsAreSound
<1>1. ClaimInv => ClaimsAreSound
  BY DEF ClaimInv, ClaimsAreSound
<1>2. QED
  BY <1>1, ClaimInvInit, ClaimInvNext, PTL DEF Spec

-----------------------------------------------------------------------------
(* Money.                                                                  *)

\* One payment's amount is changed.
LEMMA PaymentTotals ==
    ASSUME NEW f \in [Payments -> Nat], NEW p \in Payments, NEW u \in Nat
    PROVE  Total([f EXCEPT ![p] = u]) = Without(f, p) + u
  BY PaymentAssumption, TotalUpdate

\* The totals are numbers, and each is made of one payment's part and the rest.
LEMMA TotalsAreNumbers ==
    ASSUME TypeOK
    PROVE  /\ Held \in [Payments -> Nat] /\ settlement \in [Payments -> Nat]
           /\ Confirmed \in Nat /\ Reserved \in Nat
           /\ \A p \in Payments :
                 /\ Held[p] \in Nat /\ Without(Held, p) \in Nat
                 /\ Reserved = Without(Held, p) + Held[p]
                 /\ settlement[p] \in Nat /\ Without(settlement, p) \in Nat
                 /\ Confirmed = Without(settlement, p) + settlement[p]
<1>1. Held \in [Payments -> Nat] /\ settlement \in [Payments -> Nat] /\ IsFiniteSet(Payments)
  BY PaymentAssumption DEF TypeOK, Held
<1>2. Confirmed \in Nat /\ Reserved \in Nat
  BY <1>1, UnitsFinite DEF Confirmed, Reserved
<1>3. ASSUME NEW p \in Payments
      PROVE  /\ Held[p] \in Nat /\ Without(Held, p) \in Nat
             /\ Reserved = Without(Held, p) + Held[p]
             /\ settlement[p] \in Nat /\ Without(settlement, p) \in Nat
             /\ Confirmed = Without(settlement, p) + settlement[p]
  BY <1>1, RowWithinTotal DEF Reserved, Confirmed
<1>4. QED
  BY <1>1, <1>2, <1>3

\* Steps that change no amount, no settlement and no payment's standing.
LEMMA QuietKeepsMoneyInv ==
    ASSUME MoneyInv, UNCHANGED <<checkVars, state, amount, settlement>>,
           \A p \in Payments : state[p] = "NONE" =>
               config'[p] = config[p] /\ ref'[p] = ref[p] /\ attempts'[p] = attempts[p]
    PROVE  MoneyInv'
<1>1. Held' = Held
  BY DEF Held
<1>2. Confirmed' = Confirmed /\ Reserved' = Reserved
  BY <1>1 DEF Confirmed, Reserved
<1>3. QED
  BY <1>2 DEF MoneyInv, RowsConsistent, SettlementIffSucceeded, ExposureWithinLiability,
              SettledIffCovered, checkVars

\* A payment p moves to state s with amount a: every step that touches a row.
\* The money it will hold or settle fits beside the money of the others.
LEMMA MoveKeepsMoneyInv ==
    ASSUME TypeOK, MoneyInv, NEW p \in Payments, NEW s \in PaymentStates \ {"NONE"},
           NEW a \in 1 .. MaxLiability, state[p] # "SUCCEEDED",
           state' = [state EXCEPT ![p] = s], amount' = [amount EXCEPT ![p] = a],
           settlement' = [settlement EXCEPT ![p] = IF s = "SUCCEEDED" THEN a ELSE 0],
           liability' = liability,
           s \in ReservingStates \cup {"SUCCEEDED"} => Confirmed + Reserved + a <= liability + Held[p],
           checkStatus # "CANCELLED",
           checkStatus' = IF s = "SUCCEEDED" /\ Confirmed + a = liability THEN "SETTLED"
                          ELSE IF checkStatus = "OPEN" THEN "FROZEN" ELSE checkStatus,
           \A q \in Payments \ {p} :
               config'[q] = config[q] /\ ref'[q] = ref[q] /\ attempts'[q] = attempts[q]
    PROVE  MoneyInv'
<1> DEFINE v == IF s \in ReservingStates THEN a ELSE 0
           x == IF s = "SUCCEEDED" THEN a ELSE 0
<1> DEFINE R == Without(Held, p)
           C == Confirmed
           h == Held[p]
<1>1. /\ Held \in [Payments -> Nat] /\ settlement \in [Payments -> Nat]
      /\ C \in Nat /\ R \in Nat /\ h \in Nat /\ Reserved = R + h
      /\ a \in Nat /\ a > 0 /\ v \in Nat /\ x \in Nat /\ liability \in Nat
  <2>1. /\ Held \in [Payments -> Nat] /\ settlement \in [Payments -> Nat]
        /\ C \in Nat /\ R \in Nat /\ h \in Nat /\ Reserved = R + h
    BY TotalsAreNumbers
  <2>2. a \in Nat /\ a > 0 /\ v \in Nat /\ x \in Nat /\ liability \in Nat
    BY PaymentAssumption DEF TypeOK
  <2>3. QED
    BY <2>1, <2>2
<1>2. Held' = [Held EXCEPT ![p] = v]
  BY DEF Held, TypeOK
<1>3. C = Without(settlement, p)
  <2>1. settlement[p] = 0
    BY DEF MoneyInv, SettlementIffSucceeded
  <2>2. QED
    BY <2>1, TotalsAreNumbers
<1>4. settlement' = [settlement EXCEPT ![p] = x]
  OBVIOUS
<1>5. /\ s \in ReservingStates => v = a /\ x = 0
      /\ s = "SUCCEEDED" => v = 0 /\ x = a
      /\ s \notin ReservingStates \cup {"SUCCEEDED"} => v = 0 /\ x = 0
  BY DEF ReservingStates
<1> HIDE DEF v, x
<1>6. Total([Held EXCEPT ![p] = v]) = R + v /\ Total([settlement EXCEPT ![p] = x]) = C + x
  <2>1. Total([Held EXCEPT ![p] = v]) = R + v
    BY <1>1, PaymentTotals, Zenon
  <2>2. Total([settlement EXCEPT ![p] = x]) = C + x
    BY <1>1, <1>3, PaymentTotals, Zenon
  <2>3. QED
    BY <2>1, <2>2
<1>7. Reserved' = R + v /\ Confirmed' = C + x
  BY <1>2, <1>4, <1>6, Zenon DEF Reserved, Confirmed
<1> HIDE DEF R, C, h
<1>8. /\ (C + x) + (R + v) <= liability
      /\ C + (R + h) <= liability
  <2>1. C + (R + h) <= liability
    BY <1>1 DEF MoneyInv, ExposureWithinLiability, C
  <2>2. s \in ReservingStates \cup {"SUCCEEDED"} => C + (R + h) + a <= liability + h
    BY <1>1 DEF C, h
  <2>3. QED
    BY <1>1, <1>5, <2>1, <2>2
<1>9. ExposureWithinLiability'
  BY <1>7, <1>8, Zenon DEF ExposureWithinLiability
<1>10. SettledIffCovered'
  <2>1. CASE s = "SUCCEEDED" /\ C + a = liability
    <3>1. C + x = liability /\ R + v = 0 /\ checkStatus' = "SETTLED"
      BY <1>1, <1>5, <1>8, <2>1 DEF C
    <3>2. QED
      BY <1>7, <3>1, Zenon DEF SettledIffCovered
  <2>2. CASE ~(s = "SUCCEEDED" /\ C + a = liability)
    <3>1. checkStatus' = "SETTLED" <=> checkStatus = "SETTLED"
      BY <2>2 DEF C
    <3>2. CASE checkStatus = "SETTLED"
      <4>1. C = liability /\ R + h = 0
        BY <1>1, <3>2 DEF MoneyInv, SettledIffCovered, C
      <4>2. C + x = liability /\ R + v = 0
        BY <1>1, <1>5, <1>8, <4>1
      <4>3. QED
        BY <1>7, <3>1, <3>2, <4>2, Zenon DEF SettledIffCovered
    <3>3. CASE checkStatus # "SETTLED"
      <4>1. C # liability \/ ~(liability > 0)
        BY <3>3 DEF MoneyInv, SettledIffCovered, C
      <4>2. C + x # liability \/ ~(liability > 0)
        BY <1>1, <1>5, <2>2, <4>1
      <4>3. QED
        BY <1>7, <3>1, <3>3, <4>2, Zenon DEF SettledIffCovered
    <3>4. QED
      BY <3>2, <3>3
  <2>3. QED
    BY <2>1, <2>2
<1>11. SettlementIffSucceeded'
  BY DEF MoneyInv, SettlementIffSucceeded, TypeOK
<1>12. RowsConsistent'
  <2>1. checkStatus' \in {"FROZEN", "SETTLED"}
    BY DEF TypeOK
  <2>2. QED
    BY <1>1, <2>1 DEF MoneyInv, RowsConsistent, TypeOK
<1>13. QED
  BY <1>9, <1>10, <1>11, <1>12 DEF MoneyInv

\* Steps that move an existing row, other than to SUCCEEDED: what a retry takes
\* again fits, and a row that already reserves may keep its reservation.
LEMMA RowKeepsMoneyInv ==
    ASSUME TypeOK, MoneyInv, NEW p \in Payments, NEW s \in PaymentStates \ {"NONE", "SUCCEEDED"},
           state[p] \notin {"NONE", "SUCCEEDED"}, state' = [state EXCEPT ![p] = s],
           UNCHANGED <<checkStatus, liability, amount, settlement>>,
           state[p] \in ReservingStates \/ Fits(amount[p]),
           \A q \in Payments \ {p} :
               config'[q] = config[q] /\ ref'[q] = ref[q] /\ attempts'[q] = attempts[q]
    PROVE  MoneyInv'
<1> DEFINE a == amount[p]
<1>1. a \in 1 .. MaxLiability /\ checkStatus \in {"FROZEN", "SETTLED"}
  BY PaymentAssumption DEF TypeOK, MoneyInv, RowsConsistent
<1>2. settlement[p] = 0
  BY DEF MoneyInv, SettlementIffSucceeded
<1>3. amount' = [amount EXCEPT ![p] = a] /\ settlement' = [settlement EXCEPT ![p] = 0]
  BY <1>2 DEF TypeOK
<1>4. Held[p] = IF state[p] \in ReservingStates THEN a ELSE 0
  BY DEF Held
<1>5. /\ Confirmed \in Nat /\ Reserved \in Nat /\ a \in Nat /\ liability \in Nat
      /\ Confirmed + Reserved <= liability
  BY <1>1, TotalsAreNumbers, PaymentAssumption DEF TypeOK, MoneyInv, ExposureWithinLiability
<1> HIDE DEF a
<1>6. Confirmed + Reserved + a <= liability + Held[p]
  <2>1. CASE state[p] \in ReservingStates
    BY <1>4, <1>5, <2>1
  <2>2. CASE state[p] \notin ReservingStates
    <3>1. Confirmed + Reserved + a <= liability
      BY <2>2 DEF Fits, a
    <3>2. QED
      BY <1>4, <1>5, <2>2, <3>1
  <2>3. QED
    BY <2>1, <2>2
<1>7. /\ checkStatus' = IF s = "SUCCEEDED" /\ Confirmed + a = liability THEN "SETTLED"
                        ELSE IF checkStatus = "OPEN" THEN "FROZEN" ELSE checkStatus
      /\ settlement' = [settlement EXCEPT ![p] = IF s = "SUCCEEDED" THEN a ELSE 0]
      /\ checkStatus # "CANCELLED" /\ s \in PaymentStates \ {"NONE"}
  BY <1>1, <1>3
<1>8. QED
  BY <1>1, <1>3, <1>6, <1>7, MoveKeepsMoneyInv

\* No money moves on a check that is not frozen yet.
LEMMA NoMoneyBeforeFreeze ==
    ASSUME TypeOK, MoneyInv, checkStatus \notin {"FROZEN", "SETTLED"}
    PROVE  Confirmed = 0 /\ Reserved = 0 /\ \A p \in Payments : state[p] = "NONE"
<1>1. \A p \in Payments : state[p] = "NONE"
  BY DEF MoneyInv, RowsConsistent
<1>2. Held = [p \in Payments |-> 0]
  BY <1>1 DEF Held, ReservingStates
<1>3. settlement = [p \in Payments |-> 0]
  BY <1>1 DEF MoneyInv, SettlementIffSucceeded, TypeOK
<1>4. QED
  BY <1>1, <1>2, <1>3, TotalOfNothing DEF Confirmed, Reserved

\* The initial state.
LEMMA MoneyInvInit == Init => MoneyInv
<1> SUFFICES ASSUME Init PROVE MoneyInv
  OBVIOUS
<1>1. Held = [p \in Payments |-> 0] /\ settlement = [p \in Payments |-> 0]
  BY DEF Init, Held, ReservingStates
<1>2. Confirmed = 0 /\ Reserved = 0
  BY <1>1, TotalOfNothing DEF Confirmed, Reserved
<1>3. liability \in Nat
  BY PaymentAssumption DEF Init
<1>4. RowsConsistent /\ SettlementIffSucceeded
  BY DEF Init, RowsConsistent, SettlementIffSucceeded
<1>5. ExposureWithinLiability /\ SettledIffCovered
  BY <1>2, <1>3 DEF Init, ExposureWithinLiability, SettledIffCovered
<1>6. QED
  BY <1>4, <1>5 DEF MoneyInv

\* The worker that owns its attempt works on a payment in progress.
LEMMA OwnerInProgress ==
    ASSUME ClaimInv, NEW w \in Workers, job[w].pc = "finish", Owns(w)
    PROVE  job[w].payment \in Payments /\ state[job[w].payment] = "IN_PROGRESS"
<1> DEFINE p == job[w].payment
<1>1. p \in Payments /\ job[w].token \in 1 .. Len(attempts[p])
  BY DEF ClaimInv, JobsConsistent, JobConsistent, Owning
<1>2. attempts[p] \in Seq(AttemptRow)
  BY <1>1 DEF ClaimInv, TypeOK
<1>3. claim[p] = job[w].token /\ claim[p] # 0
  BY <1>1, <1>2 DEF Owns
<1>4. QED
  BY <1>1, <1>3 DEF ClaimInv, SingleOwner, OwnedOnce

\* One step of the system, action by action.
LEMMA MoneyInvNext == ASSUME ClaimInv, MoneyInv, [Next]_vars PROVE MoneyInv'
<1>t. TypeOK /\ JobsConsistent /\ SingleOwner
  BY DEF ClaimInv
<1>q. ASSUME UNCHANGED <<checkVars, paymentVars>> PROVE MoneyInv'
  BY <1>q, QuietKeepsMoneyInv DEF paymentVars
<1>1. CASE UNCHANGED vars
  BY <1>1, <1>q DEF vars, checkVars, paymentVars
<1>2. ASSUME NEW l \in 0 .. MaxLiability, UpdateGratuity(l) PROVE MoneyInv'
  <2>1. Confirmed = 0 /\ Reserved = 0 /\ l \in Nat
    BY <1>2, <1>t, NoMoneyBeforeFreeze, PaymentAssumption DEF UpdateGratuity
  <2>2. Held' = Held
    BY <1>2 DEF UpdateGratuity, paymentVars, Held
  <2>3. Confirmed' = 0 /\ Reserved' = 0
    BY <1>2, <2>1, <2>2 DEF UpdateGratuity, paymentVars, Confirmed, Reserved
  <2>4. checkStatus' = "OPEN" /\ liability' = l
    BY <1>2 DEF UpdateGratuity
  <2>5. ExposureWithinLiability' /\ SettledIffCovered'
    BY <2>1, <2>3, <2>4 DEF ExposureWithinLiability, SettledIffCovered
  <2>6. RowsConsistent' /\ SettlementIffSucceeded'
    BY <1>2 DEF UpdateGratuity, paymentVars, MoneyInv, RowsConsistent, SettlementIffSucceeded
  <2>7. QED
    BY <2>5, <2>6 DEF MoneyInv
<1>3. CASE FreezeCheck \/ CancelCheck
  <2>1. Confirmed = 0 /\ Reserved = 0 /\ \A p \in Payments : state[p] = "NONE"
    BY <1>3, <1>t, NoMoneyBeforeFreeze DEF FreezeCheck, CancelCheck
  <2>2. UNCHANGED <<liability, paymentVars>> /\ checkStatus' \in {"FROZEN", "CANCELLED"}
    BY <1>3 DEF FreezeCheck, CancelCheck
  <2>3. Held' = Held
    BY <2>2 DEF paymentVars, Held
  <2>4. Confirmed' = 0 /\ Reserved' = 0 /\ liability \in Nat
    BY <1>t, <2>1, <2>2, <2>3, PaymentAssumption DEF paymentVars, Confirmed, Reserved, TypeOK
  <2>5. ExposureWithinLiability' /\ SettledIffCovered'
    BY <2>2, <2>4 DEF ExposureWithinLiability, SettledIffCovered
  <2>6. RowsConsistent' /\ SettlementIffSucceeded'
    BY <2>1, <2>2 DEF paymentVars, MoneyInv, RowsConsistent, SettlementIffSucceeded
  <2>7. QED
    BY <2>5, <2>6 DEF MoneyInv
<1>4. ASSUME NEW p \in Payments, LeaseExpires(p) PROVE MoneyInv'
  BY <1>4, QuietKeepsMoneyInv DEF LeaseExpires
<1>5. ASSUME NEW r \in Refs, OrderResolves(r) PROVE MoneyInv'
  BY <1>5, <1>q DEF OrderResolves
<1>6. ASSUME NEW c \in Configs, ToggleConfig(c) PROVE MoneyInv'
  BY <1>6, <1>q DEF ToggleConfig
<1>7. ASSUME NEW p \in Payments, NEW a \in 1 .. MaxLiability, MayInitiate(p, a)
      PROVE  /\ state[p] = "NONE" /\ checkStatus \in {"OPEN", "FROZEN"}
             /\ Confirmed + Reserved + a <= liability + Held[p]
  <2>1. state[p] = "NONE" /\ checkStatus \in {"OPEN", "FROZEN"}
        /\ Confirmed + Reserved + a <= liability
    BY <1>7 DEF MayInitiate, Fits
  <2>2. Held[p] = 0 /\ liability \in Nat
    BY <1>t, <2>1, PaymentAssumption DEF Held, ReservingStates, TypeOK
  <2>3. QED
    BY <2>1, <2>2
<1>8. ASSUME NEW p \in Payments, NEW a \in 1 .. MaxLiability, InitiateCash(p, a)
      PROVE  MoneyInv'
  <2>1. /\ state[p] = "NONE" /\ checkStatus \in {"OPEN", "FROZEN"}
        /\ Confirmed + Reserved + a <= liability + Held[p]
    BY <1>7, <1>8 DEF InitiateCash
  <2>2. /\ state' = [state EXCEPT ![p] = "SUCCEEDED"] /\ amount' = [amount EXCEPT ![p] = a]
        /\ settlement' = [settlement EXCEPT ![p] = a]
        /\ checkStatus' = (IF Confirmed + a = liability THEN "SETTLED" ELSE "FROZEN")
        /\ UNCHANGED <<liability, config, ref, attempts>>
        /\ "SUCCEEDED" \in PaymentStates \ {"NONE"}
    BY <1>8 DEF InitiateCash, ApplySuccess, PaymentStates, ResultStates
  <2>3. QED
    BY <1>t, <2>1, <2>2, MoveKeepsMoneyInv
<1>9. ASSUME NEW w \in Workers, NEW p \in Payments, NEW a \in 1 .. MaxLiability,
             NEW c \in Configs, InitiateCard(w, p, a, c)
      PROVE  MoneyInv'
  <2>1. /\ state[p] = "NONE" /\ checkStatus \in {"OPEN", "FROZEN"}
        /\ Confirmed + Reserved + a <= liability + Held[p]
    BY <1>7, <1>9 DEF InitiateCard
  <2>2. /\ state' = [state EXCEPT ![p] = "RESERVED"] /\ amount' = [amount EXCEPT ![p] = a]
        /\ settlement' = settlement /\ checkStatus' = "FROZEN"
        /\ UNCHANGED <<liability, ref, attempts>>
        /\ \A q \in Payments \ {p} : config'[q] = config[q]
        /\ "RESERVED" \in PaymentStates \ {"NONE"}
    BY <1>9, <1>t DEF InitiateCard, PaymentStates, ReservingStates, TypeOK
  <2>3. settlement' = [settlement EXCEPT ![p] = 0]
    BY <1>t, <2>1, <2>2 DEF MoneyInv, SettlementIffSucceeded, TypeOK
  <2>4. QED
    BY <1>t, <2>1, <2>2, <2>3, MoveKeepsMoneyInv
<1>10. ASSUME NEW p \in Payments, NEW type, Claim(p, type),
              state[p] \in {"RESERVED", "UNCERTAIN", "FAILED"},
              state[p] = "FAILED" => Fits(amount[p])
       PROVE  MoneyInv'
  <2>1. /\ state' = [state EXCEPT ![p] = "IN_PROGRESS"]
        /\ UNCHANGED <<checkStatus, liability, amount, config, ref, settlement>>
        /\ "IN_PROGRESS" \in PaymentStates \ {"NONE", "SUCCEEDED"}
        /\ state[p] \in ReservingStates \/ Fits(amount[p])
    BY <1>10 DEF Claim, checkVars, PaymentStates, ReservingStates
  <2>2. \A q \in Payments \ {p} : attempts'[q] = attempts[q]
    BY <1>10, <1>t DEF Claim, TypeOK
  <2>3. QED
    BY <1>10, <1>t, <2>1, <2>2, RowKeepsMoneyInv
<1>11. ASSUME NEW w \in Workers, ClaimExecute(w) PROVE MoneyInv'
  BY <1>10, <1>11, <1>t DEF ClaimExecute, JobsConsistent, JobConsistent
<1>12. ASSUME NEW w \in Workers, ClaimRecover(w) PROVE MoneyInv'
  BY <1>10, <1>12, <1>t DEF ClaimRecover, JobsConsistent, JobConsistent
<1>13. ASSUME NEW w \in Workers, NEW p \in Payments, Retry(w, p) PROVE MoneyInv'
  BY <1>10, <1>13 DEF Retry
<1>14. ASSUME NEW w \in Workers, NEW p \in Payments, RecoverStale(w, p) PROVE MoneyInv'
  <2>1. /\ state[p] = "IN_PROGRESS" /\ state' = [state EXCEPT ![p] = "UNCERTAIN"]
        /\ UNCHANGED <<checkStatus, liability, amount, config, ref, settlement>>
        /\ "UNCERTAIN" \in PaymentStates \ {"NONE", "SUCCEEDED"}
        /\ state[p] \in ReservingStates
    BY <1>14 DEF RecoverStale, checkVars, PaymentStates, ReservingStates
  <2>2. \A q \in Payments \ {p} : attempts'[q] = attempts[q]
    BY <1>14, <1>t DEF RecoverStale, Complete, TypeOK
  <2>3. QED
    BY <1>t, <2>1, <2>2, RowKeepsMoneyInv
<1>15. ASSUME NEW w \in Workers, NEW s \in {"FAILED", "REJECTED", "UNCERTAIN"}, NEW r,
              job[w].pc = "finish", Owns(w), Record(w, s, r), UNCHANGED <<checkStatus, settlement>>
       PROVE  MoneyInv'
  <2> DEFINE p == job[w].payment
  <2>1. p \in Payments /\ state[p] = "IN_PROGRESS"
    BY <1>15, OwnerInProgress
  <2>2. /\ state' = [state EXCEPT ![p] = s]
        /\ UNCHANGED <<checkStatus, liability, amount, config, settlement>>
        /\ s \in PaymentStates \ {"NONE", "SUCCEEDED"}
        /\ state[p] \in ReservingStates
    BY <1>15, <2>1 DEF Record, PaymentStates, ReservingStates, ResultStates
  <2>3. \A q \in Payments \ {p} : attempts'[q] = attempts[q] /\ ref'[q] = ref[q]
    BY <1>15, <1>t DEF Record, Complete, TypeOK
  <2> HIDE DEF p
  <2>4. QED
    BY <1>t, <2>1, <2>2, <2>3, RowKeepsMoneyInv
<1>16. ASSUME NEW w \in Workers, FinishConflict(w) PROVE MoneyInv'
  BY <1>15, <1>16 DEF FinishConflict
<1>17. ASSUME NEW w \in Workers, FinishUnsuccessful(w) PROVE MoneyInv'
  BY <1>15, <1>17, <1>t DEF FinishUnsuccessful, JobsConsistent, JobConsistent, ResultStates
<1>18. ASSUME NEW w \in Workers, FinishSucceeded(w) PROVE MoneyInv'
  <2> DEFINE p == job[w].payment
             a == amount[p]
  <2>1. p \in Payments /\ state[p] = "IN_PROGRESS"
    BY <1>18, OwnerInProgress DEF FinishSucceeded
  <2>2. a \in 1 .. MaxLiability /\ checkStatus \in {"FROZEN", "SETTLED"} /\ Held[p] = a
    BY <1>t, <2>1, PaymentAssumption DEF TypeOK, MoneyInv, RowsConsistent, Held, ReservingStates
  <2>3. Confirmed + Reserved + a <= liability + Held[p]
    <3>1. /\ Confirmed \in Nat /\ Reserved \in Nat /\ a \in Nat /\ liability \in Nat
          /\ Confirmed + Reserved <= liability
      BY <1>t, <2>2, TotalsAreNumbers, PaymentAssumption
      DEF TypeOK, MoneyInv, ExposureWithinLiability
    <3> HIDE DEF a
    <3>2. QED
      BY <2>2, <3>1
  <2>4. /\ state' = [state EXCEPT ![p] = "SUCCEEDED"] /\ settlement' = [settlement EXCEPT ![p] = a]
        /\ checkStatus' = (IF Confirmed + a = liability THEN "SETTLED" ELSE checkStatus)
        /\ UNCHANGED <<liability, amount, config>>
        /\ "SUCCEEDED" \in PaymentStates \ {"NONE"}
    BY <1>18 DEF FinishSucceeded, Record, ApplySuccess, PaymentStates, ResultStates
  <2>5. \A q \in Payments \ {p} : attempts'[q] = attempts[q] /\ ref'[q] = ref[q]
    BY <1>18, <1>t DEF FinishSucceeded, Record, Complete, TypeOK
  <2>6. amount' = [amount EXCEPT ![p] = a]
    BY <1>t, <2>4 DEF TypeOK
  <2> HIDE DEF p, a
  <2>7. QED
    BY <1>t, <2>1, <2>2, <2>3, <2>4, <2>5, <2>6, MoveKeepsMoneyInv
<1>19. ASSUME NEW w \in Workers, NEW p \in Payments, RecoverUncertain(w, p) PROVE MoneyInv'
  BY <1>19, <1>q DEF RecoverUncertain
<1>20. ASSUME NEW w \in Workers,
              \/ ClaimLost(w) \/ Revalidate(w) \/ ExecutorUnavailable(w) \/ CreateOrder(w)
              \/ QueryOrder(w) \/ FinishDiscarded(w) \/ FinishRolledBack(w) \/ Crash(w)
       PROVE  MoneyInv'
  BY <1>20, <1>q DEF ClaimLost, Revalidate, ExecutorUnavailable, CreateOrder, QueryOrder,
                     FinishDiscarded, FinishRolledBack, Crash
<1>21. ASSUME NEW w \in Workers, NEW r \in Refs, ReuseOrder(w, r) PROVE MoneyInv'
  BY <1>21, <1>q DEF ReuseOrder
<1>22. QED
  BY <1>1, <1>2, <1>3, <1>4, <1>5, <1>6, <1>8, <1>9, <1>11, <1>12, <1>13, <1>14, <1>16, <1>17,
     <1>18, <1>19, <1>20, <1>21, NextCases

\* The money of a check is right in every behaviour: exposure never exceeds
\* the liability, a payment is settled exactly when it succeeded, and the
\* check is settled exactly when it is covered, with nothing in flight.
THEOREM MoneySafe ==
    Spec => []MoneyAddsUp
<1>1. MoneyInv => MoneyAddsUp
  BY DEF MoneyInv, MoneyAddsUp
<1>2. QED
  BY <1>1, ClaimInvInit, ClaimInvNext, MoneyInvInit, MoneyInvNext, PTL DEF Spec

-----------------------------------------------------------------------------
(* The provider's orders.                                                  *)

\* A paid card payment has its order by itself: what the two parts of
\* SettlementsBackedByDistinctOrders come to under OrdersConsistent.
LEMMA OrderInvParts ==
    OrderInv <=>
        /\ OrdersConsistent
        /\ \A p \in Payments : state[p] = "SUCCEEDED" /\ config[p] # NoConfig
              => ref[p] # NoRef /\ orders[ref[p]] = "paid"
  BY DEF OrderInv, OrdersConsistent, SettlementsBackedByDistinctOrders

\* Before anything happened.
LEMMA OrderInvInit == Init => OrderInv
  BY PaymentAssumption DEF Init, OrderInv, OrdersConsistent, SettlementsBackedByDistinctOrders,
                           Idle, Refs, NoRef

\* Steps that only give one worker its next task.
LEMMA TaskKeepsOrderInv ==
    ASSUME TypeOK, OrderInv, NEW w \in Workers, NEW j, job' = [job EXCEPT ![w] = j],
           UNCHANGED <<state, config, ref, attempts, orders>>,
           j.pc \in {"execute", "call"} => orders[<<j.payment, j.token>>] = "none",
           j.pc = "finish" /\ j.state = "SUCCEEDED" => j.ref # NoRef /\ orders[j.ref] = "paid"
    PROVE  OrderInv'
<1>1. job'[w] = j /\ \A v \in Workers \ {w} : job'[v] = job[v]
  BY DEF TypeOK
<1>2. OrdersConsistent'
  BY <1>1 DEF OrderInv, OrdersConsistent
<1>3. QED
  BY <1>2 DEF OrderInv, SettlementsBackedByDistinctOrders

\* Steps that change one payment, and perhaps hand a fresh attempt to a worker.
LEMMA RowKeepsOrderInv ==
    ASSUME ClaimInv, OrderInv, NEW p \in Payments, orders' = orders,
           \A q \in Payments \ {p} : /\ state'[q] = state[q] /\ config'[q] = config[q]
                                     /\ ref'[q] = ref[q] /\ attempts'[q] = attempts[q],
           \A n \in 1 .. MaxAttempts : n > Len(attempts'[p]) => n > Len(attempts[p]),
           \A v \in Workers :
              \/ job'[v] = job[v]
              \/ job'[v].pc \notin {"execute", "call", "finish"}
              \/ /\ job'[v].pc = "execute"
                 /\ orders[<<job'[v].payment, job'[v].token>>] = "none",
           ref'[p] # NoRef =>
              \A q \in Payments \ {p} : config[q] = config'[p] => ref[q] # ref'[p],
           state'[p] = "SUCCEEDED" /\ config'[p] # NoConfig =>
              ref'[p] # NoRef /\ orders[ref'[p]] = "paid"
    PROVE  OrderInv'
<1>1. \A q \in Payments : \A n \in 1 .. MaxAttempts :
         n > Len(attempts'[q]) => orders'[<<q, n>>] = "none"
  <2>1. SUFFICES ASSUME NEW q \in Payments, NEW n \in 1 .. MaxAttempts, n > Len(attempts'[q])
                 PROVE  orders[<<q, n>>] = "none"
    OBVIOUS
  <2>2. n > Len(attempts[q])
    BY <2>1
  <2>3. QED
    BY <2>2 DEF OrderInv, OrdersConsistent
<1>2. ASSUME NEW v \in Workers
      PROVE  /\ job'[v].pc \in {"execute", "call"}
                   => orders'[<<job'[v].payment, job'[v].token>>] = "none"
             /\ job'[v].pc = "finish" /\ job'[v].state = "SUCCEEDED"
                   => job'[v].ref # NoRef /\ orders'[job'[v].ref] = "paid"
  <2>1. CASE job'[v] = job[v]
    BY <2>1 DEF OrderInv, OrdersConsistent
  <2>2. CASE job'[v] # job[v]
    BY <2>2
  <2>3. QED
    BY <2>1, <2>2
<1>3. \A q, r \in Payments :
         config'[q] = config'[r] /\ ref'[q] = ref'[r] /\ ref'[q] # NoRef => q = r
  BY DEF OrderInv, OrdersConsistent
<1>4. OrdersConsistent'
  BY <1>1, <1>2, <1>3 DEF OrdersConsistent
<1>5. \A q \in Payments : state'[q] = "SUCCEEDED" /\ config'[q] # NoConfig
         => ref'[q] # NoRef /\ orders'[ref'[q]] = "paid"
  BY OrderInvParts
<1>6. QED
  BY <1>3, <1>4, <1>5 DEF OrderInv, SettlementsBackedByDistinctOrders

\* Steps of the provider: an order that is not paid gets a status.
LEMMA OrderKeepsOrderInv ==
    ASSUME TypeOK, OrderInv, NEW r \in Refs, NEW s \in OrderStatus,
           orders[r] # "paid", orders' = [orders EXCEPT ![r] = s],
           UNCHANGED <<state, config, ref, attempts>>,
           \A p \in Payments, n \in 1 .. MaxAttempts : r = <<p, n>> => ~(n > Len(attempts[p])),
           \A v \in Workers :
              \/ /\ job'[v] = job[v]
                 /\ job[v].pc \in {"execute", "call"} => r # <<job[v].payment, job[v].token>>
              \/ /\ job'[v].pc = "finish"
                 /\ job'[v].state = "SUCCEEDED" => job'[v].ref = r /\ s = "paid"
    PROVE  OrderInv'
<1>1. r # NoRef /\ orders'[r] = s /\ \A q \in Refs \ {r} : orders'[q] = orders[q]
  <2>1. PICK p \in Payments, n \in 1 .. MaxAttempts : r = <<p, n>>
    BY DEF Refs
  <2>2. r # NoRef
    BY <2>1 DEF NoRef
  <2>3. QED
    BY <2>2 DEF TypeOK
<1>2. \A q \in Payments, n \in 1 .. MaxAttempts :
         n > Len(attempts'[q]) => orders'[<<q, n>>] = "none"
  <2>1. SUFFICES ASSUME NEW q \in Payments, NEW n \in 1 .. MaxAttempts, n > Len(attempts[q])
                 PROVE  orders'[<<q, n>>] = "none"
    OBVIOUS
  <2>2. <<q, n>> \in Refs \ {r}
    BY <2>1 DEF Refs
  <2>3. QED
    BY <1>1, <2>1, <2>2 DEF OrderInv, OrdersConsistent
<1>3. \A q \in Refs : orders[q] = "paid" => orders'[q] = "paid"
  BY <1>1
<1>4. ASSUME NEW v \in Workers
      PROVE  /\ job'[v].pc \in {"execute", "call"}
                   => orders'[<<job'[v].payment, job'[v].token>>] = "none"
             /\ job'[v].pc = "finish" /\ job'[v].state = "SUCCEEDED"
                   => job'[v].ref # NoRef /\ orders'[job'[v].ref] = "paid"
  <2>1. CASE /\ job'[v] = job[v]
             /\ job[v].pc \in {"execute", "call"} => r # <<job[v].payment, job[v].token>>
    <3>1. job[v].ref \in Refs \cup {NoRef}
      BY DEF TypeOK, Job
    <3>2. job[v].pc = "finish" /\ job[v].state = "SUCCEEDED"
             => job[v].ref # NoRef /\ orders'[job[v].ref] = "paid"
      BY <1>3, <3>1 DEF OrderInv, OrdersConsistent
    <3>3. job[v].pc \in {"execute", "call"} =>
             orders'[<<job[v].payment, job[v].token>>] = "none"
      BY <2>1 DEF TypeOK, OrderInv, OrdersConsistent
    <3>4. QED
      BY <2>1, <3>2, <3>3
  <2>2. CASE /\ job'[v].pc = "finish"
             /\ job'[v].state = "SUCCEEDED" => job'[v].ref = r /\ s = "paid"
    BY <1>1, <2>2
  <2>3. QED
    BY <2>1, <2>2
<1>5. OrdersConsistent'
  BY <1>2, <1>4 DEF OrderInv, OrdersConsistent
<1>6. \A q \in Payments : state'[q] = "SUCCEEDED" /\ config'[q] # NoConfig
         => ref'[q] # NoRef /\ orders'[ref'[q]] = "paid"
  BY <1>3, OrderInvParts DEF TypeOK
<1>7. QED
  BY <1>5, <1>6 DEF OrderInv, OrdersConsistent, SettlementsBackedByDistinctOrders

\* One step of the system, action by action.
LEMMA OrderInvNext ==
    ASSUME ClaimInv, MoneyInv, OrderInv, [Next]_vars, TypeOK' PROVE OrderInv'
<1>t. TypeOK /\ JobsConsistent /\ SingleOwner
  BY DEF ClaimInv
<1>o. OrdersConsistent
  BY DEF OrderInv
<1>q. ASSUME UNCHANGED <<state, config, ref, attempts, orders, job>> PROVE OrderInv'
  BY <1>q DEF OrderInv, OrdersConsistent, SettlementsBackedByDistinctOrders
<1>i. ASSUME NEW w \in Workers, NEW j, job' = [job EXCEPT ![w] = j],
             j.pc \notin {"execute", "call", "finish"},
             UNCHANGED <<paymentVars, orders>>
      PROVE  OrderInv'
  BY <1>i, <1>t, TaskKeepsOrderInv DEF paymentVars
<1>1. CASE \/ UNCHANGED vars \/ FreezeCheck \/ CancelCheck
           \/ \E l \in 0 .. MaxLiability : UpdateGratuity(l)
           \/ \E p \in Payments : LeaseExpires(p)
           \/ \E c \in Configs : ToggleConfig(c)
  BY <1>1, <1>q DEF vars, FreezeCheck, CancelCheck, UpdateGratuity, LeaseExpires, ToggleConfig,
                    paymentVars
<1>2. ASSUME NEW p \in Payments, NEW a \in 1 .. MaxLiability, InitiateCash(p, a)
      PROVE  OrderInv'
  <2>1. state[p] = "NONE" /\ config[p] = NoConfig /\ ref[p] = NoRef
    BY <1>2 DEF InitiateCash, MayInitiate, MoneyInv, RowsConsistent
  <2>2. /\ \A q \in Payments \ {p} : state'[q] = state[q]
        /\ UNCHANGED <<config, ref, attempts, orders, job>>
    BY <1>2, <1>t DEF InitiateCash, TypeOK
  <2>3. QED
    BY <2>1, <2>2, RowKeepsOrderInv
<1>3. ASSUME NEW w \in Workers, NEW p \in Payments, NEW a \in 1 .. MaxLiability,
             NEW c \in Configs, InitiateCard(w, p, a, c)
      PROVE  OrderInv'
  <2>1. state[p] = "NONE" /\ ref[p] = NoRef
    BY <1>3 DEF InitiateCard, MayInitiate, MoneyInv, RowsConsistent
  <2>2. /\ \A q \in Payments \ {p} : state'[q] = state[q] /\ config'[q] = config[q]
        /\ state'[p] = "RESERVED"
        /\ UNCHANGED <<ref, attempts, orders>>
        /\ job'[w].pc = "claim" /\ \A v \in Workers \ {w} : job'[v] = job[v]
    BY <1>3, <1>t DEF InitiateCard, TypeOK, Idle
  <2>3. QED
    BY <2>1, <2>2, RowKeepsOrderInv
<1>4. ASSUME NEW w \in Workers, NEW p \in Payments, NEW type, Claim(p, type),
             state[p] # "IN_PROGRESS", Len(attempts[p]) < MaxAttempts,
             NEW j, job' = [job EXCEPT ![w] = j], j.pc \in {"execute", "query"},
             j.payment = p, j.token = Len(attempts[p]) + 1
      PROVE  OrderInv'
  <2> DEFINE row == [type |-> type, result |-> "IN_PROGRESS", ref |-> NoRef]
             n   == Len(attempts[p])
  <2>1. attempts[p] \in Seq(AttemptRow) /\ n \in Nat
    BY <1>t DEF TypeOK
  <2>2. attempts'[p] = Append(attempts[p], row)
    BY <1>4, <1>t DEF Claim, TypeOK
  <2>3. attempts'[p] \in Seq(AttemptRow)
    BY DEF TypeOK
  <2>4. Len(attempts'[p]) = n + 1
    <3> HIDE DEF row
    <3>1. QED
      BY <2>1, <2>2
  <2>5. orders[<<p, n + 1>>] = "none"
    BY <1>4, <1>o, <2>1, PaymentAssumption DEF OrdersConsistent
  <2>6. /\ \A q \in Payments \ {p} : /\ state'[q] = state[q] /\ config'[q] = config[q]
                                     /\ ref'[q] = ref[q] /\ attempts'[q] = attempts[q]
        /\ state'[p] = "IN_PROGRESS" /\ config'[p] = config[p] /\ ref'[p] = ref[p]
        /\ orders' = orders
    BY <1>4, <1>t DEF Claim, TypeOK
  <2>7. job'[w] = j /\ \A v \in Workers \ {w} : job'[v] = job[v]
    BY <1>4, <1>t DEF TypeOK
  <2>8. \A m \in 1 .. MaxAttempts : m > Len(attempts'[p]) => m > Len(attempts[p])
    BY <2>1, <2>4
  <2>9. ref'[p] # NoRef =>
           \A q \in Payments \ {p} : config[q] = config'[p] => ref[q] # ref'[p]
    BY <1>o, <2>6 DEF OrdersConsistent
  <2>10. \A v \in Workers :
           \/ job'[v] = job[v]
           \/ job'[v].pc \notin {"execute", "call", "finish"}
           \/ /\ job'[v].pc = "execute"
              /\ orders[<<job'[v].payment, job'[v].token>>] = "none"
    BY <1>4, <2>5, <2>7
  <2> HIDE DEF row, n
  <2>11. QED
    BY <2>6, <2>8, <2>9, <2>10, RowKeepsOrderInv
<1>5. ASSUME NEW w \in Workers, ClaimExecute(w) PROVE OrderInv'
  <2> DEFINE p == job[w].payment
             m == Len(attempts[p]) + 1
             j == [job[w] EXCEPT !.pc = "execute", !.token = m]
  <2>1. p \in Payments /\ state[p] # "IN_PROGRESS" /\ Len(attempts[p]) < MaxAttempts
        /\ Claim(p, "EXECUTE") /\ job' = [job EXCEPT ![w] = j]
    BY <1>5, <1>t DEF ClaimExecute, JobsConsistent, JobConsistent
  <2>2. job[w] \in Job
    BY <1>t DEF TypeOK
  <2> HIDE DEF m
  <2>3. j.pc = "execute" /\ j.payment = p /\ j.token = m
    BY <2>2 DEF Job
  <2> HIDE DEF p, j
  <2>4. QED
    BY <1>4, <2>1, <2>3 DEF m
<1>6. ASSUME NEW w \in Workers, NEW p \in Payments, Retry(w, p) PROVE OrderInv'
  <2> DEFINE m == Len(attempts[p]) + 1
             j == [Idle EXCEPT !.pc = "execute", !.payment = p, !.token = m]
  <2>1. state[p] # "IN_PROGRESS" /\ Len(attempts[p]) < MaxAttempts
        /\ Claim(p, "RETRY") /\ job' = [job EXCEPT ![w] = j]
    BY <1>6 DEF Retry
  <2> HIDE DEF m
  <2>2. j.pc = "execute" /\ j.payment = p /\ j.token = m
    BY DEF Idle
  <2> HIDE DEF j
  <2>3. QED
    BY <1>4, <2>1, <2>2 DEF m
<1>7. ASSUME NEW w \in Workers, ClaimRecover(w) PROVE OrderInv'
  <2> DEFINE p == job[w].payment
             m == Len(attempts[p]) + 1
             j == [job[w] EXCEPT !.pc = "query", !.token = m, !.ref = ref[p]]
  <2>1. p \in Payments /\ state[p] # "IN_PROGRESS" /\ Len(attempts[p]) < MaxAttempts
        /\ Claim(p, job[w].type) /\ job' = [job EXCEPT ![w] = j]
    BY <1>7, <1>t DEF ClaimRecover, JobsConsistent, JobConsistent
  <2>2. job[w] \in Job
    BY <1>t DEF TypeOK
  <2> HIDE DEF m
  <2>3. j.pc = "query" /\ j.payment = p /\ j.token = m
    BY <2>2 DEF Job
  <2> HIDE DEF p, j
  <2>4. QED
    BY <1>4, <2>1, <2>3 DEF m
<1>8. ASSUME NEW w \in Workers, NEW p \in Payments, NEW n \in DOMAIN attempts[p],
             NEW row, attempts' = [attempts EXCEPT ![p][n] = row]
      PROVE  /\ Len(attempts'[p]) = Len(attempts[p])
             /\ \A q \in Payments \ {p} : attempts'[q] = attempts[q]
  <2>1. attempts[p] \in Seq(AttemptRow) /\ attempts'[p] = [attempts[p] EXCEPT ![n] = row]
        /\ \A q \in Payments \ {p} : attempts'[q] = attempts[q]
    BY <1>8, <1>t DEF TypeOK
  <2>2. attempts'[p] \in Seq(AttemptRow) /\ DOMAIN attempts'[p] = DOMAIN attempts[p]
    BY <2>1 DEF TypeOK
  <2>3. QED
    BY <2>1, <2>2
<1>9. ASSUME NEW w \in Workers, NEW p \in Payments, RecoverStale(w, p) PROVE OrderInv'
  <2>1. Len(attempts'[p]) = Len(attempts[p])
        /\ \A q \in Payments \ {p} : attempts'[q] = attempts[q]
    <3>1. CASE attempts[p][claim[p]].result = "IN_PROGRESS"
      <4>1. claim[p] \in DOMAIN attempts[p]
        BY <1>9, <1>t DEF RecoverStale, SingleOwner, OwnedOnce
      <4>2. QED
        BY <1>8, <1>9, <3>1, <4>1 DEF RecoverStale, Complete
    <3>2. CASE attempts[p][claim[p]].result # "IN_PROGRESS"
      BY <1>9, <3>2 DEF RecoverStale
    <3>3. QED
      BY <3>1, <3>2
  <2>2. /\ \A q \in Payments \ {p} : state'[q] = state[q]
        /\ state'[p] = "UNCERTAIN"
        /\ UNCHANGED <<config, ref, orders>>
        /\ job'[w].pc = "reclaim" /\ \A v \in Workers \ {w} : job'[v] = job[v]
    BY <1>9, <1>t DEF RecoverStale, TypeOK, Idle
  <2>3. ref[p] # NoRef => \A q \in Payments \ {p} : config[q] = config[p] => ref[q] # ref[p]
    BY <1>o DEF OrdersConsistent
  <2>4. QED
    BY <2>1, <2>2, <2>3, RowKeepsOrderInv
<1>10. ASSUME NEW w \in Workers, NEW s, NEW r, job[w].pc = "finish", Owns(w), Record(w, s, r),
              ~Duplicate(job[w].payment, r),
              s = "SUCCEEDED" => r # NoRef /\ orders[r] = "paid"
       PROVE  OrderInv'
  <2> DEFINE p == job[w].payment
  <2>1. p \in Payments /\ job[w].token \in 1 .. Len(attempts[p])
    BY <1>10, <1>t DEF JobsConsistent, JobConsistent, Owning
  <2>2. job[w].token \in DOMAIN attempts[p]
    BY <1>t, <2>1 DEF TypeOK
  <2>3. Len(attempts'[p]) = Len(attempts[p])
        /\ \A q \in Payments \ {p} : attempts'[q] = attempts[q]
    BY <1>8, <1>10, <2>1, <2>2 DEF Record, Complete
  <2>4. /\ \A q \in Payments \ {p} : state'[q] = state[q] /\ ref'[q] = ref[q]
        /\ state'[p] = s /\ ref'[p] = r
        /\ UNCHANGED <<config, orders>>
        /\ job'[w].pc = "idle" /\ \A v \in Workers \ {w} : job'[v] = job[v]
    BY <1>10, <1>t, <2>1 DEF Record, TypeOK, Idle
  <2>5. r # NoRef => \A q \in Payments \ {p} : config[q] = config[p] => ref[q] # r
    BY <1>10 DEF Duplicate
  <2> HIDE DEF p
  <2>6. QED
    BY <1>10, <2>1, <2>3, <2>4, <2>5, RowKeepsOrderInv
<1>11. ASSUME NEW w \in Workers, FinishSucceeded(w) PROVE OrderInv'
  BY <1>10, <1>11, <1>o DEF FinishSucceeded, OrdersConsistent
<1>12. ASSUME NEW w \in Workers, FinishConflict(w) PROVE OrderInv'
  BY <1>10, <1>12 DEF FinishConflict, Duplicate
<1>13. ASSUME NEW w \in Workers, FinishUnsuccessful(w) PROVE OrderInv'
  BY <1>10, <1>13 DEF FinishUnsuccessful
<1>14. ASSUME NEW w \in Workers, NEW p \in Payments, RecoverUncertain(w, p) PROVE OrderInv'
  <2> DEFINE j == [Idle EXCEPT !.pc = "reclaim", !.payment = p,
                               !.token = Len(attempts[p]), !.type = "RECOVER"]
  <2>1. job' = [job EXCEPT ![w] = j] /\ j.pc = "reclaim" /\ UNCHANGED <<paymentVars, orders>>
    BY <1>14 DEF RecoverUncertain, Idle
  <2> HIDE DEF j
  <2>2. QED
    BY <1>i, <2>1
<1>15. ASSUME NEW w \in Workers,
              ClaimLost(w) \/ FinishDiscarded(w) \/ FinishRolledBack(w) \/ Crash(w)
       PROVE  OrderInv'
  <2>1. job' = [job EXCEPT ![w] = Idle] /\ UNCHANGED <<paymentVars, orders>>
    BY <1>15 DEF ClaimLost, FinishDiscarded, FinishRolledBack, Crash
  <2>2. Idle.pc = "idle"
    BY DEF Idle
  <2>3. QED
    BY <1>i, <2>1, <2>2
<1>16. ASSUME NEW w \in Workers, Revalidate(w) PROVE OrderInv'
  <2> DEFINE j == [job[w] EXCEPT !.pc = "call"]
  <2>1. j.pc = "call" /\ j.payment = job[w].payment /\ j.token = job[w].token
    BY <1>t DEF TypeOK, Job
  <2>2. orders[<<job[w].payment, job[w].token>>] = "none" /\ job' = [job EXCEPT ![w] = j]
        /\ UNCHANGED <<state, config, ref, attempts, orders>>
    BY <1>16, <1>o DEF Revalidate, OrdersConsistent, paymentVars
  <2> HIDE DEF j
  <2>3. QED
    BY <1>t, <2>1, <2>2, TaskKeepsOrderInv
<1>17. ASSUME NEW w \in Workers, NEW s, NEW r, Answer(w, s, r),
              UNCHANGED <<paymentVars, orders>>,
              s = "SUCCEEDED" => r # NoRef /\ orders[r] = "paid"
       PROVE  OrderInv'
  <2> DEFINE j == [job[w] EXCEPT !.pc = "finish", !.state = s, !.ref = r]
  <2>1. j.pc = "finish" /\ j.state = s /\ j.ref = r
    BY <1>t DEF TypeOK, Job
  <2>2. job' = [job EXCEPT ![w] = j] /\ UNCHANGED <<state, config, ref, attempts, orders>>
    BY <1>17 DEF Answer, paymentVars
  <2> HIDE DEF j
  <2>3. QED
    BY <1>17, <1>t, <2>1, <2>2, TaskKeepsOrderInv
<1>18. ASSUME NEW w \in Workers, ExecutorUnavailable(w) PROVE OrderInv'
  BY <1>17, <1>18 DEF ExecutorUnavailable
<1>19. ASSUME NEW w \in Workers, QueryOrder(w) PROVE OrderInv'
  BY <1>17, <1>19 DEF QueryOrder, RecoveryAnswers, RecoveryState
<1>20. ASSUME NEW w \in Workers, NEW r \in Refs, ReuseOrder(w, r) PROVE OrderInv'
  <2>1. PICK p \in Payments, n \in 1 .. MaxAttempts : r = <<p, n>>
    BY DEF Refs
  <2>2. r # NoRef
    BY <2>1 DEF NoRef
  <2>3. QED
    BY <1>17, <1>20, <2>2 DEF ReuseOrder, ExecutionState
<1>21. ASSUME NEW w \in Workers, CreateOrder(w) PROVE OrderInv'
  <2> DEFINE r == <<job[w].payment, job[w].token>>
  <2>1. /\ job[w].pc = "call" /\ job[w].payment \in Payments
        /\ job[w].token \in 1 .. Len(attempts[job[w].payment]) /\ orders[r] = "none"
    BY <1>21, <1>t, <1>o DEF CreateOrder, JobsConsistent, JobConsistent, Owning, OrdersConsistent
  <2>2. attempts[job[w].payment] \in Seq(AttemptRow)
        /\ Len(attempts[job[w].payment]) <= MaxAttempts
    BY <1>t, <2>1 DEF TypeOK, ClaimInv, AttemptsBounded
  <2>3. r \in Refs
    BY <2>1, <2>2, PaymentAssumption DEF Refs
  <2>s. PICK s \in OrderStatus : \E answer \in ExecutionAnswers(r, s) :
           orders' = [orders EXCEPT ![r] = s] /\ Answer(w, answer[1], answer[2])
    BY <1>21 DEF CreateOrder
  <2>4. PICK answer \in ExecutionAnswers(r, s) :
           orders' = [orders EXCEPT ![r] = s] /\ Answer(w, answer[1], answer[2])
    BY <2>s
  <2>5. answer[1] = "SUCCEEDED" => answer[2] = r /\ s = "paid"
    BY <2>4 DEF ExecutionAnswers, ExecutionState
  <2>6. /\ job'[w].pc = "finish" /\ job'[w].state = answer[1] /\ job'[w].ref = answer[2]
        /\ \A v \in Workers \ {w} : job'[v] = job[v]
    BY <2>4, <1>t DEF Answer, TypeOK, Job
  <2>7. \A v \in Workers \ {w} :
           job[v].pc \in {"execute", "call"} => r # <<job[v].payment, job[v].token>>
    BY <1>t, <2>1 DEF JobsConsistent, ExclusiveAttempts, Owning
  <2>8. \A p \in Payments, n \in 1 .. MaxAttempts : r = <<p, n>> => ~(n > Len(attempts[p]))
    BY <2>1, <2>2
  <2>9. UNCHANGED <<state, config, ref, attempts>> /\ orders[r] # "paid"
    BY <1>21, <2>1 DEF CreateOrder, paymentVars
  <2>10. \A v \in Workers :
           \/ /\ job'[v] = job[v]
              /\ job[v].pc \in {"execute", "call"} => r # <<job[v].payment, job[v].token>>
           \/ /\ job'[v].pc = "finish"
              /\ job'[v].state = "SUCCEEDED" => job'[v].ref = r /\ s = "paid"
    BY <2>5, <2>6, <2>7
  <2> HIDE DEF r
  <2>11. QED
    BY <1>t, <2>3, <2>4, <2>8, <2>9, <2>10, OrderKeepsOrderInv
<1>22. ASSUME NEW r \in Refs, OrderResolves(r) PROVE OrderInv'
  <2>1. PICK s \in {"paid", "declined", "failed"} : orders' = [orders EXCEPT ![r] = s]
    BY <1>22 DEF OrderResolves
  <2>2. orders[r] = "pending" /\ UNCHANGED <<state, config, ref, attempts, job>>
        /\ s \in OrderStatus
    BY <1>22 DEF OrderResolves, paymentVars, OrderStatus
  <2>3. \A p \in Payments, n \in 1 .. MaxAttempts : r = <<p, n>> => ~(n > Len(attempts[p]))
    BY <1>o, <2>2 DEF OrdersConsistent
  <2>4. \A v \in Workers :
           job[v].pc \in {"execute", "call"} => r # <<job[v].payment, job[v].token>>
    BY <1>o, <2>2 DEF OrdersConsistent
  <2>5. QED
    BY <1>t, <2>1, <2>2, <2>3, <2>4, OrderKeepsOrderInv
<1>23. QED
  BY <1>1, <1>2, <1>3, <1>5, <1>6, <1>7, <1>9, <1>11, <1>12, <1>13, <1>14, <1>15, <1>16, <1>18,
     <1>19, <1>20, <1>21, <1>22, NextCases

\* Every settled card payment is backed by a paid order of the provider, and
\* no order backs two payments of one merchant configuration, whichever calls
\* are lost, repeated or answered with another payment's order.
THEOREM SettlementsBacked == Spec => []SettlementsBackedByDistinctOrders
<1>1. ClaimInv => TypeOK
  BY DEF ClaimInv
<1>2. OrderInv => SettlementsBackedByDistinctOrders
  BY DEF OrderInv
<1>3. QED
  BY <1>1, <1>2, ClaimInvInit, ClaimInvNext, MoneyInvInit, MoneyInvNext, OrderInvInit,
     OrderInvNext, PTL DEF Spec

-----------------------------------------------------------------------------
(* What is recorded.                                                       *)

\* Steps that leave every record alone.
LEMMA QuietKeepsRecords ==
    ASSUME UNCHANGED <<state, amount, ref, attempts>>, NEW q \in Payments
    PROVE  RecordKept(q)
  BY DEF RecordKept

\* Steps that change the record of one payment, which is not final.
LEMMA OpenRecordKept ==
    ASSUME NEW p \in Payments, state[p] \notin {"SUCCEEDED", "REJECTED"},
           \A q \in Payments \ {p} : /\ state'[q] = state[q] /\ amount'[q] = amount[q]
                                     /\ ref'[q] = ref[q] /\ attempts'[q] = attempts[q],
           \A n \in DOMAIN attempts[p] :
              /\ n \in DOMAIN attempts'[p]
              /\ attempts[p][n].result # "IN_PROGRESS" => attempts'[p][n] = attempts[p][n],
           NEW q \in Payments
    PROVE  RecordKept(q)
  BY DEF RecordKept

\* A claim of a payment that is not final adds a row and changes none.
LEMMA ClaimKeepsRecords ==
    ASSUME TypeOK, NEW p \in Payments, state[p] \notin {"SUCCEEDED", "REJECTED"},
           NEW type, Claim(p, type), NEW q \in Payments
    PROVE  RecordKept(q)
<1> DEFINE row == [type |-> type, result |-> "IN_PROGRESS", ref |-> NoRef]
<1>1. attempts[p] \in Seq(AttemptRow)
  BY DEF TypeOK
<1>2. attempts'[p] = Append(attempts[p], row)
  BY DEF Claim, TypeOK
<1>3. \A i \in Payments \ {p} : /\ state'[i] = state[i] /\ amount'[i] = amount[i]
                                /\ ref'[i] = ref[i] /\ attempts'[i] = attempts[i]
  BY DEF Claim, TypeOK
<1> HIDE DEF row
<1>4. \A n \in DOMAIN attempts[p] : n \in DOMAIN attempts'[p] /\ attempts'[p][n] = attempts[p][n]
  BY <1>1, <1>2
<1>5. QED
  BY <1>3, <1>4, OpenRecordKept

\* The attempt in progress of a payment gets its result.
LEMMA CompleteKeepsRecords ==
    ASSUME TypeOK, NEW p \in Payments, state[p] = "IN_PROGRESS", NEW n,
           attempts[p][n].result = "IN_PROGRESS", NEW s, NEW r, Complete(p, n, s, r),
           \A q \in Payments \ {p} : /\ state'[q] = state[q] /\ amount'[q] = amount[q]
                                     /\ ref'[q] = ref[q],
           NEW q \in Payments
    PROVE  RecordKept(q)
<1> DEFINE row == [type |-> attempts[p][n].type, result |-> s, ref |-> r]
<1>1. /\ attempts'[p] = [attempts[p] EXCEPT ![n] = row]
      /\ \A i \in Payments \ {p} : attempts'[i] = attempts[i]
  BY DEF TypeOK, Complete
<1> HIDE DEF row
<1>2. \A i \in DOMAIN attempts[p] :
         /\ i \in DOMAIN attempts'[p]
         /\ attempts[p][i].result # "IN_PROGRESS" => attempts'[p][i] = attempts[p][i]
  BY <1>1
<1>3. QED
  BY <1>1, <1>2, OpenRecordKept

\* One step of the system, action by action.
LEMMA RecordsKeptNext ==
    ASSUME ClaimInv, [Next]_vars, NEW q \in Payments PROVE RecordKept(q)
<1>t. TypeOK /\ JobsConsistent /\ SingleOwner
  BY DEF ClaimInv
<1>1. CASE \/ UNCHANGED vars \/ FreezeCheck \/ CancelCheck
           \/ \E l \in 0 .. MaxLiability : UpdateGratuity(l)
           \/ \E p \in Payments : LeaseExpires(p)
           \/ \E c \in Configs : ToggleConfig(c)
           \/ \E r \in Refs : OrderResolves(r)
  BY <1>1, QuietKeepsRecords
  DEF vars, FreezeCheck, CancelCheck, UpdateGratuity, LeaseExpires, ToggleConfig, OrderResolves,
      paymentVars
<1>2. ASSUME NEW w \in Workers,
             \/ ClaimLost(w) \/ FinishDiscarded(w) \/ FinishRolledBack(w) \/ Crash(w)
             \/ Revalidate(w) \/ ExecutorUnavailable(w) \/ QueryOrder(w) \/ CreateOrder(w)
             \/ \E r \in Refs : ReuseOrder(w, r)
             \/ \E p \in Payments : RecoverUncertain(w, p)
      PROVE  RecordKept(q)
  <2>1. UNCHANGED paymentVars
    BY <1>2, Zenon
    DEF ClaimLost, FinishDiscarded, FinishRolledBack, Crash, Revalidate, ExecutorUnavailable,
        QueryOrder, CreateOrder, ReuseOrder, RecoverUncertain
  <2>2. QED
    BY <2>1, QuietKeepsRecords DEF paymentVars
<1>3. ASSUME NEW p \in Payments, state[p] = "NONE", attempts' = attempts, ref' = ref,
             NEW s, NEW a, state' = [state EXCEPT ![p] = s], amount' = [amount EXCEPT ![p] = a]
      PROVE  RecordKept(q)
  BY <1>3, <1>t, OpenRecordKept DEF TypeOK
<1>4. ASSUME NEW p \in Payments, NEW a \in 1 .. MaxLiability, InitiateCash(p, a)
      PROVE  RecordKept(q)
  BY <1>3, <1>4 DEF InitiateCash, MayInitiate
<1>5. ASSUME NEW w \in Workers, NEW p \in Payments, NEW a \in 1 .. MaxLiability,
             NEW c \in Configs, InitiateCard(w, p, a, c)
      PROVE  RecordKept(q)
  BY <1>3, <1>5 DEF InitiateCard, MayInitiate
<1>6. ASSUME NEW w \in Workers, NEW p \in Payments, Retry(w, p) PROVE RecordKept(q)
  BY <1>6, <1>t, ClaimKeepsRecords DEF Retry
<1>7. ASSUME NEW w \in Workers, ClaimExecute(w) PROVE RecordKept(q)
  <2>1. job[w].payment \in Payments
    BY <1>7, <1>t DEF ClaimExecute, JobsConsistent, JobConsistent
  <2>2. QED
    BY <1>7, <1>t, <2>1, ClaimKeepsRecords DEF ClaimExecute
<1>8. ASSUME NEW w \in Workers, ClaimRecover(w) PROVE RecordKept(q)
  <2>1. job[w].payment \in Payments /\ state[job[w].payment] = "UNCERTAIN"
    BY <1>8, <1>t DEF ClaimRecover, JobsConsistent, JobConsistent
  <2>2. QED
    BY <1>8, <1>t, <2>1, ClaimKeepsRecords DEF ClaimRecover
<1>9. ASSUME NEW w \in Workers, NEW p \in Payments, RecoverStale(w, p) PROVE RecordKept(q)
  <2>1. /\ state[p] = "IN_PROGRESS" /\ Complete(p, claim[p], "FENCED", NoRef)
        /\ attempts[p][claim[p]].result = "IN_PROGRESS"
    BY <1>9, <1>t DEF RecoverStale, SingleOwner, OwnedOnce
  <2>2. \A i \in Payments \ {p} : state'[i] = state[i] /\ amount'[i] = amount[i] /\ ref'[i] = ref[i]
    BY <1>9, <1>t DEF RecoverStale, TypeOK
  <2>3. QED
    BY <1>t, <2>1, <2>2, CompleteKeepsRecords
<1>10. ASSUME NEW w \in Workers, NEW s, NEW r, job[w].pc = "finish", Owns(w), Record(w, s, r)
       PROVE  RecordKept(q)
  <2> DEFINE p == job[w].payment
  <2>1. p \in Payments /\ state[p] = "IN_PROGRESS"
    BY <1>10, OwnerInProgress
  <2>2. attempts[p][job[w].token].result = "IN_PROGRESS"
    BY <1>10 DEF Owns
  <2>3. Complete(p, job[w].token, s, job[w].ref)
    BY <1>10 DEF Record
  <2>4. \A i \in Payments \ {p} : state'[i] = state[i] /\ amount'[i] = amount[i] /\ ref'[i] = ref[i]
    BY <1>10, <1>t DEF Record, TypeOK
  <2> HIDE DEF p
  <2>5. QED
    BY <1>t, <2>1, <2>2, <2>3, <2>4, CompleteKeepsRecords
<1>11. ASSUME NEW w \in Workers,
              FinishSucceeded(w) \/ FinishConflict(w) \/ FinishUnsuccessful(w)
       PROVE  RecordKept(q)
  BY <1>10, <1>11 DEF FinishSucceeded, FinishConflict, FinishUnsuccessful
<1>12. QED
  BY <1>1, <1>2, <1>4, <1>5, <1>6, <1>7, <1>8, <1>9, <1>11, NextCases

\* No step of service.py takes a record back, in any behaviour: attempts are
\* never removed, the result of one is written once, and a payment that
\* SUCCEEDED or was REJECTED keeps its state, reference and amount.
THEOREM RecordsFinal == Spec => RecordsAreFinal
<1>1. ClaimInv /\ [Next]_vars => [\A p \in Payments : RecordKept(p)]_vars
  BY RecordsKeptNext
<1>2. QED
  BY <1>1, ClaimInvInit, ClaimInvNext, PTL DEF Spec, RecordsAreFinal

-----------------------------------------------------------------------------
(* Charges.                                                                *)

\* Before anything happened.
LEMMA ChargeInvInit == Init => ChargeInv
  BY DEF Init, ChargeInv, ChargeTold, Retried, Traced, Calling, Asking, Idle

\* What a step on one payment leaves as it was for another.
LEMMA ElsewhereKeepsCharge ==
    ASSUME NEW q \in Payments, ChargeTold(q),
           state'[q] = state[q], ref'[q] = ref[q], attempts'[q] = attempts[q],
           \A n \in 1 .. MaxAttempts : orders'[<<q, n>>] = orders[<<q, n>>],
           Len(attempts[q]) \in Nat, Len(attempts[q]) <= MaxAttempts,
           DOMAIN attempts[q] = 1 .. Len(attempts[q]),
           \A v \in Workers : job'[v] = job[v] \/ (job[v].payment # q /\ job'[v].payment # q)
    PROVE  ChargeTold(q)'
<1>1. \A v \in Workers : /\ Calling(v, q)' <=> Calling(v, q)
                         /\ Asking(v, q)' <=> Asking(v, q)
                         /\ Calling(v, q) \/ Asking(v, q) => job'[v] = job[v]
  BY DEF Calling, Asking
<1>2. NoCaller(q)' <=> NoCaller(q)
  BY <1>1 DEF NoCaller
<1>3. \A n \in DOMAIN attempts[q] : n \in 1 .. MaxAttempts
  BY PaymentAssumption
<1>4. Retried(q)' <=> Retried(q)
  BY DEF Retried
<1>5. \A r : Traced(q, r)' <=> Traced(q, r)
  BY <1>2 DEF Traced
<1>6. GivenUp(q)' <=> GivenUp(q)
  BY <1>2 DEF GivenUp, Chargeable
<1>7. QED
  BY <1>1, <1>3, <1>4, <1>5, <1>6 DEF ChargeTold

\* The worker about to call for a payment that was never retried is alone,
\* has no order yet, and nobody has a reference or a failure for it.
LEMMA CallerAlone ==
    ASSUME ClaimInv, OrderInv, NEW p \in Payments, ChargeTold(p), ~Retried(p),
           NEW w \in Workers, Calling(w, p)
    PROVE  /\ job[w].token = 1
           /\ \A v \in Workers \ {w} : ~Calling(v, p)
           /\ \A n \in 1 .. MaxAttempts : orders[<<p, n>>] = "none"
           /\ ref[p] = NoRef
           /\ \A v \in Workers : Asking(v, p) => job[v].ref = NoRef
           /\ \A v \in Workers : Asking(v, p) /\ job[v].pc = "finish" =>
                 job[v].state \notin {"FAILED", "REJECTED"}
<1>1. attempts[p] \in Seq(AttemptRow) /\ DOMAIN attempts[p] = 1 .. Len(attempts[p])
      /\ Len(attempts[p]) \in Nat /\ Len(attempts[p]) <= MaxAttempts
  BY DEF ClaimInv, TypeOK, AttemptsBounded
<1>2. \A v \in Workers : Calling(v, p) => job[v].token = 1
  <2>1. ASSUME NEW v \in Workers, Calling(v, p) PROVE job[v].token \in DOMAIN attempts[p]
    BY <1>1, <2>1 DEF Calling, ClaimInv, JobsConsistent, JobConsistent, Owning
  <2>2. QED
    BY <2>1 DEF ChargeTold, Retried
<1>3. \A v \in Workers \ {w} : ~Calling(v, p)
  BY <1>2 DEF Calling, ClaimInv, JobsConsistent, ExclusiveAttempts, Owning
<1>4. ASSUME NEW n \in 1 .. MaxAttempts PROVE orders[<<p, n>>] = "none"
  <2>1. CASE n > Len(attempts[p])
    BY <2>1 DEF OrderInv, OrdersConsistent
  <2>2. CASE n \in DOMAIN attempts[p] /\ n # 1
    BY <2>2 DEF ChargeTold, Retried
  <2>3. CASE n = 1
    BY <1>2, <2>3 DEF OrderInv, OrdersConsistent, Calling
  <2>4. QED
    BY <1>1, <2>1, <2>2, <2>3, PaymentAssumption
<1>5. ~NoCaller(p)
  BY DEF NoCaller
<1>6. QED
  BY <1>2, <1>3, <1>4, <1>5 DEF ChargeTold, Traced, GivenUp

\* A step of one worker on payment p that calls nobody, changes no order, and
\* leaves the types of the attempts as they are.
LEMMA RowKeepsCharge ==
    ASSUME ClaimInv, NEW p \in Payments, ChargeTold(p), orders' = orders,
           DOMAIN attempts'[p] = DOMAIN attempts[p],
           \A n \in DOMAIN attempts[p] : attempts'[p][n].type = attempts[p][n].type,
           NEW w \in Workers, \A v \in Workers \ {w} : job'[v] = job[v],
           job'[w].pc \in {"execute", "call"} =>
              /\ job[w].pc \in {"execute", "call"} /\ job'[w].payment = job[w].payment
              /\ job'[w].token = job[w].token,
           state'[p] = "RESERVED" => attempts'[p] = <<>> /\ ref'[p] = NoRef,
           ~Retried(p) =>
              /\ ref'[p] \in {ref[p], NoRef} \/ (Asking(w, p) /\ ref'[p] = job[w].ref)
              /\ state'[p] \in {"FAILED", "REJECTED"} =>
                    \/ state'[p] = state[p]
                    \/ Asking(w, p) /\ job[w].pc = "finish" /\ state'[p] = job[w].state
              /\ Asking(w, p)' =>
                    /\ \/ job'[w].ref \in {ref[p], NoRef}
                       \/ Asking(w, p) /\ job'[w].ref = job[w].ref
                       \/ Traced(p, job[w].ref)'
                    /\ job'[w].pc = "finish" /\ job'[w].state \in {"FAILED", "REJECTED"} =>
                          GivenUp(p)'
    PROVE  ChargeTold(p)'
<1>0. attempts[p] \in Seq(AttemptRow)
  BY DEF ClaimInv, TypeOK
<1>1. \A v \in Workers : Calling(v, p)' => Calling(v, p) /\ job'[v].token = job[v].token
  BY DEF Calling
<1>2. NoCaller(p) => NoCaller(p)'
  BY <1>1 DEF NoCaller
<1>3. Retried(p)' <=> Retried(p)
  BY DEF Retried
<1>4. \A r : Traced(p, r) => Traced(p, r)'
  BY <1>2 DEF Traced
<1>5. GivenUp(p) => GivenUp(p)'
  BY <1>2 DEF GivenUp, Chargeable
<1>6. \A v \in Workers : Calling(v, p)' =>
         attempts'[p][job'[v].token].type \in {"EXECUTE", "RETRY"}
  <2>1. ASSUME NEW v \in Workers, Calling(v, p) PROVE job[v].token \in DOMAIN attempts[p]
    BY <1>0, <2>1 DEF Calling, ClaimInv, JobsConsistent, JobConsistent, Owning
  <2>2. QED
    BY <1>1, <2>1 DEF ChargeTold
<1>7. Traced(p, NoRef)'
  BY DEF Traced
<1>8. ASSUME ~Retried(p)'
      PROVE  /\ Traced(p, ref[p])'
             /\ state'[p] \in {"FAILED", "REJECTED"} => GivenUp(p)'
  BY <1>3, <1>4, <1>5, <1>7, <1>8 DEF ChargeTold
<1>9. ASSUME ~Retried(p)', NEW v \in Workers, Asking(v, p)'
      PROVE  /\ Traced(p, job[v].ref)'
             /\ job'[v].pc = "finish" /\ job'[v].state \in {"FAILED", "REJECTED"} => GivenUp(p)'
  <2>1. CASE v # w
    <3>1. Asking(v, p) /\ job'[v] = job[v]
      BY <1>9, <2>1 DEF Asking
    <3>2. QED
      BY <1>3, <1>4, <1>5, <1>9, <3>1 DEF ChargeTold
  <2>2. CASE v = w
    BY <1>3, <1>4, <1>7, <1>9, <2>2 DEF ChargeTold
  <2>3. QED
    BY <2>1, <2>2
<1>10. QED
  BY <1>3, <1>6, <1>8, <1>9 DEF ChargeTold

\* Every other payment is as it was after a step of one worker on payment p.
LEMMA ChargeInvByPayment ==
    ASSUME ClaimInv, ChargeInv, NEW p \in Payments, ChargeTold(p)',
           \A q \in Payments \ {p} :
              /\ state'[q] = state[q] /\ ref'[q] = ref[q] /\ attempts'[q] = attempts[q]
              /\ \A n \in 1 .. MaxAttempts : orders'[<<q, n>>] = orders[<<q, n>>],
           \A v \in Workers :
              job'[v] = job[v] \/ {job[v].payment, job'[v].payment} \subseteq {p, NoPayment}
    PROVE  ChargeInv'
<1>1. ASSUME NEW q \in Payments, q # p PROVE ChargeTold(q)'
  <2>1. /\ attempts[q] \in Seq(AttemptRow) /\ Len(attempts[q]) \in Nat
        /\ Len(attempts[q]) <= MaxAttempts /\ DOMAIN attempts[q] = 1 .. Len(attempts[q])
    BY DEF ClaimInv, TypeOK, AttemptsBounded
  <2>2. q # NoPayment /\ ChargeTold(q)
    BY PaymentAssumption DEF ChargeInv
  <2>3. QED
    BY <1>1, <2>1, <2>2, ElsewhereKeepsCharge
<1>2. QED
  BY <1>1 DEF ChargeInv

\* One step of the system, action by action.
LEMMA ChargeInvNext ==
    ASSUME ClaimInv, MoneyInv, OrderInv, ChargeInv, [Next]_vars, TypeOK' PROVE ChargeInv'
<1>t. TypeOK /\ JobsConsistent /\ SingleOwner /\ job \in [Workers -> Job]
  BY DEF ClaimInv, TypeOK
<1>n. Idle.payment = NoPayment /\ Idle.pc = "idle"
  BY DEF Idle
<1>c. \A p \in Payments : ChargeTold(p)
  BY DEF ChargeInv
<1>q. ASSUME UNCHANGED <<state, ref, attempts, orders, job>> PROVE ChargeInv'
  <2>1. ASSUME NEW p \in Payments PROVE ChargeTold(p)'
    <3>1. /\ attempts[p] \in Seq(AttemptRow) /\ Len(attempts[p]) \in Nat
          /\ Len(attempts[p]) <= MaxAttempts /\ DOMAIN attempts[p] = 1 .. Len(attempts[p])
      BY DEF ClaimInv, TypeOK, AttemptsBounded
    <3>2. QED
      BY <1>q, <1>c, <3>1, ElsewhereKeepsCharge
  <2>2. QED
    BY <2>1 DEF ChargeInv
<1>1. CASE \/ UNCHANGED vars \/ FreezeCheck \/ CancelCheck
           \/ \E l \in 0 .. MaxLiability : UpdateGratuity(l)
           \/ \E p \in Payments : LeaseExpires(p)
           \/ \E c \in Configs : ToggleConfig(c)
  BY <1>1, <1>q DEF vars, FreezeCheck, CancelCheck, UpdateGratuity, LeaseExpires, ToggleConfig,
                    paymentVars
<1>2. ASSUME NEW p \in Payments, NEW a \in 1 .. MaxLiability, InitiateCash(p, a)
      PROVE  ChargeInv'
  <2>1. /\ state'[p] = "SUCCEEDED" /\ \A q \in Payments \ {p} : state'[q] = state[q]
        /\ UNCHANGED <<ref, attempts, orders, job>>
    BY <1>2, <1>t DEF InitiateCash, TypeOK
  <2>2. ChargeTold(p)'
    BY <1>c, <2>1 DEF ChargeTold, Retried, Traced, GivenUp, NoCaller, Chargeable, Calling, Asking
  <2>3. QED
    BY <2>1, <2>2, ChargeInvByPayment
<1>3. ASSUME NEW w \in Workers, NEW p \in Payments, NEW a \in 1 .. MaxLiability,
             NEW c \in Configs, InitiateCard(w, p, a, c)
      PROVE  ChargeInv'
  <2> DEFINE j == [Idle EXCEPT !.pc = "claim", !.payment = p]
  <2>1. attempts[p] = <<>> /\ ref[p] = NoRef
    BY <1>3 DEF InitiateCard, MayInitiate, MoneyInv, RowsConsistent
  <2>2. /\ state'[p] = "RESERVED" /\ \A q \in Payments \ {p} : state'[q] = state[q]
        /\ UNCHANGED <<ref, attempts, orders>> /\ job[w] = Idle
        /\ job'[w] = j /\ \A v \in Workers \ {w} : job'[v] = job[v]
    BY <1>3, <1>t DEF InitiateCard, TypeOK
  <2>3. j.pc = "claim" /\ j.payment = p
    BY DEF Idle
  <2> HIDE DEF j
  <2>4. ChargeTold(p)'
    BY <1>c, <2>1, <2>2, <2>3, RowKeepsCharge DEF Asking
  <2>5. QED
    BY <1>n, <2>2, <2>3, <2>4, ChargeInvByPayment
<1>4. ASSUME NEW w \in Workers, job' = [job EXCEPT ![w] = Idle],
             UNCHANGED <<state, ref, attempts, orders>>
      PROVE  ChargeInv'
  <2>1. job'[w] = Idle /\ \A v \in Workers \ {w} : job'[v] = job[v]
    BY <1>4, <1>t
  <2>2. ASSUME NEW p \in Payments PROVE ChargeTold(p)'
    BY <1>4, <1>c, <1>n, <2>1, RowKeepsCharge DEF Asking, ChargeTold
  <2>3. QED
    BY <2>2 DEF ChargeInv
<1>5. ASSUME NEW w \in Workers,
             ClaimLost(w) \/ FinishDiscarded(w) \/ FinishRolledBack(w) \/ Crash(w)
      PROVE  ChargeInv'
  BY <1>4, <1>5 DEF ClaimLost, FinishDiscarded, FinishRolledBack, Crash, paymentVars
<1>6. ASSUME NEW w \in Workers, NEW p \in Payments, RecoverUncertain(w, p) PROVE ChargeInv'
  <2> DEFINE j == [Idle EXCEPT !.pc = "reclaim", !.payment = p,
                               !.token = Len(attempts[p]), !.type = "RECOVER"]
  <2>1. j.pc = "reclaim" /\ j.payment = p
    BY DEF Idle
  <2>2. /\ UNCHANGED <<state, ref, attempts, orders>> /\ job[w] = Idle
        /\ job'[w] = j /\ \A v \in Workers \ {w} : job'[v] = job[v]
        /\ state[p] = "UNCERTAIN"
    BY <1>6, <1>t DEF RecoverUncertain, paymentVars
  <2> HIDE DEF j
  <2>3. ChargeTold(p)'
    BY <1>c, <2>1, <2>2, RowKeepsCharge DEF Asking
  <2>4. QED
    BY <1>n, <2>1, <2>2, <2>3, ChargeInvByPayment
<1>7. ASSUME NEW w \in Workers, Revalidate(w) PROVE ChargeInv'
  <2> DEFINE j == [job[w] EXCEPT !.pc = "call"]
  <2>p. PICK p \in Payments : p = job[w].payment
    BY <1>7, <1>t DEF Revalidate, JobsConsistent, JobConsistent
  <2>1. j.pc = "call" /\ j.payment = p /\ j.token = job[w].token
    BY <1>t, <2>p DEF Job
  <2>2. /\ UNCHANGED <<state, ref, attempts, orders>> /\ job[w].pc = "execute"
        /\ job'[w] = j /\ \A v \in Workers \ {w} : job'[v] = job[v]
    BY <1>7, <1>t DEF Revalidate, paymentVars
  <2> HIDE DEF j
  <2>3. ChargeTold(p)'
    BY <1>c, <2>p, <2>1, <2>2, RowKeepsCharge DEF Asking, ChargeTold
  <2>4. QED
    BY <2>p, <2>1, <2>2, <2>3, ChargeInvByPayment
<1>8. ASSUME NEW w \in Workers, NEW p \in Payments, RecoverStale(w, p) PROVE ChargeInv'
  <2> DEFINE j == [Idle EXCEPT !.pc = "reclaim", !.payment = p,
                    !.token = Len(attempts[p]), !.type = "STALE_RECOVERY"]
             row == [type |-> attempts[p][claim[p]].type, result |-> "FENCED", ref |-> NoRef]
  <2>1. j.pc = "reclaim" /\ j.payment = p
    BY DEF Idle
  <2>2. /\ UNCHANGED <<ref, orders>> /\ job[w] = Idle
        /\ job'[w] = j /\ \A v \in Workers \ {w} : job'[v] = job[v]
        /\ state'[p] = "UNCERTAIN" /\ \A q \in Payments \ {p} : state'[q] = state[q]
    BY <1>8, <1>t DEF RecoverStale, TypeOK
  <2>3. attempts' = [attempts EXCEPT ![p][claim[p]] = row]
    BY <1>8, <1>t DEF RecoverStale, SingleOwner, OwnedOnce, Complete
  <2>4. row.type = attempts[p][claim[p]].type
    OBVIOUS
  <2> HIDE DEF j, row
  <2>5. /\ DOMAIN attempts'[p] = DOMAIN attempts[p]
        /\ \A n \in DOMAIN attempts[p] : attempts'[p][n].type = attempts[p][n].type
        /\ \A q \in Payments \ {p} : attempts'[q] = attempts[q]
    BY <1>t, <2>3, <2>4 DEF TypeOK
  <2>6. ChargeTold(p)'
    BY <1>c, <2>1, <2>2, <2>5, RowKeepsCharge DEF Asking
  <2>7. QED
    BY <1>n, <2>1, <2>2, <2>5, <2>6, ChargeInvByPayment
<1>9. ASSUME NEW w \in Workers, NEW s, NEW r, job[w].pc = "finish", Owns(w), Record(w, s, r),
             r \in {job[w].ref, NoRef}, s \in {"FAILED", "REJECTED"} => s = job[w].state,
             s # "RESERVED"
      PROVE  ChargeInv'
  <2>1. PICK p \in Payments : p = job[w].payment
    BY <1>9, OwnerInProgress
  <2> DEFINE n == job[w].token
             row == [type |-> attempts[p][n].type, result |-> s, ref |-> job[w].ref]
  <2>2. /\ orders' = orders /\ job'[w] = Idle /\ \A v \in Workers \ {w} : job'[v] = job[v]
        /\ state'[p] = s /\ \A q \in Payments \ {p} : state'[q] = state[q]
        /\ ref'[p] = r /\ \A q \in Payments \ {p} : ref'[q] = ref[q]
    BY <1>9, <1>t, <2>1 DEF Record, TypeOK
  <2>3. attempts' = [attempts EXCEPT ![p][n] = row] /\ row.type = attempts[p][n].type
    BY <1>9, <2>1 DEF Record, Complete
  <2>a. Asking(w, p)
    BY <1>9, <2>1 DEF Asking
  <2> HIDE DEF n, row
  <2>4. /\ DOMAIN attempts'[p] = DOMAIN attempts[p]
        /\ \A i \in DOMAIN attempts[p] : attempts'[p][i].type = attempts[p][i].type
        /\ \A q \in Payments \ {p} : attempts'[q] = attempts[q]
    BY <1>t, <2>1, <2>3 DEF TypeOK
  <2>5. ~Asking(w, p)'
    BY <1>n, <2>2 DEF Asking
  <2>6. ChargeTold(p)'
    BY <1>9, <1>c, <1>n, <2>1, <2>2, <2>4, <2>5, <2>a, RowKeepsCharge
  <2>7. QED
    BY <1>n, <2>1, <2>2, <2>4, <2>6, ChargeInvByPayment
<1>10. ASSUME NEW w \in Workers,
              FinishSucceeded(w) \/ FinishConflict(w) \/ FinishUnsuccessful(w)
       PROVE  ChargeInv'
  <2>1. job[w].pc = "finish" => job[w].state # "RESERVED"
    BY <1>t DEF JobsConsistent, JobConsistent, ResultStates
  <2>2. QED
    BY <1>9, <1>10, <2>1 DEF FinishSucceeded, FinishConflict, FinishUnsuccessful
<1>11. ASSUME NEW w \in Workers, NEW p \in Payments, NEW type, Claim(p, type),
              NEW j, job' = [job EXCEPT ![w] = j], j.payment = p, job[w].payment \in {p, NoPayment},
              ChargeTold(p)'
       PROVE  ChargeInv'
  <2>1. /\ \A q \in Payments \ {p} : /\ state'[q] = state[q] /\ ref'[q] = ref[q]
                                     /\ attempts'[q] = attempts[q]
        /\ orders' = orders /\ job'[w] = j /\ \A v \in Workers \ {w} : job'[v] = job[v]
    BY <1>11, <1>t DEF Claim, TypeOK
  <2>2. QED
    BY <1>11, <2>1, ChargeInvByPayment
<1>12. ASSUME NEW w \in Workers, NEW p \in Payments, NEW type, Claim(p, type),
              NEW j, job' = [job EXCEPT ![w] = j]
       PROVE  /\ Len(attempts[p]) \in Nat /\ DOMAIN attempts[p] = 1 .. Len(attempts[p])
              /\ DOMAIN attempts'[p] = 1 .. (Len(attempts[p]) + 1)
              /\ attempts'[p][Len(attempts[p]) + 1].type = type
              /\ \A n \in DOMAIN attempts[p] : attempts'[p][n] = attempts[p][n]
              /\ state'[p] = "IN_PROGRESS" /\ ref'[p] = ref[p] /\ orders' = orders
              /\ job'[w] = j /\ \A v \in Workers \ {w} : job'[v] = job[v]
              /\ \A v \in Workers : Calling(v, p) \/ Asking(v, p) =>
                    job[v].token \in DOMAIN attempts[p]
  <2> DEFINE row == [type |-> type, result |-> "IN_PROGRESS", ref |-> NoRef]
  <2>1. attempts[p] \in Seq(AttemptRow) /\ attempts'[p] = Append(attempts[p], row)
    BY <1>12, <1>t DEF Claim, TypeOK
  <2>2. row.type = type
    OBVIOUS
  <2> HIDE DEF row
  <2>3. /\ Len(attempts[p]) \in Nat /\ DOMAIN attempts[p] = 1 .. Len(attempts[p])
        /\ DOMAIN attempts'[p] = 1 .. (Len(attempts[p]) + 1)
        /\ attempts'[p][Len(attempts[p]) + 1].type = type
        /\ \A n \in DOMAIN attempts[p] : attempts'[p][n] = attempts[p][n]
    BY <2>1, <2>2
  <2>4. /\ state'[p] = "IN_PROGRESS" /\ ref'[p] = ref[p] /\ orders' = orders
        /\ job'[w] = j /\ \A v \in Workers \ {w} : job'[v] = job[v]
    BY <1>12, <1>t DEF Claim, TypeOK
  <2>5. \A v \in Workers : Calling(v, p) \/ Asking(v, p) => job[v].token \in DOMAIN attempts[p]
    BY <1>t, <2>3 DEF Calling, Asking, JobsConsistent, JobConsistent, Owning
  <2>6. QED
    BY <2>3, <2>4, <2>5
<1>13. ASSUME NEW w \in Workers, ClaimExecute(w) PROVE ChargeInv'
  <2>p. PICK p \in Payments : p = job[w].payment
    BY <1>13, <1>t DEF ClaimExecute, JobsConsistent, JobConsistent
  <2> DEFINE j == [job[w] EXCEPT !.pc = "execute", !.token = Len(attempts[p]) + 1]
  <2>1. Claim(p, "EXECUTE") /\ job' = [job EXCEPT ![w] = j]
        /\ attempts[p] = <<>> /\ ref[p] = NoRef
    BY <1>13, <1>c, <2>p DEF ClaimExecute, ChargeTold
  <2>2. j.pc = "execute" /\ j.payment = p /\ j.token = Len(attempts[p]) + 1
    BY <1>t, <2>p DEF Job
  <2> HIDE DEF j
  <2>3. ChargeTold(p)'
    <3>0. /\ Len(attempts[p]) \in Nat /\ DOMAIN attempts[p] = 1 .. Len(attempts[p])
          /\ DOMAIN attempts'[p] = 1 .. (Len(attempts[p]) + 1)
          /\ attempts'[p][Len(attempts[p]) + 1].type = "EXECUTE"
          /\ \A i \in DOMAIN attempts[p] : attempts'[p][i] = attempts[p][i]
          /\ state'[p] = "IN_PROGRESS" /\ ref'[p] = ref[p] /\ orders' = orders
          /\ job'[w] = j /\ \A v \in Workers \ {w} : job'[v] = job[v]
          /\ \A v \in Workers : Calling(v, p) \/ Asking(v, p) =>
                job[v].token \in DOMAIN attempts[p]
      BY <1>12, <2>1, Zenon
    <3>1. /\ DOMAIN attempts'[p] = {1} /\ attempts'[p][1].type = "EXECUTE"
          /\ state'[p] = "IN_PROGRESS" /\ ref'[p] = NoRef
          /\ job'[w] = j /\ \A v \in Workers \ {w} : job'[v] = job[v]
          /\ \A v \in Workers : ~Calling(v, p) /\ ~Asking(v, p)
      BY <2>1, <3>0
    <3>2. /\ \A v \in Workers : ~Asking(v, p)'
          /\ \A v \in Workers \ {w} : ~Calling(v, p)'
      BY <2>2, <3>1 DEF Calling, Asking
    <3>3. job'[w].token = 1
      BY <2>1, <2>2, <3>1
    <3>4. QED
      BY <3>1, <3>2, <3>3 DEF ChargeTold, Traced
  <2>4. QED
    BY <1>11, <2>1, <2>2, <2>3, <2>p
<1>14. ASSUME NEW w \in Workers, NEW p \in Payments, Retry(w, p) PROVE ChargeInv'
  <2> DEFINE j == [Idle EXCEPT !.pc = "execute", !.payment = p, !.token = Len(attempts[p]) + 1]
  <2>1. Claim(p, "RETRY") /\ job' = [job EXCEPT ![w] = j] /\ job[w] = Idle
    BY <1>14 DEF Retry
  <2>2. j.pc = "execute" /\ j.payment = p /\ j.token = Len(attempts[p]) + 1
    BY DEF Idle
  <2> HIDE DEF j
  <2>3. ChargeTold(p)'
    <3>n. PICK n : n = Len(attempts[p])
      OBVIOUS
    <3>0. /\ Len(attempts[p]) \in Nat /\ DOMAIN attempts[p] = 1 .. Len(attempts[p])
          /\ DOMAIN attempts'[p] = 1 .. (Len(attempts[p]) + 1)
          /\ attempts'[p][Len(attempts[p]) + 1].type = "RETRY"
          /\ \A i \in DOMAIN attempts[p] : attempts'[p][i] = attempts[p][i]
          /\ state'[p] = "IN_PROGRESS" /\ ref'[p] = ref[p] /\ orders' = orders
          /\ job'[w] = j /\ \A v \in Workers \ {w} : job'[v] = job[v]
          /\ \A v \in Workers : Calling(v, p) \/ Asking(v, p) =>
                job[v].token \in DOMAIN attempts[p]
      BY <1>12, <2>1, Zenon
    <3>1. /\ n \in Nat /\ DOMAIN attempts[p] = 1 .. n /\ DOMAIN attempts'[p] = 1 .. (n + 1)
          /\ attempts'[p][n + 1].type = "RETRY"
          /\ \A i \in DOMAIN attempts[p] : attempts'[p][i] = attempts[p][i]
          /\ state'[p] = "IN_PROGRESS" /\ orders' = orders
          /\ job'[w] = j /\ \A v \in Workers \ {w} : job'[v] = job[v]
          /\ \A v \in Workers : Calling(v, p) => job[v].token \in DOMAIN attempts[p]
      BY <3>0, <3>n
    <3>2. Retried(p)'
      BY <3>1 DEF Retried
    <3>3. \A v \in Workers : Calling(v, p)' => v = w \/ (Calling(v, p) /\ job'[v] = job[v])
      BY <3>1 DEF Calling
    <3>4. \A v \in Workers : Calling(v, p)' =>
             attempts'[p][job'[v].token].type \in {"EXECUTE", "RETRY"}
      BY <1>c, <2>2, <3>n, <3>1, <3>3 DEF ChargeTold
    <3>5. \A i \in DOMAIN attempts'[p] : i = n + 1 \/ i \in DOMAIN attempts[p]
      BY <3>1
    <3>6. QED
      BY <1>c, <3>1, <3>2, <3>4, <3>5 DEF ChargeTold
  <2>4. QED
    BY <1>11, <1>n, <2>1, <2>2, <2>3
<1>15. ASSUME NEW w \in Workers, ClaimRecover(w) PROVE ChargeInv'
  <2>p. PICK p \in Payments : p = job[w].payment
    BY <1>15, <1>t DEF ClaimRecover, JobsConsistent, JobConsistent
  <2>n. PICK n : n = Len(attempts[p])
    OBVIOUS
  <2> DEFINE j == [job[w] EXCEPT !.pc = "query", !.token = Len(attempts[p]) + 1, !.ref = ref[p]]
  <2>1. Claim(p, job[w].type) /\ job' = [job EXCEPT ![w] = j]
        /\ n < MaxAttempts /\ job[w].type \in {"RECOVER", "STALE_RECOVERY"}
    BY <1>15, <1>t, <2>p, <2>n DEF ClaimRecover, JobsConsistent, JobConsistent, Job
  <2>2. j.pc = "query" /\ j.payment = p /\ j.ref = ref[p]
    BY <1>t, <2>p DEF Job
  <2> HIDE DEF j
  <2>3. ChargeTold(p)'
    <3>0. /\ Len(attempts[p]) \in Nat /\ DOMAIN attempts[p] = 1 .. Len(attempts[p])
          /\ DOMAIN attempts'[p] = 1 .. (Len(attempts[p]) + 1)
          /\ attempts'[p][Len(attempts[p]) + 1].type = job[w].type
          /\ \A i \in DOMAIN attempts[p] : attempts'[p][i] = attempts[p][i]
          /\ state'[p] = "IN_PROGRESS" /\ ref'[p] = ref[p] /\ orders' = orders
          /\ job'[w] = j /\ \A v \in Workers \ {w} : job'[v] = job[v]
          /\ \A v \in Workers : Calling(v, p) \/ Asking(v, p) =>
                job[v].token \in DOMAIN attempts[p]
      BY <1>12, <2>1, Zenon
    <3>1. /\ n \in Nat /\ DOMAIN attempts[p] = 1 .. n /\ DOMAIN attempts'[p] = 1 .. (n + 1)
          /\ attempts'[p][n + 1].type = job[w].type
          /\ \A i \in DOMAIN attempts[p] : attempts'[p][i] = attempts[p][i]
          /\ state'[p] = "IN_PROGRESS" /\ orders' = orders /\ ref'[p] = ref[p]
          /\ job'[w] = j /\ \A v \in Workers \ {w} : job'[v] = job[v]
          /\ \A v \in Workers : Calling(v, p) => job[v].token \in DOMAIN attempts[p]
      BY <2>n, <3>0
    <3>2. \A i \in DOMAIN attempts'[p] : i = n + 1 \/ i \in DOMAIN attempts[p]
      BY <3>1
    <3>3. orders[<<p, n + 1>>] = "none"
      BY <2>1, <2>n, <3>1, PaymentAssumption DEF OrderInv, OrdersConsistent
    <3>4. Retried(p)' <=> Retried(p)
      <4>1. \A i \in DOMAIN attempts[p] : i \in DOMAIN attempts'[p]
        BY <3>1
      <4>2. QED
        BY <2>1, <3>1, <3>2, <4>1 DEF Retried
    <3>5. \A v \in Workers : /\ Calling(v, p)' <=> Calling(v, p) /\ v # w
                             /\ Calling(v, p)' => job'[v] = job[v]
                             /\ Asking(v, p)' => v = w \/ (Asking(v, p) /\ job'[v] = job[v])
      BY <2>2, <3>1 DEF Calling, Asking
    <3>6. NoCaller(p) => NoCaller(p)'
      BY <3>5 DEF NoCaller
    <3>7. (\A r : Traced(p, r) => Traced(p, r)') /\ (GivenUp(p) => GivenUp(p)')
      BY <3>1, <3>6 DEF Traced, GivenUp, Chargeable
    <3>8. \A v \in Workers : Calling(v, p)' =>
             attempts'[p][job'[v].token].type \in {"EXECUTE", "RETRY"}
      BY <1>c, <2>1, <3>1, <3>5 DEF ChargeTold
    <3>9. \A i \in DOMAIN attempts'[p] :
             /\ attempts'[p][i].type = "EXECUTE" => i = 1
             /\ orders'[<<p, i>>] # "none" => attempts'[p][i].type \in {"EXECUTE", "RETRY"}
      BY <1>c, <2>1, <3>1, <3>2, <3>3 DEF ChargeTold
    <3>10. ASSUME ~Retried(p)', NEW v \in Workers, Asking(v, p)'
           PROVE  /\ Traced(p, job[v].ref)'
                  /\ job'[v].pc = "finish" /\ job'[v].state \in {"FAILED", "REJECTED"}
                        => GivenUp(p)'
      <4>1. CASE v = w
        BY <1>c, <2>1, <2>2, <3>1, <3>4, <3>7, <3>10, <4>1 DEF ChargeTold
      <4>2. CASE v # w
        BY <1>c, <2>1, <3>4, <3>5, <3>7, <3>10, <4>2 DEF ChargeTold
      <4>3. QED
        BY <4>1, <4>2
    <3>11. QED
      BY <1>c, <2>1, <3>1, <3>4, <3>7, <3>8, <3>9, <3>10 DEF ChargeTold
  <2>4. QED
    BY <1>11, <2>1, <2>2, <2>3, <2>p
<1>16. ASSUME NEW w \in Workers, NEW s, NEW r, Answer(w, s, r), NEW p \in Payments,
              p = job[w].payment, UNCHANGED <<paymentVars, orders>>,
              ~Retried(p) =>
                 /\ \/ r \in {ref[p], NoRef}
                    \/ Asking(w, p) /\ r = job[w].ref
                    \/ Traced(p, r)'
                 /\ s \in {"FAILED", "REJECTED"} => GivenUp(p)'
       PROVE  ChargeInv'
  <2> DEFINE j == [job[w] EXCEPT !.pc = "finish", !.state = s, !.ref = r]
  <2>1. j.pc = "finish" /\ j.payment = p /\ j.state = s /\ j.ref = r
    BY <1>16, <1>t DEF Job
  <2>2. /\ UNCHANGED <<state, ref, attempts, orders>>
        /\ job'[w] = j /\ \A v \in Workers \ {w} : job'[v] = job[v]
    BY <1>16, <1>t DEF Answer, paymentVars
  <2> HIDE DEF j
  <2>3. Traced(p, r)' => Traced(p, job[w].ref)'
    BY <2>1, <2>2 DEF Traced
  <2>4. ChargeTold(p)'
    BY <1>16, <1>c, <2>1, <2>2, <2>3, RowKeepsCharge DEF ChargeTold
  <2>5. QED
    BY <1>16, <2>1, <2>2, <2>4, ChargeInvByPayment
<1>17. ASSUME NEW w \in Workers, NEW s, NEW r, Answer(w, s, r),
              job[w].pc \in {"execute", "call"}, UNCHANGED <<paymentVars, orders>>
       PROVE  ChargeInv'
  <2>1. PICK p \in Payments : p = job[w].payment
    BY <1>17, <1>t DEF JobsConsistent, JobConsistent
  <2>2. job'[w].pc = "finish" /\ \A v \in Workers \ {w} : job'[v] = job[v]
    BY <1>17, <1>t DEF Answer, Job
  <2>3. ASSUME ~Retried(p) PROVE GivenUp(p)' /\ Traced(p, r)'
    <3>1. /\ \A v \in Workers \ {w} : ~Calling(v, p)
          /\ \A n \in 1 .. MaxAttempts : orders[<<p, n>>] = "none"
      BY <1>17, <1>c, <2>1, <2>3, CallerAlone DEF Calling
    <3>2. NoCaller(p)'
      BY <2>2, <3>1 DEF NoCaller, Calling
    <3>3. QED
      BY <1>17, <3>1, <3>2 DEF GivenUp, Chargeable, Traced
  <2>4. QED
    BY <1>16, <1>17, <2>1, <2>3
<1>18. ASSUME NEW w \in Workers,
              ExecutorUnavailable(w) \/ \E r \in Refs : ReuseOrder(w, r)
       PROVE  ChargeInv'
  BY <1>17, <1>18 DEF ExecutorUnavailable, ReuseOrder
<1>19. ASSUME NEW w \in Workers, QueryOrder(w) PROVE ChargeInv'
  <2>p. PICK p \in Payments : p = job[w].payment
    BY <1>19, <1>t DEF QueryOrder, JobsConsistent, JobConsistent
  <2> DEFINE r == job[w].ref
  <2>1. PICK answer \in RecoveryAnswers(r) : Answer(w, answer[1], answer[2])
    BY <1>19 DEF QueryOrder
  <2>2. Asking(w, p) /\ UNCHANGED <<paymentVars, orders>> /\ job[w].pc = "query"
    BY <1>19, <2>p DEF QueryOrder, Asking
  <2>3. answer[2] \in {NoRef, r}
    BY <2>1 DEF RecoveryAnswers
  <2>4. ASSUME answer[1] \in {"FAILED", "REJECTED"}
        PROVE  r # NoRef /\ orders[r] \in {"declined", "failed"}
    BY <2>1, <2>4 DEF RecoveryAnswers, RecoveryState
  <2>5. ASSUME ~Retried(p), answer[1] \in {"FAILED", "REJECTED"} PROVE GivenUp(p)'
    <3>1. /\ NoCaller(p)
          /\ \A n \in 1 .. MaxAttempts : orders[<<p, n>>] # "none" => r = <<p, n>>
      BY <1>c, <2>2, <2>4, <2>5 DEF ChargeTold, Traced
    <3>2. ~Chargeable(p)
      BY <2>4, <2>5, <3>1 DEF Chargeable
    <3>3. job'[w].pc = "finish" /\ \A v \in Workers \ {w} : job'[v] = job[v]
      BY <1>t, <2>1 DEF Answer, Job
    <3>4. NoCaller(p)'
      BY <3>1, <3>3 DEF NoCaller, Calling
    <3>5. QED
      BY <2>2, <3>2, <3>4 DEF GivenUp, Chargeable
  <2>6. QED
    BY <1>16, <2>p, <2>1, <2>2, <2>3, <2>5
<1>20. ASSUME NEW w \in Workers, CreateOrder(w) PROVE ChargeInv'
  <2>q. PICK p \in Payments : p = job[w].payment
    BY <1>20, <1>t DEF CreateOrder, JobsConsistent, JobConsistent
  <2>p. PICK n : p = job[w].payment /\ n = job[w].token
    BY <2>q
  <2> DEFINE r == <<p, n>>
  <2>1. job[w].pc = "call" /\ Calling(w, p) /\ n \in 1 .. Len(attempts[p])
    BY <1>20, <1>t, <2>p DEF CreateOrder, Calling, JobsConsistent, JobConsistent, Owning
  <2>2. /\ attempts[p] \in Seq(AttemptRow) /\ Len(attempts[p]) <= MaxAttempts
        /\ DOMAIN attempts[p] = 1 .. Len(attempts[p]) /\ Len(attempts[p]) \in Nat
    BY <1>t, <2>1 DEF TypeOK, ClaimInv, AttemptsBounded
  <2>3. n \in 1 .. MaxAttempts /\ n \in DOMAIN attempts[p] /\ r \in Refs
    BY <2>1, <2>2, PaymentAssumption DEF Refs
  <2>s. PICK s \in OrderStatus : \E answer \in ExecutionAnswers(r, s) :
           orders' = [orders EXCEPT ![r] = s] /\ Answer(w, answer[1], answer[2])
    BY <1>20, <2>p DEF CreateOrder
  <2>4. PICK answer \in ExecutionAnswers(r, s) :
           orders' = [orders EXCEPT ![r] = s] /\ Answer(w, answer[1], answer[2])
    BY <2>s
  <2>5. /\ answer[2] \in {NoRef, r}
        /\ answer[1] \in {"FAILED", "REJECTED"} => s \in {"none", "declined", "failed"}
    BY <2>4 DEF ExecutionAnswers, ExecutionState
  <2>6. /\ job'[w].pc = "finish" /\ job'[w].payment = p
        /\ job'[w].state = answer[1] /\ job'[w].ref = answer[2]
        /\ \A v \in Workers \ {w} : job'[v] = job[v]
    BY <1>t, <2>p, <2>4 DEF Answer, Job
  <2>7. UNCHANGED <<state, ref, attempts>>
    BY <1>20 DEF CreateOrder, paymentVars
  <2>8. /\ orders'[r] = s
        /\ \A q \in Payments, i \in 1 .. MaxAttempts :
              <<q, i>> # r => orders'[<<q, i>>] = orders[<<q, i>>]
    BY <1>t, <2>3, <2>4 DEF TypeOK, Refs
  <2>9. ChargeTold(p)'
    <3>1. \A v \in Workers : /\ Calling(v, p)' <=> Calling(v, p) /\ v # w
                             /\ Calling(v, p)' => job'[v] = job[v]
                             /\ Asking(v, p)' => v = w \/ (Asking(v, p) /\ job'[v] = job[v])
      BY <2>6 DEF Calling, Asking
    <3>2. attempts[p][n].type \in {"EXECUTE", "RETRY"}
      BY <1>c, <2>p, <2>1 DEF ChargeTold
    <3>3. \A i \in DOMAIN attempts'[p] :
             orders'[<<p, i>>] # "none" => attempts'[p][i].type \in {"EXECUTE", "RETRY"}
      <4>1. ASSUME NEW i \in DOMAIN attempts[p], i # n, orders'[<<p, i>>] # "none"
            PROVE  attempts[p][i].type \in {"EXECUTE", "RETRY"}
        <5>1. i \in 1 .. MaxAttempts /\ <<p, i>> # r
          BY <2>2, <4>1, PaymentAssumption
        <5>2. orders[<<p, i>>] # "none"
          BY <2>1, <2>8, <4>1, <5>1
        <5>3. QED
          BY <1>c, <2>1, <5>2 DEF ChargeTold
      <4>2. QED
        BY <2>7, <3>2, <4>1
    <3>4. ASSUME ~Retried(p)
          PROVE  /\ ref[p] = NoRef /\ NoCaller(p)'
                 /\ \A v \in Workers : Asking(v, p) => job[v].ref = NoRef
                 /\ \A v \in Workers : Asking(v, p) /\ job[v].pc = "finish" =>
                       job[v].state \notin {"FAILED", "REJECTED"}
                 /\ \A i \in 1 .. MaxAttempts : i # n => orders'[<<p, i>>] = "none"
      <4>1. /\ \A v \in Workers \ {w} : ~Calling(v, p)
            /\ \A i \in 1 .. MaxAttempts : orders[<<p, i>>] = "none"
            /\ ref[p] = NoRef
            /\ \A v \in Workers : Asking(v, p) => job[v].ref = NoRef
            /\ \A v \in Workers : Asking(v, p) /\ job[v].pc = "finish" =>
                  job[v].state \notin {"FAILED", "REJECTED"}
        BY <1>c, <2>1, <3>4, CallerAlone
      <4>2. NoCaller(p)'
        BY <3>1, <4>1 DEF NoCaller
      <4>3. \A i \in 1 .. MaxAttempts : i # n => orders'[<<p, i>>] = "none"
        BY <2>1, <2>8, <4>1
      <4>4. QED
        BY <4>1, <4>2, <4>3
    <3>5. Retried(p)' <=> Retried(p)
      BY <2>7 DEF Retried
    <3>6. ASSUME ~Retried(p) PROVE state[p] \notin {"FAILED", "REJECTED"}
      BY <1>c, <2>1, <3>6 DEF ChargeTold, GivenUp, NoCaller
    <3>7. ASSUME ~Retried(p), NEW v \in Workers, Asking(v, p)'
          PROVE  /\ Traced(p, job[v].ref)'
                 /\ job'[v].pc = "finish" /\ job'[v].state \in {"FAILED", "REJECTED"}
                       => GivenUp(p)'
      <4>1. CASE v = w
        <5>1. Traced(p, answer[2])'
          BY <2>5, <3>4, <3>7 DEF Traced
        <5>2. answer[1] \in {"FAILED", "REJECTED"} => GivenUp(p)'
          BY <2>3, <2>5, <2>8, <3>4, <3>7 DEF GivenUp, Chargeable
        <5>3. QED
          BY <2>6, <4>1, <5>1, <5>2
      <4>2. CASE v # w
        <5>1. Asking(v, p) /\ job'[v] = job[v]
          BY <3>1, <3>7, <4>2
        <5>2. QED
          BY <3>4, <3>7, <5>1 DEF Traced
      <4>3. QED
        BY <4>1, <4>2
    <3>8. \A v \in Workers : Calling(v, p)' =>
             attempts'[p][job'[v].token].type \in {"EXECUTE", "RETRY"}
      BY <1>c, <2>1, <2>7, <3>1 DEF ChargeTold
    <3>9. ~Retried(p) => Traced(p, ref[p])'
      BY <2>7, <3>4 DEF Traced
    <3>10. QED
      BY <1>c, <2>1, <2>7, <3>3, <3>5, <3>6, <3>7, <3>8, <3>9 DEF ChargeTold
  <2>10. QED
    BY <2>p, <2>6, <2>7, <2>8, <2>9, ChargeInvByPayment
<1>21. ASSUME NEW r \in Refs, OrderResolves(r) PROVE ChargeInv'
  <2>1. PICK s \in {"paid", "declined", "failed"} : orders' = [orders EXCEPT ![r] = s]
    BY <1>21 DEF OrderResolves
  <2>2. orders[r] = "pending" /\ UNCHANGED <<state, ref, attempts, job>>
    BY <1>21 DEF OrderResolves, paymentVars
  <2>3. \A o \in Refs : /\ orders'[o] # "none" <=> orders[o] # "none"
                        /\ orders'[o] \in {"paid", "pending"} => orders[o] \in {"paid", "pending"}
    BY <1>t, <2>1, <2>2 DEF TypeOK
  <2>4. ASSUME NEW p \in Payments PROVE ChargeTold(p)'
    <3>1. \A n \in 1 .. MaxAttempts : <<p, n>> \in Refs
      BY DEF Refs
    <3>2. \A n \in DOMAIN attempts[p] : n \in 1 .. MaxAttempts
      BY <1>t, PaymentAssumption DEF TypeOK, ClaimInv, AttemptsBounded
    <3>3. /\ NoCaller(p)' <=> NoCaller(p)
          /\ Retried(p)' <=> Retried(p)
          /\ \A v \in Workers : Calling(v, p)' = Calling(v, p) /\ Asking(v, p)' = Asking(v, p)
      BY <2>2 DEF NoCaller, Calling, Asking, Retried
    <3>4. (\A o : Traced(p, o) => Traced(p, o)') /\ (GivenUp(p) => GivenUp(p)')
      BY <2>3, <3>1, <3>3 DEF Traced, GivenUp, Chargeable
    <3>5. \A n \in DOMAIN attempts[p] : orders'[<<p, n>>] # "none" <=> orders[<<p, n>>] # "none"
      BY <2>3, <3>1, <3>2
    <3>6. QED
      BY <1>c, <2>2, <3>3, <3>4, <3>5 DEF ChargeTold
  <2>5. QED
    BY <2>4 DEF ChargeInv
<1>22. QED
  BY <1>1, <1>2, <1>3, <1>5, <1>6, <1>7, <1>8, <1>10, <1>13, <1>14, <1>15, <1>18, <1>19, <1>20,
     <1>21, NextCases

\* A payment that was never retried is not given up while the provider has
\* charged it or still may, however many workers, crashes, lost answers and
\* recoveries there are.
THEOREM ChargesRemembered == Spec => []ChargeNotForgottenWithoutRetry
<1>1. ClaimInv => TypeOK
  BY DEF ClaimInv
<1>2. ChargeInv => ChargeNotForgottenWithoutRetry
  BY DEF ChargeInv, ChargeTold, GivenUp, ChargeNotForgottenWithoutRetry
<1>3. QED
  BY <1>1, <1>2, ClaimInvInit, ClaimInvNext, MoneyInvInit, MoneyInvNext, OrderInvInit,
     OrderInvNext, ChargeInvInit, ChargeInvNext, PTL DEF Spec

(***************************************************************************)
(* PaymentExecution implements SettlementLedger: seen from the check, the  *)
(* workers, leases, crashes, retries and recoveries only hold, release and *)
(* confirm money, one payment at a time.                                   *)
(***************************************************************************)
\* What fits the ledger is what initiate_payment lets pass.
LEMMA SameFits == ASSUME NEW a PROVE Ledger!Fits(a) <=> Fits(a)
  BY DEF Ledger!Fits, Fits, Confirmed, Reserved

\* Before anything happened.
LEMMA RefineInit == Init => Ledger!Init
<1> SUFFICES ASSUME Init PROVE Ledger!Init
  OBVIOUS
<1>1. Held = [p \in Payments |-> 0] /\ settlement = [p \in Payments |-> 0]
  BY DEF Init, Held, ReservingStates
<1>2. liability \in Nat
  BY PaymentAssumption DEF Init
<1>3. QED
  BY <1>1, <1>2 DEF Init, Ledger!Init

\* Steps that move no money.
LEMMA RefineStutter ==
    ASSUME UNCHANGED <<state, amount, settlement, liability>>,
           checkStatus' = "SETTLED" <=> checkStatus = "SETTLED"
    PROVE  UNCHANGED Ledger!vars
<1>1. Held' = Held
  BY DEF Held
<1>2. QED
  BY <1>1 DEF Ledger!vars

\* A row that reserves moves to another state that reserves.
LEMMA RefineKeep ==
    ASSUME TypeOK, NEW p \in Payments, state[p] \in ReservingStates,
           NEW s \in ReservingStates, state' = [state EXCEPT ![p] = s],
           UNCHANGED <<checkStatus, liability, amount, settlement>>
    PROVE  UNCHANGED Ledger!vars
<1>1. Held' = Held
  BY DEF Held, TypeOK
<1>2. QED
  BY <1>1 DEF Ledger!vars

\* A row that neither reserves nor settled takes a reservation that fits.
LEMMA RefineHold ==
    ASSUME TypeOK, MoneyInv, NEW p \in Payments, NEW a \in 1 .. MaxLiability, Fits(a),
           state[p] \notin ReservingStates \cup {"SUCCEEDED"},
           NEW s \in ReservingStates, state' = [state EXCEPT ![p] = s],
           amount' = [amount EXCEPT ![p] = a], UNCHANGED <<liability, settlement>>,
           checkStatus' = "SETTLED" <=> checkStatus = "SETTLED"
    PROVE  Ledger!Next
<1>1. Held[p] = 0 /\ settlement[p] = 0
  BY DEF Held, MoneyInv, SettlementIffSucceeded
<1>2. Held' = [Held EXCEPT ![p] = a]
  BY DEF Held, TypeOK
<1>3. a \in 1 .. liability
  <2>1. Confirmed \in Nat /\ Reserved \in Nat /\ liability \in Nat /\ a \in Nat /\ a > 0
    BY TotalsAreNumbers, PaymentAssumption DEF TypeOK
  <2>2. Confirmed + Reserved + a <= liability
    BY DEF Fits
  <2>3. QED
    BY <2>1, <2>2
<1>4. Ledger!Hold(p, a)
  BY <1>1, <1>2, SameFits DEF Ledger!Hold, Ledger!Untouched
<1>5. QED
  BY <1>3, <1>4 DEF Ledger!Next

\* A row gives its reservation up.
LEMMA RefineRelease ==
    ASSUME TypeOK, MoneyInv, NEW p \in Payments, state[p] \in ReservingStates,
           NEW s \in {"FAILED", "REJECTED"}, state' = [state EXCEPT ![p] = s],
           UNCHANGED <<checkStatus, liability, amount, settlement>>
    PROVE  Ledger!Next
<1>1. Held[p] > 0
  BY DEF Held, MoneyInv, RowsConsistent, ReservingStates
<1>2. Held' = [Held EXCEPT ![p] = 0]
  BY DEF Held, TypeOK, ReservingStates
<1>3. Ledger!Release(p)
  BY <1>1, <1>2 DEF Ledger!Release
<1>4. QED
  BY <1>3 DEF Ledger!Next

\* A reservation becomes a settlement.
LEMMA RefineConfirm ==
    ASSUME TypeOK, MoneyInv, NEW p \in Payments, state[p] \in ReservingStates,
           state' = [state EXCEPT ![p] = "SUCCEEDED"],
           ApplySuccess(p, amount[p], checkStatus), UNCHANGED <<liability, amount>>
    PROVE  Ledger!Next
<1>1. Held[p] = amount[p] /\ Held[p] > 0
  BY DEF Held, MoneyInv, RowsConsistent, ReservingStates
<1>2. Held' = [Held EXCEPT ![p] = 0]
  BY DEF Held, TypeOK, ReservingStates
<1>3. /\ settlement[p] = 0 /\ settlement' = [settlement EXCEPT ![p] = Held[p]]
      /\ checkStatus' = (IF Total(settlement) + Held[p] = liability THEN "SETTLED"
                                                                   ELSE checkStatus)
  BY <1>1 DEF ApplySuccess, Settleable, Confirmed
<1>4. (checkStatus' = "SETTLED") =
         (checkStatus = "SETTLED" \/ Total(settlement) + Held[p] = liability)
  BY <1>3
<1>5. Ledger!Confirm(p)
  BY <1>1, <1>2, <1>3, <1>4 DEF Ledger!Confirm
<1>6. QED
  BY <1>5 DEF Ledger!Next

\* Cash is settled at once.
LEMMA RefinePay ==
    ASSUME TypeOK, MoneyInv, NEW p \in Payments, NEW a \in 1 .. MaxLiability, InitiateCash(p, a)
    PROVE  Ledger!Next
<1>1. Held[p] = 0 /\ settlement[p] = 0 /\ Held' = Held
  BY DEF InitiateCash, MayInitiate, Held, ReservingStates, MoneyInv, SettlementIffSucceeded, TypeOK
<1>2. Fits(a) /\ a \in 1 .. liability
  <2>1. Confirmed \in Nat /\ Reserved \in Nat /\ liability \in Nat /\ a \in Nat /\ a > 0
    BY TotalsAreNumbers, PaymentAssumption DEF TypeOK
  <2>2. Confirmed + Reserved + a <= liability /\ Fits(a)
    BY DEF InitiateCash, MayInitiate, Fits
  <2>3. QED
    BY <2>1, <2>2
<1>3. /\ settlement' = [settlement EXCEPT ![p] = a] /\ liability' = liability
      /\ checkStatus # "SETTLED"
      /\ checkStatus' = (IF Total(settlement) + a = liability THEN "SETTLED" ELSE "FROZEN")
  BY DEF InitiateCash, MayInitiate, ApplySuccess, Confirmed
<1>4. (checkStatus' = "SETTLED") =
         (checkStatus = "SETTLED" \/ Total(settlement) + a = liability)
  BY <1>3
<1>5. Ledger!PayNow(p, a)
  BY <1>1, <1>2, <1>3, <1>4, SameFits DEF Ledger!PayNow, Ledger!Untouched
<1>6. QED
  BY <1>2, <1>5 DEF Ledger!Next

\* The liability changes only while no payment has a row.
LEMMA RefineReprice ==
    ASSUME TypeOK, MoneyInv, NEW l \in 0 .. MaxLiability, UpdateGratuity(l)
    PROVE  Ledger!Next
<1>1. \A p \in Payments : state[p] = "NONE"
  BY DEF UpdateGratuity, MoneyInv, RowsConsistent
<1>2. Held' = Held /\ \A p \in Payments : Held[p] = 0 /\ settlement[p] = 0
  BY <1>1 DEF UpdateGratuity, paymentVars, Held, ReservingStates, MoneyInv, SettlementIffSucceeded
<1>3. liability' \in Nat /\ checkStatus = "OPEN" /\ UNCHANGED <<settlement, checkStatus>>
  BY PaymentAssumption DEF UpdateGratuity, paymentVars
<1>4. Ledger!Reprice
  BY <1>2, <1>3 DEF Ledger!Reprice, Ledger!Untouched
<1>5. QED
  BY <1>4 DEF Ledger!Next

\* What a request does in its first transaction.
LEMMA RefineRequest ==
    ASSUME ClaimInv, MoneyInv, NEW w \in Workers, Request(w)
    PROVE  [Ledger!Next]_(Ledger!vars)
<1> USE DEF ClaimInv
<1>1. PICK p \in Payments :
        \/ \E a \in 1 .. MaxLiability, c \in Configs : InitiateCard(w, p, a, c)
        \/ Retry(w, p)
        \/ RecoverStale(w, p)
        \/ RecoverUncertain(w, p)
  BY DEF Request
<1>2. ASSUME NEW a \in 1 .. MaxLiability, NEW c \in Configs, InitiateCard(w, p, a, c)
      PROVE  Ledger!Next
  <2>1. /\ Fits(a) /\ state[p] = "NONE" /\ state' = [state EXCEPT ![p] = "RESERVED"]
        /\ amount' = [amount EXCEPT ![p] = a] /\ UNCHANGED <<liability, settlement>>
        /\ checkStatus' = "SETTLED" <=> checkStatus = "SETTLED"
    BY <1>2 DEF InitiateCard, MayInitiate
  <2>2. "RESERVED" \in ReservingStates /\ state[p] \notin ReservingStates \cup {"SUCCEEDED"}
    BY <2>1 DEF ReservingStates
  <2>3. QED
    BY <2>1, <2>2, RefineHold
<1>3. CASE Retry(w, p)
  <2>1. /\ Fits(amount[p]) /\ state[p] = "FAILED" /\ state' = [state EXCEPT ![p] = "IN_PROGRESS"]
        /\ UNCHANGED <<liability, settlement, amount, checkStatus>>
    BY <1>3 DEF Retry, Claim, checkVars
  <2>2. amount[p] \in 1 .. MaxLiability /\ amount' = [amount EXCEPT ![p] = amount[p]]
    <3>1. amount[p] > 0 /\ amount[p] \in 0 .. MaxLiability
      BY <2>1 DEF MoneyInv, RowsConsistent, TypeOK
    <3>2. amount[p] \in 1 .. MaxLiability
      BY <3>1, PaymentAssumption
    <3>3. amount' = [amount EXCEPT ![p] = amount[p]]
      BY <2>1 DEF TypeOK
    <3>4. QED
      BY <3>2, <3>3
  <2>3. "IN_PROGRESS" \in ReservingStates /\ state[p] \notin ReservingStates \cup {"SUCCEEDED"}
    BY <2>1 DEF ReservingStates
  <2>4. QED
    BY <2>1, <2>2, <2>3, RefineHold
<1>4. CASE RecoverStale(w, p)
  <2>1. /\ state[p] \in ReservingStates /\ "UNCERTAIN" \in ReservingStates
        /\ state' = [state EXCEPT ![p] = "UNCERTAIN"]
        /\ UNCHANGED <<checkStatus, liability, amount, settlement>>
    BY <1>4 DEF RecoverStale, ReservingStates, checkVars
  <2>2. QED
    BY <2>1, RefineKeep
<1>5. CASE RecoverUncertain(w, p)
  BY <1>5, RefineStutter DEF RecoverUncertain, checkVars, paymentVars
<1>6. QED
  BY <1>1, <1>2, <1>3, <1>4, <1>5

\* What it does after that.
LEMMA RefineStep ==
    ASSUME ClaimInv, MoneyInv, NEW w \in Workers, Step(w)
    PROVE  [Ledger!Next]_(Ledger!vars)
<1> USE DEF ClaimInv
<1> DEFINE p == job[w].payment
<1>1. CASE ClaimExecute(w)
  <2>1. p \in Payments
    BY <1>1 DEF ClaimExecute, JobsConsistent, JobConsistent
  <2>2. /\ state[p] \in ReservingStates /\ "IN_PROGRESS" \in ReservingStates
        /\ state' = [state EXCEPT ![p] = "IN_PROGRESS"]
        /\ UNCHANGED <<checkStatus, liability, amount, settlement>>
    BY <1>1 DEF ClaimExecute, Claim, ReservingStates, checkVars
  <2>3. QED
    BY <2>1, <2>2, RefineKeep
<1>2. CASE ClaimRecover(w)
  <2>1. p \in Payments /\ state[p] = "UNCERTAIN"
    BY <1>2 DEF ClaimRecover, JobsConsistent, JobConsistent
  <2>2. /\ state[p] \in ReservingStates /\ "IN_PROGRESS" \in ReservingStates
        /\ state' = [state EXCEPT ![p] = "IN_PROGRESS"]
        /\ UNCHANGED <<checkStatus, liability, amount, settlement>>
    BY <1>2, <2>1 DEF ClaimRecover, Claim, ReservingStates, checkVars
  <2>3. QED
    BY <2>1, <2>2, RefineKeep
<1>3. ASSUME job[w].pc = "finish", Owns(w)
      PROVE  p \in Payments /\ state[p] \in ReservingStates
  BY <1>3, OwnerInProgress DEF ReservingStates
<1>4. CASE FinishSucceeded(w)
  <2>1. p \in Payments /\ state[p] \in ReservingStates
    BY <1>3, <1>4 DEF FinishSucceeded
  <2>2. /\ state' = [state EXCEPT ![p] = "SUCCEEDED"]
        /\ ApplySuccess(p, amount[p], checkStatus) /\ UNCHANGED <<liability, amount>>
    BY <1>4 DEF FinishSucceeded, Record
  <2>3. QED
    BY <2>1, <2>2, RefineConfirm
<1>5. CASE FinishConflict(w)
  <2>1. p \in Payments /\ state[p] \in ReservingStates /\ "UNCERTAIN" \in ReservingStates
    BY <1>3, <1>5 DEF FinishConflict, ReservingStates
  <2>2. /\ state' = [state EXCEPT ![p] = "UNCERTAIN"]
        /\ UNCHANGED <<checkStatus, liability, amount, settlement>>
    BY <1>5 DEF FinishConflict, Record
  <2>3. QED
    BY <2>1, <2>2, RefineKeep
<1>6. CASE FinishUnsuccessful(w)
  <2>1. p \in Payments /\ state[p] \in ReservingStates
    BY <1>3, <1>6 DEF FinishUnsuccessful
  <2>2. /\ state' = [state EXCEPT ![p] = job[w].state]
        /\ UNCHANGED <<checkStatus, liability, amount, settlement>>
    BY <1>6 DEF FinishUnsuccessful, Record
  <2>3. job[w].state \in {"FAILED", "REJECTED"} \/ job[w].state \in ReservingStates
    BY <1>6 DEF FinishUnsuccessful, JobsConsistent, JobConsistent, ResultStates, ReservingStates
  <2>4. QED
    BY <2>1, <2>2, <2>3, RefineKeep, RefineRelease
<1>7. CASE \/ Revalidate(w) \/ ExecutorUnavailable(w) \/ CreateOrder(w)
           \/ \E r \in Refs : ReuseOrder(w, r)
           \/ ClaimLost(w) \/ QueryOrder(w) \/ FinishDiscarded(w) \/ FinishRolledBack(w)
  BY <1>7, RefineStutter DEF Revalidate, ExecutorUnavailable, CreateOrder, ReuseOrder, ClaimLost,
     QueryOrder, FinishDiscarded, FinishRolledBack, checkVars, paymentVars
<1>8. QED
  BY <1>1, <1>2, <1>4, <1>5, <1>6, <1>7 DEF Step

LEMMA RefineNext == ClaimInv /\ MoneyInv /\ [Next]_vars => [Ledger!Next]_(Ledger!vars)
<1> SUFFICES ASSUME ClaimInv, MoneyInv, [Next]_vars PROVE [Ledger!Next]_(Ledger!vars)
  OBVIOUS
<1> USE DEF ClaimInv
<1>1. ASSUME NEW l \in 0 .. MaxLiability, UpdateGratuity(l) PROVE Ledger!Next
  BY <1>1, RefineReprice
<1>2. CASE FreezeCheck \/ CancelCheck
  BY <1>2, RefineStutter DEF FreezeCheck, CancelCheck, paymentVars
<1>3. ASSUME NEW p \in Payments, NEW a \in 1 .. MaxLiability, InitiateCash(p, a)
      PROVE  Ledger!Next
  BY <1>3, RefinePay
<1>4. ASSUME NEW w \in Workers, Request(w) PROVE [Ledger!Next]_(Ledger!vars)
  BY <1>4, RefineRequest
<1>5. ASSUME NEW w \in Workers, Step(w) PROVE [Ledger!Next]_(Ledger!vars)
  BY <1>5, RefineStep
<1>6. CASE \/ \E w \in Workers : Crash(w)
           \/ \E p \in Payments : LeaseExpires(p)
           \/ \E r \in Refs : OrderResolves(r)
           \/ \E c \in Configs : ToggleConfig(c)
  BY <1>6, RefineStutter DEF Crash, LeaseExpires, OrderResolves, ToggleConfig, checkVars, paymentVars
<1>7. CASE UNCHANGED vars
  BY <1>7, RefineStutter DEF vars
<1>8. QED
  BY <1>1, <1>2, <1>3, <1>4, <1>5, <1>6, <1>7 DEF Next

\* THEOREM: payments.service implements the settlement ledger.  Whatever the
\* requests, leases, crashes, retries and provider answers do, the check sees
\* money held, released and confirmed within its liability, and is settled by
\* the confirmation that covers it and by nothing else.
THEOREM PaymentsImplementLedger == Spec => LedgerSpec
<1>1. Spec => [](ClaimInv /\ MoneyInv)
  BY ClaimInvInit, ClaimInvNext, MoneyInvInit, MoneyInvNext, PTL DEF Spec
<1>2. QED
  BY <1>1, RefineInit, RefineNext, PTL DEF Spec, LedgerSpec, Ledger!Spec
=============================================================================
