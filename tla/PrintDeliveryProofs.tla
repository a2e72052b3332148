------------------------ MODULE PrintDeliveryProofs ------------------------
(* Proofs about PrintDelivery, for any number of dispatches, coroutines,     *)
(* attempts and late requests.                                               *)
EXTENDS PrintDelivery, TLAPS

States == {"NONE", "PENDING", "IN_PROGRESS"} \cup (Outcomes \ {"INCONCLUSIVE"})
AttemptResults == {"IN_PROGRESS", "CLAIM_EXPIRED"} \cup Outcomes

(* The types by the part of the system: the cloud, the connector's ledger   *)
(* and coroutines, its loop.                                                *)
CloudTyped ==
    /\ state \in [Dispatches -> States] /\ token \in [Dispatches -> 0 .. MaxAttempts]
    /\ attempts \in [Dispatches -> Seq(AttemptResults)] /\ elapsed \in [Dispatches -> 0 .. MaxAttempts]
LocalTyped ==
    /\ ledger \in [Dispatches -> Row] /\ submits \in [Dispatches -> Nat] /\ sent \in [Dispatches -> BOOLEAN]
    /\ co \in [Coroutines -> Coroutine]
LoopTyped ==
    /\ pc \in {"down", "boot", "reconcile", "poll", "gather", "sleep"}
    /\ rows \subseteq Dispatches \X Row /\ todo \subseteq Dispatches \X BOOLEAN
    /\ claims \subseteq Dispatches \X (1 .. MaxAttempts) /\ pending \subseteq Tasks

\* There are no other variables but the wire.
LEMMA TypeParts == TypeOK <=> CloudTyped /\ LocalTyped /\ LoopTyped /\ wire \subseteq ClaimRequest \cup ReportRequest
  BY DEF TypeOK, CloudTyped, LocalTyped, LoopTyped, States, AttemptResults

-----------------------------------------------------------------------------
(* Facts only grow.                                                        *)
More(f, g) ==
    /\ \A d \in Dispatches : f.tried[d] \subseteq g.tried[d]
    /\ f.begun \subseteq g.begun /\ f.arrived \subseteq g.arrived /\ f.undone \subseteq g.undone

\* What an outcome, a row, a coroutine, a request says stays true as they do.
LEMMA MoreKeeps ==
    ASSUME NEW f, NEW g, More(f, g)
    PROVE  /\ \A d, o : Tells(f, d, o) => Tells(g, d, o)
           /\ \A d \in Dispatches : \A row : RowSound(f, d, row) => RowSound(g, d, row)
           /\ \A k : CoroutineSound(f, k) => CoroutineSound(g, k)
           /\ \A m : RequestSound(f, m) => RequestSound(g, m)
           /\ \A d, s, a : StateTrue(f, d, s, a) => StateTrue(g, d, s, a)
<1>1. \A d, o : Tells(f, d, o) => Tells(g, d, o)
  BY DEF More, Tells
<1>2. ASSUME NEW d \in Dispatches, NEW row, RowSound(f, d, row) PROVE RowSound(g, d, row)
  BY <1>1, <1>2 DEF More, RowSound
<1>3. ASSUME NEW k, CoroutineSound(f, k) PROVE CoroutineSound(g, k)
  <2>1. k.pc = "idle" \/ k.dispatch \in Dispatches
    BY <1>3 DEF CoroutineSound
  <2>2. QED
    BY <1>1, <1>3, <2>1 DEF More, CoroutineSound
<1>4. ASSUME NEW m, RequestSound(f, m) PROVE RequestSound(g, m)
  <2>1. CASE m \in ClaimRequest
    BY <2>1 DEF RequestSound
  <2>2. CASE m \in ReportRequest /\ m.token \in f.tried[m.dispatch] /\ Tells(f, m.dispatch, m.result)
    <3>1. m.dispatch \in Dispatches
      BY <2>2 DEF ReportRequest
    <3>2. m.token \in g.tried[m.dispatch] /\ Tells(g, m.dispatch, m.result)
      BY <1>1, <2>2, <3>1 DEF More
    <3>3. QED
      BY <2>2, <3>2 DEF RequestSound
  <2>3. QED
    BY <1>4, <2>1, <2>2 DEF RequestSound
<1>5. \A d, s, a : StateTrue(f, d, s, a) => StateTrue(g, d, s, a)
  BY <1>1 DEF More, StateTrue
<1>6. QED
  BY <1>1, <1>2, <1>3, <1>4, <1>5

\* What the record of the facts holds.
LEMMA FactsAre ==
    /\ \A d \in Dispatches : Facts.tried[d] = DOMAIN attempts[d]
    /\ \A d : d \in Facts.begun <=> d \in Dispatches /\ Begun(d)
    /\ \A d : d \in Facts.arrived <=> d \in Dispatches /\ sent[d]
    /\ \A d : d \in Facts.undone <=> d \in Dispatches /\ Undone(d)
  BY DEF Facts

\* The same after a step.
LEMMA FactsAreNext ==
    /\ \A d \in Dispatches : Facts'.tried[d] = DOMAIN attempts'[d]
    /\ \A d : d \in Facts'.begun <=> d \in Dispatches /\ Begun(d)'
    /\ \A d : d \in Facts'.arrived <=> d \in Dispatches /\ sent'[d]
    /\ \A d : d \in Facts'.undone <=> d \in Dispatches /\ Undone(d)'
  BY DEF Facts

-----------------------------------------------------------------------------
(* What a step does to the cloud's rows, to the connector's ledger and     *)
(* coroutines, and to what its loop holds.                                 *)

\* An ended attempt keeps its result.
ResultsStand ==
    \A d \in Dispatches : \A n \in DOMAIN attempts[d] :
        attempts[d][n] # "IN_PROGRESS" => attempts'[d][n] = attempts[d][n]

\* A dispatch changes its state by its creation, a claim, or a result that is true.
CloudGoal ==
    /\ CloudTyped' /\ ResultsStand
    /\ \A d \in Dispatches :
          /\ ClaimSound(state'[d], token'[d], attempts'[d], elapsed'[d])
          /\ DOMAIN attempts[d] \subseteq DOMAIN attempts'[d]
          /\ \/ state'[d] = state[d] /\ attempts'[d] = attempts[d]
             \/ state'[d] \in {"PENDING", "IN_PROGRESS"}
             \/ state'[d] = "ACTION_REQUIRED" /\ attempts'[d] = <<>>
             \/ \E o \in Outcomes : state'[d] = ResultState(o) /\ Tells(Facts, d, o)

LocalGoal ==
    /\ LocalTyped'
    /\ \A d \in Dispatches : /\ SubmissionSound(d)'
                             /\ Begun(d) => Begun(d)'
                             /\ sent[d] => sent'[d]
                             /\ Undone(d) => Undone(d)'

\* What is new is sound by the facts before the step or by those after it.
RowsKept == \A d \in Dispatches : ledger'[d] = ledger[d] \/ RowSound(Facts, d, ledger'[d]) \/ RowSound(Facts', d, ledger'[d])
CoroutinesKept == \A c \in Coroutines : co'[c] = co[c] \/ CoroutineSound(Facts, co'[c]) \/ CoroutineSound(Facts', co'[c])
LoopKept ==
    /\ LoopTyped'
    /\ \A r \in rows' : r \in rows \/ RowSound(Facts, r[1], r[2])
    /\ \A p \in claims' : p \in claims \/ p[2] \in Facts'.tried[p[1]]
WireKept == \A m \in wire' : m \in wire \/ RequestSound(Facts, m)

Goal == DeliveryInv' /\ ResultsStand

\* Together they keep the invariant.
LEMMA Together ==
    ASSUME DeliveryInv, CloudGoal, LocalGoal, RowsKept, CoroutinesKept, LoopKept, WireKept
    PROVE  Goal
<1>1. More(Facts, Facts')
  <2>1. \A d \in Dispatches : Facts.tried[d] \subseteq Facts'.tried[d]
    BY FactsAre, FactsAreNext DEF CloudGoal
  <2>2. Facts.begun \subseteq Facts'.begun /\ Facts.arrived \subseteq Facts'.arrived /\ Facts.undone \subseteq Facts'.undone
    BY FactsAre, FactsAreNext DEF LocalGoal
  <2>3. QED
    BY <2>1, <2>2 DEF More
<1>2. /\ \A d, o : Tells(Facts, d, o) => Tells(Facts', d, o)
      /\ \A d \in Dispatches : \A row : RowSound(Facts, d, row) => RowSound(Facts', d, row)
      /\ \A k : CoroutineSound(Facts, k) => CoroutineSound(Facts', k)
      /\ \A m : RequestSound(Facts, m) => RequestSound(Facts', m)
      /\ \A d, s, a : StateTrue(Facts, d, s, a) => StateTrue(Facts', d, s, a)
  BY <1>1, MoreKeeps
<1>3. ASSUME NEW d \in Dispatches PROVE RowSound(Facts', d, ledger'[d])
  BY <1>2 DEF DeliveryInv, RowsKept
<1>4. ASSUME NEW c \in Coroutines PROVE CoroutineSound(Facts', co'[c])
  BY <1>2 DEF DeliveryInv, CoroutinesKept
<1>5. ASSUME NEW m \in wire' PROVE RequestSound(Facts', m)
  BY <1>2 DEF DeliveryInv, WireKept
<1>6. ASSUME NEW r \in rows' PROVE RowSound(Facts', r[1], r[2])
  <2>1. r[1] \in Dispatches
    BY DEF LoopKept, LoopTyped
  <2>2. QED
    BY <1>2, <2>1 DEF DeliveryInv, LoopKept
<1>7. ASSUME NEW p \in claims' PROVE p[2] \in Facts'.tried[p[1]]
  <2>1. p[1] \in Dispatches
    BY DEF LoopKept, LoopTyped
  <2>2. QED
    BY <1>1, <2>1 DEF DeliveryInv, LoopKept, More
<1>8. ASSUME NEW d \in Dispatches PROVE StateTrue(Facts', d, state'[d], attempts'[d])
  <2>1. CASE state'[d] = state[d] /\ attempts'[d] = attempts[d]
    BY <1>2, <2>1 DEF DeliveryInv
  <2>2. CASE state'[d] \in {"PENDING", "IN_PROGRESS"} \/ (state'[d] = "ACTION_REQUIRED" /\ attempts'[d] = <<>>)
    BY <2>2 DEF StateTrue, Tells
  <2>3. ASSUME NEW o \in Outcomes, state'[d] = ResultState(o), Tells(Facts, d, o)
        PROVE  StateTrue(Facts', d, state'[d], attempts'[d])
    <3>1. Tells(Facts', d, o)
      BY <1>2, <2>3
    <3>2. QED
      BY <2>3, <3>1 DEF StateTrue, Tells, ResultState, Outcomes
  <2>4. QED
    BY <2>1, <2>2, <2>3 DEF CloudGoal
<1>9. wire' \subseteq ClaimRequest \cup ReportRequest
  BY <1>5 DEF RequestSound
<1>10. TypeOK'
  BY <1>9, TypeParts DEF CloudGoal, LocalGoal, LoopKept, TypeOK, CloudTyped, LocalTyped, LoopTyped, States, AttemptResults
<1>11. \A d \in Dispatches : ClaimSound(state'[d], token'[d], attempts'[d], elapsed'[d]) /\ SubmissionSound(d)'
  BY DEF CloudGoal, LocalGoal
<1>12. DeliveryInv'
  BY <1>3, <1>4, <1>5, <1>6, <1>7, <1>8, <1>10, <1>11 DEF DeliveryInv
<1>13. QED
  BY <1>12 DEF Goal, CloudGoal

-----------------------------------------------------------------------------
(* The cloud.                                                              *)

\* The attempts of a dispatch after a claim, and after the result of its holder.
Claimed(s, t, a) == Append(IF s = "IN_PROGRESS" THEN [a EXCEPT ![t] = "CLAIM_EXPIRED"] ELSE a, "IN_PROGRESS")
Answered(t, a, o) == [a EXCEPT ![t] = o]

\* Attempts x come after a: no result that was there is lost.
Follows(a, x) ==
    /\ x \in Seq(AttemptResults) /\ DOMAIN a \subseteq DOMAIN x
    /\ \A n \in DOMAIN a : a[n] # "IN_PROGRESS" => x[n] = a[n]

\* A claim ends the attempt that ran, and no other.
LEMMA AttemptAdded ==
    ASSUME NEW s, NEW t, NEW a \in Seq(AttemptResults), NEW e, ClaimSound(s, t, a, e), Len(a) < MaxAttempts,
           NEW x, x = Claimed(s, t, a)
    PROVE  /\ x \in Seq(AttemptResults) /\ ClaimSound("IN_PROGRESS", Len(a) + 1, x, e)
           /\ Len(a) + 1 \in 0 .. MaxAttempts
           /\ DOMAIN a \subseteq DOMAIN x
           /\ \A n \in DOMAIN a : a[n] # "IN_PROGRESS" => x[n] = a[n]
<1> DEFINE b == IF s = "IN_PROGRESS" THEN [a EXCEPT ![t] = "CLAIM_EXPIRED"] ELSE a
<1>1. MaxAttempts \in Nat /\ Len(a) \in Nat /\ DOMAIN a = 1 .. Len(a)
  BY DeliveryAssumption
<1>2. /\ b \in Seq(AttemptResults) /\ Len(b) = Len(a) /\ DOMAIN b = DOMAIN a
      /\ \A n \in DOMAIN a : b[n] # "IN_PROGRESS" /\ (a[n] # "IN_PROGRESS" => b[n] = a[n])
  <2>1. CASE s = "IN_PROGRESS"
    <3>1. b = [a EXCEPT ![t] = "CLAIM_EXPIRED"] /\ t \in DOMAIN a /\ \A n \in DOMAIN a : a[n] = "IN_PROGRESS" <=> n = t
      BY <1>1, <2>1 DEF ClaimSound
    <3>2. "CLAIM_EXPIRED" \in AttemptResults
      BY DEF AttemptResults
    <3>3. b \in [1 .. Len(a) -> AttemptResults]
      BY <1>1, <3>1, <3>2
    <3>4. b \in Seq(AttemptResults) /\ Len(b) = Len(a) /\ DOMAIN b = DOMAIN a
      BY <1>1, <3>3
    <3>5. ASSUME NEW n \in DOMAIN a PROVE b[n] # "IN_PROGRESS" /\ (a[n] # "IN_PROGRESS" => b[n] = a[n])
      <4>1. CASE n = t
        BY <3>1, <4>1
      <4>2. CASE n # t
        BY <3>1, <4>2
      <4>3. QED
        BY <4>1, <4>2
    <3>6. QED
      BY <3>4, <3>5
  <2>2. CASE s # "IN_PROGRESS"
    <3>1. b = a /\ \A n \in DOMAIN a : a[n] = "IN_PROGRESS" <=> n = 0
      BY <2>2 DEF ClaimSound
    <3>2. \A n \in DOMAIN a : a[n] # "IN_PROGRESS"
      BY <1>1, <3>1
    <3>3. QED
      BY <3>1, <3>2
  <2>3. QED
    BY <2>1, <2>2
<1>3. "IN_PROGRESS" \in AttemptResults /\ x = Append(b, "IN_PROGRESS")
  BY DEF AttemptResults, Claimed
<1> HIDE DEF b
<1>4. /\ x \in Seq(AttemptResults) /\ Len(x) = Len(a) + 1 /\ DOMAIN x = 1 .. (Len(a) + 1)
      /\ x[Len(a) + 1] = "IN_PROGRESS" /\ \A n \in DOMAIN a : x[n] = b[n]
  BY <1>1, <1>2, <1>3
<1>5. \A n \in DOMAIN x : x[n] = "IN_PROGRESS" <=> n = Len(a) + 1
  BY <1>1, <1>2, <1>4
<1>6. e \in 0 .. Len(x) /\ Len(x) <= MaxAttempts /\ Len(a) + 1 > 0
  BY <1>1, <1>4 DEF ClaimSound
<1>7. ClaimSound("IN_PROGRESS", Len(a) + 1, x, e)
  BY <1>4, <1>5, <1>6 DEF ClaimSound
<1>8. QED
  BY <1>1, <1>2, <1>4, <1>6, <1>7

\* The holder's result ends its attempt, and no other.
LEMMA AttemptEnded ==
    ASSUME NEW s, NEW t, NEW a \in Seq(AttemptResults), NEW e, ClaimSound(s, t, a, e), s = "IN_PROGRESS",
           NEW o \in Outcomes, NEW x, x = Answered(t, a, o)
    PROVE  Follows(a, x) /\ ClaimSound(ResultState(o), 0, x, e)
<1>1. Len(a) \in Nat /\ DOMAIN a = 1 .. Len(a) /\ t \in DOMAIN a /\ \A n \in DOMAIN a : a[n] = "IN_PROGRESS" <=> n = t
  BY DEF ClaimSound
<1>2. o \in AttemptResults /\ o # "IN_PROGRESS" /\ ResultState(o) \notin {"IN_PROGRESS", "NONE"}
  BY DEF AttemptResults, ResultState, Outcomes
<1>3. x \in Seq(AttemptResults) /\ Len(x) = Len(a) /\ DOMAIN x = DOMAIN a /\ x[t] = o /\ \A n \in DOMAIN a : n # t => x[n] = a[n]
  BY <1>1, <1>2 DEF Answered
<1>4. \A n \in DOMAIN x : x[n] = "IN_PROGRESS" <=> n = 0
  BY <1>1, <1>2, <1>3
<1>5. QED
  BY <1>1, <1>2, <1>3, <1>4 DEF ClaimSound, Follows

\* A row of the cloud as it was.
CloudRowKept(d) ==
    state'[d] = state[d] /\ token'[d] = token[d] /\ attempts'[d] = attempts[d] /\ elapsed'[d] = elapsed[d]

\* One dispatch changes, and soundly.
LEMMA CloudRowChanged ==
    ASSUME DeliveryInv, CloudTyped', NEW d \in Dispatches, \A e \in Dispatches : e # d => CloudRowKept(e),
           ClaimSound(state'[d], token'[d], attempts'[d], elapsed'[d]),
           DOMAIN attempts[d] \subseteq DOMAIN attempts'[d],
           \A n \in DOMAIN attempts[d] : attempts[d][n] # "IN_PROGRESS" => attempts'[d][n] = attempts[d][n],
           \/ state'[d] = state[d] /\ attempts'[d] = attempts[d]
           \/ state'[d] \in {"PENDING", "IN_PROGRESS"}
           \/ state'[d] = "ACTION_REQUIRED" /\ attempts'[d] = <<>>
           \/ \E o \in Outcomes : state'[d] = ResultState(o) /\ Tells(Facts, d, o)
    PROVE  CloudGoal
<1>1. \A e \in Dispatches : ClaimSound(state[e], token[e], attempts[e], elapsed[e])
  BY DEF DeliveryInv
<1>2. ResultsStand
  BY DEF ResultsStand, CloudRowKept
<1>3. ASSUME NEW e \in Dispatches, e # d
      PROVE  /\ ClaimSound(state'[e], token'[e], attempts'[e], elapsed'[e])
             /\ DOMAIN attempts[e] \subseteq DOMAIN attempts'[e]
             /\ state'[e] = state[e] /\ attempts'[e] = attempts[e]
  BY <1>1, <1>3 DEF CloudRowKept
<1>4. QED
  BY <1>2, <1>3 DEF CloudGoal

\* The cloud does nothing.
LEMMA CloudSame ==
    ASSUME DeliveryInv, UNCHANGED <<cloudVars, elapsed>>
    PROVE  CloudGoal
<1>1. CloudTyped'
  BY TypeParts DEF DeliveryInv, CloudTyped, cloudVars
<1>2. \A e \in Dispatches : ClaimSound(state'[e], token'[e], attempts'[e], elapsed'[e])
  BY DEF DeliveryInv, cloudVars
<1>3. QED
  BY <1>1, <1>2 DEF CloudGoal, ResultsStand, cloudVars

\* A dispatch is created, or a lease runs out.
LEMMA CloudCreated ==
    ASSUME DeliveryInv, NEW d \in Dispatches,
           Materialize(d) \/ CreateDispatch(d) \/ CreateReprint(d) \/ LeaseExpires(d)
    PROVE  CloudGoal
<1>1. CloudTyped /\ ClaimSound(state[d], token[d], attempts[d], elapsed[d])
  BY TypeParts DEF DeliveryInv
<1>2. ASSUME NEW s \in {"PENDING", "ACTION_REQUIRED"}, state[d] = "NONE", state' = [state EXCEPT ![d] = s],
             UNCHANGED <<token, attempts, elapsed>>
      PROVE  CloudGoal
  <2>1. s \in States
    BY DEF States, Outcomes
  <2>2. CloudTyped' /\ state'[d] = s
    BY <1>1, <1>2, <2>1 DEF CloudTyped
  <2>3. attempts[d] = <<>> /\ ClaimSound(s, token[d], attempts[d], elapsed[d])
    BY <1>1, <1>2 DEF ClaimSound
  <2>4. \A e \in Dispatches : e # d => CloudRowKept(e)
    BY <1>1, <1>2 DEF CloudRowKept, CloudTyped
  <2>5. QED
    BY <1>2, <2>2, <2>3, <2>4, CloudRowChanged
<1>3. ASSUME LeaseExpires(d) PROVE CloudGoal
  <2>1. elapsed' = [elapsed EXCEPT ![d] = elapsed[d] + 1] /\ elapsed[d] < Len(attempts[d]) /\ UNCHANGED <<state, token, attempts>>
    BY <1>3 DEF LeaseExpires, cloudVars
  <2>2. Len(attempts[d]) \in Nat /\ Len(attempts[d]) <= MaxAttempts /\ elapsed[d] \in Nat /\ MaxAttempts \in Nat
    BY <1>1, DeliveryAssumption DEF CloudTyped, ClaimSound
  <2>3. elapsed[d] + 1 \in 0 .. MaxAttempts /\ elapsed[d] + 1 \in 0 .. Len(attempts[d])
    BY <2>1, <2>2
  <2>4. CloudTyped' /\ elapsed'[d] = elapsed[d] + 1
    BY <1>1, <2>1, <2>3 DEF CloudTyped
  <2>5. ClaimSound(state'[d], token'[d], attempts'[d], elapsed'[d])
    BY <1>1, <2>1, <2>3, <2>4 DEF ClaimSound
  <2>6. \A e \in Dispatches : e # d => CloudRowKept(e)
    BY <1>1, <2>1 DEF CloudRowKept, CloudTyped
  <2>7. QED
    BY <2>1, <2>4, <2>5, <2>6, CloudRowChanged
<1>4. CASE Materialize(d) \/ CreateDispatch(d) \/ CreateReprint(d)
  BY <1>2, <1>4 DEF Materialize, CreateDispatch, CreateReprint
<1>5. QED
  BY <1>3, <1>4

\* A claim is granted.
LEMMA CloudClaimed ==
    ASSUME DeliveryInv, NEW d \in Dispatches, Claim(d), UNCHANGED elapsed
    PROVE  CloudGoal /\ Len(attempts[d]) + 1 \in DOMAIN attempts'[d] /\ Len(attempts[d]) + 1 \in 1 .. MaxAttempts
<1> DEFINE a == attempts[d]
           x == Append(EndedAttempts(d), "IN_PROGRESS")
<1>1. CloudTyped /\ ClaimSound(state[d], token[d], a, elapsed[d]) /\ a \in Seq(AttemptResults)
  BY TypeParts DEF DeliveryInv, CloudTyped
<1>2. /\ Len(a) < MaxAttempts /\ attempts' = [attempts EXCEPT ![d] = x]
      /\ state' = [state EXCEPT ![d] = "IN_PROGRESS"] /\ token' = [token EXCEPT ![d] = Len(a) + 1]
  BY DEF Claim
<1>3. x = Claimed(state[d], token[d], a)
  BY DEF EndedAttempts, Claimed
<1> HIDE DEF x, a
<1>4. /\ x \in Seq(AttemptResults) /\ ClaimSound("IN_PROGRESS", Len(a) + 1, x, elapsed[d])
      /\ Len(a) + 1 \in 0 .. MaxAttempts
      /\ DOMAIN a \subseteq DOMAIN x
      /\ \A n \in DOMAIN a : a[n] # "IN_PROGRESS" => x[n] = a[n]
  <2>1. Len(a) < MaxAttempts
    BY <1>2
  <2>2. QED
    BY <1>1, <1>3, <2>1, AttemptAdded
<1>5. Len(a) \in Nat /\ Len(a) + 1 = Len(x) /\ Len(a) + 1 \in DOMAIN x
  BY <1>1, <1>4 DEF ClaimSound
<1> USE DEF a
<1>6. CloudTyped' /\ state'[d] = "IN_PROGRESS" /\ token'[d] = Len(a) + 1 /\ attempts'[d] = x
  <2>1. "IN_PROGRESS" \in States
    BY DEF States
  <2>2. QED
    BY <1>1, <1>2, <1>4, <2>1 DEF CloudTyped
<1>7. \A e \in Dispatches : e # d => CloudRowKept(e)
  BY <1>1, <1>2 DEF CloudRowKept, CloudTyped
<1>8. CloudGoal
  BY <1>4, <1>6, <1>7, CloudRowChanged
<1>9. QED
  BY <1>4, <1>5, <1>6, <1>8

\* A result is recorded, or repeated.
LEMMA CloudRecorded ==
    ASSUME DeliveryInv, NEW d \in Dispatches, NEW n, NEW o \in Outcomes, RecordResult(d, n, o), Tells(Facts, d, o),
           UNCHANGED elapsed
    PROVE  CloudGoal
<1> DEFINE a == attempts[d]
           x == [attempts[d] EXCEPT ![n] = o]
<1>1. CloudTyped /\ ClaimSound(state[d], token[d], a, elapsed[d]) /\ a \in Seq(AttemptResults)
  BY TypeParts DEF DeliveryInv, CloudTyped
<1>2. CASE attempts[d][n] = o
  <2>1. UNCHANGED <<cloudVars, elapsed>>
    BY <1>2 DEF RecordResult
  <2>2. QED
    BY <2>1, CloudSame
<1>3. CASE attempts[d][n] # o
  <2>1. /\ state[d] = "IN_PROGRESS" /\ token[d] = n
        /\ attempts' = [attempts EXCEPT ![d] = x] /\ state' = [state EXCEPT ![d] = ResultState(o)]
        /\ token' = [token EXCEPT ![d] = 0]
    BY <1>3 DEF RecordResult, Recordable
  <2>2. /\ x \in Seq(AttemptResults) /\ ClaimSound(ResultState(o), 0, x, elapsed[d])
        /\ DOMAIN a \subseteq DOMAIN x
        /\ \A k \in DOMAIN a : a[k] # "IN_PROGRESS" => x[k] = a[k]
    <3>1. x = Answered(token[d], a, o) /\ state[d] = "IN_PROGRESS"
      BY <1>1, <2>1 DEF Answered
    <3> HIDE DEF x, a
    <3>2. Follows(a, x) /\ ClaimSound(ResultState(o), 0, x, elapsed[d])
      BY <1>1, <3>1, AttemptEnded
    <3>3. QED
      BY <3>2 DEF Follows
  <2> HIDE DEF x
  <2>3. ResultState(o) \in States /\ 0 \in 0 .. MaxAttempts
    BY DeliveryAssumption DEF ResultState, States, Outcomes
  <2>4. CloudTyped' /\ state'[d] = ResultState(o) /\ token'[d] = 0 /\ attempts'[d] = x
    BY <1>1, <2>1, <2>2, <2>3 DEF CloudTyped
  <2>5. \A e \in Dispatches : e # d => CloudRowKept(e)
    BY <1>1, <2>1 DEF CloudRowKept, CloudTyped
  <2>6. QED
    BY <2>2, <2>4, <2>5, CloudRowChanged
<1>4. QED
  BY <1>2, <1>3

-----------------------------------------------------------------------------
(* The connector: its ledger and coroutines.                               *)

\* What is known of a coroutine that is not idle.
LEMMA CoroutineFacts ==
    ASSUME DeliveryInv, NEW c \in Coroutines
    PROVE  /\ LocalTyped /\ CoroutineSound(Facts, co[c])
           /\ co[c].pc # "idle" => co[c].dispatch \in Dispatches
           /\ co[c].pc \in {"submit", "inspect", "finalize", "report", "reported"} => Begun(co[c].dispatch)
<1>1. CoroutineSound(Facts, co[c]) /\ LocalTyped
  BY TypeParts DEF DeliveryInv
<1>2. co[c].pc \in {"submit", "inspect", "finalize", "report", "reported"} => co[c].dispatch \in Facts.begun
  BY <1>1 DEF CoroutineSound
<1>3. QED
  BY <1>1, <1>2, FactsAre DEF CoroutineSound

\* Nothing is submitted and no coroutine comes to submit.
LEMMA LocalQuiet ==
    ASSUME DeliveryInv, UNCHANGED <<submits, sent>>, ledger' \in [Dispatches -> Row], co' \in [Coroutines -> Coroutine],
           \A d \in Dispatches : Begun(d) => Begun(d)',
           \A c \in Coroutines : co'[c] = co[c] \/ co'[c].pc # "submit"
    PROVE  LocalGoal
<1>1. LocalTyped /\ \A d \in Dispatches : SubmissionSound(d)
  BY TypeParts DEF DeliveryInv
<1>2. \A c \in Coroutines, d \in Dispatches : Submitting(c, d)' => Submitting(c, d)
  BY DEF Submitting
<1>3. ASSUME NEW d \in Dispatches PROVE SubmissionSound(d)' /\ (Undone(d) => Undone(d)')
  <2>1. SubmissionSound(d)'
    BY <1>1, <1>2 DEF SubmissionSound
  <2>2. Undone(d) => Undone(d)'
    BY <1>2 DEF Undone
  <2>3. QED
    BY <2>1, <2>2
<1>4. LocalTyped'
  BY <1>1 DEF LocalTyped
<1>5. QED
  BY <1>3, <1>4 DEF LocalGoal

\* The ledger and the coroutines stay, or coroutines become idle.
LEMMA LocalSame ==
    ASSUME DeliveryInv, UNCHANGED <<submits, sent, ledger>>, co' \in [Coroutines -> Coroutine],
           \A c \in Coroutines : co'[c] = co[c] \/ co'[c] = Idle
    PROVE  LocalGoal /\ RowsKept /\ CoroutinesKept
<1>1. Idle.pc = "idle" /\ CoroutineSound(Facts', Idle)
  <2>1. Idle \in Coroutine
    BY DeliveryAssumption DEF Idle, Coroutine
  <2>2. QED
    BY <2>1 DEF Idle, CoroutineSound
<1>2. ledger' \in [Dispatches -> Row] /\ \A d \in Dispatches : Begun(d) => Begun(d)'
  BY TypeParts DEF DeliveryInv, LocalTyped, Begun
<1>3. LocalGoal
  BY <1>1, <1>2, LocalQuiet
<1>4. QED
  BY <1>1, <1>3 DEF RowsKept, CoroutinesKept

\* All coroutines as they were.
LEMMA LocalUnchanged ==
    ASSUME DeliveryInv, UNCHANGED <<submits, sent, ledger, co>>
    PROVE  LocalGoal /\ RowsKept /\ CoroutinesKept
<1>1. co' \in [Coroutines -> Coroutine]
  BY TypeParts DEF DeliveryInv, LocalTyped
<1>2. QED
  BY <1>1, LocalSame

\* The loop holds what it held, or forgets it.
LEMMA LoopSame ==
    ASSUME DeliveryInv, UNCHANGED loopVars
    PROVE  LoopKept
<1>1. LoopTyped'
  BY TypeParts DEF DeliveryInv, LoopTyped, loopVars
<1>2. QED
  BY <1>1 DEF LoopKept, loopVars

\* A synchronization, or the process, ends.
LEMMA LoopForgets ==
    ASSUME pc' \in {"down", "sleep"}, rows' = {}, todo' = {}, claims' = {}, pending' = {}
    PROVE  LoopKept
  BY DEF LoopKept, LoopTyped

\* Coroutine c goes on as k, which does not submit, and the rest of the connector stays.
LEMMA CoroutineMoves ==
    ASSUME DeliveryInv, NEW c \in Coroutines, NEW k \in Coroutine, co' = [co EXCEPT ![c] = k], k.pc # "submit",
           CoroutineSound(Facts, k) \/ CoroutineSound(Facts', k), UNCHANGED <<ledger, submits, sent>>
    PROVE  LocalGoal /\ RowsKept /\ CoroutinesKept
<1>1. LocalTyped
  BY TypeParts DEF DeliveryInv
<1>2. /\ co' \in [Coroutines -> Coroutine] /\ co'[c] = k
      /\ \A e \in Coroutines : e # c => co'[e] = co[e]
  BY <1>1 DEF LocalTyped
<1>3. ledger' \in [Dispatches -> Row] /\ \A d \in Dispatches : Begun(d) => Begun(d)'
  BY <1>1 DEF LocalTyped, Begun
<1>4. LocalGoal
  BY <1>2, <1>3, LocalQuiet
<1>5. QED
  BY <1>2, <1>4 DEF RowsKept, CoroutinesKept

\* With the row of its dispatch.
LEMMA CoroutineWrites ==
    ASSUME DeliveryInv, NEW c \in Coroutines, NEW k \in Coroutine, co' = [co EXCEPT ![c] = k], k.pc # "submit",
           CoroutineSound(Facts, k) \/ CoroutineSound(Facts', k),
           NEW d \in Dispatches, NEW row \in Row, ledger' = [ledger EXCEPT ![d] = row],
           RowSound(Facts, d, row) \/ RowSound(Facts', d, row), Begun(d) => row.state \notin {"NONE", "RECEIVED"}, UNCHANGED <<submits, sent>>
    PROVE  LocalGoal /\ RowsKept /\ CoroutinesKept
<1>1. LocalTyped
  BY TypeParts DEF DeliveryInv
<1>2. /\ co' \in [Coroutines -> Coroutine] /\ co'[c] = k
      /\ \A e \in Coroutines : e # c => co'[e] = co[e]
  BY <1>1 DEF LocalTyped
<1>3. /\ ledger' \in [Dispatches -> Row] /\ ledger'[d] = row
      /\ \A e \in Dispatches : e # d => ledger'[e] = ledger[e]
  BY <1>1 DEF LocalTyped
<1>4. \A e \in Dispatches : Begun(e) => Begun(e)'
  BY <1>3 DEF Begun
<1>5. LocalGoal
  BY <1>2, <1>3, <1>4, LocalQuiet
<1>6. QED
  BY <1>2, <1>3, <1>5 DEF RowsKept, CoroutinesKept

\* The values a step gives to a coroutine.
LEMMA AtIs ==
    ASSUME NEW w \in {"idle", "report", "reported", "reclaim", "renew", "submit", "inspect", "finalize"},
           NEW d \in Dispatches, NEW n \in 0 .. MaxAttempts, NEW o \in {"NONE"} \cup Outcomes
    PROVE  /\ At(w, d, n, o) \in Coroutine /\ At(w, d, n, o).pc = w /\ At(w, d, n, o).dispatch = d
           /\ At(w, d, n, o).token = n /\ At(w, d, n, o).result = o
  BY DEF At, Coroutine

\* An idle coroutine is sound whatever the facts.
LEMMA IdleIs == Idle \in Coroutine /\ Idle.pc = "idle" /\ \A f : CoroutineSound(f, Idle)
<1>1. Idle \in Coroutine /\ Idle.pc = "idle"
  BY DeliveryAssumption DEF Idle, Coroutine
<1>2. QED
  BY <1>1 DEF CoroutineSound

\* reconcile_row on a row that was true when it was read.
LEMMA ReconcileIs ==
    ASSUME NEW d \in Dispatches, NEW row, RowSound(Facts, d, row)
    PROVE  /\ ReconcileRow(d, row) \in Coroutine /\ ReconcileRow(d, row).pc # "submit"
           /\ CoroutineSound(Facts, ReconcileRow(d, row))
<1>1. row \in Row /\ 0 \in 0 .. MaxAttempts /\ "NONE" \in {"NONE"} \cup Outcomes
  BY DeliveryAssumption DEF RowSound
<1>2. row.token \in 0 .. MaxAttempts /\ row.result \in {"NONE"} \cup Outcomes
  BY <1>1 DEF Row
<1>3. CASE row.state \in FinalStates
  <2> DEFINE k == At("report", d, row.token, row.result)
  <2>1. ReconcileRow(d, row) = k
    BY <1>3 DEF ReconcileRow, FinalStates
  <2>2. k \in Coroutine /\ k.pc = "report" /\ k.dispatch = d /\ k.token = row.token /\ k.result = row.result
    BY <1>2 DEF At, Coroutine
  <2> HIDE DEF k
  <2>3. /\ row.token \in Facts.tried[d] /\ d \in Facts.begun /\ row.result \in Outcomes /\ Tells(Facts, d, row.result)
    BY <1>3 DEF RowSound, FinalStates
  <2>4. CoroutineSound(Facts, k)
    BY <2>2, <2>3 DEF CoroutineSound
  <2>5. QED
    BY <2>1, <2>2, <2>4
<1>4. CASE row.state = "SUBMISSION_STARTED"
  <2> DEFINE k == At("inspect", d, 0, "NONE")
  <2>1. ReconcileRow(d, row) = k
    BY <1>4 DEF ReconcileRow, FinalStates
  <2>2. k \in Coroutine /\ k.pc = "inspect" /\ k.dispatch = d
    BY <1>1, AtIs
  <2> HIDE DEF k
  <2>3. d \in Facts.begun
    BY <1>4 DEF RowSound
  <2>4. CoroutineSound(Facts, k)
    BY <2>2, <2>3 DEF CoroutineSound
  <2>5. QED
    BY <2>1, <2>2, <2>4
<1>5. CASE row.state \notin FinalStates /\ row.state # "SUBMISSION_STARTED" /\ row.state = "RECEIVED" /\ row.token <= elapsed[d]
  <2> DEFINE k == At("reclaim", d, 0, "NONE")
  <2>1. ReconcileRow(d, row) = k
    BY <1>5 DEF ReconcileRow
  <2>2. k \in Coroutine /\ k.pc = "reclaim" /\ k.dispatch = d
    BY <1>1, AtIs
  <2> HIDE DEF k
  <2>3. CoroutineSound(Facts, k)
    BY <2>2 DEF CoroutineSound
  <2>4. QED
    BY <2>1, <2>2, <2>3
<1>6. CASE row.state \notin FinalStates /\ row.state # "SUBMISSION_STARTED" /\ ~(row.state = "RECEIVED" /\ row.token <= elapsed[d])
  <2>1. ReconcileRow(d, row) = Idle
    BY <1>6 DEF ReconcileRow
  <2>2. QED
    BY <2>1, IdleIs
<1>7. QED
  BY <1>3, <1>4, <1>5, <1>6

\* Nobody submits, or has submitted, what the ledger has not begun.
LEMMA NotBegun ==
    ASSUME DeliveryInv, NEW d \in Dispatches, ~Begun(d)
    PROVE  submits[d] = 0 /\ ~sent[d] /\ \A c \in Coroutines : ~Submitting(c, d)
<1>1. submits[d] = 0 /\ ~sent[d]
  BY DEF DeliveryInv, SubmissionSound
<1>2. ASSUME NEW c \in Coroutines, Submitting(c, d) PROVE FALSE
  BY <1>2, CoroutineFacts DEF Submitting
<1>3. QED
  BY <1>1, <1>2

\* The first delivery of an operation.
LEMMA DeliverGoal ==
    ASSUME DeliveryInv, NEW c \in Coroutines, NEW d \in Dispatches, ~Begun(d), NEW n \in 0 .. MaxAttempts,
           n \in Facts'.tried[d], Deliver(c, d, n), UNCHANGED <<submits, sent>>
    PROVE  LocalGoal /\ RowsKept /\ CoroutinesKept
<1>1. LocalTyped /\ submits[d] = 0 /\ ~sent[d] /\ \A e \in Coroutines : ~Submitting(e, d)
  BY TypeParts, NotBegun DEF DeliveryInv
<1>2. "NONE" \in {"NONE"} \cup Outcomes /\ "ACTION_REQUIRED" \in Outcomes /\ 0 \in 0 .. MaxAttempts
  BY DeliveryAssumption DEF Outcomes
<1>3. CASE /\ ledger' = [ledger EXCEPT ![d] = [state |-> "DEFINITE_FAILURE", token |-> n, result |-> "ACTION_REQUIRED"]]
           /\ co' = [co EXCEPT ![c] = At("report", d, n, "ACTION_REQUIRED")]
  <2> DEFINE row == [state |-> "DEFINITE_FAILURE", token |-> n, result |-> "ACTION_REQUIRED"]
             k == At("report", d, n, "ACTION_REQUIRED")
  <2>1. row \in Row /\ row.state = "DEFINITE_FAILURE" /\ row.token = n /\ row.result = "ACTION_REQUIRED"
    BY <1>2 DEF Row, FinalStates
  <2>2. k \in Coroutine /\ k.pc = "report" /\ k.dispatch = d /\ k.token = n /\ k.result = "ACTION_REQUIRED"
    BY <1>2, AtIs
  <2>3. ledger' = [ledger EXCEPT ![d] = row] /\ co' = [co EXCEPT ![c] = k]
    BY <1>3
  <2> HIDE DEF row, k
  <2>4. /\ ledger'[d] = row /\ co'[c] = k /\ \A e \in Coroutines : e # c => co'[e] = co[e]
    BY <1>1, <2>3 DEF LocalTyped
  <2>5. Begun(d)' /\ Undone(d)'
    <3>1. Begun(d)'
      BY <2>1, <2>4 DEF Begun
    <3>2. \A e \in Coroutines : ~Submitting(e, d)'
      BY <1>1, <2>2, <2>4 DEF Submitting
    <3>3. QED
      BY <1>1, <3>1, <3>2 DEF Undone
  <2>6. d \in Facts'.begun /\ Tells(Facts', d, "ACTION_REQUIRED")
    BY <2>5, FactsAreNext DEF Tells
  <2>7. RowSound(Facts', d, row)
    BY <1>2, <2>1, <2>6 DEF RowSound
  <2>8. CoroutineSound(Facts', k)
    BY <1>2, <2>2, <2>6 DEF CoroutineSound
  <2>9. QED
    BY <2>1, <2>2, <2>3, <2>7, <2>8, CoroutineWrites
<1>4. CASE /\ ledger' = [ledger EXCEPT ![d] = [state |-> "SUBMISSION_STARTED", token |-> n, result |-> "NONE"]]
           /\ co' = [co EXCEPT ![c] = At("submit", d, 0, "NONE")]
  <2> DEFINE row == [state |-> "SUBMISSION_STARTED", token |-> n, result |-> "NONE"]
             k == At("submit", d, 0, "NONE")
  <2>1. row \in Row /\ row.state = "SUBMISSION_STARTED" /\ row.token = n
    BY <1>2 DEF Row
  <2>2. k \in Coroutine /\ k.pc = "submit" /\ k.dispatch = d
    BY <1>2, AtIs
  <2>3. ledger' = [ledger EXCEPT ![d] = row] /\ co' = [co EXCEPT ![c] = k]
    BY <1>4
  <2> HIDE DEF row, k
  <2>4. /\ ledger'[d] = row /\ co'[c] = k /\ \A e \in Coroutines : e # c => co'[e] = co[e]
        /\ \A e \in Dispatches : e # d => ledger'[e] = ledger[e]
        /\ ledger' \in [Dispatches -> Row] /\ co' \in [Coroutines -> Coroutine]
    BY <1>1, <2>1, <2>2, <2>3 DEF LocalTyped
  <2>5. Begun(d)' /\ \A e \in Dispatches : e # d => (Begun(e)' <=> Begun(e))
    BY <2>1, <2>4 DEF Begun
  <2>6. /\ \A e \in Coroutines : Submitting(e, d)' => e = c
        /\ \A x \in Dispatches, e \in Coroutines : x # d /\ Submitting(e, x)' => Submitting(e, x)
    BY <1>1, <2>2, <2>4 DEF Submitting
  <2>7. ASSUME NEW x \in Dispatches PROVE SubmissionSound(x)' /\ (Undone(x) => Undone(x)')
    <3>1. CASE x = d
      BY <1>1, <2>5, <2>6, <3>1 DEF SubmissionSound, Undone
    <3>2. CASE x # d
      <4>1. SubmissionSound(x)
        BY DEF DeliveryInv
      <4>2. SubmissionSound(x)'
        BY <2>5, <2>6, <3>2, <4>1 DEF SubmissionSound
      <4>3. QED
        BY <2>5, <2>6, <3>2, <4>2 DEF Undone
    <3>3. QED
      BY <3>1, <3>2
  <2>8. LocalGoal
    BY <1>1, <2>4, <2>5, <2>7 DEF LocalGoal, LocalTyped
  <2>9. d \in Facts'.begun
    BY <2>5, FactsAreNext
  <2>10. RowSound(Facts', d, row)
    BY <2>1, <2>9 DEF RowSound, FinalStates
  <2>11. CoroutineSound(Facts', k)
    BY <2>2, <2>9 DEF CoroutineSound
  <2>12. QED
    BY <2>4, <2>8, <2>10, <2>11 DEF RowsKept, CoroutinesKept
<1>5. QED
  BY <1>3, <1>4 DEF Deliver

-----------------------------------------------------------------------------
(* The actions.                                                            *)

\* No request is new.
LEMMA WireLess ==
    ASSUME wire' \subseteq wire
    PROVE  WireKept
  BY DEF WireKept

\* Creation and leases, and a synchronization that goes on.
LEMMA CloudSteps ==
    ASSUME DeliveryInv, NEW d \in Dispatches,
           Materialize(d) \/ CreateDispatch(d) \/ CreateReprint(d) \/ LeaseExpires(d)
    PROVE  Goal
<1>1. UNCHANGED <<ledger, submits, sent, co>> /\ UNCHANGED loopVars /\ wire' = wire
  BY DEF Materialize, CreateDispatch, CreateReprint, LeaseExpires
<1>2. CloudGoal
  BY CloudCreated
<1>3. LocalGoal /\ RowsKept /\ CoroutinesKept /\ LoopKept /\ WireKept
  BY <1>1, LocalUnchanged, LoopSame, WireLess
<1>4. QED
  BY <1>2, <1>3, Together

\* A late request is served.
LEMMA ServeLateGoal ==
    ASSUME DeliveryInv, NEW m \in wire, ServeLate(m)
    PROVE  Goal
<1>1. /\ UNCHANGED <<ledger, submits, sent, co>> /\ UNCHANGED loopVars /\ wire' \subseteq wire /\ UNCHANGED elapsed
      /\ \/ m.kind = "claim" /\ Claim(m.dispatch)
         \/ m.kind = "report" /\ RecordResult(m.dispatch, m.token, m.result)
  BY DEF ServeLate
<1>2. RequestSound(Facts, m)
  BY DEF DeliveryInv
<1>3. m.dispatch \in Dispatches
  BY <1>2 DEF RequestSound, ClaimRequest, ReportRequest
<1>4. ASSUME m.kind = "claim", Claim(m.dispatch) PROVE CloudGoal
  BY <1>1, <1>3, <1>4, CloudClaimed
<1>5. ASSUME m.kind = "report", RecordResult(m.dispatch, m.token, m.result) PROVE CloudGoal
  <2>1. m \notin ClaimRequest
    BY <1>5 DEF ClaimRequest
  <2>2. m \in ReportRequest /\ Tells(Facts, m.dispatch, m.result)
    BY <1>2, <2>1 DEF RequestSound
  <2>3. m.result \in Outcomes
    BY <2>2 DEF ReportRequest
  <2>4. QED
    BY <1>1, <1>3, <1>5, <2>2, <2>3, CloudRecorded
<1>6. LocalGoal /\ RowsKept /\ CoroutinesKept /\ LoopKept /\ WireKept
  BY <1>1, LocalUnchanged, LoopSame, WireLess
<1>7. CloudGoal
  BY <1>1, <1>4, <1>5
<1>8. QED
  BY <1>6, <1>7, Together

\* The loop without its claims: rows are fetched, the eligible dispatches listed, gather
\* begins and ends.
LEMMA LoopSteps ==
    ASSUME DeliveryInv, BeginReconcile \/ RowsDone \/ Gather \/ GatherDone
    PROVE  Goal
<1>1. UNCHANGED <<ledger, submits, sent, co>> /\ UNCHANGED <<cloudVars, elapsed>> /\ wire' = wire
  BY DEF BeginReconcile, RowsDone, Gather, GatherDone
<1>2. LoopTyped /\ LocalTyped
  BY TypeParts DEF DeliveryInv
<1>3. CASE BeginReconcile
  <2>1. \A r \in rows' : r \in Dispatches \X Row /\ RowSound(Facts, r[1], r[2])
    <3>1. rows' = {<<d, ledger[d]>> : d \in {e \in Dispatches : ledger[e].state \notin {"NONE", "CLOUD_RECONCILED"}}}
      BY <1>3 DEF BeginReconcile, Incomplete
    <3>2. \A d \in Dispatches : RowSound(Facts, d, ledger[d]) /\ ledger[d] \in Row
      BY <1>2 DEF DeliveryInv, LocalTyped
    <3>3. QED
      BY <3>1, <3>2
  <2>2. pc' \in {"boot", "reconcile"} /\ UNCHANGED <<todo, claims, pending>>
    BY <1>3 DEF BeginReconcile
  <2>3. LoopKept
    BY <1>2, <2>1, <2>2 DEF LoopKept, LoopTyped
  <2>4. QED
    BY <1>1, <2>3, CloudSame, LocalUnchanged, WireLess, Together
<1>4. CASE RowsDone
  <2>1. Eligible \subseteq Dispatches \X BOOLEAN
    <3>1. \A t \in Eligible : \E d \in Dispatches, b \in BOOLEAN : t = <<d, b>>
      BY DEF Eligible
    <3>2. QED
      BY <3>1
  <2>2. UNCHANGED <<rows, claims, pending>> /\ pc' \in {"sleep", "poll"} /\ todo' \subseteq Dispatches \X BOOLEAN
    BY <1>2, <1>4, <2>1 DEF RowsDone, LoopTyped
  <2>3. LoopKept
    BY <1>2, <2>2 DEF LoopKept, LoopTyped
  <2>4. QED
    BY <1>1, <2>3, CloudSame, LocalUnchanged, WireLess, Together
<1>5. CASE Gather
  <2>1. UNCHANGED <<rows, todo, claims, pending>> /\ pc' = "gather"
    BY <1>5 DEF Gather
  <2>2. LoopKept
    BY <1>2, <2>1 DEF LoopKept, LoopTyped
  <2>3. QED
    BY <1>1, <2>2, CloudSame, LocalUnchanged, WireLess, Together
<1>6. CASE GatherDone
  <2>1. LoopKept
    BY <1>6, LoopForgets DEF GatherDone, Abort
  <2>2. QED
    BY <1>1, <2>1, CloudSame, LocalUnchanged, WireLess, Together
<1>7. QED
  BY <1>3, <1>4, <1>5, <1>6

\* The process dies; the ledger is as it was.
LEMMA DieGoal ==
    ASSUME DeliveryInv, Die, UNCHANGED <<ledger, submits, sent>>
    PROVE  LocalGoal /\ RowsKept /\ CoroutinesKept /\ LoopKept
<1>1. co' \in [Coroutines -> Coroutine] /\ \A c \in Coroutines : co'[c] = Idle
  BY IdleIs DEF Die
<1>2. LoopKept
  BY LoopForgets DEF Die
<1>3. QED
  BY <1>1, <1>2, LocalSame

\* It dies right after a claim was written to a row that had not begun.
LEMMA DieReceivedGoal ==
    ASSUME DeliveryInv, NEW d \in Dispatches, ~Begun(d), NEW n \in 0 .. MaxAttempts, n \in Facts.tried[d],
           DieReceived(d, n), UNCHANGED <<submits, sent>>
    PROVE  LocalGoal /\ RowsKept /\ CoroutinesKept /\ LoopKept
<1> DEFINE row == [state |-> "RECEIVED", token |-> n, result |-> "NONE"]
<1>1. row \in Row /\ row.state = "RECEIVED" /\ row.token = n
  BY DEF Row
<1>2. ledger' = [ledger EXCEPT ![d] = row] /\ Die
  BY DEF DieReceived
<1> HIDE DEF row
<1>3. /\ co' \in [Coroutines -> Coroutine] /\ \A c \in Coroutines : co'[c] = Idle /\ co'[c].pc # "submit"
  BY <1>2, IdleIs DEF Die
<1>4. LocalTyped
  BY TypeParts DEF DeliveryInv
<1>5. /\ ledger' \in [Dispatches -> Row] /\ ledger'[d] = row
      /\ \A e \in Dispatches : e # d => ledger'[e] = ledger[e]
  BY <1>1, <1>2, <1>4 DEF LocalTyped
<1>6. \A e \in Dispatches : Begun(e) => Begun(e)'
  BY <1>5 DEF Begun
<1>7. LocalGoal
  BY <1>3, <1>5, <1>6, LocalQuiet
<1>8. RowSound(Facts, d, row)
  BY <1>1 DEF RowSound, FinalStates
<1>9. LoopKept
  BY <1>2, LoopForgets DEF Die
<1>10. QED
  BY <1>3, <1>5, <1>7, <1>8, <1>9, IdleIs DEF RowsKept, CoroutinesKept

\* The process dies, or takes the next row it fetched.
LEMMA RowSteps ==
    ASSUME DeliveryInv, Crash \/ \E r \in rows : NextRow(r)
    PROVE  Goal
<1>1. CASE Crash
  <2>1. Die /\ UNCHANGED <<ledger, submits, sent>> /\ UNCHANGED <<cloudVars, elapsed>> /\ wire' = wire
    BY <1>1 DEF Crash
  <2>2. QED
    BY <2>1, DieGoal, CloudSame, WireLess, Together
<1>2. ASSUME NEW r \in rows, NextRow(r) PROVE Goal
  <2> DEFINE k == ReconcileRow(r[1], r[2])
  <2>1. /\ UNCHANGED <<ledger, submits, sent>> /\ UNCHANGED <<cloudVars, elapsed>> /\ wire' = wire
        /\ co' = [co EXCEPT ![Main] = k] /\ rows' = rows \ {r} /\ UNCHANGED <<pc, todo, claims, pending>>
    BY <1>2 DEF NextRow
  <2>2. LoopTyped /\ RowSound(Facts, r[1], r[2]) /\ Main \in Coroutines
    BY TypeParts DEF DeliveryInv, Coroutines
  <2>3. r[1] \in Dispatches
    BY <2>2 DEF LoopTyped
  <2>4. k \in Coroutine /\ k.pc # "submit" /\ CoroutineSound(Facts, k)
    BY <2>2, <2>3, ReconcileIs
  <2> HIDE DEF k
  <2>5. LocalGoal /\ RowsKept /\ CoroutinesKept
    BY <2>1, <2>2, <2>4, CoroutineMoves
  <2>6. LoopKept
    BY <2>1, <2>2 DEF LoopKept, LoopTyped
  <2>7. QED
    BY <2>1, <2>5, <2>6, CloudSame, WireLess, Together
<1>3. QED
  BY <1>1, <1>2

\* Claims of a synchronization: granted, refused, timed out.
LEMMA ClaimSteps ==
    ASSUME DeliveryInv, NEW t \in todo, ClaimNext(t) \/ ClaimFails(t)
    PROVE  Goal
<1>1. LoopTyped /\ UNCHANGED <<ledger, submits, sent, co>>
  BY TypeParts DEF DeliveryInv, ClaimNext, ClaimFails
<1>2. t[1] \in Dispatches /\ t[2] \in BOOLEAN
  BY <1>1 DEF LoopTyped
<1>3. CASE ClaimNext(t)
  <2> DEFINE d == t[1]
             n == Len(attempts[d]) + 1
  <2>1. /\ Claim(d) /\ UNCHANGED elapsed /\ todo' = todo \ {t} /\ claims' = claims \cup {<<d, n>>}
        /\ UNCHANGED <<pc, rows, pending>> /\ wire' = wire
    BY <1>3 DEF ClaimNext
  <2>2. d \in Dispatches
    BY <1>2
  <2> HIDE DEF d
  <2>3. CloudGoal /\ n \in DOMAIN attempts'[d] /\ n \in 1 .. MaxAttempts
    BY <2>1, <2>2, CloudClaimed
  <2>4. n \in Facts'.tried[d]
    BY <2>2, <2>3, FactsAreNext
  <2> HIDE DEF n
  <2>5. <<d, n>> \in Dispatches \X (1 .. MaxAttempts) /\ <<d, n>>[1] = d /\ <<d, n>>[2] = n
    BY <2>2, <2>3
  <2>6. LoopKept
    BY <1>1, <2>1, <2>4, <2>5 DEF LoopKept, LoopTyped
  <2>7. QED
    BY <1>1, <2>1, <2>3, <2>6, LocalUnchanged, WireLess, Together
<1>4. CASE ClaimFails(t)
  <2> DEFINE m == [kind |-> "claim", dispatch |-> t[1], recovery |-> t[2]]
  <2>1. /\ Abort /\ UNCHANGED <<cloudVars, elapsed>>
        /\ wire' = wire \/ wire' = wire \cup {m}
    BY <1>4 DEF ClaimFails, TimesOut
  <2>2. m \in ClaimRequest
    BY <1>2 DEF ClaimRequest
  <2> HIDE DEF m
  <2>3. WireKept
    BY <2>1, <2>2 DEF WireKept, RequestSound
  <2>4. LoopKept
    BY <2>1, LoopForgets DEF Abort
  <2>5. QED
    BY <1>1, <2>1, <2>3, <2>4, LocalUnchanged, CloudSame, Together
<1>5. QED
  BY <1>3, <1>4

\* gather starts a coroutine on a claim.
LEMMA StartClaimGoal ==
    ASSUME DeliveryInv, NEW c \in Tasks, NEW p \in claims, StartClaim(c, p)
    PROVE  Goal
<1> DEFINE d == p[1]
           n == p[2]
<1>1. LoopTyped /\ c \in Coroutines /\ UNCHANGED <<cloudVars, elapsed, submits, sent>> /\ wire' = wire
  BY TypeParts DEF DeliveryInv, StartClaim, Coroutines
<1>2. d \in Dispatches /\ n \in 0 .. MaxAttempts /\ n \in Facts.tried[d]
  BY <1>1, DeliveryAssumption DEF DeliveryInv, LoopTyped
<1>3. n \in Facts'.tried[d]
  BY <1>1, <1>2, FactsAre, FactsAreNext DEF cloudVars
<1>4. \/ /\ claims' = claims \ {p} /\ pending' = pending \cup {c} /\ UNCHANGED <<pc, rows, todo>>
         /\ IF ledger[d] = NoRow
            THEN Deliver(c, d, n)
            ELSE co' = [co EXCEPT ![c] = ReconcileRow(d, ledger[d])] /\ UNCHANGED ledger
      \/ ledger[d] = NoRow /\ DieReceived(d, n)
  BY DEF StartClaim
<1> HIDE DEF d, n
<1>5. ledger[d] = NoRow => ~Begun(d)
  BY DEF NoRow, Begun
<1>6. CloudGoal /\ WireKept /\ UNCHANGED <<submits, sent>>
  BY <1>1, CloudSame, WireLess
<1>7. CASE ledger[d] = NoRow /\ DieReceived(d, n)
  BY <1>2, <1>5, <1>6, <1>7, DieReceivedGoal, Together
<1>8. CASE /\ claims' = claims \ {p} /\ pending' = pending \cup {c} /\ UNCHANGED <<pc, rows, todo>>
           /\ IF ledger[d] = NoRow
              THEN Deliver(c, d, n)
              ELSE co' = [co EXCEPT ![c] = ReconcileRow(d, ledger[d])] /\ UNCHANGED ledger
  <2>1. LoopKept
    BY <1>1, <1>8 DEF LoopKept, LoopTyped
  <2>2. CASE ledger[d] = NoRow
    <3>1. Deliver(c, d, n)
      BY <1>8, <2>2
    <3>2. LocalGoal /\ RowsKept /\ CoroutinesKept
      BY <1>1, <1>2, <1>3, <1>5, <1>6, <2>2, <3>1, DeliverGoal
    <3>3. QED
      BY <1>6, <2>1, <3>2, Together
  <2>3. CASE ledger[d] # NoRow
    <3> DEFINE k == ReconcileRow(d, ledger[d])
    <3>1. co' = [co EXCEPT ![c] = k] /\ UNCHANGED <<ledger, submits, sent>>
      BY <1>1, <1>8, <2>3
    <3>2. k \in Coroutine /\ k.pc # "submit" /\ CoroutineSound(Facts, k)
      BY <1>2, ReconcileIs DEF DeliveryInv
    <3> HIDE DEF k
    <3>3. LocalGoal /\ RowsKept /\ CoroutinesKept
      BY <1>1, <3>1, <3>2, CoroutineMoves
    <3>4. QED
      BY <1>6, <2>1, <3>3, Together
  <2>4. QED
    BY <2>2, <2>3
<1>9. QED
  BY <1>4, <1>7, <1>8

\* The submission itself.
LEMMA SubmitGoal ==
    ASSUME DeliveryInv, NEW c \in Coroutines, Submit(c)
    PROVE  Goal
<1>1. PICK d : d = co[c].dispatch
  OBVIOUS
<1>2. PICK o \in Outcomes \ {"INCONCLUSIVE"}, arrived \in BOOLEAN :
          /\ o = "ACCEPTED" => arrived
          /\ o \in {"RETRYABLE_FAILURE", "ACTION_REQUIRED"} => ~arrived
          /\ sent' = [sent EXCEPT ![d] = @ \/ arrived]
          /\ co' = [co EXCEPT ![c] = At("finalize", d, 0, o)]
  BY <1>1 DEF Submit
<1>3. /\ co[c].pc = "submit" /\ submits' = [submits EXCEPT ![d] = @ + 1]
      /\ UNCHANGED <<cloudVars, elapsed>> /\ UNCHANGED loopVars /\ wire' = wire /\ ledger' = ledger
  BY <1>1 DEF Submit
<1>4. LocalTyped /\ d \in Dispatches /\ Begun(d) /\ Submitting(c, d)
  BY <1>1, <1>3, CoroutineFacts DEF Submitting
<1>5. /\ submits[d] = 0 /\ ~sent[d] /\ \A e \in Coroutines : Submitting(e, d) => e = c
      /\ \A x \in Dispatches : SubmissionSound(x)
  BY <1>4 DEF DeliveryInv, SubmissionSound
<1> DEFINE k == At("finalize", d, 0, o)
<1>6. k \in Coroutine /\ k.pc = "finalize" /\ k.dispatch = d /\ k.result = o
  BY <1>4, DeliveryAssumption DEF At, Coroutine
<1>7. co' = [co EXCEPT ![c] = k]
  BY <1>2
<1> HIDE DEF k
<1>8. /\ co' \in [Coroutines -> Coroutine] /\ co'[c] = k /\ \A e \in Coroutines : e # c => co'[e] = co[e]
      /\ submits' \in [Dispatches -> Nat] /\ submits'[d] = 1 /\ \A e \in Dispatches : e # d => submits'[e] = submits[e]
  BY <1>3, <1>4, <1>5, <1>6, <1>7 DEF LocalTyped
<1>9. sent' \in [Dispatches -> BOOLEAN] /\ (sent'[d] <=> arrived) /\ \A e \in Dispatches : e # d => sent'[e] = sent[e]
  BY <1>2, <1>4, <1>5, Zenon DEF LocalTyped
<1>10. /\ \A e \in Dispatches : Begun(e)' <=> Begun(e)
       /\ \A e \in Coroutines : ~Submitting(e, d)'
       /\ \A x \in Dispatches, e \in Coroutines : Submitting(e, x)' => Submitting(e, x)
  <2>1. \A e \in Dispatches : Begun(e)' <=> Begun(e)
    BY <1>3 DEF Begun
  <2>2. \A x \in Dispatches, e \in Coroutines : Submitting(e, x)' => Submitting(e, x) /\ e # c
    BY <1>6, <1>8 DEF Submitting
  <2>3. QED
    BY <1>4, <1>5, <2>1, <2>2
<1>11. ASSUME NEW x \in Dispatches PROVE SubmissionSound(x)' /\ (sent[x] => sent'[x]) /\ (Undone(x) => Undone(x)')
  <2>1. CASE x = d
    BY <1>4, <1>5, <1>8, <1>9, <1>10, <2>1 DEF SubmissionSound, Undone
  <2>2. CASE x # d
    BY <1>5, <1>8, <1>9, <1>10, <2>2 DEF SubmissionSound, Undone
  <2>3. QED
    BY <2>1, <2>2
<1>12. LocalGoal
  <2>1. LocalTyped'
    BY <1>3, <1>4, <1>8, <1>9 DEF LocalTyped
  <2>2. QED
    BY <1>10, <1>11, <2>1 DEF LocalGoal
<1>13. RowsKept
  BY <1>3 DEF RowsKept
<1>14. Tells(Facts', d, o)
  <2>1. ~arrived => Undone(d)'
    BY <1>4, <1>9, <1>10 DEF Undone
  <2>2. QED
    BY <1>2, <1>4, <1>9, <2>1, FactsAreNext DEF Tells
<1>15. CoroutinesKept
  <2>1. d \in Facts'.begun
    BY <1>4, <1>10, FactsAreNext
  <2>2. CoroutineSound(Facts', k)
    BY <1>4, <1>6, <1>14, <2>1 DEF CoroutineSound
  <2>3. QED
    BY <1>8, <2>2 DEF CoroutinesKept
<1>16. QED
  BY <1>3, <1>12, <1>13, <1>15, CloudSame, LoopSame, WireLess, Together

\* A look at the destination, and the durable outcome of a submission or of a look.
LEMMA OutcomeSteps ==
    ASSUME DeliveryInv, NEW c \in Coroutines, Inspect(c) \/ Finalize(c)
    PROVE  Goal
<1>1. PICK d : d = co[c].dispatch
  OBVIOUS
<1>2. /\ UNCHANGED <<cloudVars, elapsed>> /\ UNCHANGED <<submits, sent>> /\ UNCHANGED loopVars /\ wire' = wire
      /\ co[c].pc \in {"inspect", "finalize"}
  BY DEF Inspect, Finalize
<1>3. LocalTyped /\ CoroutineSound(Facts, co[c]) /\ d \in Dispatches /\ Begun(d) /\ d \in Facts.begun
  BY <1>1, <1>2, CoroutineFacts, FactsAre
<1>4. CloudGoal /\ LoopKept /\ WireKept
  BY <1>2, CloudSame, LoopSame, WireLess
<1>5. CASE Inspect(c)
  <2>1. PICK o \in InspectOutcomes(d) : co' = [co EXCEPT ![c] = At("finalize", d, 0, o)]
    BY <1>1, <1>5 DEF Inspect
  <2>2. o \in Outcomes /\ (o = "ACCEPTED" => sent[d]) /\ o \in {"INCONCLUSIVE", "ACCEPTED"}
    BY DEF InspectOutcomes, Outcomes
  <2>3. Tells(Facts, d, o)
    BY <1>3, <2>2, FactsAre DEF Tells
  <2> DEFINE k == At("finalize", d, 0, o)
  <2>4. k \in Coroutine /\ k.pc = "finalize" /\ k.dispatch = d /\ k.result = o
    BY <1>3, <2>2, DeliveryAssumption DEF At, Coroutine
  <2>5. co' = [co EXCEPT ![c] = k] /\ UNCHANGED <<ledger, submits, sent>>
    BY <1>5, <2>1 DEF Inspect
  <2> HIDE DEF k
  <2>6. CoroutineSound(Facts, k)
    BY <1>3, <2>2, <2>3, <2>4 DEF CoroutineSound
  <2>7. LocalGoal /\ RowsKept /\ CoroutinesKept
    BY <2>4, <2>5, <2>6, CoroutineMoves
  <2>8. QED
    BY <1>4, <2>7, Together
<1>6. CASE Finalize(c)
  <2>1. PICK o, n : o = co[c].result /\ n = ledger[d].token
    OBVIOUS
  <2>2. co[c].pc = "finalize"
    BY <1>6 DEF Finalize
  <2>3. o \in Outcomes /\ Tells(Facts, d, o)
    BY <1>1, <1>3, <2>1, <2>2 DEF CoroutineSound
  <2>4. n \in Facts.tried[d] /\ n \in 0 .. MaxAttempts
    <3>1. RowSound(Facts, d, ledger[d]) /\ ledger[d].state # "NONE"
      BY <1>3 DEF DeliveryInv, Begun
    <3>2. ledger[d] \in Row
      BY <3>1 DEF RowSound
    <3>3. QED
      BY <2>1, <3>1, <3>2 DEF RowSound, Row
  <2> DEFINE k == At("report", d, n, o)
             row == [state |-> LocalState(o), token |-> n, result |-> o]
  <2>5. co' = [co EXCEPT ![c] = k] /\ ledger' = [ledger EXCEPT ![d] = row]
    BY <1>1, <1>6, <2>1 DEF Finalize
  <2>6. k \in Coroutine /\ k.pc = "report" /\ k.dispatch = d /\ k.token = n /\ k.result = o
    BY <1>3, <2>3, <2>4 DEF At, Coroutine
  <2>7. row \in Row /\ row.state \in FinalStates /\ row.token = n /\ row.result = o
    BY <2>3, <2>4 DEF Row, LocalState, FinalStates, Outcomes
  <2> HIDE DEF k, row
  <2>8. RowSound(Facts, d, row)
    BY <1>3, <2>3, <2>4, <2>7 DEF RowSound, FinalStates
  <2>9. CoroutineSound(Facts, k)
    BY <1>3, <2>3, <2>4, <2>6 DEF CoroutineSound
  <2>10. row.state \notin {"NONE", "RECEIVED"} /\ k.pc # "submit"
    BY <2>6, <2>7 DEF FinalStates
  <2>11. LocalGoal /\ RowsKept /\ CoroutinesKept
    BY <1>2, <1>3, <2>5, <2>6, <2>7, <2>8, <2>9, <2>10, CoroutineWrites
  <2>12. QED
    BY <1>4, <2>11, Together
<1>7. QED
  BY <1>5, <1>6

\* A report: recorded, answered, or deferred.
LEMMA ReportSteps ==
    ASSUME DeliveryInv, NEW c \in Coroutines, Report(c) \/ Reconciled(c) \/ ReportDeferred(c)
    PROVE  Goal
<1>1. PICK d, n, o : d = co[c].dispatch /\ n = co[c].token /\ o = co[c].result
  OBVIOUS
<1>2. /\ UNCHANGED elapsed /\ UNCHANGED <<submits, sent>> /\ UNCHANGED loopVars
      /\ co[c].pc \in {"report", "reported"}
  BY DEF Report, Reconciled, ReportDeferred
<1>3. LocalTyped /\ CoroutineSound(Facts, co[c]) /\ d \in Dispatches /\ Begun(d) /\ d \in Facts.begun
  BY <1>1, <1>2, CoroutineFacts, FactsAre
<1>4. o \in Outcomes /\ Tells(Facts, d, o) /\ n \in Facts.tried[d]
  BY <1>1, <1>2, <1>3 DEF CoroutineSound
<1>5. LoopKept
  BY <1>2, LoopSame
<1>6. co[c] \in Coroutine
  BY <1>3 DEF CoroutineSound
<1>7. CASE Report(c)
  <2>1. RecordResult(d, n, o) /\ UNCHANGED <<ledger, submits, sent>> /\ wire' = wire
    BY <1>1, <1>7 DEF Report
  <2>2. CloudGoal
    BY <1>2, <1>3, <1>4, <2>1, CloudRecorded
  <2> DEFINE k == [co[c] EXCEPT !.pc = "reported"]
  <2>3. co' = [co EXCEPT ![c] = k]
    BY <1>7 DEF Report
  <2>4. k \in Coroutine /\ k.pc = "reported" /\ k.dispatch = d /\ k.token = n /\ k.result = o
    BY <1>1, <1>6 DEF Coroutine
  <2> HIDE DEF k
  <2>5. CoroutineSound(Facts, k)
    BY <1>3, <1>4, <2>4 DEF CoroutineSound
  <2>6. LocalGoal /\ RowsKept /\ CoroutinesKept
    BY <2>1, <2>3, <2>4, <2>5, CoroutineMoves
  <2>7. QED
    BY <1>5, <2>1, <2>2, <2>6, WireLess, Together
<1>8. CASE Reconciled(c)
  <2>1. UNCHANGED <<cloudVars, elapsed>> /\ wire' = wire /\ co' = [co EXCEPT ![c] = Idle]
    BY <1>8 DEF Reconciled
  <2> DEFINE row == [ledger[d] EXCEPT !.state = "CLOUD_RECONCILED"]
  <2>2. ledger' = [ledger EXCEPT ![d] = row]
    BY <1>1, <1>8 DEF Reconciled
  <2>3. RowSound(Facts, d, ledger[d]) /\ ledger[d].state # "NONE" /\ ledger[d] \in Row
    BY <1>3 DEF DeliveryInv, Begun, LocalTyped
  <2>4. row \in Row /\ row.state = "CLOUD_RECONCILED" /\ row.token = ledger[d].token
    BY <2>3 DEF Row
  <2> HIDE DEF row
  <2>5. RowSound(Facts, d, row)
    BY <1>3, <2>3, <2>4 DEF RowSound, FinalStates
  <2>6. Idle \in Coroutine /\ Idle.pc # "submit" /\ CoroutineSound(Facts, Idle) /\ row.state \notin {"NONE", "RECEIVED"}
    BY <2>4, IdleIs
  <2>7. LocalGoal /\ RowsKept /\ CoroutinesKept
    BY <1>2, <1>3, <2>1, <2>2, <2>4, <2>5, <2>6, CoroutineWrites
  <2>8. QED
    BY <1>5, <2>1, <2>7, CloudSame, WireLess, Together
<1>9. CASE ReportDeferred(c)
  <2> DEFINE m == [kind |-> "report", dispatch |-> d, token |-> n, result |-> o]
  <2>1. /\ UNCHANGED <<cloudVars, elapsed>> /\ UNCHANGED <<ledger, submits, sent>> /\ co' = [co EXCEPT ![c] = Idle]
        /\ wire' = wire \/ wire' = wire \cup {m}
    BY <1>1, <1>9 DEF ReportDeferred, TimesOut
  <2>2. n \in 1 .. MaxAttempts
    <3>1. n \in 0 .. MaxAttempts /\ n \in DOMAIN attempts[d]
      BY <1>1, <1>3, <1>4, <1>6, FactsAre DEF Coroutine
    <3>2. attempts[d] \in Seq(AttemptResults)
      BY <1>3, TypeParts DEF DeliveryInv, CloudTyped
    <3>3. QED
      BY <3>1, <3>2, DeliveryAssumption
  <2>3. m \in ReportRequest /\ m.token = n /\ m.dispatch = d /\ m.result = o
    BY <1>3, <1>4, <2>2 DEF ReportRequest
  <2> HIDE DEF m
  <2>4. RequestSound(Facts, m)
    BY <1>4, <2>3 DEF RequestSound
  <2>5. WireKept
    BY <2>1, <2>4 DEF WireKept
  <2>6. LocalGoal /\ RowsKept /\ CoroutinesKept
    BY <2>1, IdleIs, CoroutineMoves
  <2>7. QED
    BY <1>5, <2>1, <2>5, <2>6, CloudSame, Together
<1>10. QED
  BY <1>7, <1>8, <1>9

\* A recovery claim for a received row: granted, refused, timed out.
LEMMA ReclaimSteps ==
    ASSUME DeliveryInv, NEW c \in Coroutines, Reclaim(c) \/ ReclaimFails(c)
    PROVE  Goal
<1>1. PICK d : d = co[c].dispatch
  OBVIOUS
<1>2. co[c].pc = "reclaim" /\ UNCHANGED elapsed /\ UNCHANGED <<ledger, submits, sent>>
  BY DEF Reclaim, ReclaimFails
<1>3. d \in Dispatches
  BY <1>1, <1>2, CoroutineFacts
<1>4. CASE Reclaim(c)
  <2>1. PICK n : n = Len(attempts[d]) + 1
    OBVIOUS
  <2>2. Claim(d) /\ co' = [co EXCEPT ![c] = At("renew", d, n, "NONE")] /\ UNCHANGED loopVars /\ wire' = wire
    BY <1>1, <1>4, <2>1 DEF Reclaim
  <2>3. CloudGoal /\ n \in DOMAIN attempts'[d] /\ n \in 1 .. MaxAttempts
    BY <1>2, <1>3, <2>1, <2>2, CloudClaimed
  <2>4. n \in Facts'.tried[d] /\ n \in 0 .. MaxAttempts
    BY <1>3, <2>3, FactsAreNext, DeliveryAssumption
  <2> DEFINE k == At("renew", d, n, "NONE")
  <2>5. k \in Coroutine /\ k.pc = "renew" /\ k.dispatch = d /\ k.token = n
    BY <1>3, <2>4 DEF At, Coroutine
  <2>6. co' = [co EXCEPT ![c] = k]
    BY <2>2
  <2> HIDE DEF k
  <2>7. CoroutineSound(Facts', k)
    BY <1>3, <2>4, <2>5 DEF CoroutineSound
  <2>8. LocalGoal /\ RowsKept /\ CoroutinesKept
    BY <1>2, <2>5, <2>6, <2>7, CoroutineMoves
  <2>9. QED
    BY <2>2, <2>3, <2>8, LoopSame, WireLess, Together
<1>5. CASE ReclaimFails(c)
  <2> DEFINE m == [kind |-> "claim", dispatch |-> d, recovery |-> TRUE]
  <2>1. /\ UNCHANGED <<cloudVars, elapsed>>
        /\ wire' = wire \/ wire' = wire \cup {m}
        /\ Die \/ (co' = [co EXCEPT ![c] = Idle] /\ (Abort \/ UNCHANGED loopVars))
    BY <1>1, <1>5 DEF ReclaimFails, TimesOut
  <2>2. m \in ClaimRequest
    BY <1>3 DEF ClaimRequest
  <2> HIDE DEF m
  <2>3. WireKept
    BY <2>1, <2>2 DEF WireKept, RequestSound
  <2>4. CloudGoal
    BY <2>1, CloudSame
  <2>5. CASE Die
    BY <1>2, <2>3, <2>4, <2>5, DieGoal, Together
  <2>6. CASE co' = [co EXCEPT ![c] = Idle] /\ (Abort \/ UNCHANGED loopVars)
    <3>1. LocalGoal /\ RowsKept /\ CoroutinesKept
      BY <1>2, <2>6, IdleIs, CoroutineMoves
    <3>2. LoopKept
      BY <2>6, LoopSame, LoopForgets DEF Abort
    <3>3. QED
      BY <2>3, <2>4, <3>1, <3>2, Together
  <2>7. QED
    BY <2>1, <2>5, <2>6
<1>6. QED
  BY <1>4, <1>5

\* A received row is renewed under its new claim and delivered.
LEMMA RenewGoal ==
    ASSUME DeliveryInv, NEW c \in Coroutines, Renew(c)
    PROVE  Goal
<1>1. PICK d, n : d = co[c].dispatch /\ n = co[c].token
  OBVIOUS
<1>2. co[c].pc = "renew" /\ UNCHANGED <<cloudVars, elapsed>> /\ UNCHANGED <<submits, sent>> /\ wire' = wire
  BY DEF Renew
<1>3. d \in Dispatches /\ n \in 0 .. MaxAttempts /\ n \in Facts.tried[d]
  <2>1. CoroutineSound(Facts, co[c])
    BY CoroutineFacts
  <2>2. co[c] \in Coroutine
    BY <2>1 DEF CoroutineSound
  <2>3. QED
    BY <1>1, <1>2, <2>1, <2>2 DEF CoroutineSound, Coroutine
<1>4. n \in Facts'.tried[d]
  BY <1>2, <1>3, FactsAre, FactsAreNext DEF cloudVars
<1>5. CloudGoal /\ WireKept
  BY <1>2, CloudSame, WireLess
<1>6. CASE ledger[d].state = "RECEIVED"
  <2>1. ~Begun(d)
    BY <1>6 DEF Begun
  <2>2. (Deliver(c, d, n) /\ UNCHANGED loopVars) \/ DieReceived(d, n)
    BY <1>1, <1>6 DEF Renew
  <2>3. CASE Deliver(c, d, n) /\ UNCHANGED loopVars
    <3>1. LocalGoal /\ RowsKept /\ CoroutinesKept
      BY <1>2, <1>3, <1>4, <2>1, <2>3, DeliverGoal
    <3>2. QED
      BY <1>5, <2>3, <3>1, LoopSame, Together
  <2>4. CASE DieReceived(d, n)
    BY <1>2, <1>3, <1>5, <2>1, <2>4, DieReceivedGoal, Together
  <2>5. QED
    BY <2>2, <2>3, <2>4
<1>7. CASE ledger[d].state # "RECEIVED"
  <2>1. /\ UNCHANGED <<ledger, submits, sent>>
        /\ Die \/ (co' = [co EXCEPT ![c] = Idle] /\ UNCHANGED loopVars)
    BY <1>1, <1>2, <1>7 DEF Renew
  <2>2. CASE Die
    BY <1>5, <2>1, <2>2, DieGoal, Together
  <2>3. CASE co' = [co EXCEPT ![c] = Idle] /\ UNCHANGED loopVars
    <3>1. LocalGoal /\ RowsKept /\ CoroutinesKept
      BY <2>1, <2>3, IdleIs, CoroutineMoves
    <3>2. QED
      BY <1>5, <2>3, <3>1, LoopSame, Together
  <2>4. QED
    BY <2>1, <2>2, <2>3
<1>8. QED
  BY <1>6, <1>7

-----------------------------------------------------------------------------
(* The theorems.                                                           *)

\* The specification starts with no dispatches and no process.
LEMMA DeliveryStarts == Init => DeliveryInv
<1> SUFFICES ASSUME Init PROVE DeliveryInv
  OBVIOUS
<1>1. NoRow \in Row /\ NoRow.state = "NONE" /\ 0 \in 0 .. MaxAttempts /\ MaxAttempts \in Nat
  BY DeliveryAssumption DEF NoRow, Row
<1>2. TypeOK
  <2>1. CloudTyped
    BY <1>1 DEF Init, CloudTyped, States, AttemptResults
  <2>2. LocalTyped /\ LoopTyped
    BY <1>1, IdleIs DEF Init, LocalTyped, LoopTyped
  <2>3. QED
    BY <2>1, <2>2, TypeParts DEF Init
<1>3. \A c \in Coroutines, d \in Dispatches : ~Submitting(c, d)
  BY IdleIs DEF Init, Submitting
<1>4. ASSUME NEW d \in Dispatches
      PROVE  /\ ClaimSound(state[d], token[d], attempts[d], elapsed[d])
             /\ StateTrue(Facts, d, state[d], attempts[d])
             /\ SubmissionSound(d)
             /\ RowSound(Facts, d, ledger[d])
  <2>1. state[d] = "NONE" /\ token[d] = 0 /\ attempts[d] = <<>> /\ elapsed[d] = 0 /\ ledger[d] = NoRow
        /\ submits[d] = 0 /\ ~sent[d]
    BY DEF Init
  <2>2. ClaimSound(state[d], token[d], attempts[d], elapsed[d])
    BY <1>1, <2>1 DEF ClaimSound
  <2>3. StateTrue(Facts, d, state[d], attempts[d])
    BY <2>1 DEF StateTrue, Tells
  <2>4. SubmissionSound(d)
    BY <1>3, <2>1 DEF SubmissionSound
  <2>5. RowSound(Facts, d, ledger[d])
    BY <1>1, <2>1 DEF RowSound, FinalStates
  <2>6. QED
    BY <2>2, <2>3, <2>4, <2>5
<1>5. \A c \in Coroutines : CoroutineSound(Facts, co[c])
  BY IdleIs DEF Init
<1>6. QED
  BY <1>2, <1>4, <1>5 DEF DeliveryInv, Init

\* Every step keeps the invariant and every ended attempt's result.
LEMMA DeliveryStep == DeliveryInv /\ [Next]_vars => Goal
<1> SUFFICES ASSUME DeliveryInv, [Next]_vars PROVE Goal
  OBVIOUS
<1>1. CASE UNCHANGED vars
  <2>1. UNCHANGED <<cloudVars, elapsed>> /\ UNCHANGED <<submits, sent, ledger, co>> /\ UNCHANGED loopVars /\ wire' = wire
    BY <1>1 DEF vars, cloudVars, loopVars
  <2>2. QED
    BY <2>1, CloudSame, LocalUnchanged, LoopSame, WireLess, Together
<1>2. ASSUME NEW d \in Dispatches, Materialize(d) \/ CreateDispatch(d) \/ CreateReprint(d) \/ LeaseExpires(d)
      PROVE  Goal
  BY <1>2, CloudSteps
<1>3. ASSUME NEW m \in wire, ServeLate(m) PROVE Goal
  BY <1>3, ServeLateGoal
<1>4. CASE BeginReconcile \/ RowsDone \/ Gather \/ GatherDone
  BY <1>4, LoopSteps
<1>5. CASE Crash \/ \E r \in rows : NextRow(r)
  BY <1>5, RowSteps
<1>6. ASSUME NEW t \in todo, ClaimNext(t) \/ ClaimFails(t) PROVE Goal
  BY <1>6, ClaimSteps
<1>7. ASSUME NEW c \in Tasks, NEW p \in claims, StartClaim(c, p) PROVE Goal
  BY <1>7, StartClaimGoal
<1>8. ASSUME NEW c \in Coroutines, Step(c) PROVE Goal
  BY <1>8, SubmitGoal, OutcomeSteps, ReportSteps, ReclaimSteps, RenewGoal DEF Step
<1>9. QED
  BY <1>1, <1>2, <1>3, <1>4, <1>5, <1>6, <1>7, <1>8 DEF Next

\* What the invariant says of the destination and of the attempts.
LEMMA DeliveryMeans == DeliveryInv => SubmittedAtMostOnce /\ CloudStateIsTrue
<1> SUFFICES ASSUME DeliveryInv PROVE SubmittedAtMostOnce /\ CloudStateIsTrue
  OBVIOUS
<1>1. SubmittedAtMostOnce
  <2>1. \A d \in Dispatches : submits[d] \in {0, 1}
    BY DEF DeliveryInv, SubmissionSound
  <2>2. QED
    BY <2>1 DEF SubmittedAtMostOnce
<1>2. ASSUME NEW d \in Dispatches
      PROVE  /\ state[d] = "ACCEPTED" => sent[d]
             /\ state[d] \in {"RETRYABLE_FAILURE", "ACTION_REQUIRED"} => ~sent[d]
  <2>1. StateTrue(Facts, d, state[d], attempts[d]) /\ SubmissionSound(d) /\ RowSound(Facts, d, ledger[d])
    BY DEF DeliveryInv
  <2>2. d \in Facts.undone => ~sent[d]
    BY FactsAre DEF Undone
  <2>3. attempts[d] = <<>> => ~sent[d]
    <3>1. sent[d] => Begun(d)
      BY <2>1 DEF SubmissionSound
    <3>2. Begun(d) => ledger[d].token \in DOMAIN attempts[d]
      BY <2>1, FactsAre DEF RowSound, Begun
    <3>3. attempts[d] = <<>> => DOMAIN attempts[d] = {}
      OBVIOUS
    <3>4. QED
      BY <3>1, <3>2, <3>3
  <2>4. d \in Facts.arrived => sent[d]
    BY FactsAre
  <2>5. QED
    BY <2>1, <2>2, <2>3, <2>4 DEF StateTrue, Tells
<1>3. ASSUME NEW d \in Dispatches
      PROVE  IF state[d] = "IN_PROGRESS"
             THEN {n \in DOMAIN attempts[d] : attempts[d][n] = "IN_PROGRESS"} = {Len(attempts[d])} /\ token[d] = Len(attempts[d])
             ELSE {n \in DOMAIN attempts[d] : attempts[d][n] = "IN_PROGRESS"} = {} /\ token[d] = 0
  <2>1. ClaimSound(state[d], token[d], attempts[d], elapsed[d])
    BY DEF DeliveryInv
  <2>2. Len(attempts[d]) \in Nat /\ DOMAIN attempts[d] = 1 .. Len(attempts[d])
    <3>1. attempts[d] \in Seq(AttemptResults)
      BY TypeParts DEF DeliveryInv, CloudTyped
    <3>2. QED
      BY <3>1
  <2>3. CASE state[d] = "IN_PROGRESS"
    BY <2>1, <2>2, <2>3 DEF ClaimSound
  <2>4. CASE state[d] # "IN_PROGRESS"
    BY <2>1, <2>2, <2>4 DEF ClaimSound
  <2>5. QED
    BY <2>3, <2>4
<1>4. CloudStateIsTrue
  BY <1>2, <1>3 DEF CloudStateIsTrue, DeliveryInv
<1>5. QED
  BY <1>1, <1>4

\* What the ledger, the coroutines, the fetched rows, the granted claims and the late requests
\* say of an operation is true, and stays true across crashes, leases and late requests.
THEOREM DeliverySafety == Spec => []DeliveryInv
<1>1. DeliveryInv /\ [Next]_vars => DeliveryInv'
  BY DeliveryStep DEF Goal
<1>2. QED
  BY <1>1, DeliveryStarts, PTL DEF Spec

\* No operation is submitted twice to its printer.
THEOREM SubmittedOnce == Spec => []SubmittedAtMostOnce
  BY DeliverySafety, DeliveryMeans, PTL

\* The cloud believes of a dispatch only what happened, and its claim is that of its last attempt.
THEOREM CloudTrue == Spec => []CloudStateIsTrue
  BY DeliverySafety, DeliveryMeans, PTL

\* No late or repeated report changes the result of an attempt that has ended.
THEOREM ResultsFinal == Spec => AttemptResultIsFinal
<1>1. DeliveryInv /\ [Next]_vars
      => [\A d \in Dispatches : \A n \in DOMAIN attempts[d] :
             attempts[d][n] # "IN_PROGRESS" => attempts'[d][n] = attempts[d][n]]_vars
  BY DeliveryStep DEF Goal, ResultsStand
<1>2. QED
  BY <1>1, DeliverySafety, PTL DEF Spec, AttemptResultIsFinal
=============================================================================
