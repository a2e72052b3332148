---------------------------- MODULE PrintDelivery ----------------------------
(***************************************************************************)
(* Delivery of kitchen tickets and paid checks to printers.  The cloud     *)
(* (preparation_delivery, paid_check_printing, connector_api) hands out    *)
(* leased claims on dispatches; one connector process per location         *)
(* (pryecip_local_connector) writes each claimed operation to a SQLite     *)
(* ledger, submits it to a printer and reports the outcome.  The process   *)
(* is one asyncio loop: a step is the code between two awaits, so a        *)
(* coroutine and the others interleave only there.  Requests time out and  *)
(* may still be served later, leases run out, and the process may die      *)
(* between any two ledger transactions.                                    *)
(***************************************************************************)
EXTENDS Naturals, Sequences, FiniteSets

CONSTANTS
    Dispatches,  \* PreparationDispatch and PaidCheckDispatch rows = operation ids
    NoDispatch,  \* what an idle coroutine works on
    Main,        \* the coroutine of synchronize_once
    Tasks,       \* coroutines available to asyncio.gather
    MaxAttempts, \* bound on attempt_count
    MaxLate      \* bound on requests served after the client gave up on them

ASSUME DeliveryAssumption ==
    /\ NoDispatch \notin Dispatches
    /\ Main \notin Tasks
    /\ MaxAttempts \in Nat
    /\ MaxLate \in Nat

VARIABLES
    state,    \* dispatch.state; "NONE" before the row exists
    token,    \* dispatch.claim_token: the sequence of the attempt, 0 = NULL
    attempts, \* the result of each attempt row, in sequence
    elapsed,  \* the leases of the first elapsed[d] attempts are over
    ledger,   \* the operations table
    submits,  \* calls of adapter.submit
    sent,     \* whether the destination has the document
    pc,       \* where run_forever is
    rows,     \* rows of Ledger.incomplete() still to reconcile, as fetched
    todo,     \* eligible items still to claim, as fetched
    claims,   \* claims granted and not yet handed to gather
    pending,  \* coroutines the current gather waits for
    co,       \* the coroutines
    wire      \* requests the client gave up on and the cloud may still serve

cloudVars == <<state, token, attempts>>
loopVars  == <<pc, rows, todo, claims, pending>>
vars == <<state, token, attempts, elapsed, ledger, submits, sent, pc, rows, todo,
          claims, pending, co, wire>>

-----------------------------------------------------------------------------
Coroutines == {Main} \cup Tasks

\* Outcomes of a submission, and of a look at the destination afterwards:
\* INCONCLUSIVE is UNCERTAIN under another error kind, so another fingerprint.
Outcomes == {"ACCEPTED", "RETRYABLE_FAILURE", "ACTION_REQUIRED", "UNCERTAIN", "INCONCLUSIVE"}

\* The dispatch states that results lead to (ACCEPTED stands for
\* DESTINATION_SUBMISSION_ACCEPTED).
ResultState(o) == IF o = "INCONCLUSIVE" THEN "UNCERTAIN" ELSE o

LocalState(o) ==
    CASE o = "ACCEPTED" -> "SUBMISSION_ACCEPTED"
      [] o \in {"RETRYABLE_FAILURE", "ACTION_REQUIRED"} -> "DEFINITE_FAILURE"
      [] OTHER -> "OUTCOME_UNCERTAIN"

FinalStates == {"SUBMISSION_ACCEPTED", "DEFINITE_FAILURE", "OUTCOME_UNCERTAIN"}

Row == [state : {"NONE", "RECEIVED", "SUBMISSION_STARTED", "CLOUD_RECONCILED"} \cup FinalStates,
        token : 0 .. MaxAttempts,
        result : {"NONE"} \cup Outcomes]

NoRow == [state |-> "NONE", token |-> 0, result |-> "NONE"]

\* token: the claim a coroutine was just granted or reports under.
Coroutine == [pc : {"idle", "report", "reported", "reclaim", "renew", "submit", "inspect", "finalize"},
              dispatch : Dispatches \cup {NoDispatch},
              token : 0 .. MaxAttempts,
              result : {"NONE"} \cup Outcomes]

Idle == [pc |-> "idle", dispatch |-> NoDispatch, token |-> 0, result |-> "NONE"]

At(where, d, n, o) == [pc |-> where, dispatch |-> d, token |-> n, result |-> o]

ClaimRequest  == [kind : {"claim"}, dispatch : Dispatches, recovery : BOOLEAN]
ReportRequest == [kind : {"report"}, dispatch : Dispatches, token : 1 .. MaxAttempts,
                  result : Outcomes]

TypeOK ==
    /\ state \in [Dispatches -> {"NONE", "PENDING", "IN_PROGRESS"} \cup (Outcomes \ {"INCONCLUSIVE"})]
    /\ token \in [Dispatches -> 0 .. MaxAttempts]
    /\ attempts \in [Dispatches -> Seq({"IN_PROGRESS", "CLAIM_EXPIRED"} \cup Outcomes)]
    /\ elapsed \in [Dispatches -> 0 .. MaxAttempts]
    /\ ledger \in [Dispatches -> Row]
    /\ submits \in [Dispatches -> Nat]
    /\ sent \in [Dispatches -> BOOLEAN]
    /\ pc \in {"down", "boot", "reconcile", "poll", "gather", "sleep"}
    /\ rows \subseteq Dispatches \X Row
    /\ todo \subseteq Dispatches \X BOOLEAN
    /\ claims \subseteq Dispatches \X (1 .. MaxAttempts)
    /\ pending \subseteq Tasks
    /\ co \in [Coroutines -> Coroutine]
    /\ wire \subseteq ClaimRequest \cup ReportRequest

Init ==
    /\ state = [d \in Dispatches |-> "NONE"]
    /\ token = [d \in Dispatches |-> 0]
    /\ attempts = [d \in Dispatches |-> <<>>]
    /\ elapsed = [d \in Dispatches |-> 0]
    /\ ledger = [d \in Dispatches |-> NoRow]
    /\ submits = [d \in Dispatches |-> 0]
    /\ sent = [d \in Dispatches |-> FALSE]
    /\ pc = "down" /\ rows = {} /\ todo = {} /\ claims = {} /\ pending = {}
    /\ co = [c \in Coroutines |-> Idle]
    /\ wire = {}

-----------------------------------------------------------------------------
(* The cloud.                                                              *)

\* A dispatch is created with its order; the connector configured for it may
\* be inactive.
Materialize(d) ==
    /\ state[d] = "NONE"
    /\ \E s \in {"PENDING", "ACTION_REQUIRED"} : state' = [state EXCEPT ![d] = s]
    /\ UNCHANGED <<token, attempts, elapsed, ledger, submits, sent, loopVars, co, wire>>

\* The cashier prints a paid check through an active connector.
CreateDispatch(d) ==
    /\ state[d] = "NONE"
    /\ state' = [state EXCEPT ![d] = "PENDING"]
    /\ UNCHANGED <<token, attempts, elapsed, ledger, submits, sent, loopVars, co, wire>>

\* A reprint of any dispatch is a new operation.
CreateReprint(d) ==
    /\ state[d] = "NONE"
    /\ \E source \in Dispatches : state[source] # "NONE"
    /\ state' = [state EXCEPT ![d] = "PENDING"]
    /\ UNCHANGED <<token, attempts, elapsed, ledger, submits, sent, loopVars, co, wire>>

LeaseExpires(d) ==
    /\ elapsed[d] < Len(attempts[d])
    /\ elapsed' = [elapsed EXCEPT ![d] = @ + 1]
    /\ UNCHANGED <<cloudVars, ledger, submits, sent, loopVars, co, wire>>

\* What eligible_dispatches lists; an expired claim is listed for recovery.
Eligible ==
    {<<d, FALSE>> : d \in {e \in Dispatches : state[e] \in {"PENDING", "RETRYABLE_FAILURE"}}}
    \cup {<<d, TRUE>> : d \in {e \in Dispatches : state[e] = "IN_PROGRESS" /\ token[e] <= elapsed[e]}}

\* The guards of claim_dispatch and of the recovery route.  The connector
\* always confirms NO_SUBMISSION, which an ACTION_REQUIRED dispatch refuses.
Claimable(d, recovery) ==
    \/ state[d] = "IN_PROGRESS" /\ token[d] <= elapsed[d] /\ recovery
    \/ state[d] \in {"PENDING", "RETRYABLE_FAILURE"}
    \/ state[d] = "UNCERTAIN" /\ recovery

\* claim_dispatch: the expired attempt ends, the new one holds the claim.
EndedAttempts(d) ==
    IF state[d] = "IN_PROGRESS" THEN [attempts[d] EXCEPT ![token[d]] = "CLAIM_EXPIRED"] ELSE attempts[d]

Claim(d) ==
    /\ Len(attempts[d]) < MaxAttempts
    /\ attempts' = [attempts EXCEPT ![d] = Append(EndedAttempts(d), "IN_PROGRESS")]
    /\ state' = [state EXCEPT ![d] = "IN_PROGRESS"]
    /\ token' = [token EXCEPT ![d] = Len(attempts[d]) + 1]

\* record_result accepts the holder's result, and the exact repetition of a
\* result it has.
Recordable(d, n, o) ==
    \/ state[d] = "IN_PROGRESS" /\ token[d] = n
    \/ n \in DOMAIN attempts[d] /\ attempts[d][n] = o

\* Mutant: a late result amends the attempt that ended without it.
RecordResultAmends(d, n, o) ==
    /\ n \in DOMAIN attempts[d]
    /\ attempts' = [attempts EXCEPT ![d][n] = o]
    /\ IF token[d] = n
       THEN state' = [state EXCEPT ![d] = ResultState(o)] /\ token' = [token EXCEPT ![d] = 0]
       ELSE UNCHANGED <<state, token>>

\* record_result: the holder's result ends the attempt and the claim.
RecordResult(d, n, o) ==
    /\ Recordable(d, n, o)
    /\ IF attempts[d][n] = o
       THEN UNCHANGED cloudVars
       ELSE /\ attempts' = [attempts EXCEPT ![d] = [attempts[d] EXCEPT ![n] = o]]
            /\ state' = [state EXCEPT ![d] = ResultState(o)]
            /\ token' = [token EXCEPT ![d] = 0]

\* A request gets no answer: it is lost, or still on its way.
TimesOut(m) ==
    \/ UNCHANGED wire
    \/ Cardinality(wire) < MaxLate /\ wire' = wire \cup {m}

\* A request the client has given up on is served after all.
ServeLate(m) ==
    /\ wire' = wire \ {m}
    /\ \/ m.kind = "claim" /\ Claimable(m.dispatch, m.recovery) /\ Claim(m.dispatch)
       \/ m.kind = "report" /\ RecordResult(m.dispatch, m.token, m.result)
    /\ UNCHANGED <<elapsed, ledger, submits, sent, loopVars, co>>

-----------------------------------------------------------------------------
(* The connector's loop.                                                   *)

Incomplete ==
    {<<d, ledger[d]>> : d \in {e \in Dispatches : ledger[e].state \notin {"NONE", "CLOUD_RECONCILED"}}}

\* The process is gone; the ledger stays.
Die ==
    /\ pc' = "down" /\ rows' = {} /\ todo' = {} /\ claims' = {} /\ pending' = {}
    /\ co' = [c \in Coroutines |-> Idle]

\* run_forever goes back to its loop.
Abort ==
    /\ pc' = "sleep" /\ rows' = {} /\ todo' = {} /\ claims' = {} /\ pending' = {}

Crash ==
    /\ pc # "down"
    /\ Die
    /\ UNCHANGED <<cloudVars, elapsed, ledger, submits, sent, wire>>

\* The process starts (the singleton lock admits one), or a synchronization
\* begins: reconcile_startup fetches the unfinished rows.
BeginReconcile ==
    /\ pc \in {"down", "sleep"}
    /\ pc' = IF pc = "down" THEN "boot" ELSE "reconcile"
    /\ rows' = Incomplete
    /\ UNCHANGED <<cloudVars, elapsed, ledger, submits, sent, todo, claims, pending, co, wire>>

\* Mutant: only submissions are reconciled.
ReconcileSubmissions(d, row) ==
    CASE row.state \in FinalStates -> At("report", d, row.token, row.result)
      [] row.state = "SUBMISSION_STARTED" -> At("inspect", d, 0, "NONE")
      [] OTHER -> Idle

\* reconcile_row on a row as it was read.
ReconcileRow(d, row) ==
    CASE row.state \in FinalStates -> At("report", d, row.token, row.result)
      [] row.state = "SUBMISSION_STARTED" -> At("inspect", d, 0, "NONE")
      [] row.state = "RECEIVED" /\ row.token <= elapsed[d] -> At("reclaim", d, 0, "NONE")
      [] OTHER -> Idle

NextRow(r) ==
    /\ pc \in {"boot", "reconcile"}
    /\ co[Main] = Idle
    /\ rows' = rows \ {r}
    /\ co' = [co EXCEPT ![Main] = ReconcileRow(r[1], r[2])]
    /\ UNCHANGED <<cloudVars, elapsed, ledger, submits, sent, pc, todo, claims, pending, wire>>

\* Startup goes on to the loop, a synchronization to the eligible dispatches
\* (when the request for them fails, back to the loop).
RowsDone ==
    /\ rows = {} /\ co[Main] = Idle
    /\ \/ pc \in {"boot", "reconcile"} /\ pc' = "sleep" /\ UNCHANGED todo
       \/ pc = "reconcile" /\ pc' = "poll" /\ todo' = Eligible
    /\ UNCHANGED <<cloudVars, elapsed, ledger, submits, sent, rows, claims, pending, co, wire>>

ClaimNext(t) ==
    /\ pc = "poll"
    /\ Claimable(t[1], t[2])
    /\ Claim(t[1])
    /\ todo' = todo \ {t}
    /\ claims' = claims \cup {<<t[1], Len(attempts[t[1]]) + 1>>}
    /\ UNCHANGED <<elapsed, ledger, submits, sent, pc, rows, pending, co, wire>>

\* A claim is refused, or its request times out: the claims granted so far
\* are forgotten with the synchronization.
ClaimFails(t) ==
    /\ pc = "poll"
    /\ \/ ~Claimable(t[1], t[2]) /\ UNCHANGED wire
       \/ TimesOut([kind |-> "claim", dispatch |-> t[1], recovery |-> t[2]])
    /\ Abort
    /\ UNCHANGED <<cloudVars, elapsed, ledger, submits, sent, co>>

Gather ==
    /\ pc = "poll" /\ todo = {}
    /\ pc' = "gather"
    /\ UNCHANGED <<cloudVars, elapsed, ledger, submits, sent, rows, todo, claims, pending, co, wire>>

GatherDone ==
    /\ pc = "gather" /\ claims = {}
    /\ \A c \in pending : co[c] = Idle
    /\ Abort
    /\ UNCHANGED <<cloudVars, elapsed, ledger, submits, sent, co, wire>>

-----------------------------------------------------------------------------
(* Coroutines.                                                             *)

\* _deliver up to its first await, on a row under claim n: the target is not
\* configured or the payload does not render, or the submission starts.
Deliver(c, d, n) ==
    \/ /\ ledger' = [ledger EXCEPT ![d] = [state |-> "DEFINITE_FAILURE", token |-> n,
                                           result |-> "ACTION_REQUIRED"]]
       /\ co' = [co EXCEPT ![c] = At("report", d, n, "ACTION_REQUIRED")]
    \/ /\ ledger' = [ledger EXCEPT ![d] = [state |-> "SUBMISSION_STARTED", token |-> n,
                                           result |-> "NONE"]]
       /\ co' = [co EXCEPT ![c] = At("submit", d, 0, "NONE")]

\* The process dies right after the row was received or renewed.
DieReceived(d, n) ==
    /\ ledger' = [ledger EXCEPT ![d] = [state |-> "RECEIVED", token |-> n, result |-> "NONE"]]
    /\ Die

\* Mutant: the ledger's row is overwritten by a new claim.
StartClaimAnyRow(c, claim) ==
    /\ pc = "gather"
    /\ co[c] = Idle
    /\ claims' = claims \ {claim}
    /\ pending' = pending \cup {c}
    /\ Deliver(c, claim[1], claim[2])
    /\ UNCHANGED <<cloudVars, elapsed, submits, sent, pc, rows, todo, wire>>

\* process_claim: an operation the ledger knows is reconciled, never
\* delivered; the claim it came with is dropped.
StartClaim(c, claim) ==
    LET d == claim[1] IN
    /\ pc = "gather"
    /\ co[c] = Idle
    /\ \/ /\ claims' = claims \ {claim}
          /\ pending' = pending \cup {c}
          /\ IF ledger[d] = NoRow
             THEN Deliver(c, d, claim[2])
             ELSE co' = [co EXCEPT ![c] = ReconcileRow(d, ledger[d])] /\ UNCHANGED ledger
          /\ UNCHANGED <<pc, rows, todo>>
       \/ ledger[d] = NoRow /\ DieReceived(d, claim[2])
    /\ UNCHANGED <<cloudVars, elapsed, submits, sent, wire>>

\* adapter.submit: a failure is definite only before the first byte left.
Submit(c) ==
    LET d == co[c].dispatch IN
    /\ co[c].pc = "submit"
    /\ submits' = [submits EXCEPT ![d] = @ + 1]
    /\ \E o \in Outcomes \ {"INCONCLUSIVE"}, arrived \in BOOLEAN :
          /\ o = "ACCEPTED" => arrived
          /\ o \in {"RETRYABLE_FAILURE", "ACTION_REQUIRED"} => ~arrived
          /\ sent' = [sent EXCEPT ![d] = @ \/ arrived]
          /\ co' = [co EXCEPT ![c] = At("finalize", d, 0, o)]
    /\ UNCHANGED <<cloudVars, elapsed, ledger, loopVars, wire>>

\* Mutant: a job that is not found was not submitted.
InspectAbsenceDefinite(d) == {"RETRYABLE_FAILURE"} \cup (IF sent[d] THEN {"ACCEPTED"} ELSE {})

\* adapter.reconcile: CUPS may still know the job; absence proves nothing and
\* ESC/POS keeps no trace.
InspectOutcomes(d) == {"INCONCLUSIVE"} \cup (IF sent[d] THEN {"ACCEPTED"} ELSE {})

Inspect(c) ==
    LET d == co[c].dispatch IN
    /\ co[c].pc = "inspect"
    /\ \E o \in InspectOutcomes(d) : co' = [co EXCEPT ![c] = At("finalize", d, 0, o)]
    /\ UNCHANGED <<cloudVars, elapsed, ledger, submits, sent, loopVars, wire>>

\* _finalize: the outcome is durable before it is reported.
Finalize(c) ==
    LET d == co[c].dispatch IN
    /\ co[c].pc = "finalize"
    /\ ledger' = [ledger EXCEPT ![d] = [state |-> LocalState(co[c].result),
                                        token |-> ledger[d].token, result |-> co[c].result]]
    /\ co' = [co EXCEPT ![c] = At("report", d, ledger[d].token, co[c].result)]
    /\ UNCHANGED <<cloudVars, elapsed, submits, sent, loopVars, wire>>

Report(c) ==
    LET d == co[c].dispatch IN
    /\ co[c].pc = "report"
    /\ RecordResult(d, co[c].token, co[c].result)
    /\ co' = [co EXCEPT ![c].pc = "reported"]
    /\ UNCHANGED <<elapsed, ledger, submits, sent, loopVars, wire>>

\* The answer is back: the row is marked, whatever it says by now.
Reconciled(c) ==
    /\ co[c].pc = "reported"
    /\ ledger' = [ledger EXCEPT ![co[c].dispatch].state = "CLOUD_RECONCILED"]
    /\ co' = [co EXCEPT ![c] = Idle]
    /\ UNCHANGED <<cloudVars, elapsed, submits, sent, loopVars, wire>>

\* A report that is refused or times out is deferred.
ReportDeferred(c) ==
    /\ co[c].pc = "report"
    /\ \/ /\ ~Recordable(co[c].dispatch, co[c].token, co[c].result)
          /\ UNCHANGED wire
       \/ TimesOut([kind |-> "report", dispatch |-> co[c].dispatch,
                    token |-> co[c].token, result |-> co[c].result])
    /\ co' = [co EXCEPT ![c] = Idle]
    /\ UNCHANGED <<cloudVars, elapsed, ledger, submits, sent, loopVars>>

Reclaim(c) ==
    LET d == co[c].dispatch IN
    /\ co[c].pc = "reclaim"
    /\ Claimable(d, TRUE)
    /\ Claim(d)
    /\ co' = [co EXCEPT ![c] = At("renew", d, Len(attempts[d]) + 1, "NONE")]
    /\ UNCHANGED <<elapsed, ledger, submits, sent, loopVars, wire>>

\* The recovery claim is refused or times out.  The exception ends the
\* process at startup, the synchronization later, and nothing but the
\* coroutine when gather has already failed without it.
ReclaimFails(c) ==
    /\ co[c].pc = "reclaim"
    /\ \/ ~Claimable(co[c].dispatch, TRUE) /\ UNCHANGED wire
       \/ TimesOut([kind |-> "claim", dispatch |-> co[c].dispatch, recovery |-> TRUE])
    /\ c \in pending => claims = {}
    /\ IF pc = "boot" THEN Die
       ELSE /\ co' = [co EXCEPT ![c] = Idle]
            /\ IF c \in pending \cup {Main} THEN Abort ELSE UNCHANGED loopVars
    /\ UNCHANGED <<cloudVars, elapsed, ledger, submits, sent>>

\* renew_claim and _deliver, without an await between them.  A row that is no
\* longer RECEIVED raises IntegrityConflict, which nothing catches.
Renew(c) ==
    LET d == co[c].dispatch IN
    /\ co[c].pc = "renew"
    /\ IF ledger[d].state = "RECEIVED"
       THEN \/ Deliver(c, d, co[c].token) /\ UNCHANGED loopVars
            \/ DieReceived(d, co[c].token)
       ELSE /\ IF c \in pending \cup {Main}
               THEN Die
               ELSE co' = [co EXCEPT ![c] = Idle] /\ UNCHANGED loopVars
            /\ UNCHANGED ledger
    /\ UNCHANGED <<cloudVars, elapsed, submits, sent, wire>>

-----------------------------------------------------------------------------
Step(c) ==
    \/ Submit(c) \/ Inspect(c) \/ Finalize(c)
    \/ Report(c) \/ Reconciled(c) \/ ReportDeferred(c)
    \/ Reclaim(c) \/ ReclaimFails(c) \/ Renew(c)

Next ==
    \/ \E d \in Dispatches :
          Materialize(d) \/ CreateDispatch(d) \/ CreateReprint(d) \/ LeaseExpires(d)
    \/ \E m \in wire : ServeLate(m)
    \/ BeginReconcile \/ RowsDone \/ Gather \/ GatherDone \/ Crash
    \/ \E r \in rows : NextRow(r)
    \/ \E t \in todo : ClaimNext(t) \/ ClaimFails(t)
    \/ \E c \in Tasks, claim \in claims : StartClaim(c, claim)
    \/ \E c \in Coroutines : Step(c)

Spec == Init /\ [][Next]_vars

-----------------------------------------------------------------------------
(* Correctness.                                                            *)

\* An operation is submitted to its printer at most once, whatever crashes,
\* repeated claims, expired leases and late requests: tickets do not print
\* twice unless someone asks for a reprint.
SubmittedAtMostOnce == \A d \in Dispatches : submits[d] <= 1

\* The cloud believes only what happened: an accepted dispatch is at its destination, one that
\* may be tried again is not, and a dispatch has an attempt in progress exactly when it is in
\* progress: the last one, which holds the claim.
CloudStateIsTrue ==
    /\ TypeOK
    /\ \A d \in Dispatches :
          LET running == {n \in DOMAIN attempts[d] : attempts[d][n] = "IN_PROGRESS"} IN
          /\ state[d] = "ACCEPTED" => sent[d]
          /\ state[d] \in {"RETRYABLE_FAILURE", "ACTION_REQUIRED"} => ~sent[d]
          /\ IF state[d] = "IN_PROGRESS"
             THEN running = {Len(attempts[d])} /\ token[d] = Len(attempts[d])
             ELSE running = {} /\ token[d] = 0

\* Once an attempt has ended, no late or repeated report changes its result.
AttemptResultIsFinal ==
    [][\A d \in Dispatches : \A n \in DOMAIN attempts[d] :
          attempts[d][n] # "IN_PROGRESS" => attempts'[d][n] = attempts[d][n]]_vars

-----------------------------------------------------------------------------
(* The inductive invariant: what the ledger, the coroutines, the rows they *)
(* fetched, the claims and the requests under way say is still true.       *)

\* The ledger has the operation beyond RECEIVED; it never goes back.
Begun(d) == ledger[d].state \notin {"NONE", "RECEIVED"}

Submitting(c, d) == co[c].pc = "submit" /\ co[c].dispatch = d

\* The operation did not arrive, and nothing will still submit it.
Undone(d) == Begun(d) /\ ~sent[d] /\ \A c \in Coroutines : ~Submitting(c, d)

\* What stays true of an operation once it is: the attempts it had, and the three above.
Facts == [tried |-> [d \in Dispatches |-> DOMAIN attempts[d]],
          begun |-> {d \in Dispatches : Begun(d)},
          arrived |-> {d \in Dispatches : sent[d]},
          undone |-> {d \in Dispatches : Undone(d)}]

\* What an outcome says of the destination.
Tells(f, d, o) ==
    /\ o = "ACCEPTED" => d \in f.arrived
    /\ o \in {"RETRYABLE_FAILURE", "ACTION_REQUIRED"} => d \in f.undone

RowSound(f, d, row) ==
    /\ row \in Row
    /\ row.state # "NONE" => row.token \in f.tried[d]
    /\ row.state \notin {"NONE", "RECEIVED"} => d \in f.begun
    /\ row.state \in FinalStates => row.result \in Outcomes /\ Tells(f, d, row.result)

CoroutineSound(f, k) ==
    /\ k \in Coroutine
    /\ k.pc # "idle" => k.dispatch \in Dispatches
    /\ k.pc \in {"renew", "report", "reported"} => k.token \in f.tried[k.dispatch]
    /\ k.pc \in {"submit", "inspect", "finalize", "report", "reported"} => k.dispatch \in f.begun
    /\ k.pc \in {"finalize", "report", "reported"} => k.result \in Outcomes /\ Tells(f, k.dispatch, k.result)

RequestSound(f, m) ==
    \/ m \in ClaimRequest
    \/ m \in ReportRequest /\ m.token \in f.tried[m.dispatch] /\ Tells(f, m.dispatch, m.result)

\* An operation is submitted by one coroutine, once, after the ledger says so.
SubmissionSound(d) ==
    /\ submits[d] \in {0, 1}
    /\ sent[d] => submits[d] = 1
    /\ ~Begun(d) => submits[d] = 0
    /\ \A c \in Coroutines : Submitting(c, d) => submits[d] = 0 /\ \A e \in Coroutines : Submitting(e, d) => e = c

\* A cloud row with its claim, attempts and leases.
ClaimSound(s, t, a, e) ==
    /\ Len(a) <= MaxAttempts /\ e \in 0 .. Len(a)
    /\ IF s = "IN_PROGRESS" THEN t = Len(a) /\ t > 0 ELSE t = 0
    /\ s = "NONE" => a = <<>>
    /\ \A n \in DOMAIN a : a[n] = "IN_PROGRESS" <=> n = t

\* What its state says of the destination; a dispatch may need action before any attempt.
StateTrue(f, d, s, a) ==
    /\ s # "ACTION_REQUIRED" => Tells(f, d, s)
    /\ s = "ACTION_REQUIRED" => d \in f.undone \/ a = <<>>

DeliveryInv ==
    /\ TypeOK
    /\ \A d \in Dispatches :
          /\ ClaimSound(state[d], token[d], attempts[d], elapsed[d])
          /\ StateTrue(Facts, d, state[d], attempts[d])
          /\ SubmissionSound(d)
          /\ RowSound(Facts, d, ledger[d])
    /\ \A r \in rows : RowSound(Facts, r[1], r[2])
    /\ \A p \in claims : p[2] \in Facts.tried[p[1]]
    /\ \A c \in Coroutines : CoroutineSound(Facts, co[c])
    /\ \A m \in wire : RequestSound(Facts, m)

-----------------------------------------------------------------------------
(* Liveness: the process is restarted when it died, its loop and its       *)
(* coroutines run, requests do not fail for ever, leases run out.          *)

FairSpec ==
    /\ Spec
    /\ WF_vars(BeginReconcile) /\ WF_vars(RowsDone) /\ WF_vars(Gather) /\ WF_vars(GatherDone)
    /\ WF_vars(\E t \in todo : ClaimNext(t) \/ ClaimFails(t))
    /\ WF_vars(\E c \in Tasks, claim \in claims : StartClaim(c, claim))
    /\ \A d \in Dispatches :
          /\ WF_vars(LeaseExpires(d))
          /\ SF_vars(\E r \in rows : r[1] = d /\ NextRow(r))
          /\ SF_vars(\E c \in Coroutines : co[c].dispatch = d /\ Reclaim(c))
    /\ \A c \in Coroutines :
          /\ WF_vars(Step(c))
          /\ SF_vars(Renew(c))

\* A crash between receiving an operation and submitting it delays the
\* operation, it does not lose it: the row leaves RECEIVED (up to the bound
\* on attempts).
ReceivedIsRecovered ==
    \A d \in Dispatches : ledger[d].state = "RECEIVED" ~>
        (ledger[d].state # "RECEIVED" \/ Len(attempts[d]) = MaxAttempts)
=============================================================================
