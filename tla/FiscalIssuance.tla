--------------------------- MODULE FiscalIssuance ---------------------------
(***************************************************************************)
(* From a settled check to a stamped invoice: fiscal profiles, billing     *)
(* documents and fiscal issuances with their provider                      *)
(* (routes/fiscal_profiles.py, billing/service.py,                         *)
(* fiscal_issuance/service.py, integrations/fiscal/finkok).                *)
(*                                                                         *)
(* A worker holds a claim: a token and a lease.  Between its claim and its *)
(* finish it talks to the provider, so its answer may arrive after the     *)
(* lease ran out, after another worker took over, or never.  A call that   *)
(* the worker gave up on may still be stamped.  Refusals that change no    *)
(* row (wrong scope, invalid input, replayed keys) are stuttering steps.   *)
(***************************************************************************)
EXTENDS CommercialTerms, FiniteSetsExt, SequencesExt

CONSTANTS Bills,        \* what settled checks may hold: see CommercialTerms
          CheckIds,
          Parties,      \* values of a fiscal profile
          Bindings,     \* "FINKOK", or "KEYED": a provider that honours its idempotency key
          MaxDocuments, MaxAttempts, MaxProfileEdits

ASSUME FiscalBounds == MaxDocuments \in Nat /\ MaxAttempts \in Nat /\ MaxProfileEdits \in Nat

VARIABLES issuer, recipient,   \* the fiscal profiles, NoParty before the first
          settled,             \* CheckId -> its bill, NoBill while the check is open
          document,            \* sequence of billing documents
          issuance,            \* sequence over documents: its issuance, NoIssuance
          attempt,             \* sequence over documents: its attempts
          evidence,            \* sequence over documents: [stamp, artifact]: the fiscal result kept
          call,                \* sequence over documents: for each attempt its [wire, answer]
          stamped,             \* sequence over documents: how often the provider stamped it
          edits

fiscalVars == <<issuer, recipient, settled, document, issuance, attempt, evidence, call, stamped, edits>>

NoParty == "no party"
NoBill == [lines |-> <<>>]
NoIssuance == [state |-> "NONE"]
NoEvidence == [stamp |-> 0, artifact |-> FALSE]

States == {"PENDING", "IN_PROGRESS", "SUCCEEDED", "FAILED", "REJECTED", "UNCERTAIN"}
Answers == {"SUCCEEDED", "FAILED", "REJECTED", "UNCERTAIN", "ABSENT"}

BillingDocument == [check : CheckIds, issuer : Parties, recipient : Parties]
FiscalRequest == [check : CheckIds, bill : Bills \cup {NoBill}, issuer : Parties, recipient : Parties,
                  binding : Bindings]
BillingIssuance == [state : States, token : 0 .. MaxAttempts, live : BOOLEAN, request : FiscalRequest]
BillingIssuanceAttempt == [type : {"ISSUE", "RECOVER", "RETRY"}, result : States \cup {"NONE"}, absent : BOOLEAN]
ProviderCall == [wire : {"UNSENT", "SENT", "STAMPED", "REFUSED"}, answer : Answers \cup {"NONE", "APPLIED"}]
BillingFiscalResult == [stamp : 0 .. MaxAttempts, artifact : BOOLEAN]

FiscalInit ==
    /\ issuer = NoParty /\ recipient = NoParty
    /\ settled = [c \in CheckIds |-> NoBill]
    /\ document = <<>> /\ issuance = <<>> /\ attempt = <<>>
    /\ evidence = <<>> /\ call = <<>> /\ stamped = <<>>
    /\ edits = 0

Documents == DOMAIN document
BillOf(d) == settled[document[d].check]

(***************************************************************************)
(* Profiles, settlement, billing documents.                                *)
(***************************************************************************)
PutIssuerFiscalProfile(v) ==
    /\ edits < MaxProfileEdits /\ edits' = edits + 1
    /\ issuer' = v
    /\ UNCHANGED <<recipient, settled, document, issuance, attempt, evidence, call, stamped>>

PutRecipientFiscalProfile(v) ==
    /\ edits < MaxProfileEdits /\ edits' = edits + 1
    /\ recipient' = v
    /\ UNCHANGED <<issuer, settled, document, issuance, attempt, evidence, call, stamped>>

\* Payment settles the check; a settled check has no exposure left and never changes.
SettleCheck(c, bill) ==
    /\ settled[c] = NoBill
    /\ settled' = [settled EXCEPT ![c] = bill]
    /\ UNCHANGED <<issuer, recipient, document, issuance, attempt, evidence, call, stamped, edits>>

SettlementIsFinal(bill) == SumOf(bill.payments, "amount") = Liability(bill)

\* A new idempotency key makes a new document, also of a check that has one.
CreateBillingDocument(c) ==
    /\ Len(document) < MaxDocuments
    /\ settled[c] # NoBill /\ SettlementIsFinal(settled[c])
    /\ issuer # NoParty /\ recipient # NoParty
    /\ CfdiReady(settled[c])
    /\ document' = Append(document, [check |-> c, issuer |-> issuer, recipient |-> recipient])
    /\ issuance' = Append(issuance, NoIssuance)
    /\ attempt' = Append(attempt, <<>>)
    /\ evidence' = Append(evidence, NoEvidence)
    /\ call' = Append(call, <<>>)
    /\ stamped' = Append(stamped, 0)
    /\ UNCHANGED <<issuer, recipient, settled, edits>>

(***************************************************************************)
(* Reservation and claims.                                                 *)
(***************************************************************************)
billing == <<issuer, recipient, settled, document, edits>>

\* The frozen document, the settlement and the binding, all in one fingerprint.
CanonicalRequest(d, binding) ==
    [check |-> document[d].check, bill |-> BillOf(d), issuer |-> document[d].issuer,
     recipient |-> document[d].recipient, binding |-> binding]

Reserve(d, binding) ==
    /\ issuance[d] = NoIssuance
    /\ issuance' = [issuance EXCEPT ![d] =
           [state |-> "PENDING", token |-> 0, live |-> FALSE, request |-> CanonicalRequest(d, binding)]]
    /\ UNCHANGED <<billing, attempt, evidence, call, stamped>>

\* Both claims: the attempt's number serves as its token.
Claim(d) ==
    /\ Len(attempt[d]) < MaxAttempts
    /\ issuance' = [issuance EXCEPT ![d] = [@ EXCEPT !.state = "IN_PROGRESS", !.token = Len(attempt[d]) + 1,
                                                     !.live = TRUE]]
    /\ call' = [call EXCEPT ![d] = Append(@, [wire |-> "UNSENT", answer |-> "NONE"])]
    /\ UNCHANGED <<billing, evidence, stamped>>

Opened(type) == [type |-> type, result |-> "NONE", absent |-> FALSE]

\* Mutant: a failed or uncertain issue is issued again.
ClaimInitialAgain(d) ==
    /\ issuance[d].state \in {"PENDING", "FAILED", "UNCERTAIN"}
    /\ Claim(d)
    /\ attempt' = [attempt EXCEPT ![d] = Append(@, Opened("ISSUE"))]

ClaimInitial(d) ==
    /\ issuance[d].state = "PENDING" /\ attempt[d] = <<>>
    /\ Claim(d)
    /\ attempt' = [attempt EXCEPT ![d] = Append(@, Opened("ISSUE"))]

Expired(d) == issuance[d].state = "IN_PROGRESS" /\ ~issuance[d].live

LeaseExpires(d) ==
    /\ issuance[d].state = "IN_PROGRESS" /\ issuance[d].live
    /\ issuance' = [issuance EXCEPT ![d].live = FALSE]
    /\ UNCHANGED <<billing, attempt, evidence, call, stamped>>

\* _complete_stale_attempt: what an expired claim did is uncertain.
Completed(d) ==
    IF Expired(d) THEN [attempt[d] EXCEPT ![Len(attempt[d])].result = "UNCERTAIN"] ELSE attempt[d]

RecoverAllowed(d) == issuance[d].state = "UNCERTAIN" \/ Expired(d)

\* An expired claim is UNCERTAIN and its attempt no proof of absence: a retry of it is
\* refused.  A FAILED issuance never carries a business rejection: those are REJECTED.
RetryAllowed(d) ==
    \/ /\ issuance[d].state # "IN_PROGRESS" /\ attempt[d] # <<>>
       /\ Last(attempt[d]).type = "RECOVER" /\ Last(attempt[d]).absent
    \/ issuance[d].state = "FAILED"

ClaimRecovery(d) ==
    /\ issuance[d] # NoIssuance /\ RecoverAllowed(d)
    /\ Claim(d)
    /\ attempt' = [attempt EXCEPT ![d] = Append(Completed(d), Opened("RECOVER"))]

ClaimRetry(d) ==
    /\ issuance[d] # NoIssuance /\ RetryAllowed(d)
    /\ Claim(d)
    /\ attempt' = [attempt EXCEPT ![d] = Append(@, Opened("RETRY"))]

(***************************************************************************)
(* The provider call of attempt n.  A worker that crashed takes no step.   *)
(***************************************************************************)
Provider(d) == issuance[d].request.binding
Type(d, n) == attempt[d][n].type
Waiting(d, n) == call[d][n].answer = "NONE"
Answered(d, n, a) == call' = [call EXCEPT ![d][n].answer = a]
Sent(d, n) == call' = [call EXCEPT ![d][n].wire = "SENT"]
calling == <<billing, issuance, attempt, evidence>>

\* The durable evidence still gives the request of the reservation.
StillBound(d) == CanonicalRequest(d, Provider(d)) = issuance[d].request

\* No binding, provider or credential: nothing was sent, so a recovery knows no more than before.
ResolutionFails(d, n) ==
    /\ Waiting(d, n) /\ call[d][n].wire = "UNSENT"
    /\ Answered(d, n, IF Type(d, n) = "RECOVER" THEN "UNCERTAIN" ELSE "FAILED")
    /\ UNCHANGED <<calling, stamped>>

\* FINKOK stamps only for a first attempt; a provider with keys may be asked again.
Sends(d, n) == Type(d, n) # "RETRY" \/ Provider(d) = "KEYED"

\* The adapter maps and validates the document before it connects.
CallProvider(d, n) ==
    /\ Waiting(d, n) /\ call[d][n].wire = "UNSENT" /\ StillBound(d)
    /\ IF ~Sends(d, n) THEN Answered(d, n, "UNCERTAIN")
       ELSE IF ~Stampable(BillOf(d))
       THEN Answered(d, n, IF Type(d, n) = "RECOVER" THEN "UNCERTAIN" ELSE "FAILED")
       ELSE Sent(d, n)
    /\ UNCHANGED <<calling, stamped>>

\* No connection, or HTTP 4xx: the provider did not accept the request.
DefiniteTransportError(d, n) ==
    /\ Waiting(d, n) /\ call[d][n].wire = "SENT"
    /\ call' = [call EXCEPT ![d][n] = [wire |-> "REFUSED",
                                      answer |-> IF Type(d, n) = "RECOVER" THEN "UNCERTAIN" ELSE "FAILED"]]
    /\ UNCHANGED <<calling, stamped>>

\* A timeout, HTTP 5xx or unreadable reply, whatever the provider did or will still do.
AmbiguousTransportError(d, n) ==
    /\ Waiting(d, n) /\ call[d][n].wire # "UNSENT"
    /\ Answered(d, n, "UNCERTAIN")
    /\ UNCHANGED <<calling, stamped>>

\* The provider, also when nobody waits for it any more.
ProviderStamps(d, n) ==
    /\ call[d][n].wire = "SENT" /\ Type(d, n) # "RECOVER"
    /\ stamped' = [stamped EXCEPT ![d] = IF Provider(d) = "KEYED" THEN 1 ELSE @ + 1]
    /\ call' = [call EXCEPT ![d][n].wire = "STAMPED"]
    /\ UNCHANGED calling

ProviderRefuses(d, n) ==
    /\ call[d][n].wire = "SENT" /\ Type(d, n) # "RECOVER"
    /\ call' = [call EXCEPT ![d][n].wire = "REFUSED"]
    /\ UNCHANGED <<calling, stamped>>

\* _issuance_result: a verified stamp, incidences (REJECTED) or a fault (FAILED).
IssuanceResult(d, n) ==
    /\ Waiting(d, n) /\ Type(d, n) # "RECOVER"
    /\ \/ call[d][n].wire = "STAMPED" /\ Answered(d, n, "SUCCEEDED")
       \/ call[d][n].wire = "REFUSED" /\ \E a \in {"REJECTED", "FAILED"} : Answered(d, n, a)
    /\ UNCHANGED <<calling, stamped>>

\* recover: the stamp if there is one; incidences and faults alike are a rejection.
RecoveryResult(d, n) ==
    /\ Waiting(d, n) /\ call[d][n].wire = "SENT" /\ Type(d, n) = "RECOVER"
    /\ \/ stamped[d] > 0 /\ Answered(d, n, "SUCCEEDED")
       \/ Answered(d, n, "REJECTED")
    /\ UNCHANGED <<calling, stamped>>

\* A provider with keys that proves absence accepts no earlier call of the key any more.
ProvesAbsence(d, n) ==
    /\ Waiting(d, n) /\ call[d][n].wire = "SENT" /\ Type(d, n) = "RECOVER"
    /\ Provider(d) = "KEYED" /\ stamped[d] = 0
    /\ call' = [call EXCEPT ![d] = [m \in DOMAIN @ |->
           IF m = n THEN [@[m] EXCEPT !.answer = "ABSENT"]
           ELSE IF @[m].wire = "SENT" THEN [@[m] EXCEPT !.wire = "REFUSED"] ELSE @[m]]]
    /\ UNCHANGED <<calling, stamped>>

(***************************************************************************)
(* The finish of attempt n.                                                *)
(***************************************************************************)
\* Mutant: an answer is applied whoever holds the claim.
MayFinishAnyway(d, n) == issuance[d].state = "IN_PROGRESS"

MayFinish(d, n) ==
    /\ issuance[d].state = "IN_PROGRESS" /\ issuance[d].token = n /\ issuance[d].live
    /\ attempt[d][n].result = "NONE"

Conclude(d, n, state) ==
    /\ issuance' = [issuance EXCEPT ![d] = [@ EXCEPT !.state = state, !.token = 0, !.live = FALSE]]
    /\ attempt' = [attempt EXCEPT ![d][n] =
           [@ EXCEPT !.result = state, !.absent = (call[d][n].answer = "ABSENT")]]

Conflicting(d) == evidence[d].stamp \notin {0, stamped[d]}

\* The fiscal result is kept even when its document could not be stored.
FinishSuccess(d, n) ==
    /\ MayFinish(d, n) /\ call[d][n].answer = "SUCCEEDED"
    /\ \E stored \in BOOLEAN :
          IF stored /\ Conflicting(d) THEN Conclude(d, n, "UNCERTAIN") /\ UNCHANGED evidence
          ELSE /\ Conclude(d, n, IF stored THEN "SUCCEEDED" ELSE "UNCERTAIN")
               /\ evidence' = [evidence EXCEPT ![d] = [stamp |-> stamped[d], artifact |-> stored \/ @.artifact]]
    /\ call' = [call EXCEPT ![d][n].answer = "APPLIED"]
    /\ UNCHANGED <<billing, stamped>>

\* A proof of absence makes the operation FAILED, so that a retry is allowed.
Outcome(answer) == IF answer = "ABSENT" THEN "FAILED" ELSE answer

FinishOther(d, n) ==
    /\ MayFinish(d, n) /\ call[d][n].answer \in Answers \ {"SUCCEEDED"}
    /\ Conclude(d, n, Outcome(call[d][n].answer))
    /\ call' = [call EXCEPT ![d][n].answer = "APPLIED"]
    /\ UNCHANGED <<billing, evidence, stamped>>

\* FiscalIssuanceStaleFenceError: the answer is dropped.
LostOwnership(d, n) ==
    /\ call[d][n].answer \in Answers /\ ~MayFinish(d, n)
    /\ call' = [call EXCEPT ![d][n].answer = "APPLIED"]
    /\ UNCHANGED <<calling, stamped>>

Operate(d) ==
    \/ \E b \in Bindings : Reserve(d, b)
    \/ ClaimInitial(d) \/ LeaseExpires(d) \/ ClaimRecovery(d) \/ ClaimRetry(d)

Work(d, n) ==
    \/ ResolutionFails(d, n) \/ CallProvider(d, n) \/ DefiniteTransportError(d, n) \/ AmbiguousTransportError(d, n)
    \/ ProviderStamps(d, n) \/ ProviderRefuses(d, n) \/ IssuanceResult(d, n) \/ RecoveryResult(d, n)
    \/ ProvesAbsence(d, n) \/ FinishSuccess(d, n) \/ FinishOther(d, n) \/ LostOwnership(d, n)

FiscalNext ==
    \/ \E v \in Parties : PutIssuerFiscalProfile(v) \/ PutRecipientFiscalProfile(v)
    \/ \E c \in CheckIds : CreateBillingDocument(c) \/ \E b \in Bills : SettleCheck(c, b)
    \/ \E d \in Documents : Operate(d) \/ \E n \in DOMAIN call[d] : Work(d, n)

(***************************************************************************)
(* Properties.                                                             *)
(***************************************************************************)
FiscalTypeOK ==
    /\ {issuer, recipient} \subseteq Parties \cup {NoParty}
    /\ \A d \in Documents :
          /\ document[d] \in BillingDocument
          /\ issuance[d] \in BillingIssuance \cup {NoIssuance}
          /\ \A n \in DOMAIN attempt[d] : attempt[d][n] \in BillingIssuanceAttempt /\ call[d][n] \in ProviderCall
          /\ evidence[d] \in BillingFiscalResult

\* No document is stamped twice, whatever is lost, late, recovered or retried: FINKOK is
\* asked once, and a provider with keys again only for the same key.
StampedAtMostOnce == \A d \in Documents : stamped[d] <= 1

\* SUCCEEDED is never claimed without the provider's stamp, the fiscal result row and the
\* stored document, and a fiscal result is never recorded of a document nobody stamped.
SuccessIsBacked ==
    \A d \in Documents :
        /\ issuance[d].state = "SUCCEEDED" => evidence[d].stamp = 1 /\ evidence[d].artifact
        /\ evidence[d].stamp > 0 => stamped[d] > 0

\* The attempts tell the state: one is open exactly while the issuance is IN_PROGRESS, it
\* is the last and holds the token, and otherwise the last attempt's result is the state.
AttemptsTellTheState ==
    \A d \in Documents :
        LET open == {n \in DOMAIN attempt[d] : attempt[d][n].result = "NONE"} IN
        IF issuance[d].state = "IN_PROGRESS"
        THEN open = {Len(attempt[d])} /\ issuance[d].token = Len(attempt[d])
        ELSE open = {} /\ (attempt[d] # <<>> => issuance[d].state = Last(attempt[d]).result)

\* (Of a step.)  An issuance that SUCCEEDED or was REJECTED stays so, and a fiscal result
\* once recorded is never replaced, nor its document lost.
FiscalOutcomeIsFinal ==
    \A d \in Documents :
        /\ issuance[d].state \in {"SUCCEEDED", "REJECTED"} => issuance'[d].state = issuance[d].state
        /\ evidence[d].stamp > 0 => evidence'[d].stamp = evidence[d].stamp
        /\ evidence[d].artifact => evidence'[d].artifact

\* An invoice exists at most once and is what the issuance says it is: rows of their types,
\* one stamp, and no success without the stamp and its stored document.
IssuedOnceAndBacked == FiscalTypeOK /\ StampedAtMostOnce /\ SuccessIsBacked

(***************************************************************************)
(* The inductive invariant: the rows i, a and e and the calls c of one     *)
(* document, stamped s times.  FINKOK is asked by the first attempt only,  *)
(* so its stamp is the first call's; what any call was told is true.       *)
(***************************************************************************)
AttemptSound(i, a, c, s, n) ==
    /\ a[n].result = "NONE" <=> i.state = "IN_PROGRESS" /\ n = Len(a)
    /\ a[n].type = "ISSUE" <=> n = 1
    /\ a[n].absent => a[n].result = "FAILED"
    /\ "STAMPED" = c[n].wire \/ "SUCCEEDED" = c[n].answer => s = 1
    /\ i.request.binding # "KEYED" =>
          /\ a[n].type = "RETRY" => c[n].wire = "UNSENT"
          /\ n = 1 /\ s = 1 => c[n].wire = "STAMPED"

DocumentSound(i, a, c, e, s) ==
    /\ i \in BillingIssuance \cup {NoIssuance}
    /\ a \in Seq(BillingIssuanceAttempt) /\ c \in Seq(ProviderCall)
    /\ Len(a) = Len(c) /\ Len(a) <= MaxAttempts
    /\ s \in 0 .. 1 /\ e \in [stamp : 0 .. s, artifact : BOOLEAN]
    /\ IF a = <<>> THEN i.state \in {"NONE", "PENDING"} /\ s = 0
       ELSE /\ i # NoIssuance
            /\ IF i.state = "IN_PROGRESS" THEN i.token = Len(a) ELSE i.state = a[Len(a)].result
    /\ \A n \in 1 .. Len(a) : AttemptSound(i, a, c, s, n)
    /\ i.state = "SUCCEEDED" => e.stamp = 1 /\ e.artifact

FiscalInv ==
    /\ issuer \in Parties \cup {NoParty} /\ recipient \in Parties \cup {NoParty}
    /\ settled \in [CheckIds -> Bills \cup {NoBill}]
    /\ document \in Seq(BillingDocument)
    /\ issuance \in Seq(BillingIssuance \cup {NoIssuance}) /\ Len(issuance) = Len(document)
    /\ attempt \in Seq(Seq(BillingIssuanceAttempt)) /\ Len(attempt) = Len(document)
    /\ call \in Seq(Seq(ProviderCall)) /\ Len(call) = Len(document)
    /\ evidence \in Seq([stamp : 0 .. 1, artifact : BOOLEAN]) /\ Len(evidence) = Len(document)
    /\ stamped \in Seq(0 .. 1) /\ Len(stamped) = Len(document)
    /\ \A d \in Documents : DocumentSound(issuance[d], attempt[d], call[d], evidence[d], stamped[d])

FiscalSpec == FiscalInit /\ [][FiscalNext]_fiscalVars
=============================================================================
