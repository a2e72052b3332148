----------------------------- MODULE DinerChecks -----------------------------
(***************************************************************************)
(* Diners at their tables, their order drafts and orders, and the checks   *)
(* that claim those orders (service_sessions/service.py, orders/service.py,*)
(* orders/acceptance.py, checks/service.py).                               *)
(*                                                                         *)
(* As in TableFloor, plain selects of a handler answer from the snapshot   *)
(* taken when its caller was authenticated, and selects FOR UPDATE are     *)
(* current.  The decisions made on plain selects are: whether a diner may  *)
(* order (ensure_ordering_allowed), which diners sit at a table            *)
(* (update_party_size, table checks), and whether a draft has items        *)
(* (_validate_drafts).  Joining is unauthenticated, so its reads follow    *)
(* the session lock and are current.                                       *)
(*                                                                         *)
(* Every order costs 1.  Expected versions older than the row are refused  *)
(* and replayed idempotency keys change nothing: stuttering steps.         *)
(***************************************************************************)
EXTENDS Naturals, Sequences, FiniteSets, FiniteSetsExt

CONSTANTS Seatings,      \* service sessions
          Diners,
          Clients,       \* requests in flight with a snapshot
          PartySizes,
          JoinLimit,     \* wrong access codes before joining is locked (5 in the code)
          MaxItems,      \* items of a draft
          MaxOrders, MaxChecks,
          MaxEdits       \* changes of existing checks that give them a new version

ASSUME ChecksConstants ==
    /\ Seatings # {} /\ \E n \in PartySizes : \A m \in PartySizes : n >= m
    /\ {JoinLimit, MaxItems, MaxOrders, MaxChecks, MaxEdits} \subseteq Nat /\ JoinLimit > 0

VARIABLES seating,   \* Seating -> [open, party, failures]
          seat,      \* Diner -> [status, at]
          draft,     \* Diner -> items of its open draft, NoDraft when it has none
          order,     \* sequence of [diner, state, check]
          check,     \* sequence of [status, version, members, scopes, controller, total, tip, decision]
          view       \* Client -> the snapshot its request reads from

checkVars == <<seating, seat, draft, order, check, view>>

NoDraft == MaxItems + 1
NoView == [taken |-> FALSE]
Nobody == "nobody"   \* no diner controls a check that staff created
Free == 0            \* the order is allocated to no check

\* The rows behind the state.
ServiceSeating == [open : BOOLEAN, party : PartySizes, failures : 0 .. JoinLimit]
DinerSession == [status : {"AWAY", "ACTIVE", "ENDED"}, at : Seatings]
OrderDraft == 0 .. NoDraft
Allocation == [diner : Diners, state : {"FREE", "CLAIMED", "SETTLED"}, check : Nat]
CheckStatuses == {"OPEN", "FROZEN", "CANCELLED", "SETTLED"}
Decisions == {"NONE", "PENDING", "YES", "NO"}
CheckMembers == SUBSET Diners
CheckScopes == SUBSET Seatings
Check == [status : CheckStatuses, version : Nat, members : CheckMembers, scopes : CheckScopes,
          controller : Diners \cup {Nobody}, total : Nat, tip : Nat, decision : Decisions]

\* What a request has read when it takes its locks.
RequestView == [taken : {TRUE}, active : [Seatings -> SUBSET Diners], filled : SUBSET Diners, blocked : SUBSET Diners]

ChecksInit ==
    /\ seating = [s \in Seatings |-> [open |-> TRUE, party |-> Max(PartySizes), failures |-> 0]]
    /\ seat = [d \in Diners |-> [status |-> "AWAY", at |-> CHOOSE s \in Seatings : TRUE]]
    /\ draft = [d \in Diners |-> NoDraft]
    /\ order = <<>>
    /\ check = <<>>
    /\ view = [c \in Clients |-> NoView]

ActiveAt(s) == {d \in Diners : seat[d].status = "ACTIVE" /\ seat[d].at = s}
MemberOf(d) == {c \in DOMAIN check : d \in check[c].members}
ScopedBy(s) == {c \in DOMAIN check : s \in check[c].scopes}
OrdersOf(ds) == {o \in DOMAIN order : order[o].diner \in ds}
OwnedBy(c) == {o \in DOMAIN order : order[o].check = c}
Consumption(os) == Cardinality(os)

(***************************************************************************)
(* The snapshot of a request.                                              *)
(***************************************************************************)
OrderingBlocked(d) == MemberOf(d) # {} \/ ScopedBy(seat[d].at) # {}

BeginRequest(r) ==
    /\ view[r] = NoView
    /\ view' = [view EXCEPT ![r] =
           [taken |-> TRUE, active |-> [s \in Seatings |-> ActiveAt(s)],
            filled |-> {d \in Diners : draft[d] \in 1 .. MaxItems},
            blocked |-> {d \in Diners : OrderingBlocked(d)}]]
    /\ UNCHANGED <<seating, seat, draft, order, check>>

Serving(r) == view[r].taken
Finish(r) == view' = [view EXCEPT ![r] = NoView]

(***************************************************************************)
(* Joining a table, its party size, leaving it.                            *)
(***************************************************************************)
JoinLocked(s) == seating[s].failures = JoinLimit

JoinDiner(d, s) ==
    /\ seat[d].status = "AWAY"
    /\ seating[s].open /\ ~JoinLocked(s)
    /\ ScopedBy(s) = {}
    /\ seating' = [seating EXCEPT ![s].failures = 0]
    /\ IF Cardinality(ActiveAt(s)) < seating[s].party
       THEN seat' = [seat EXCEPT ![d] = [status |-> "ACTIVE", at |-> s]]
       ELSE UNCHANGED seat
    /\ UNCHANGED <<draft, order, check, view>>

RecordFailure(s) ==
    /\ seating[s].open /\ ~JoinLocked(s)
    /\ seating' = [seating EXCEPT ![s].failures = @ + 1]
    /\ UNCHANGED <<seat, draft, order, check, view>>

\* Five minutes pass: a lockout ends, and the next failure starts a new window.
FailureWindowPasses(s) ==
    /\ seating[s].failures > 0
    /\ seating' = [seating EXCEPT ![s].failures = 0]
    /\ UNCHANGED <<seat, draft, order, check, view>>

UpdatePartySize(r, s, size) ==
    /\ Serving(r)
    /\ seating[s].open
    /\ size >= Cardinality(view[r].active[s])
    /\ seating' = [seating EXCEPT ![s].party = size]
    /\ Finish(r)
    /\ UNCHANGED <<seat, draft, order, check>>

Settled(os) == \A o \in os : order[o].state = "SETTLED" /\ check[order[o].check].status = "SETTLED"

\* The checks that let one diner leave: settled, answered NO, and not over the whole table.
LeaveAuthorities(d) ==
    {c \in MemberOf(d) : /\ seat[d].at \notin check[c].scopes
                         /\ check[c].status = "SETTLED" /\ check[c].decision = "NO"}

DinerCanEnd(d) == OrdersOf({d}) # {} => Settled(OrdersOf({d})) /\ Cardinality(LeaveAuthorities(d)) = 1

EndDinerSession(d) ==
    /\ seat[d].status = "ACTIVE" /\ seating[seat[d].at].open
    /\ DinerCanEnd(d)
    /\ check' = [c \in DOMAIN check |-> IF c \in LeaveAuthorities(d) THEN [check[c] EXCEPT !.members = @ \ {d}] ELSE check[c]]
    /\ draft' = [draft EXCEPT ![d] = NoDraft]
    /\ seat' = [seat EXCEPT ![d].status = "ENDED"]
    /\ UNCHANGED <<seating, order, view>>

OrdersAt(s) == {o \in DOMAIN order : seat[order[o].diner].at = s}

\* table_balance: everything ordered here is settled, and no open check concerns this table.
FinanciallyClosed(s) ==
    /\ Settled(OrdersAt(s))
    /\ \A c \in ScopedBy(s) : check[c].status \in {"OPEN", "FROZEN"} => check[c].tip = 0

ClosureEligible(s) ==
    /\ FinanciallyClosed(s)
    /\ \A c \in ScopedBy(s) : check[c].status = "SETTLED" /\ check[c].decision = "NO"
    /\ OrdersAt(s) # {} => Cardinality(ScopedBy(s)) = 1

CloseSeating(s) ==
    /\ seating[s].open
    /\ ClosureEligible(s)
    /\ check' = [c \in DOMAIN check |->
           IF c \in ScopedBy(s)
           THEN [check[c] EXCEPT !.scopes = @ \ {s}, !.members = {d \in check[c].members : seat[d].at # s}]
           ELSE check[c]]
    /\ draft' = [d \in Diners |-> IF d \in ActiveAt(s) THEN NoDraft ELSE draft[d]]
    /\ seat' = [d \in Diners |-> IF d \in ActiveAt(s) THEN [seat[d] EXCEPT !.status = "ENDED"] ELSE seat[d]]
    /\ seating' = [seating EXCEPT ![s] = [@ EXCEPT !.open = FALSE, !.failures = 0]]
    /\ UNCHANGED <<order, view>>

(***************************************************************************)
(* Drafts and their acceptance.                                            *)
(***************************************************************************)
\* lock_diner_write_context: diner and session are locked and current, the checks are as seen.
MayOrder(r, d) ==
    /\ Serving(r)
    /\ seat[d].status = "ACTIVE" /\ seating[seat[d].at].open
    /\ d \notin view[r].blocked

GetOrCreateDraft(r, d) ==
    /\ MayOrder(r, d)
    /\ draft' = [draft EXCEPT ![d] = IF @ = NoDraft THEN 0 ELSE @]
    /\ Finish(r)
    /\ UNCHANGED <<seating, seat, order, check>>

AddItem(r, d) ==
    /\ MayOrder(r, d)
    /\ draft[d] < MaxItems
    /\ draft' = [draft EXCEPT ![d] = @ + 1]
    /\ Finish(r)
    /\ UNCHANGED <<seating, seat, order, check>>

RemoveItem(r, d) ==
    /\ MayOrder(r, d)
    /\ draft[d] \in 1 .. MaxItems
    /\ draft' = [draft EXCEPT ![d] = @ - 1]
    /\ Finish(r)
    /\ UNCHANGED <<seating, seat, order, check>>

AbandonCurrentDraft(r, d) ==
    /\ MayOrder(r, d)
    /\ draft[d] # NoDraft
    /\ draft' = [draft EXCEPT ![d] = NoDraft]
    /\ Finish(r)
    /\ UNCHANGED <<seating, seat, order, check>>

ConfirmCurrentOrder(r, d) ==
    /\ MayOrder(r, d)
    /\ draft[d] \in 1 .. MaxItems
    /\ Len(order) < MaxOrders
    /\ order' = Append(order, [diner |-> d, state |-> "FREE", check |-> Free])
    /\ draft' = [draft EXCEPT ![d] = NoDraft]
    /\ Finish(r)
    /\ UNCHANGED <<seating, seat, check>>

(***************************************************************************)
(* Creating a check and choosing its members.                              *)
(***************************************************************************)
LockDiners(ds) == \A d \in ds : seat[d].status = "ACTIVE" /\ seating[seat[d].at].open
DraftsEmpty(r, ds) == \A d \in ds : draft[d] # NoDraft => d \notin view[r].filled
EligibleOrders(ds) == {o \in OrdersOf(ds) : order[o].state = "FREE"}
NoActiveMembership(ds) == \A d \in ds : ~OrderingBlocked(d)
ScopesFree(scopes) ==
    \A s \in scopes : ScopedBy(s) = {} /\ \A c \in DOMAIN check : \A d \in check[c].members : seat[d].at # s

Claim(os, c) == order' = [o \in DOMAIN order |-> IF o \in os THEN [order[o] EXCEPT !.state = "CLAIMED", !.check = c] ELSE order[o]]
Release(os) == order' = [o \in DOMAIN order |-> IF o \in os THEN [order[o] EXCEPT !.state = "FREE", !.check = Free] ELSE order[o]]

\* selected diners are locked; a table check keeps only those with orders, and its controller.
CreateCheck(r, selected, controller, scopes) ==
    LET eligible == EligibleOrders(selected)
        members == IF scopes = {} THEN selected
                   ELSE {order[o].diner : o \in eligible} \cup (selected \cap {controller})
    IN  /\ Serving(r)
        /\ Len(check) < MaxChecks
        /\ LockDiners(selected)
        /\ scopes \subseteq {seat[d].at : d \in selected}
        /\ controller \in selected \cup {Nobody}
        /\ eligible # {}
        /\ DraftsEmpty(r, members)
        /\ NoActiveMembership(members)
        /\ ScopesFree(scopes)
        /\ \A d \in members : EligibleOrders({d}) # {} \/ (scopes # {} /\ d = controller)
        /\ check' = Append(check, [status |-> "OPEN", version |-> 1, members |-> members, scopes |-> scopes,
                                   controller |-> controller, total |-> Consumption(eligible), tip |-> 0, decision |-> "NONE"])
        /\ Claim(eligible, Len(check) + 1)
        /\ Finish(r)
        /\ UNCHANGED <<seating, seat, draft>>

CreateIndividualCheck(r, d) == CreateCheck(r, {d}, d, {})

\* The diners of the table are those of the snapshot.
CreateGlobalTableCheck(r, s, controller) ==
    /\ Serving(r)
    /\ seating[s].open
    /\ view[r].active[s] # {}
    /\ CreateCheck(r, view[r].active[s], controller, {s})

CreateScopedCheck(r, chosen, scopes) ==
    /\ Serving(r)
    /\ \A s \in scopes : seating[s].open
    /\ CreateCheck(r, chosen \cup UNION {view[r].active[s] : s \in scopes}, Nobody, scopes)

Edits == MapThenSumSet(LAMBDA c : check[c].version - 1, DOMAIN check)
Modifiable(c) == check[c].status = "OPEN" /\ Edits < MaxEdits
NextVersion(c) == [check[c] EXCEPT !.version = @ + 1]

AddMember(r, c, d) ==
    LET os == EligibleOrders({d}) IN
    /\ Serving(r)
    /\ Modifiable(c)
    /\ LockDiners({d}) /\ DraftsEmpty(r, {d}) /\ NoActiveMembership({d})
    /\ os # {}
    /\ check' = [check EXCEPT ![c] = [NextVersion(c) EXCEPT !.members = @ \cup {d}, !.total = @ + Consumption(os)]]
    /\ Claim(os, c)
    /\ Finish(r)
    /\ UNCHANGED <<seating, seat, draft>>

\* Mutant: the orders of the removed member stay on the check.
RemoveMemberKeepingOrders(c, d) ==
    /\ Modifiable(c)
    /\ d \in check[c].members /\ d # check[c].controller
    /\ check' = [check EXCEPT ![c].version = @ + 1, ![c].members = @ \ {d},
                              ![c].total = @ - Consumption(OwnedBy(c) \cap OrdersOf({d}))]
    /\ UNCHANGED <<seating, seat, draft, order, view>>

\* Mutant: the check keeps its version.
RemoveMemberSilently(c, d) ==
    /\ Modifiable(c)
    /\ d \in check[c].members /\ d # check[c].controller
    /\ LET os == OwnedBy(c) \cap OrdersOf({d}) IN
         /\ check' = [check EXCEPT ![c].members = @ \ {d}, ![c].total = @ - Consumption(os)]
         /\ Release(os)
    /\ UNCHANGED <<seating, seat, draft, view>>

RemoveMember(c, d) ==
    /\ Modifiable(c)
    /\ d \in check[c].members /\ d # check[c].controller
    /\ LET os == OwnedBy(c) \cap OrdersOf({d}) IN
         /\ check' = [check EXCEPT ![c] = [NextVersion(c) EXCEPT !.members = @ \ {d}, !.total = @ - Consumption(os)]]
         /\ Release(os)
    /\ UNCHANGED <<seating, seat, draft, view>>

TransferController(c, d) ==
    /\ Modifiable(c)
    /\ d \in check[c].members \ {check[c].controller}
    /\ check' = [check EXCEPT ![c] = [NextVersion(c) EXCEPT !.controller = d]]
    /\ UNCHANGED <<seating, seat, draft, order, view>>

\* A fixed gratuity of 1, or one of a hundred percent.
ElectGratuity(c, percentage) ==
    /\ Modifiable(c)
    /\ check' = [check EXCEPT ![c] = [NextVersion(c) EXCEPT !.tip = IF percentage THEN check[c].total ELSE 1]]
    /\ UNCHANGED <<seating, seat, draft, order, view>>

(***************************************************************************)
(* Freezing, cancelling, settling a check; what the table does next.       *)
(***************************************************************************)
\* _verify_complete: the orders of the members not claimed elsewhere are exactly the check's.
Complete(c) == {o \in OrdersOf(check[c].members) : order[o].check \in {c, Free}} = OwnedBy(c)

FreezeOpenCheck(r, c) ==
    /\ Serving(r)
    /\ check[c].status = "OPEN"
    /\ LockDiners(check[c].members) /\ DraftsEmpty(r, check[c].members)
    /\ Complete(c)
    /\ check' = [check EXCEPT ![c].status = "FROZEN"]
    /\ Finish(r)
    /\ UNCHANGED <<seating, seat, draft, order>>

CancelOpenCheck(c) ==
    /\ Modifiable(c)
    /\ LockDiners(check[c].members)
    /\ check' = [check EXCEPT ![c] = [NextVersion(c) EXCEPT !.status = "CANCELLED", !.members = {}, !.scopes = {},
                                                            !.total = 0, !.tip = 0]]
    /\ Release(OwnedBy(c))
    /\ UNCHANGED <<seating, seat, draft, view>>

\* The last settlement of module PaymentExecution covers the liability.
SettleFrozenCheck(c) ==
    /\ check[c].status = "FROZEN"
    /\ check' = [check EXCEPT ![c] = [@ EXCEPT !.status = "SETTLED", !.decision = "PENDING"]]
    /\ order' = [o \in DOMAIN order |-> IF o \in OwnedBy(c) THEN [order[o] EXCEPT !.state = "SETTLED"] ELSE order[o]]
    /\ UNCHANGED <<seating, seat, draft, view>>

\* Whoever stays has no more claim in the settled check.
Decided(c, decision) ==
    IF decision = "YES" THEN [check[c] EXCEPT !.decision = "YES", !.members = {}, !.scopes = {}]
    ELSE [check[c] EXCEPT !.decision = "NO"]

DecideContinuation(c, decision) ==
    /\ check[c].status = "SETTLED" /\ check[c].decision = "PENDING"
    /\ LockDiners(check[c].members)
    /\ check' = [check EXCEPT ![c] = Decided(c, decision)]
    /\ UNCHANGED <<seating, seat, draft, order, view>>

ChecksNext ==
    \/ \E r \in Clients : BeginRequest(r)
    \/ \E d \in Diners, s \in Seatings : JoinDiner(d, s)
    \/ \E s \in Seatings : RecordFailure(s)
    \/ \E s \in Seatings : FailureWindowPasses(s)
    \/ \E r \in Clients, s \in Seatings, n \in PartySizes : UpdatePartySize(r, s, n)
    \/ \E d \in Diners : EndDinerSession(d)
    \/ \E s \in Seatings : CloseSeating(s)
    \/ \E r \in Clients, d \in Diners : GetOrCreateDraft(r, d)
    \/ \E r \in Clients, d \in Diners : AddItem(r, d)
    \/ \E r \in Clients, d \in Diners : RemoveItem(r, d)
    \/ \E r \in Clients, d \in Diners : AbandonCurrentDraft(r, d)
    \/ \E r \in Clients, d \in Diners : ConfirmCurrentOrder(r, d)
    \/ \E r \in Clients, d \in Diners : CreateIndividualCheck(r, d)
    \/ \E r \in Clients, s \in Seatings, d \in Diners \cup {Nobody} : CreateGlobalTableCheck(r, s, d)
    \/ \E r \in Clients, ds \in SUBSET Diners, ss \in SUBSET Seatings : CreateScopedCheck(r, ds, ss)
    \/ \E r \in Clients, c \in DOMAIN check, d \in Diners : AddMember(r, c, d)
    \/ \E c \in DOMAIN check, d \in Diners : RemoveMember(c, d)
    \/ \E c \in DOMAIN check, d \in Diners : TransferController(c, d)
    \/ \E c \in DOMAIN check, p \in BOOLEAN : ElectGratuity(c, p)
    \/ \E r \in Clients, c \in DOMAIN check : FreezeOpenCheck(r, c)
    \/ \E c \in DOMAIN check : CancelOpenCheck(c)
    \/ \E c \in DOMAIN check : SettleFrozenCheck(c)
    \/ \E c \in DOMAIN check, answer \in {"YES", "NO"} : DecideContinuation(c, answer)

-----------------------------------------------------------------------------
(***************************************************************************)
(* Properties.                                                             *)
(***************************************************************************)
\* The shape of the state; joining locks at its failure limit, never beyond it.
ChecksTypeOK ==
    /\ seating \in [Seatings -> ServiceSeating]
    /\ seat \in [Diners -> DinerSession]
    /\ draft \in [Diners -> OrderDraft]
    /\ order \in Seq(Allocation) /\ check \in Seq(Check)
    /\ \A o \in DOMAIN order : order[o].state = "FREE" <=> order[o].check = Free
    /\ \A c \in DOMAIN check : check[c].status # "SETTLED" <=> check[c].decision = "NONE"

\* Whoever has left, alone or with the whole table, has paid for every accepted order and left
\* no draft behind, even an order that was accepted while its diner's check was being paid.
EndedDinersAreClear ==
    \A d \in Diners : seat[d].status = "ENDED" => Settled(OrdersOf({d})) /\ draft[d] = NoDraft

\* The running total of a check is what the orders allocated to it cost.
TotalIsOwned == \A c \in DOMAIN check : check[c].total = Consumption(OwnedBy(c))

\* A diner belongs to at most one check, and under the scope of a table check nobody at that
\* table belongs to another.
ClaimsAreExclusive ==
    /\ \A d \in Diners : Cardinality(MemberOf(d)) <= 1
    /\ \A s \in Seatings : \A c \in ScopedBy(s) :
         ScopedBy(s) = {c} /\ \A d \in Diners : seat[d].at = s /\ seat[d].status = "ACTIVE" => MemberOf(d) \subseteq {c}

\* Bills as a whole: every accepted order is on the bill of whoever claims it, its check adds
\* up to the orders it owns, nobody is on two bills, and nobody leaves an unpaid order behind.
BillsAreOwned == ChecksTypeOK /\ EndedDinersAreClear /\ TotalIsOwned /\ ClaimsAreExclusive

\* While a check can still be paid, one version has one content (members, controller, total,
\* tip); and an order that was settled is never released, claimed or settled again.
VersionNamesContent ==
    [][/\ \A c \in DOMAIN check :
             /\ {check[c].status, check'[c].status} \subseteq {"OPEN", "FROZEN"}
             /\ check'[c].version = check[c].version
             => check'[c] = [check[c] EXCEPT !.status = check'[c].status]
       /\ \A o \in DOMAIN order : order[o].state = "SETTLED" => order'[o] = order[o]]_checkVars

(***************************************************************************)
(* The inductive invariant: BillsAreOwned with its exclusions said of two  *)
(* checks, what the state of an order says of its check's, and the views   *)
(* of the requests.                                                        *)
(***************************************************************************)
OrdersTellTheirCheck ==
    \A o \in DOMAIN order : order[o].state # "FREE" =>
        /\ order[o].check \in DOMAIN check
        /\ check[order[o].check].status \in
              IF order[o].state = "SETTLED" THEN {"SETTLED"} ELSE {"OPEN", "FROZEN"}

EndedHavePaid ==
    \A d \in Diners : seat[d].status = "ENDED" =>
        draft[d] = NoDraft /\ \A o \in DOMAIN order : order[o].diner = d => order[o].state = "SETTLED"

ChecksApart ==
    \A c, e \in DOMAIN check : c # e =>
        /\ check[c].members \cap check[e].members = {}
        /\ check[c].scopes \cap check[e].scopes = {}
        /\ \A d \in check[c].members : seat[d].status = "ACTIVE" => seat[d].at \notin check[e].scopes

ChecksInv ==
    /\ ChecksTypeOK /\ view \in [Clients -> RequestView \cup {NoView}]
    /\ OrdersTellTheirCheck /\ EndedHavePaid /\ TotalIsOwned /\ ChecksApart

ChecksSpec == ChecksInit /\ [][ChecksNext]_checkVars
=============================================================================
