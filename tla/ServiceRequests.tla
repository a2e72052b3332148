--------------------------- MODULE ServiceRequests ---------------------------
(***************************************************************************)
(* Preparation work and operational requests at one table:                 *)
(* preparation/service.py (execution), operational_requests/service.py,    *)
(* diner_experience/service.py (requests), conversations/service.py (the   *)
(* staff's responses).                                                     *)
(*                                                                         *)
(* Every handler begins with plain reads, which fix its snapshot, and then *)
(* locks rows, which shows their current values.  A handler whose plain    *)
(* reads matter is two steps: it begins, and it commits or is refused.     *)
(* Refusals and replays that change no row are stuttering steps, except    *)
(* that they end a handler that had begun.                                 *)
(***************************************************************************)
EXTENDS Integers, FiniteSets, Sequences, SequencesExt

CONSTANTS Dishes,          \* preparation work items
          Tickets,         \* preparation works, one per area of an order
          TicketOf,        \* Dish -> Ticket
          Cooks,           \* requests of the kitchen that can be under way at once
          Waiters, Guests,
          CommandKeys,     \* idempotency keys
          MaxAsked, MaxReplies

VARIABLES dish,       \* Dish -> [state, version]
          moves,      \* Dish -> sequence of its transitions [key, from, to]
          ticket,     \* Ticket -> [picked, delivered]: who did, Nobody
          request,    \* sequence of operational requests
          cooking,    \* Cook -> its transition under way, NoCommand
          handing,    \* Waiter -> its handoff under way, NoCommand
          house,      \* [open, initialized, responsible]: the service session
          personal,   \* <<request, waiter>> pairs: [entered, hidden]
          talk        \* [open, messages]: the guests' conversation

kitchenVars == <<dish, moves, cooking>>
floorVars == <<ticket, request, handing, house, personal, talk>>
serviceVars == <<kitchenVars, floorVars>>

Nobody == "nobody"
NoTicket == "no ticket"
NoCommand == [on |-> "nothing"]
DishStates == <<"NEW", "IN_PROGRESS", "COMPLETED">>

\* A ticket is made of the dishes of an order for one area, so it has some.
ASSUME ServiceAssumption ==
    /\ TicketOf \in [Dishes -> Tickets] /\ \A t \in Tickets : \E d \in Dishes : TicketOf[d] = t
    /\ NoTicket \notin Tickets /\ Nobody \notin Waiters \cup Guests
    /\ CommandKeys # {} /\ MaxAsked \in Nat /\ MaxReplies \in Nat

RequestTypes == {"HUMAN_ASSISTANCE", "CASH_PAYMENT_ASSISTANCE", "PREPARATION_READY"}

PreparationWorkItem == [state : Range(DishStates), version : 0 .. 2]
PreparationItemTransition == [key : CommandKeys, from : Range(DishStates), to : Range(DishStates)]
PreparationWork == [picked : Waiters \cup {Nobody}, delivered : Waiters \cup {Nobody}]
DinerOperationalRequest ==
    [type : RequestTypes, guest : Guests \cup {Nobody}, ticket : Tickets \cup {NoTicket}, key : CommandKeys \cup {"ready"},
     status : {"PENDING", "ACKNOWLEDGED", "COMPLETED", "CANCELLED"},
     acknowledged : Waiters \cup {Nobody}, resolved : Waiters \cup {Nobody}]
OperationalRequestWaiterState == [entered : BOOLEAN, hidden : BOOLEAN]
ConversationMessage == [author : Waiters \cup Guests, asked : Nat, key : CommandKeys, number : 1 .. MaxReplies]
Conversation == [open : BOOLEAN, messages : Seq(ConversationMessage), next : 1 .. MaxReplies + 1]

\* A session opened before responsibilities existed has none and never gets one.
ServiceInit ==
    /\ dish = [d \in Dishes |-> [state |-> "NEW", version |-> 0]]
    /\ moves = [d \in Dishes |-> <<>>]
    /\ ticket = [t \in Tickets |-> [picked |-> Nobody, delivered |-> Nobody]]
    /\ request = <<>>
    /\ cooking = [c \in Cooks |-> NoCommand]
    /\ handing = [w \in Waiters |-> NoCommand]
    /\ \E initialized \in BOOLEAN : \E w \in Waiters :
          house = [open |-> TRUE, initialized |-> initialized, responsible |-> IF initialized THEN {w} ELSE {}]
    /\ personal = <<>>
    /\ talk = [open |-> TRUE, messages |-> <<>>, next |-> 1]

(***************************************************************************)
(* The kitchen.                                                            *)
(***************************************************************************)
DishesOf(t) == {d \in Dishes : TicketOf[d] = t}

AssertWorkReady(t) == \A d \in DishesOf(t) : dish[d].state = "COMPLETED"

ReadyRequest(t) ==
    [type |-> "PREPARATION_READY", guest |-> Nobody, ticket |-> t, key |-> "ready", status |-> "PENDING",
     acknowledged |-> Nobody, resolved |-> Nobody]

HasReadyRequest(t) == \E r \in DOMAIN request : request[r].ticket = t

\* The command names the version it saw: 0 starts the dish, 1 completes it.  The snapshot
\* is kept as far as it is used: done, replay and told.
BeginTransition(c, d, version, key) ==
    /\ cooking[c] = NoCommand
    /\ cooking' = [cooking EXCEPT ![c] = [on |-> d, version |-> version, key |-> key,
           done |-> {s \in DishesOf(TicketOf[d]) : dish[s].state = "COMPLETED"},
           replay |-> {i \in DOMAIN moves[d] : moves[d][i].key = key},
           told |-> HasReadyRequest(TicketOf[d])]]
    /\ UNCHANGED <<dish, moves, floorVars>>

\* Mutant: the siblings are judged as they were read before the lock.
SiblingsAsRead(c, d) ==
    DishesOf(TicketOf[d]) \ {d} \subseteq cooking[c].done

\* The siblings are read with the lock: their states are current.
SiblingsCompleted(c, d) ==
    \A s \in DishesOf(TicketOf[d]) \ {d} : dish[s].state = "COMPLETED"

\* ensure_preparation_ready_request: looked up in the snapshot; a request this does not show
\* makes the insert violate its uniqueness, and the whole transition is rolled back.
EnsurePreparationReadyRequest(c, t) ==
    IF cooking[c].told THEN UNCHANGED request
    ELSE ~HasReadyRequest(t) /\ request' = Append(request, ReadyRequest(t))

\* The same key with another expectation is refused.
ReplaySame(c) == cooking[c].replay = {cooking[c].version + 1}

ReplayTransition(c) ==
    LET d == cooking[c].on IN
    /\ cooking[c] # NoCommand
    /\ ReplaySame(c)
    /\ IF dish[d].state = "COMPLETED" /\ SiblingsCompleted(c, d)
       THEN EnsurePreparationReadyRequest(c, TicketOf[d]) ELSE UNCHANGED request
    /\ cooking' = [cooking EXCEPT ![c] = NoCommand]
    /\ UNCHANGED <<dish, moves, ticket, handing, house, personal, talk>>

TransitionWorkItem(c) ==
    LET d == cooking[c].on
        n == cooking[c].version
    IN
    /\ cooking[c] # NoCommand
    /\ cooking[c].replay = {}
    /\ dish[d].version = n /\ n < 2
    /\ \A i \in DOMAIN moves[d] : moves[d][i].key # cooking[c].key
    /\ dish' = [dish EXCEPT ![d] = [state |-> DishStates[n + 2], version |-> n + 1]]
    /\ moves' = [moves EXCEPT ![d] = Append(@, [key |-> cooking[c].key, from |-> DishStates[n + 1], to |-> DishStates[n + 2]])]
    /\ IF n = 1 /\ SiblingsCompleted(c, d)
       THEN EnsurePreparationReadyRequest(c, TicketOf[d]) ELSE UNCHANGED request
    /\ cooking' = [cooking EXCEPT ![c] = NoCommand]
    /\ UNCHANGED <<ticket, handing, house, personal, talk>>

RefuseTransition(c) ==
    /\ cooking[c] # NoCommand
    /\ cooking' = [cooking EXCEPT ![c] = NoCommand]
    /\ UNCHANGED <<dish, moves, floorVars>>

(***************************************************************************)
(* Requests of guests, and what waiters and managers do with them.         *)
(***************************************************************************)
Asked == {r \in DOMAIN request : request[r].guest # Nobody}

\* One row per guest and key.  The guest's token outlives neither its session nor the service.
CreateOperationalRequest(g, type, key) ==
    /\ Cardinality(Asked) < MaxAsked
    /\ house.open
    /\ \A r \in Asked : request[r].guest = g => request[r].key # key
    /\ request' = Append(request, [type |-> type, guest |-> g, ticket |-> NoTicket, key |-> key, status |-> "PENDING",
                                   acknowledged |-> Nobody, resolved |-> Nobody])
    /\ UNCHANGED <<kitchenVars, ticket, handing, house, personal, talk>>

\* All rows are read with locks.
LockedWaiterRequest(w, r) ==
    IF house.initialized THEN w \in house.responsible ELSE house.open /\ house.responsible = {}

CanApply(r, target) ==
    /\ ~(target = "COMPLETED" /\ request[r].type = "PREPARATION_READY")
    /\ request[r].status = IF target = "ACKNOWLEDGED" THEN "PENDING" ELSE "ACKNOWLEDGED"

Transitioned(q, w, target, recorded) ==
    [q EXCEPT !.status = target,
              !.acknowledged = IF target = "ACKNOWLEDGED" /\ recorded THEN w ELSE q.acknowledged,
              !.resolved = IF target = "COMPLETED" THEN w ELSE q.resolved]

ApplyTransition(w, r, target, recorded) ==
    /\ CanApply(r, target)
    /\ request' = [request EXCEPT ![r] = Transitioned(request[r], w, target, recorded)]
    /\ UNCHANGED <<kitchenVars, ticket, handing, house, personal, talk>>

\* The managers' route asks for no responsibility and records no acknowledgement.
TransitionRequest(w, r, target) == ApplyTransition(w, r, target, FALSE)

TransitionWaiterRequest(w, r, target) == LockedWaiterRequest(w, r) /\ ApplyTransition(w, r, target, TRUE)

PersonalState(r, w) ==
    IF <<r, w>> \in DOMAIN personal THEN personal[<<r, w>>] ELSE [entered |-> FALSE, hidden |-> FALSE]

MutateWaiterRequestState(w, r, action) ==
    /\ LockedWaiterRequest(w, r)
    /\ action \in {"hide", "show"} => request[r].status \notin {"COMPLETED", "CANCELLED"}
    /\ action = "show" => <<r, w>> \in DOMAIN personal
    /\ personal' = [p \in DOMAIN personal \cup {<<r, w>>} |->
           IF p # <<r, w>> THEN personal[p]
           ELSE [entered |-> PersonalState(r, w).entered \/ action = "entered",
                 hidden |-> action = "hide" \/ (action = "entered" /\ PersonalState(r, w).hidden)]]
    /\ UNCHANGED <<kitchenVars, ticket, request, handing, house, talk>>

\* A numbered message in the guest's conversation, once per request, waiter and key.
RespondToOperationalRequest(w, r, key) ==
    /\ LockedWaiterRequest(w, r)
    /\ house.open /\ talk.open
    /\ request[r].guest # Nobody /\ request[r].status # "CANCELLED"
    /\ Len(talk.messages) < MaxReplies
    /\ \A m \in Range(talk.messages) : ~(m.asked = r /\ m.author = w /\ m.key = key)
    /\ talk' = [talk EXCEPT !.messages = Append(@, [author |-> w, asked |-> r, key |-> key, number |-> talk.next]),
                            !.next = @ + 1]
    /\ UNCHANGED <<kitchenVars, ticket, request, handing, house, personal>>

AppendMessage(g) ==
    /\ talk.open /\ house.open /\ Len(talk.messages) < MaxReplies
    /\ talk' = [talk EXCEPT !.messages = Append(@, [author |-> g, asked |-> 0, key |-> CHOOSE k \in CommandKeys : TRUE,
                                                    number |-> talk.next]),
                            !.next = @ + 1]
    /\ UNCHANGED <<kitchenVars, ticket, request, handing, house, personal>>

CloseConversation ==
    /\ talk.open
    /\ talk' = [talk EXCEPT !.open = FALSE]
    /\ UNCHANGED <<kitchenVars, ticket, request, handing, house, personal>>

(***************************************************************************)
(* The handoff of a finished ticket.  Responsibility is read without lock: *)
(* it is that of the snapshot.                                             *)
(***************************************************************************)
BeginHandoff(w, r) ==
    /\ handing[w] = NoCommand
    /\ request[r].type = "PREPARATION_READY"
    /\ handing' = [handing EXCEPT ![w] = [on |-> r, allowed |-> house.initialized /\ w \in house.responsible]]
    /\ UNCHANGED <<kitchenVars, ticket, request, house, personal, talk>>

LockedWaiterPreparationRequest(w) == handing[w] # NoCommand /\ handing[w].allowed /\ house.open

Pending(r) == request[r].status \in {"PENDING", "ACKNOWLEDGED"}

\* Mutant: a ticket already picked up is picked up by the next waiter.
PickUpAgain(w) ==
    LET t == request[handing[w].on].ticket IN
    /\ LockedWaiterPreparationRequest(w) /\ Pending(handing[w].on)
    /\ AssertWorkReady(t) /\ ticket[t].delivered = Nobody
    /\ ticket' = [ticket EXCEPT ![t].picked = w]
    /\ handing' = [handing EXCEPT ![w] = NoCommand]
    /\ UNCHANGED <<kitchenVars, request, house, personal, talk>>

\* A second pickup leaves the first one's evidence.
PickUp(w) ==
    LET r == handing[w].on
        t == request[r].ticket
    IN
    /\ LockedWaiterPreparationRequest(w) /\ Pending(r)
    /\ AssertWorkReady(t) /\ ticket[t].delivered = Nobody
    /\ ticket' = [ticket EXCEPT ![t].picked = IF @ = Nobody THEN w ELSE @]
    /\ handing' = [handing EXCEPT ![w] = NoCommand]
    /\ UNCHANGED <<kitchenVars, request, house, personal, talk>>

Deliver(w) ==
    LET r == handing[w].on
        t == request[r].ticket
    IN
    /\ LockedWaiterPreparationRequest(w) /\ Pending(r)
    /\ AssertWorkReady(t) /\ ticket[t].picked # Nobody /\ ticket[t].delivered = Nobody
    /\ ticket' = [ticket EXCEPT ![t].delivered = w]
    /\ request' = [request EXCEPT ![r] = [request[r] EXCEPT !.status = "COMPLETED", !.resolved = w]]
    /\ handing' = [handing EXCEPT ![w] = NoCommand]
    /\ UNCHANGED <<kitchenVars, house, personal, talk>>

RefuseHandoff(w) ==
    /\ handing[w] # NoCommand
    /\ handing' = [handing EXCEPT ![w] = NoCommand]
    /\ UNCHANGED <<kitchenVars, ticket, request, house, personal, talk>>

\* The session's responsible waiters are replaced as a whole; never by nobody.
ReplaceServiceResponsibility(S) ==
    /\ house.open /\ house.initialized /\ S # {} /\ S # house.responsible
    /\ house' = [house EXCEPT !.responsible = S]
    /\ UNCHANGED <<kitchenVars, ticket, request, handing, personal, talk>>

CloseServiceSession ==
    /\ house.open
    /\ house' = [house EXCEPT !.open = FALSE]
    /\ UNCHANGED <<kitchenVars, ticket, request, handing, personal, talk>>

KitchenNext ==
    \E c \in Cooks :
        \/ \E d \in Dishes, n \in 0 .. 2, k \in CommandKeys : BeginTransition(c, d, n, k)
        \/ ReplayTransition(c) \/ TransitionWorkItem(c) \/ RefuseTransition(c)

\* Managers and waiters on any request.
RequestsNext ==
    \E w \in Waiters, r \in DOMAIN request, s \in {"ACKNOWLEDGED", "COMPLETED"} :
        TransitionRequest(w, r, s) \/ TransitionWaiterRequest(w, r, s)

HandoffNext ==
    \/ \E w \in Waiters : \/ \E r \in DOMAIN request : BeginHandoff(w, r)
                          \/ PickUp(w) \/ Deliver(w) \/ RefuseHandoff(w)
    \/ CloseServiceSession
    \/ \E S \in SUBSET Waiters : ReplaceServiceResponsibility(S)

GuestsNext ==
    \/ \E g \in Guests, t \in RequestTypes \ {"PREPARATION_READY"}, k \in CommandKeys : CreateOperationalRequest(g, t, k)
    \/ \E w \in Waiters, r \in DOMAIN request :
          \/ \E a \in {"entered", "hide", "show"} : MutateWaiterRequestState(w, r, a)
          \/ \E k \in CommandKeys : RespondToOperationalRequest(w, r, k)
    \/ \E g \in Guests : AppendMessage(g)
    \/ CloseConversation

ServiceNext == KitchenNext \/ RequestsNext \/ HandoffNext \/ GuestsNext

ServiceSpec == ServiceInit /\ [][ServiceNext]_serviceVars

(***************************************************************************)
(* Properties.                                                             *)
(***************************************************************************)
ServiceTypeOK ==
    /\ \A d \in Dishes : dish[d] \in PreparationWorkItem /\ \A i \in DOMAIN moves[d] : moves[d][i] \in PreparationItemTransition
    /\ \A t \in Tickets : ticket[t] \in PreparationWork
    /\ \A r \in DOMAIN request : request[r] \in DinerOperationalRequest
    /\ \A p \in DOMAIN personal : personal[p] \in OperationalRequestWaiterState
    /\ talk \in Conversation

\* The waiters are told of a ticket exactly when its last dish is completed, and once,
\* whichever cooks complete its dishes at the same time or repeat a command.
ReadyOnceWhenCompleted ==
    \A t \in Tickets :
        Cardinality({r \in DOMAIN request : request[r].ticket = t}) = (IF AssertWorkReady(t) THEN 1 ELSE 0)

\* A ready request is completed only by the delivery, which follows the pickup: request
\* and ticket name the same waiter, and nobody delivers an unfinished ticket.  The
\* transitions of a dish are its history: one per version, under different keys.
HandoffIsTold ==
    /\ \A r \in DOMAIN request :
          LET t == request[r].ticket IN
          t # NoTicket =>
            /\ (request[r].status = "COMPLETED") <=> (ticket[t].delivered # Nobody)
            /\ request[r].resolved = ticket[t].delivered
            /\ ticket[t].delivered # Nobody => ticket[t].picked # Nobody
    /\ \A d \in Dishes :
          /\ dish[d].version = Len(moves[d]) /\ dish[d].state = DishStates[Len(moves[d]) + 1]
          /\ \A i, j \in DOMAIN moves[d] : moves[d][i].key = moves[d][j].key => i = j

\* Kitchen, waiters and guests agree on every ticket: it is announced once, when it is
\* ready, and its request ends with the delivery.
TicketsAreTold == ServiceTypeOK /\ ReadyOnceWhenCompleted /\ HandoffIsTold

\* Requests only move forward, and who acknowledged, picked up, delivered or resolved is
\* never overwritten by a later waiter.
EvidenceStands ==
    [][/\ \A r \in DOMAIN request :
             /\ request[r].status = "COMPLETED" => request'[r] = request[r]
             /\ request[r].status = "ACKNOWLEDGED" => request'[r].status # "PENDING"
             /\ request[r].acknowledged # Nobody => request'[r].acknowledged = request[r].acknowledged
       /\ \A t \in Tickets :
             /\ ticket[t].picked # Nobody => ticket'[t].picked = ticket[t].picked
             /\ ticket[t].delivered # Nobody => ticket'[t] = ticket[t]]_serviceVars

(***************************************************************************)
(* The inductive invariant: a dish with its history, a request with the    *)
(* ticket it announces, and what the commands under way have read.         *)
(***************************************************************************)
DishSound(x, h) ==
    /\ x \in PreparationWorkItem /\ h \in Seq(PreparationItemTransition)
    /\ x.version = Len(h) /\ x.state = DishStates[Len(h) + 1]
    /\ \A i, j \in DOMAIN h : h[i].key = h[j].key => i = j

RequestTells(q, tickets) ==
    /\ (q.type = "PREPARATION_READY") <=> (q.ticket # NoTicket)
    /\ q.status = "PENDING" => q.acknowledged = Nobody
    /\ q.ticket # NoTicket =>
          /\ (q.status = "COMPLETED") <=> (tickets[q.ticket].delivered # Nobody)
          /\ q.resolved = tickets[q.ticket].delivered

Announcements == \A r, s \in DOMAIN request : request[r].ticket = request[s].ticket /\ request[r].ticket # NoTicket => r = s

TransitionUnderWay == [on : Dishes, version : 0 .. 2, key : CommandKeys, done : SUBSET Dishes, replay : SUBSET Nat, told : BOOLEAN]
HandoffUnderWay == [on : Nat, allowed : BOOLEAN]
ServiceSession == [open : BOOLEAN, initialized : BOOLEAN, responsible : SUBSET Waiters]

KitchenSound ==
    /\ dish \in [Dishes -> PreparationWorkItem] /\ moves \in [Dishes -> Seq(PreparationItemTransition)]
    /\ \A d \in Dishes : DishSound(dish[d], moves[d])

RequestsSound ==
    /\ request \in Seq(DinerOperationalRequest) /\ ticket \in [Tickets -> PreparationWork]
    /\ \A t \in Tickets : /\ ticket[t].delivered # Nobody => ticket[t].picked # Nobody
                          /\ ticket[t].picked # Nobody => HasReadyRequest(t)
    /\ \A r \in DOMAIN request : RequestTells(request[r], ticket)
    /\ Announcements

CommandsSound ==
    /\ cooking \in [Cooks -> {NoCommand} \cup TransitionUnderWay] /\ handing \in [Waiters -> {NoCommand} \cup HandoffUnderWay]
    /\ \A c \in Cooks : cooking[c] # NoCommand /\ cooking[c].told => HasReadyRequest(TicketOf[cooking[c].on])
    /\ \A w \in Waiters : handing[w] # NoCommand =>
          handing[w].on \in DOMAIN request /\ request[handing[w].on].type = "PREPARATION_READY"

TableSound ==
    /\ house \in ServiceSession
    /\ \A p \in DOMAIN personal : personal[p] \in OperationalRequestWaiterState
    /\ talk \in Conversation /\ talk.next = Len(talk.messages) + 1

ServiceInv ==
    /\ KitchenSound /\ RequestsSound /\ CommandsSound /\ TableSound
    /\ \A t \in Tickets : HasReadyRequest(t) <=> AssertWorkReady(t)
=============================================================================
