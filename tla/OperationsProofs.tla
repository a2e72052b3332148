-------------------------- MODULE OperationsProofs --------------------------
(* Proofs about the operation of the dining room, for any number of cooks,   *)
(* waiters, guests, members of staff and commands under way.                 *)
EXTENDS ServiceRequests, InternalMessages, CashDrawer, DigitalWaiter, OnboardingImport, SumProofs,
        FiniteSetTheorems, WellFoundedInduction, TLAPS

(***************************************************************************)
(* Kitchen, waiters and guests.                                            *)
(***************************************************************************)

\* What a step may not do to the evidence (the body of EvidenceStands).
Evidence ==
    /\ \A r \in DOMAIN request :
          /\ request[r].status = "COMPLETED" => request'[r] = request[r]
          /\ request[r].status = "ACKNOWLEDGED" => request'[r].status # "PENDING"
          /\ request[r].acknowledged # Nobody => request'[r].acknowledged = request[r].acknowledged
    /\ \A t \in Tickets :
          /\ ticket[t].picked # Nobody => ticket'[t].picked = ticket[t].picked
          /\ ticket[t].delivered # Nobody => ticket'[t] = ticket[t]

ServiceGoal == ServiceInv' /\ Evidence

\* Requests are added, and none changes what it announces.
RequestsGrow ==
    /\ DOMAIN request \subseteq DOMAIN request'
    /\ \A r \in DOMAIN request : request'[r].type = request[r].type /\ request'[r].ticket = request[r].ticket

\* A transition under way is one command or none.
LEMMA CommandsKept ==
    ASSUME CommandsSound, RequestsGrow,
           cooking' \in [Cooks -> {NoCommand} \cup TransitionUnderWay], handing' \in [Waiters -> {NoCommand} \cup HandoffUnderWay],
           \A c \in Cooks : \/ cooking'[c] = cooking[c] \/ cooking'[c] = NoCommand
                            \/ cooking'[c].told => HasReadyRequest(TicketOf[cooking'[c].on]),
           \A w \in Waiters : \/ handing'[w] = handing[w] \/ handing'[w] = NoCommand
                              \/ handing'[w].on \in DOMAIN request /\ request[handing'[w].on].type = "PREPARATION_READY"
    PROVE  CommandsSound'
<1>2. \A c \in Cooks : (cooking[c] # NoCommand /\ cooking[c].told => HasReadyRequest(TicketOf[cooking[c].on]))'
  <2> SUFFICES ASSUME NEW c \in Cooks, cooking'[c] # NoCommand, cooking'[c].told PROVE HasReadyRequest(TicketOf[cooking[c].on])'
    OBVIOUS
  <2>1. HasReadyRequest(TicketOf[cooking'[c].on])
    BY DEF CommandsSound
  <2>2. PICK r \in DOMAIN request : request[r].ticket = TicketOf[cooking'[c].on]
    BY <2>1 DEF HasReadyRequest
  <2>3. QED
    BY <2>2 DEF HasReadyRequest, RequestsGrow
<1>3. \A w \in Waiters : handing'[w] # NoCommand =>
          handing'[w].on \in DOMAIN request' /\ request'[handing'[w].on].type = "PREPARATION_READY"
  BY DEF CommandsSound, RequestsGrow
<1>4. QED
  BY <1>2, <1>3 DEF CommandsSound

\* The commands of the kitchen and of the waiters as they were, or one of them ends.
LEMMA CommandsEnd ==
    ASSUME CommandsSound, RequestsGrow,
           cooking' = cooking \/ (\E c \in Cooks : cooking' = [cooking EXCEPT ![c] = NoCommand]),
           handing' = handing \/ (\E w \in Waiters : handing' = [handing EXCEPT ![w] = NoCommand])
    PROVE  CommandsSound'
<1>1. /\ cooking' \in [Cooks -> {NoCommand} \cup TransitionUnderWay]
      /\ \A c \in Cooks : cooking'[c] = cooking[c] \/ cooking'[c] = NoCommand
  <2>1. CASE cooking' = cooking
    BY <2>1 DEF CommandsSound
  <2>2. ASSUME NEW c \in Cooks, cooking' = [cooking EXCEPT ![c] = NoCommand]
        PROVE  /\ cooking' \in [Cooks -> {NoCommand} \cup TransitionUnderWay]
               /\ \A e \in Cooks : cooking'[e] = cooking[e] \/ cooking'[e] = NoCommand
    BY <2>2 DEF CommandsSound
  <2>3. QED
    BY <2>1, <2>2
<1>2. /\ handing' \in [Waiters -> {NoCommand} \cup HandoffUnderWay]
      /\ \A w \in Waiters : handing'[w] = handing[w] \/ handing'[w] = NoCommand
  <2>1. CASE handing' = handing
    BY <2>1 DEF CommandsSound
  <2>2. ASSUME NEW w \in Waiters, handing' = [handing EXCEPT ![w] = NoCommand]
        PROVE  /\ handing' \in [Waiters -> {NoCommand} \cup HandoffUnderWay]
               /\ \A e \in Waiters : handing'[e] = handing[e] \/ handing'[e] = NoCommand
    BY <2>2 DEF CommandsSound
  <2>3. QED
    BY <2>1, <2>2
<1>3. QED
  BY <1>1, <1>2, CommandsKept

\* Dishes, tickets and requests stay.
LEMMA ServiceQuiet ==
    ASSUME ServiceInv, UNCHANGED <<dish, moves, ticket, request>>, CommandsSound', TableSound'
    PROVE  ServiceGoal
<1>1. KitchenSound' /\ RequestsSound'
  BY DEF ServiceInv, KitchenSound, RequestsSound, Announcements, HasReadyRequest
<1>2. \A t \in Tickets : HasReadyRequest(t)' <=> AssertWorkReady(t)'
  BY DEF ServiceInv, HasReadyRequest, AssertWorkReady, DishesOf
<1>3. Evidence
  BY DEF Evidence
<1>4. QED
  BY <1>1, <1>2, <1>3 DEF ServiceGoal, ServiceInv

\* The table's session, its waiters' marks and its conversation stay.
LEMMA TableSame ==
    ASSUME TableSound, UNCHANGED <<house, personal, talk>>
    PROVE  TableSound'
  BY DEF TableSound

\* One more request, of a guest or for a ticket that had none.
LEMMA RequestAdded ==
    ASSUME RequestsSound, NEW q \in DinerOperationalRequest, request' = Append(request, q), ticket' = ticket,
           RequestTells(q, ticket), q.ticket = NoTicket \/ ~HasReadyRequest(q.ticket)
    PROVE  /\ RequestsSound' /\ Evidence /\ RequestsGrow
           /\ \A t : HasReadyRequest(t)' <=> HasReadyRequest(t) \/ t = q.ticket
<1>1. /\ request' \in Seq(DinerOperationalRequest) /\ DOMAIN request' = DOMAIN request \cup {Len(request) + 1}
      /\ \A r \in DOMAIN request : request'[r] = request[r] /\ r # Len(request) + 1
      /\ request'[Len(request) + 1] = q
  BY DEF RequestsSound
<1> DEFINE n == Len(request) + 1
<1> HIDE DEF n
<1>2. /\ DOMAIN request' = DOMAIN request \cup {n} /\ request'[n] = q
      /\ \A r \in DOMAIN request : request'[r] = request[r] /\ r # n
  BY <1>1 DEF n
<1>3. \A r \in DOMAIN request' : RequestTells(request'[r], ticket')
  BY <1>2 DEF RequestsSound
<1>4. Announcements'
  <2>1. ASSUME NEW r \in DOMAIN request', NEW s \in DOMAIN request',
               request'[r].ticket = request'[s].ticket, request'[r].ticket # NoTicket
        PROVE  r = s
    <3>1. CASE r # n /\ s # n
      BY <1>2, <2>1, <3>1 DEF RequestsSound, Announcements
    <3>2. CASE r = n \/ s = n
      BY <1>2, <2>1, <3>2 DEF HasReadyRequest
    <3>3. QED
      BY <3>1, <3>2
  <2>2. QED
    BY <2>1 DEF Announcements
<1>5. \A t : HasReadyRequest(t)' <=> HasReadyRequest(t) \/ t = q.ticket
  BY <1>2 DEF HasReadyRequest
<1>6. RequestsSound'
  BY <1>1, <1>3, <1>4, <1>5 DEF RequestsSound
<1>7. Evidence
  BY <1>2 DEF Evidence
<1>8. QED
  BY <1>2, <1>5, <1>6, <1>7 DEF RequestsGrow

\* A row changes and announces what it announced.
LEMMA RequestChanged ==
    ASSUME RequestsSound, NEW r \in DOMAIN request, NEW q \in DinerOperationalRequest, request' = [request EXCEPT ![r] = q],
           q.ticket = request[r].ticket, q.type = request[r].type
    PROVE  /\ request' \in Seq(DinerOperationalRequest) /\ DOMAIN request' = DOMAIN request /\ request'[r] = q
           /\ \A s \in DOMAIN request : s # r => request'[s] = request[s]
           /\ Announcements' /\ RequestsGrow /\ \A t : HasReadyRequest(t)' <=> HasReadyRequest(t)
<1>1. /\ request' \in Seq(DinerOperationalRequest) /\ DOMAIN request' = DOMAIN request /\ request'[r] = q
      /\ \A s \in DOMAIN request : s # r => request'[s] = request[s]
  BY DEF RequestsSound
<1>2. \A s \in DOMAIN request : request'[s].ticket = request[s].ticket /\ request'[s].type = request[s].type
  BY <1>1
<1>3. Announcements'
  BY <1>1, <1>2 DEF Announcements, RequestsSound
<1>4. QED
  BY <1>1, <1>2, <1>3 DEF RequestsGrow, HasReadyRequest

\* The actions that leave dishes, tickets and requests alone.
LEMMA TableSteps ==
    ASSUME ServiceInv,
           \/ \E w \in Waiters, r \in DOMAIN request :
                 \/ \E a \in {"entered", "hide", "show"} : MutateWaiterRequestState(w, r, a)
                 \/ \E k \in CommandKeys : RespondToOperationalRequest(w, r, k)
           \/ \E g \in Guests : AppendMessage(g)
           \/ CloseConversation \/ CloseServiceSession
           \/ \E S \in SUBSET Waiters : ReplaceServiceResponsibility(S)
    PROVE  ServiceGoal
<1>1. TableSound /\ CommandsSound /\ RequestsSound
  BY DEF ServiceInv
<1>2. UNCHANGED <<dish, moves, ticket, request, cooking, handing>>
  BY DEF MutateWaiterRequestState, RespondToOperationalRequest, AppendMessage, CloseConversation,
         CloseServiceSession, ReplaceServiceResponsibility, kitchenVars
<1>3. CommandsSound'
  BY <1>1, <1>2, CommandsEnd DEF RequestsGrow
<1>4. ASSUME NEW m \in ConversationMessage, m.number = talk.next,
             Len(talk.messages) < MaxReplies, UNCHANGED <<house, personal>>,
             talk' = [talk EXCEPT !.messages = Append(@, m), !.next = @ + 1]
      PROVE  TableSound'
  <2>1. talk.open \in BOOLEAN /\ talk.messages \in Seq(ConversationMessage) /\ talk.next = Len(talk.messages) + 1
    BY <1>1 DEF TableSound, Conversation
  <2>2. talk' = [open |-> talk.open, messages |-> Append(talk.messages, m), next |-> talk.next + 1]
    BY <1>1, <1>4 DEF TableSound, Conversation
  <2>3. Append(talk.messages, m) \in Seq(ConversationMessage) /\ Len(Append(talk.messages, m)) = Len(talk.messages) + 1
        /\ Len(talk.messages) \in Nat
    BY <1>4, <2>1
  <2>4. talk.next + 1 \in 1 .. MaxReplies + 1 /\ talk.next + 1 = Len(talk.messages) + 2
    BY <1>4, <2>1, <2>3, ServiceAssumption
  <2>5. talk' \in Conversation /\ talk'.next = Len(talk'.messages) + 1
    BY <2>1, <2>2, <2>3, <2>4 DEF Conversation
  <2>6. QED
    BY <1>1, <1>4, <2>5 DEF TableSound
<1>5. Len(talk.messages) < MaxReplies => talk.next \in 1 .. MaxReplies
  <2>1. Len(talk.messages) \in Nat /\ talk.next = Len(talk.messages) + 1
    BY <1>1 DEF TableSound, Conversation
  <2>2. QED
    BY <2>1, ServiceAssumption
<1>6. ASSUME NEW w \in Waiters, NEW r \in DOMAIN request, NEW k \in CommandKeys, RespondToOperationalRequest(w, r, k)
      PROVE  TableSound'
  <2> DEFINE m == [author |-> w, asked |-> r, key |-> k, number |-> talk.next]
  <2>1. /\ Len(talk.messages) < MaxReplies /\ UNCHANGED <<house, personal>>
        /\ talk' = [talk EXCEPT !.messages = Append(@, m), !.next = @ + 1]
    BY <1>6 DEF RespondToOperationalRequest
  <2>2. r \in Nat
    BY <1>1 DEF RequestsSound
  <2>3. m \in ConversationMessage /\ m.number = talk.next
    BY <1>5, <2>1, <2>2 DEF ConversationMessage
  <2> HIDE DEF m
  <2>4. QED
    BY <1>4, <2>1, <2>3
<1>7. ASSUME NEW g \in Guests, AppendMessage(g) PROVE TableSound'
  <2>1. PICK k : k = CHOOSE e \in CommandKeys : TRUE
    OBVIOUS
  <2> DEFINE m == [author |-> g, asked |-> 0, key |-> k, number |-> talk.next]
  <2>2. /\ Len(talk.messages) < MaxReplies /\ UNCHANGED <<house, personal>>
        /\ talk' = [talk EXCEPT !.messages = Append(@, m), !.next = @ + 1]
    BY <1>7, <2>1 DEF AppendMessage
  <2>3. k \in CommandKeys
    BY <2>1, ServiceAssumption
  <2>4. m \in ConversationMessage /\ m.number = talk.next
    BY <1>5, <2>2, <2>3 DEF ConversationMessage
  <2> HIDE DEF m
  <2>5. QED
    BY <1>4, <2>2, <2>4
<1>8. ASSUME NEW w \in Waiters, NEW r \in DOMAIN request, NEW a \in {"entered", "hide", "show"}, MutateWaiterRequestState(w, r, a)
      PROVE  TableSound'
  <2>1. PICK x : x = [entered |-> PersonalState(r, w).entered \/ a = "entered",
                      hidden |-> a = "hide" \/ (a = "entered" /\ PersonalState(r, w).hidden)]
    OBVIOUS
  <2>2. x \in OperationalRequestWaiterState
    BY <2>1 DEF OperationalRequestWaiterState
  <2>3. UNCHANGED <<house, talk>> /\ personal' = [p \in DOMAIN personal \cup {<<r, w>>} |-> IF p # <<r, w>> THEN personal[p] ELSE x]
    BY <1>8, <2>1 DEF MutateWaiterRequestState
  <2>4. \A p \in DOMAIN personal' : personal'[p] \in OperationalRequestWaiterState
    BY <1>1, <2>2, <2>3 DEF TableSound
  <2>5. QED
    BY <1>1, <2>3, <2>4 DEF TableSound
<1>9. CASE CloseConversation
  <2>1. talk' = [talk EXCEPT !.open = FALSE] /\ UNCHANGED <<house, personal>>
    BY <1>9 DEF CloseConversation
  <2>2. talk' \in Conversation /\ talk'.next = Len(talk'.messages) + 1
    BY <1>1, <2>1 DEF TableSound, Conversation
  <2>3. TableSound'
    BY <1>1, <2>1, <2>2 DEF TableSound
  <2>4. QED
    BY <1>2, <1>3, <2>3, ServiceQuiet
<1>10. CASE CloseServiceSession \/ \E S \in SUBSET Waiters : ReplaceServiceResponsibility(S)
  <2>1. house' \in ServiceSession /\ UNCHANGED <<personal, talk>>
    BY <1>1, <1>10 DEF CloseServiceSession, ReplaceServiceResponsibility, TableSound, ServiceSession
  <2>2. TableSound'
    BY <1>1, <2>1 DEF TableSound
  <2>3. QED
    BY <1>2, <1>3, <2>2, ServiceQuiet
<1>11. QED
  BY <1>2, <1>3, <1>6, <1>7, <1>8, <1>9, <1>10, ServiceQuiet

\* Commands that begin, are refused, or repeat what was done.
LEMMA CommandSteps ==
    ASSUME ServiceInv,
           \/ \E c \in Cooks :
                 \/ \E d \in Dishes, n \in 0 .. 2, k \in CommandKeys : BeginTransition(c, d, n, k)
                 \/ ReplayTransition(c) \/ RefuseTransition(c)
           \/ \E w \in Waiters : RefuseHandoff(w) \/ \E r \in DOMAIN request : BeginHandoff(w, r)
    PROVE  ServiceGoal
<1>1. TableSound /\ CommandsSound /\ RequestsSound /\ KitchenSound
  BY DEF ServiceInv
<1>2. ASSUME UNCHANGED request PROVE RequestsGrow
  BY <1>2 DEF RequestsGrow
<1>3. ASSUME NEW c \in Cooks, NEW d \in Dishes, NEW n \in 0 .. 2, NEW k \in CommandKeys, BeginTransition(c, d, n, k)
      PROVE  ServiceGoal
  <2>1. PICK x : x = [on |-> d, version |-> n, key |-> k,
                      done |-> {s \in DishesOf(TicketOf[d]) : dish[s].state = "COMPLETED"},
                      replay |-> {i \in DOMAIN moves[d] : moves[d][i].key = k}, told |-> HasReadyRequest(TicketOf[d])]
    OBVIOUS
  <2>2. /\ cooking' = [cooking EXCEPT ![c] = x] /\ UNCHANGED <<dish, moves, ticket, request>> /\ handing' = handing
        /\ UNCHANGED <<house, personal, talk>>
    BY <1>3, <2>1 DEF BeginTransition, floorVars
  <2>3. x \in TransitionUnderWay /\ (x.told => HasReadyRequest(TicketOf[x.on]))
    <3>1. DOMAIN moves[d] \subseteq Nat
      BY <1>1 DEF KitchenSound
    <3>2. HasReadyRequest(TicketOf[d]) \in BOOLEAN
      BY DEF HasReadyRequest
    <3>3. PICK s : s = {e \in DishesOf(TicketOf[d]) : dish[e].state = "COMPLETED"}
      OBVIOUS
    <3>4. PICK i : i = {j \in DOMAIN moves[d] : moves[d][j].key = k}
      OBVIOUS
    <3>5. PICK h \in BOOLEAN : h = HasReadyRequest(TicketOf[d])
      BY <3>2, Zenon
    <3>6. s \subseteq Dishes /\ i \subseteq Nat
      BY <3>1, <3>3, <3>4 DEF DishesOf
    <3>7. x = [on |-> d, version |-> n, key |-> k, done |-> s, replay |-> i, told |-> h]
      BY <2>1, <3>3, <3>4, <3>5, Zenon
    <3>8. x \in TransitionUnderWay
      BY <3>6, <3>7 DEF TransitionUnderWay
    <3>9. x.told = h /\ x.on = d
      BY <3>7
    <3>10. QED
      BY <3>5, <3>8, <3>9
  <2>4. /\ cooking' \in [Cooks -> {NoCommand} \cup TransitionUnderWay]
        /\ \A e \in Cooks : cooking'[e] = cooking[e] \/ cooking'[e] = x
    BY <1>1, <2>2, <2>3 DEF CommandsSound
  <2>5. handing' \in [Waiters -> {NoCommand} \cup HandoffUnderWay]
    BY <1>1, <2>2 DEF CommandsSound
  <2>6. CommandsSound'
    BY <1>1, <1>2, <2>2, <2>3, <2>4, <2>5, CommandsKept
  <2>7. QED
    BY <1>1, <2>2, <2>6, ServiceQuiet, TableSame
<1>4. ASSUME NEW w \in Waiters, NEW r \in DOMAIN request, BeginHandoff(w, r) PROVE ServiceGoal
  <2>1. PICK x : x = [on |-> r, allowed |-> house.initialized /\ w \in house.responsible]
    OBVIOUS
  <2>2. /\ handing' = [handing EXCEPT ![w] = x] /\ UNCHANGED <<dish, moves, ticket, request>> /\ cooking' = cooking
        /\ UNCHANGED <<house, personal, talk>> /\ request[r].type = "PREPARATION_READY"
    BY <1>4, <2>1 DEF BeginHandoff, kitchenVars
  <2>3. x \in HandoffUnderWay /\ x.on = r
    <3>1. r \in Nat
      BY <1>1 DEF RequestsSound
    <3>2. QED
      BY <2>1, <3>1 DEF HandoffUnderWay
  <2>4. /\ handing' \in [Waiters -> {NoCommand} \cup HandoffUnderWay]
        /\ \A e \in Waiters : handing'[e] = handing[e] \/ handing'[e] = x
    BY <1>1, <2>2, <2>3 DEF CommandsSound
  <2>5. cooking' \in [Cooks -> {NoCommand} \cup TransitionUnderWay]
    BY <1>1, <2>2 DEF CommandsSound
  <2>6. CommandsSound'
    BY <1>1, <1>2, <2>2, <2>3, <2>4, <2>5, CommandsKept
  <2>7. QED
    BY <1>1, <2>2, <2>6, ServiceQuiet, TableSame
<1>5. ASSUME NEW c \in Cooks, RefuseTransition(c) \/ ReplayTransition(c) PROVE ServiceGoal
  <2>1. /\ cooking' = [cooking EXCEPT ![c] = NoCommand] /\ UNCHANGED <<dish, moves, ticket, handing>>
        /\ UNCHANGED <<house, personal, talk>>
    BY <1>5 DEF RefuseTransition, ReplayTransition, floorVars
  <2>2. request' = request
    <3>1. CASE RefuseTransition(c)
      BY <3>1 DEF RefuseTransition, floorVars
    <3>2. CASE ReplayTransition(c)
      <4>1. PICK d : d = cooking[c].on
        OBVIOUS
      <4>2. /\ cooking[c] # NoCommand
            /\ IF dish[d].state = "COMPLETED" /\ SiblingsCompleted(c, d)
               THEN EnsurePreparationReadyRequest(c, TicketOf[d]) ELSE UNCHANGED request
        BY <3>2, <4>1 DEF ReplayTransition
      <4>3. d \in Dishes
        BY <1>1, <4>1, <4>2 DEF CommandsSound, TransitionUnderWay
      <4>4. CASE dish[d].state = "COMPLETED" /\ SiblingsCompleted(c, d)
        <5>1. AssertWorkReady(TicketOf[d])
          BY <4>4 DEF AssertWorkReady, SiblingsCompleted
        <5>2. HasReadyRequest(TicketOf[d])
          BY <4>3, <5>1, ServiceAssumption DEF ServiceInv
        <5>3. QED
          BY <4>2, <4>4, <5>2 DEF EnsurePreparationReadyRequest
      <4>5. QED
        BY <4>2, <4>4
    <3>3. QED
      BY <1>5, <3>1, <3>2
  <2>3. CommandsSound'
    BY <1>1, <1>2, <2>1, <2>2, CommandsEnd
  <2>4. QED
    BY <1>1, <2>1, <2>2, <2>3, ServiceQuiet, TableSame
<1>6. ASSUME NEW w \in Waiters, RefuseHandoff(w) PROVE ServiceGoal
  <2>1. /\ handing' = [handing EXCEPT ![w] = NoCommand] /\ UNCHANGED <<dish, moves, ticket, request, cooking>>
        /\ UNCHANGED <<house, personal, talk>>
    BY <1>6 DEF RefuseHandoff, kitchenVars
  <2>2. CommandsSound'
    BY <1>1, <1>2, <2>1, CommandsEnd
  <2>3. QED
    BY <1>1, <2>1, <2>2, ServiceQuiet, TableSame
<1>7. QED
  BY <1>3, <1>4, <1>5, <1>6

\* The states of a dish, in their order.
LEMMA DishStatesAre ==
    /\ DishStates[1] = "NEW" /\ DishStates[2] = "IN_PROGRESS" /\ DishStates[3] = "COMPLETED"
    /\ Range(DishStates) = {"NEW", "IN_PROGRESS", "COMPLETED"}
<1>1. DOMAIN DishStates = {1, 2, 3} /\ DishStates[1] = "NEW" /\ DishStates[2] = "IN_PROGRESS" /\ DishStates[3] = "COMPLETED"
  BY DEF DishStates
<1>2. QED
  BY <1>1 DEF Range

\* A dish moves on by one transition under a new key.
LEMMA DishMoves ==
    ASSUME NEW x, NEW h, DishSound(x, h), NEW n \in 0 .. 1, x.version = n, NEW k \in CommandKeys,
           \A i \in DOMAIN h : h[i].key # k,
           NEW y, y = [state |-> DishStates[n + 2], version |-> n + 1],
           NEW m, m = [key |-> k, from |-> DishStates[n + 1], to |-> DishStates[n + 2]]
    PROVE  /\ DishSound(y, Append(h, m)) /\ y \in PreparationWorkItem /\ Append(h, m) \in Seq(PreparationItemTransition)
           /\ x.state # "COMPLETED" /\ (y.state = "COMPLETED" <=> n = 1)
<1>1. h \in Seq(PreparationItemTransition) /\ Len(h) = n /\ n + 1 \in 1 .. 2 /\ n + 1 \in 0 .. 2
  BY DEF DishSound
<1>2. /\ DishStates[n + 1] \in Range(DishStates) /\ DishStates[n + 2] \in Range(DishStates)
      /\ DishStates[n + 1] # "COMPLETED" /\ (DishStates[n + 2] = "COMPLETED" <=> n = 1)
  <2>1. CASE n = 0
    BY <2>1, DishStatesAre
  <2>2. CASE n = 1
    BY <2>2, DishStatesAre
  <2>3. QED
    BY <2>1, <2>2
<1>3. m \in PreparationItemTransition /\ m.key = k
  BY <1>2 DEF PreparationItemTransition
<1>4. y \in PreparationWorkItem /\ y.state = DishStates[n + 2] /\ y.version = n + 1
  BY <1>1, <1>2 DEF PreparationWorkItem
<1>5. PICK g : g = Append(h, m)
  OBVIOUS
<1>6. /\ g \in Seq(PreparationItemTransition) /\ Len(g) = n + 1 /\ DOMAIN g = DOMAIN h \cup {n + 1} /\ g[n + 1] = m
      /\ \A i \in DOMAIN h : g[i] = h[i] /\ i # n + 1
  BY <1>1, <1>3, <1>5
<1>7. \A i, j \in DOMAIN g : g[i].key = g[j].key => i = j
  BY <1>3, <1>6 DEF DishSound
<1>8. y.state = DishStates[Len(g) + 1]
  BY <1>4, <1>6
<1>9. DishSound(y, g)
  BY <1>4, <1>6, <1>7, <1>8 DEF DishSound
<1>10. x.state = DishStates[n + 1]
  BY <1>1 DEF DishSound
<1>11. QED
  BY <1>2, <1>4, <1>5, <1>6, <1>9, <1>10

\* Two cooks may complete the last two dishes of a ticket: the one whose transition
\* finds the others completed announces it.
LEMMA TransitionGoal ==
    ASSUME ServiceInv, NEW c \in Cooks, TransitionWorkItem(c)
    PROVE  ServiceGoal
<1>1. TableSound /\ CommandsSound /\ RequestsSound /\ KitchenSound
  BY DEF ServiceInv
<1>2. PICK d, n, k : d = cooking[c].on /\ n = cooking[c].version /\ k = cooking[c].key
  OBVIOUS
<1>3. PICK y, m : y = [state |-> DishStates[n + 2], version |-> n + 1] /\ m = [key |-> k, from |-> DishStates[n + 1], to |-> DishStates[n + 2]]
  OBVIOUS
<1>4. /\ cooking[c] # NoCommand /\ dish[d].version = n /\ n < 2 /\ \A i \in DOMAIN moves[d] : moves[d][i].key # k
      /\ dish' = [dish EXCEPT ![d] = y] /\ moves' = [moves EXCEPT ![d] = Append(moves[d], m)]
      /\ IF n = 1 /\ SiblingsCompleted(c, d)
         THEN EnsurePreparationReadyRequest(c, TicketOf[d]) ELSE UNCHANGED request
      /\ cooking' = [cooking EXCEPT ![c] = NoCommand] /\ UNCHANGED <<ticket, handing>> /\ UNCHANGED <<house, personal, talk>>
  BY <1>2, <1>3 DEF TransitionWorkItem
<1>5. d \in Dishes /\ n \in 0 .. 1 /\ k \in CommandKeys /\ TicketOf[d] \in Tickets
  <2>1. cooking[c] \in TransitionUnderWay
    BY <1>1, <1>4 DEF CommandsSound
  <2>2. QED
    BY <1>2, <1>4, <2>1, ServiceAssumption DEF TransitionUnderWay
<1>6. /\ DishSound(y, Append(moves[d], m)) /\ y \in PreparationWorkItem /\ Append(moves[d], m) \in Seq(PreparationItemTransition)
      /\ dish[d].state # "COMPLETED" /\ (y.state = "COMPLETED" <=> n = 1)
  <2>1. DishSound(dish[d], moves[d])
    BY <1>1, <1>5 DEF KitchenSound
  <2>2. QED
    BY <1>3, <1>4, <1>5, <2>1, DishMoves
<1>7. /\ dish' \in [Dishes -> PreparationWorkItem] /\ dish'[d] = y /\ \A e \in Dishes : e # d => dish'[e] = dish[e]
      /\ moves' \in [Dishes -> Seq(PreparationItemTransition)] /\ moves'[d] = Append(moves[d], m)
      /\ \A e \in Dishes : e # d => moves'[e] = moves[e]
  BY <1>1, <1>4, <1>5, <1>6 DEF KitchenSound
<1>8. KitchenSound'
  BY <1>1, <1>6, <1>7 DEF KitchenSound
<1>9. /\ ~AssertWorkReady(TicketOf[d])
      /\ AssertWorkReady(TicketOf[d])' <=> n = 1 /\ SiblingsCompleted(c, d)
      /\ \A t \in Tickets : t # TicketOf[d] => (AssertWorkReady(t)' <=> AssertWorkReady(t))
  <2>1. d \in DishesOf(TicketOf[d])
    BY <1>5 DEF DishesOf
  <2>2. ~AssertWorkReady(TicketOf[d])
    BY <1>6, <2>1 DEF AssertWorkReady
  <2>3. AssertWorkReady(TicketOf[d])' <=> n = 1 /\ SiblingsCompleted(c, d)
    BY <1>5, <1>6, <1>7, <2>1 DEF AssertWorkReady, SiblingsCompleted, DishesOf
  <2>4. \A t \in Tickets : t # TicketOf[d] => (AssertWorkReady(t)' <=> AssertWorkReady(t))
    BY <1>5, <1>7 DEF AssertWorkReady, DishesOf
  <2>5. QED
    BY <2>2, <2>3, <2>4
<1>10. ~HasReadyRequest(TicketOf[d])
  BY <1>5, <1>9 DEF ServiceInv
<1>11. TableSound'
  BY <1>1, <1>4, TableSame
<1>12. CASE n = 1 /\ SiblingsCompleted(c, d)
  <2>1. PICK q : q = ReadyRequest(TicketOf[d])
    OBVIOUS
  <2>2. request' = Append(request, q)
    <3>1. EnsurePreparationReadyRequest(c, TicketOf[d])
      BY <1>4, <1>12
    <3>2. ~cooking[c].told
      BY <1>1, <1>2, <1>4, <1>10 DEF CommandsSound
    <3>3. QED
      BY <2>1, <3>1, <3>2 DEF EnsurePreparationReadyRequest
  <2>3. /\ q \in DinerOperationalRequest /\ q.type = "PREPARATION_READY" /\ q.ticket = TicketOf[d] /\ q.status = "PENDING"
        /\ q.acknowledged = Nobody /\ q.resolved = Nobody
    BY <1>5, <2>1 DEF ReadyRequest, DinerOperationalRequest, RequestTypes
  <2>4. ticket[TicketOf[d]].delivered = Nobody /\ TicketOf[d] # NoTicket
    BY <1>1, <1>5, <1>10, ServiceAssumption DEF RequestsSound
  <2>5. RequestTells(q, ticket)
    BY <2>3, <2>4 DEF RequestTells
  <2>6. /\ RequestsSound' /\ Evidence /\ RequestsGrow
        /\ \A t : HasReadyRequest(t)' <=> HasReadyRequest(t) \/ t = q.ticket
    BY <1>1, <1>4, <1>10, <2>2, <2>3, <2>5, RequestAdded
  <2>7. CommandsSound'
    BY <1>1, <1>4, <2>6, CommandsEnd
  <2>8. \A t \in Tickets : HasReadyRequest(t)' <=> AssertWorkReady(t)'
    BY <1>9, <1>12, <2>3, <2>6 DEF ServiceInv
  <2>9. QED
    BY <1>8, <1>11, <2>6, <2>7, <2>8 DEF ServiceGoal, ServiceInv
<1>13. CASE ~(n = 1 /\ SiblingsCompleted(c, d))
  <2>1. request' = request /\ ticket' = ticket
    BY <1>4, <1>13
  <2>2. RequestsSound' /\ Evidence /\ RequestsGrow /\ \A t : HasReadyRequest(t)' <=> HasReadyRequest(t)
    BY <1>1, <2>1 DEF RequestsSound, Announcements, HasReadyRequest, Evidence, RequestsGrow
  <2>3. CommandsSound'
    BY <1>1, <1>4, <2>2, CommandsEnd
  <2>4. \A t \in Tickets : HasReadyRequest(t)' <=> AssertWorkReady(t)'
    BY <1>9, <1>13, <2>2 DEF ServiceInv
  <2>5. QED
    BY <1>8, <1>11, <2>2, <2>3, <2>4 DEF ServiceGoal, ServiceInv
<1>14. QED
  BY <1>12, <1>13

\* Dishes stay and requests announce what they announced.
LEMMA RequestsOnly ==
    ASSUME ServiceInv, UNCHANGED <<dish, moves>>, UNCHANGED <<house, personal, talk>>, cooking' = cooking,
           handing' = handing \/ (\E w \in Waiters : handing' = [handing EXCEPT ![w] = NoCommand]),
           RequestsSound', Evidence, RequestsGrow, \A t \in Tickets : HasReadyRequest(t)' <=> HasReadyRequest(t)
    PROVE  ServiceGoal
<1>1. KitchenSound' /\ TableSound' /\ CommandsSound'
  BY TableSame, CommandsEnd DEF ServiceInv, KitchenSound
<1>2. \A t \in Tickets : HasReadyRequest(t)' <=> AssertWorkReady(t)'
  BY DEF ServiceInv, AssertWorkReady, DishesOf
<1>3. QED
  BY <1>1, <1>2 DEF ServiceGoal, ServiceInv

\* A guest asks.
LEMMA CreateRequestGoal ==
    ASSUME ServiceInv, NEW g \in Guests, NEW type \in RequestTypes \ {"PREPARATION_READY"}, NEW k \in CommandKeys,
           CreateOperationalRequest(g, type, k)
    PROVE  ServiceGoal
<1>1. PICK q : q = [type |-> type, guest |-> g, ticket |-> NoTicket, key |-> k, status |-> "PENDING",
                    acknowledged |-> Nobody, resolved |-> Nobody]
  OBVIOUS
<1>2. /\ request' = Append(request, q) /\ UNCHANGED <<dish, moves, ticket>> /\ cooking' = cooking /\ handing' = handing
      /\ UNCHANGED <<house, personal, talk>>
  BY <1>1 DEF CreateOperationalRequest, kitchenVars
<1>3. /\ q \in DinerOperationalRequest /\ q.type # "PREPARATION_READY" /\ q.ticket = NoTicket /\ q.status = "PENDING"
      /\ q.acknowledged = Nobody
  BY <1>1 DEF DinerOperationalRequest, RequestTypes
<1>4. RequestTells(q, ticket)
  BY <1>3 DEF RequestTells
<1>5. RequestsSound' /\ Evidence /\ RequestsGrow /\ \A t : HasReadyRequest(t)' <=> HasReadyRequest(t) \/ t = q.ticket
  BY <1>2, <1>3, <1>4, RequestAdded DEF ServiceInv
<1>6. \A t \in Tickets : HasReadyRequest(t)' <=> HasReadyRequest(t)
  BY <1>3, <1>5, ServiceAssumption
<1>7. QED
  BY <1>2, <1>5, <1>6, RequestsOnly

\* A waiter or a manager acknowledges or completes a request.
LEMMA ApplyGoal ==
    ASSUME ServiceInv, NEW w \in Waiters, NEW r \in DOMAIN request, NEW target \in {"ACKNOWLEDGED", "COMPLETED"},
           NEW recorded \in BOOLEAN, ApplyTransition(w, r, target, recorded)
    PROVE  ServiceGoal
<1>1. PICK p : p = request[r]
  OBVIOUS
<1>2. PICK q : q = Transitioned(p, w, target, recorded)
  OBVIOUS
<1>3. /\ request' = [request EXCEPT ![r] = q] /\ UNCHANGED <<dish, moves, ticket>> /\ cooking' = cooking /\ handing' = handing
      /\ UNCHANGED <<house, personal, talk>>
      /\ ~(target = "COMPLETED" /\ p.type = "PREPARATION_READY")
      /\ p.status = IF target = "ACKNOWLEDGED" THEN "PENDING" ELSE "ACKNOWLEDGED"
  BY <1>1, <1>2 DEF ApplyTransition, CanApply, kitchenVars
<1>4. RequestsSound /\ p \in DinerOperationalRequest /\ RequestTells(p, ticket)
  BY <1>1 DEF ServiceInv, RequestsSound
<1>5. /\ q \in DinerOperationalRequest /\ q.type = p.type /\ q.ticket = p.ticket /\ q.status = target
      /\ q.acknowledged \in {p.acknowledged, w} /\ (p.acknowledged # Nobody => q.acknowledged = p.acknowledged)
      /\ target = "ACKNOWLEDGED" => q.resolved = p.resolved
  <2>1. PICK u \in Waiters \cup {Nobody}, v \in Waiters \cup {Nobody} :
              /\ u = (IF target = "ACKNOWLEDGED" /\ recorded THEN w ELSE p.acknowledged)
              /\ v = (IF target = "COMPLETED" THEN w ELSE p.resolved)
    BY <1>4 DEF DinerOperationalRequest
  <2>2. q = [p EXCEPT !.status = target, !.acknowledged = u, !.resolved = v]
    BY <1>2, <2>1 DEF Transitioned
  <2>3. q \in DinerOperationalRequest /\ q.type = p.type /\ q.ticket = p.ticket /\ q.status = target /\ q.acknowledged = u /\ q.resolved = v
    BY <1>4, <2>2 DEF DinerOperationalRequest
  <2>4. target = "ACKNOWLEDGED" => p.acknowledged = Nobody
    BY <1>3, <1>4 DEF RequestTells
  <2>5. QED
    BY <2>1, <2>3, <2>4
<1>6. RequestTells(q, ticket)
  BY <1>3, <1>4, <1>5 DEF RequestTells
<1>7. /\ request' \in Seq(DinerOperationalRequest) /\ DOMAIN request' = DOMAIN request /\ request'[r] = q
      /\ \A s \in DOMAIN request : s # r => request'[s] = request[s]
      /\ Announcements' /\ RequestsGrow /\ \A t : HasReadyRequest(t)' <=> HasReadyRequest(t)
  BY <1>1, <1>3, <1>4, <1>5, RequestChanged
<1>8. RequestsSound'
  BY <1>3, <1>4, <1>6, <1>7 DEF RequestsSound
<1>9. Evidence
  <2>1. p.status # "COMPLETED" /\ q.status # "PENDING" /\ (p.acknowledged # Nobody => q.acknowledged = p.acknowledged)
    BY <1>3, <1>5
  <2>2. QED
    BY <1>1, <1>3, <1>7, <2>1 DEF Evidence
<1>10. QED
  BY <1>3, <1>7, <1>8, <1>9, RequestsOnly

\* A handoff under way is of a request that announces a ticket.
LEMMA HandoffIs ==
    ASSUME ServiceInv, NEW w \in Waiters, LockedWaiterPreparationRequest(w)
    PROVE  /\ handing[w].on \in DOMAIN request /\ request[handing[w].on] \in DinerOperationalRequest
           /\ request[handing[w].on].ticket \in Tickets /\ request[handing[w].on].ticket # NoTicket
<1>1. PICK r : r = handing[w].on
  OBVIOUS
<1>2. RequestsSound /\ CommandsSound /\ handing[w] # NoCommand
  BY DEF ServiceInv, LockedWaiterPreparationRequest
<1>3. r \in DOMAIN request /\ request[r].type = "PREPARATION_READY"
  BY <1>1, <1>2 DEF CommandsSound
<1>4. request[r] \in DinerOperationalRequest /\ RequestTells(request[r], ticket)
  BY <1>2, <1>3 DEF RequestsSound
<1>5. request[r].ticket # NoTicket
  BY <1>3, <1>4 DEF RequestTells
<1>6. request[r].ticket \in Tickets
  BY <1>4, <1>5 DEF DinerOperationalRequest
<1>7. QED
  BY <1>1, <1>3, <1>4, <1>5, <1>6

\* The first waiter to pick up a ticket stays the one who did.
LEMMA PickUpGoal ==
    ASSUME ServiceInv, NEW w \in Waiters, PickUp(w)
    PROVE  ServiceGoal
<1>1. PICK r : r = handing[w].on
  OBVIOUS
<1>2. PICK t : t = request[r].ticket
  OBVIOUS
<1>3. PICK k : k = ticket[t]
  OBVIOUS
<1>4. LockedWaiterPreparationRequest(w) /\ k.delivered = Nobody /\ UNCHANGED <<dish, moves>> /\ UNCHANGED <<house, personal, talk>>
      /\ cooking' = cooking /\ request' = request /\ handing' = [handing EXCEPT ![w] = NoCommand]
  BY <1>1, <1>2, <1>3 DEF PickUp, kitchenVars
<1>5. RequestsSound /\ r \in DOMAIN request /\ t \in Tickets /\ k \in PreparationWork
  BY <1>1, <1>2, <1>3, <1>4, HandoffIs DEF ServiceInv, RequestsSound
<1>6. PICK v : v = IF k.picked = Nobody THEN w ELSE k.picked
  OBVIOUS
<1>7. v \in Waiters /\ v # Nobody /\ (k.picked # Nobody => v = k.picked)
  BY <1>5, <1>6, ServiceAssumption DEF PreparationWork
<1>8. PICK y : y = [k EXCEPT !.picked = v]
  OBVIOUS
<1>9. ticket' = [ticket EXCEPT ![t] = y]
  BY <1>1, <1>2, <1>3, <1>6, <1>8 DEF PickUp
<1>10. y \in PreparationWork /\ y.picked = v /\ y.delivered = k.delivered
  BY <1>5, <1>7, <1>8 DEF PreparationWork
<1>11. ticket' \in [Tickets -> PreparationWork] /\ ticket'[t] = y /\ \A u \in Tickets : u # t => ticket'[u] = ticket[u]
  BY <1>5, <1>9, <1>10 DEF RequestsSound
<1>12. \A u \in Tickets : ticket'[u].delivered = ticket[u].delivered
  BY <1>3, <1>10, <1>11
<1>13. HasReadyRequest(t) /\ \A u : HasReadyRequest(u)' <=> HasReadyRequest(u)
  BY <1>2, <1>4, <1>5 DEF HasReadyRequest
<1>14. \A s \in DOMAIN request : RequestTells(request[s], ticket')
  <2>1. ASSUME NEW s \in DOMAIN request PROVE RequestTells(request[s], ticket')
    <3>1. RequestTells(request[s], ticket) /\ request[s] \in DinerOperationalRequest
      BY <1>5 DEF RequestsSound
    <3>2. request[s].ticket # NoTicket => request[s].ticket \in Tickets
      BY <3>1 DEF DinerOperationalRequest
    <3>3. QED
      BY <1>12, <3>1, <3>2 DEF RequestTells
  <2>2. QED
    BY <2>1
<1>15. \A u \in Tickets : /\ ticket'[u].delivered # Nobody => ticket'[u].picked # Nobody
                          /\ ticket'[u].picked # Nobody => HasReadyRequest(u)
  BY <1>5, <1>7, <1>10, <1>11, <1>13 DEF RequestsSound
<1>16. Announcements'
  BY <1>4, <1>5 DEF RequestsSound, Announcements
<1>17. RequestsSound'
  BY <1>4, <1>5, <1>11, <1>13, <1>14, <1>15, <1>16 DEF RequestsSound
<1>18. Evidence /\ RequestsGrow
  BY <1>3, <1>4, <1>7, <1>10, <1>11 DEF Evidence, RequestsGrow
<1>19. QED
  BY <1>4, <1>13, <1>17, <1>18, RequestsOnly

\* The delivery completes the one request that announced the ticket.
LEMMA DeliverTicketGoal ==
    ASSUME ServiceInv, NEW w \in Waiters, Deliver(w)
    PROVE  ServiceGoal
<1>1. PICK r : r = handing[w].on
  OBVIOUS
<1>2. PICK p, t : p = request[r] /\ t = request[r].ticket
  OBVIOUS
<1>3. PICK k : k = ticket[t]
  OBVIOUS
<1>4. /\ LockedWaiterPreparationRequest(w) /\ p.status \in {"PENDING", "ACKNOWLEDGED"} /\ k.picked # Nobody /\ k.delivered = Nobody
      /\ UNCHANGED <<dish, moves>> /\ UNCHANGED <<house, personal, talk>> /\ cooking' = cooking
      /\ handing' = [handing EXCEPT ![w] = NoCommand]
  BY <1>1, <1>2, <1>3 DEF Deliver, Pending, kitchenVars
<1>5. /\ RequestsSound /\ r \in DOMAIN request /\ p \in DinerOperationalRequest /\ t \in Tickets /\ t # NoTicket
      /\ k \in PreparationWork /\ RequestTells(p, ticket) /\ p.ticket = t
  BY <1>1, <1>2, <1>3, <1>4, HandoffIs DEF ServiceInv, RequestsSound
<1>6. PICK y, q : y = [k EXCEPT !.delivered = w] /\ q = [p EXCEPT !.status = "COMPLETED", !.resolved = w]
  OBVIOUS
<1>7. ticket' = [ticket EXCEPT ![t] = y] /\ request' = [request EXCEPT ![r] = q]
  BY <1>1, <1>2, <1>3, <1>6 DEF Deliver
<1>8. y \in PreparationWork /\ y.picked = k.picked /\ y.delivered = w /\ w # Nobody
  BY <1>5, <1>6, ServiceAssumption DEF PreparationWork
<1>9. /\ q \in DinerOperationalRequest /\ q.type = p.type /\ q.ticket = t /\ q.status = "COMPLETED" /\ q.resolved = w
      /\ q.acknowledged = p.acknowledged
  BY <1>5, <1>6 DEF DinerOperationalRequest
<1>10. ticket' \in [Tickets -> PreparationWork] /\ ticket'[t] = y /\ \A u \in Tickets : u # t => ticket'[u] = ticket[u]
  BY <1>5, <1>7, <1>8 DEF RequestsSound
<1>11. /\ request' \in Seq(DinerOperationalRequest) /\ DOMAIN request' = DOMAIN request /\ request'[r] = q
       /\ \A s \in DOMAIN request : s # r => request'[s] = request[s]
       /\ Announcements' /\ RequestsGrow /\ \A u : HasReadyRequest(u)' <=> HasReadyRequest(u)
  BY <1>2, <1>5, <1>7, <1>9, RequestChanged
<1>12. ASSUME NEW s \in DOMAIN request PROVE RequestTells(request'[s], ticket')
  <2>1. CASE s = r
    BY <1>5, <1>8, <1>9, <1>10, <1>11, <2>1 DEF RequestTells
  <2>2. CASE s # r
    <3>1. RequestTells(request[s], ticket) /\ request[s] \in DinerOperationalRequest /\ request'[s] = request[s]
      BY <1>5, <1>11, <2>2 DEF RequestsSound
    <3>2. request[s].ticket # NoTicket => request[s].ticket \in Tickets /\ request[s].ticket # t
      BY <1>2, <1>5, <2>2, <3>1 DEF DinerOperationalRequest, RequestsSound, Announcements
    <3>3. QED
      BY <1>10, <3>1, <3>2 DEF RequestTells
  <2>3. QED
    BY <2>1, <2>2
<1>13. \A u \in Tickets : (/\ ticket[u].delivered # Nobody => ticket[u].picked # Nobody
                           /\ ticket[u].picked # Nobody => HasReadyRequest(u))'
  BY <1>3, <1>4, <1>5, <1>8, <1>10, <1>11 DEF RequestsSound
<1>14. RequestsSound'
  BY <1>10, <1>11, <1>12, <1>13 DEF RequestsSound
<1>15. Evidence
  BY <1>2, <1>3, <1>4, <1>8, <1>9, <1>10, <1>11 DEF Evidence
<1>16. QED
  BY <1>4, <1>11, <1>14, <1>15, RequestsOnly

\* The specification starts with everything to cook and nothing asked.
LEMMA ServiceStarts == ServiceInit => ServiceInv
<1> SUFFICES ASSUME ServiceInit PROVE ServiceInv
  OBVIOUS
<1>1. KitchenSound
  <2>1. PICK x, h : x = [state |-> "NEW", version |-> 0] /\ h = <<>>
    OBVIOUS
  <2>2. x \in PreparationWorkItem /\ x.version = 0 /\ x.state = "NEW" /\ h \in Seq(PreparationItemTransition) /\ Len(h) = 0 /\ DOMAIN h = {}
    BY <2>1, DishStatesAre DEF PreparationWorkItem
  <2>3. DishSound(x, h)
    BY <2>2, DishStatesAre DEF DishSound
  <2>4. dish = [d \in Dishes |-> x] /\ moves = [d \in Dishes |-> h]
    BY <2>1 DEF ServiceInit
  <2>5. QED
    BY <2>2, <2>3, <2>4 DEF KitchenSound
<1>2. request = <<>> /\ DOMAIN request = {} /\ \A t : ~HasReadyRequest(t)
  BY DEF ServiceInit, HasReadyRequest
<1>3. RequestsSound
  <2>1. ticket \in [Tickets -> PreparationWork] /\ \A t \in Tickets : ticket[t].delivered = Nobody /\ ticket[t].picked = Nobody
    BY DEF ServiceInit, PreparationWork
  <2>2. QED
    BY <1>2, <2>1 DEF RequestsSound, Announcements
<1>4. CommandsSound
  BY DEF ServiceInit, CommandsSound
<1>5. TableSound
  <2>1. house \in ServiceSession
    <3>1. PICK b \in BOOLEAN, w \in Waiters : house = [open |-> TRUE, initialized |-> b, responsible |-> IF b THEN {w} ELSE {}]
      BY DEF ServiceInit
    <3>2. PICK s \in SUBSET Waiters : s = IF b THEN {w} ELSE {}
      OBVIOUS
    <3>3. QED
      BY <3>1, <3>2 DEF ServiceSession
  <2>2. talk \in Conversation /\ talk.next = Len(talk.messages) + 1
    BY ServiceAssumption DEF ServiceInit, Conversation
  <2>3. DOMAIN personal = {}
    BY DEF ServiceInit
  <2>4. QED
    BY <2>1, <2>2, <2>3 DEF TableSound
<1>6. ASSUME NEW t \in Tickets PROVE ~AssertWorkReady(t)
  <2>1. PICK d \in Dishes : TicketOf[d] = t
    BY ServiceAssumption
  <2>2. dish[d].state = "NEW"
    BY DEF ServiceInit
  <2>3. QED
    BY <2>1, <2>2 DEF AssertWorkReady, DishesOf
<1>7. QED
  BY <1>1, <1>2, <1>3, <1>4, <1>5, <1>6 DEF ServiceInv

\* Every step keeps the invariant and the evidence.
LEMMA ServiceStep == ServiceInv /\ [ServiceNext]_serviceVars => ServiceGoal
<1> SUFFICES ASSUME ServiceInv, [ServiceNext]_serviceVars PROVE ServiceGoal
  OBVIOUS
<1>1. CASE KitchenNext
  BY <1>1, CommandSteps, TransitionGoal DEF KitchenNext
<1>2. CASE RequestsNext
  <2>1. PICK w \in Waiters, r \in DOMAIN request, s \in {"ACKNOWLEDGED", "COMPLETED"} :
            TransitionRequest(w, r, s) \/ TransitionWaiterRequest(w, r, s)
    BY <1>2 DEF RequestsNext
  <2>2. \E b \in BOOLEAN : ApplyTransition(w, r, s, b)
    BY <2>1 DEF TransitionRequest, TransitionWaiterRequest
  <2>3. QED
    BY <2>2, ApplyGoal
<1>3. CASE HandoffNext
  BY <1>3, CommandSteps, TableSteps, PickUpGoal, DeliverTicketGoal DEF HandoffNext
<1>4. CASE GuestsNext
  BY <1>4, CreateRequestGoal, TableSteps DEF GuestsNext
<1>5. CASE UNCHANGED serviceVars
  <2>1. UNCHANGED <<dish, moves, ticket, request, cooking, handing>> /\ UNCHANGED <<house, personal, talk>>
    BY <1>5 DEF serviceVars, kitchenVars, floorVars
  <2>2. RequestsGrow
    BY <2>1 DEF RequestsGrow
  <2>3. QED
    BY <2>1, <2>2, ServiceQuiet, CommandsEnd, TableSame DEF ServiceInv
<1>6. QED
  BY <1>1, <1>2, <1>3, <1>4, <1>5 DEF ServiceNext

\* A ticket's requests: one when it is ready.
LEMMA ServiceMeans == ServiceInv => TicketsAreTold
<1> SUFFICES ASSUME ServiceInv PROVE TicketsAreTold
  OBVIOUS
<1>1. KitchenSound /\ RequestsSound /\ TableSound
  BY DEF ServiceInv
<1>2. ServiceTypeOK
  <2>1. \A d \in Dishes : dish[d] \in PreparationWorkItem /\ \A i \in DOMAIN moves[d] : moves[d][i] \in PreparationItemTransition
    BY <1>1 DEF KitchenSound
  <2>2. \A r \in DOMAIN request : request[r] \in DinerOperationalRequest
    BY <1>1 DEF RequestsSound
  <2>3. QED
    BY <1>1, <2>1, <2>2 DEF ServiceTypeOK, RequestsSound, TableSound
<1>3. ASSUME NEW t \in Tickets
      PROVE  Cardinality({r \in DOMAIN request : request[r].ticket = t}) = (IF AssertWorkReady(t) THEN 1 ELSE 0)
  <2>1. t # NoTicket /\ (HasReadyRequest(t) <=> AssertWorkReady(t))
    BY ServiceAssumption DEF ServiceInv
  <2>2. CASE AssertWorkReady(t)
    <3>1. PICK r \in DOMAIN request : request[r].ticket = t
      BY <2>1, <2>2 DEF HasReadyRequest
    <3>2. {s \in DOMAIN request : request[s].ticket = t} = {r}
      BY <1>1, <2>1, <3>1 DEF RequestsSound, Announcements
    <3>3. QED
      BY <2>2, <3>2, FS_Singleton
  <2>3. CASE ~AssertWorkReady(t)
    <3>1. {s \in DOMAIN request : request[s].ticket = t} = {}
      BY <2>1, <2>3 DEF HasReadyRequest
    <3>2. QED
      BY <2>3, <3>1, FS_EmptySet
  <2>4. QED
    BY <2>2, <2>3
<1>4. HandoffIsTold
  <2>1. ASSUME NEW r \in DOMAIN request, request[r].ticket # NoTicket
        PROVE  /\ (request[r].status = "COMPLETED") <=> (ticket[request[r].ticket].delivered # Nobody)
               /\ request[r].resolved = ticket[request[r].ticket].delivered
               /\ ticket[request[r].ticket].delivered # Nobody => ticket[request[r].ticket].picked # Nobody
    <3>1. RequestTells(request[r], ticket) /\ request[r] \in DinerOperationalRequest
      BY <1>1 DEF RequestsSound
    <3>2. request[r].ticket \in Tickets
      BY <2>1, <3>1 DEF DinerOperationalRequest
    <3>3. QED
      BY <1>1, <2>1, <3>1, <3>2 DEF RequestTells, RequestsSound
  <2>2. ASSUME NEW d \in Dishes
        PROVE  /\ dish[d].version = Len(moves[d]) /\ dish[d].state = DishStates[Len(moves[d]) + 1]
               /\ \A i, j \in DOMAIN moves[d] : moves[d][i].key = moves[d][j].key => i = j
    <3>1. DishSound(dish[d], moves[d])
      BY <1>1 DEF KitchenSound
    <3>2. QED
      BY <3>1 DEF DishSound
  <2>3. QED
    BY <2>1, <2>2 DEF HandoffIsTold
<1>5. QED
  BY <1>2, <1>3, <1>4 DEF TicketsAreTold, ReadyOnceWhenCompleted

\* Dishes, requests, tickets and the commands under way stay consistent, whatever cooks,
\* waiters and guests do at once.
THEOREM ServiceSafety == ServiceSpec => []ServiceInv
<1>1. ServiceInv /\ [ServiceNext]_serviceVars => ServiceInv'
  BY ServiceStep DEF ServiceGoal
<1>2. QED
  BY <1>1, ServiceStarts, PTL DEF ServiceSpec

\* A ticket is announced once, when its last dish is completed, and its request ends
\* with the delivery.
THEOREM TicketsTold == ServiceSpec => []TicketsAreTold
  BY ServiceSafety, ServiceMeans, PTL

\* Requests only move forward, and who acknowledged, picked up or delivered stays.
THEOREM EvidenceKept == ServiceSpec => EvidenceStands
<1>1. ServiceInv /\ [ServiceNext]_serviceVars
      => [/\ \A r \in DOMAIN request :
                /\ request[r].status = "COMPLETED" => request'[r] = request[r]
                /\ request[r].status = "ACKNOWLEDGED" => request'[r].status # "PENDING"
                /\ request[r].acknowledged # Nobody => request'[r].acknowledged = request[r].acknowledged
          /\ \A t \in Tickets :
                /\ ticket[t].picked # Nobody => ticket'[t].picked = ticket[t].picked
                /\ ticket[t].delivered # Nobody => ticket'[t] = ticket[t]]_serviceVars
  BY ServiceStep DEF ServiceGoal, Evidence
<1>2. QED
  BY <1>1, ServiceSafety, PTL DEF ServiceSpec, EvidenceStands

(***************************************************************************)
(* Messages between members of the staff.                                  *)
(***************************************************************************)

\* g is h and one event more, e, which takes the next number n.
Appended(h, g, e, n) ==
    /\ g \in Seq(InternalOperationalMessageHistory) /\ Len(g) = n /\ n \in Nat /\ n = Len(h) + 1
    /\ DOMAIN g = DOMAIN h \cup {n} /\ g[n] = e /\ n \notin DOMAIN h
    /\ \A i \in DOMAIN h : g[i] = h[i] /\ i < n /\ i \in Nat
    /\ \A kind : EventsOf(h, kind) \subseteq DOMAIN h
    /\ EventsOf(g, e.event) = EventsOf(h, e.event) \cup {n}
    /\ \A kind : kind # e.event => EventsOf(g, kind) = EventsOf(h, kind)

\* An event is appended: the events of its kind are one more, and the last.
LEMMA EventAppended ==
    ASSUME NEW h \in Seq(InternalOperationalMessageHistory), NEW e \in InternalOperationalMessageHistory,
           NEW g, g = Append(h, e), NEW n, n = Len(h) + 1
    PROVE  Appended(h, g, e, n)
<1>1. /\ g \in Seq(InternalOperationalMessageHistory) /\ Len(g) = n /\ n \in Nat /\ DOMAIN g = DOMAIN h \cup {n} /\ g[n] = e
      /\ \A i \in DOMAIN h : g[i] = h[i] /\ i < n /\ i \in Nat
  OBVIOUS
<1>2. \A kind : EventsOf(h, kind) \subseteq DOMAIN h
  BY DEF EventsOf
<1>3. n \notin DOMAIN h
  BY <1>1
<1>4. EventsOf(g, e.event) = EventsOf(h, e.event) \cup {n}
  BY <1>1, <1>3 DEF EventsOf
<1>5. ASSUME NEW kind, kind # e.event PROVE EventsOf(g, kind) = EventsOf(h, kind)
  BY <1>1, <1>3, <1>5 DEF EventsOf
<1>6. QED
  BY <1>1, <1>2, <1>3, <1>4, <1>5 DEF Appended

\* The next event of a message fits its numbering.
LEMMA EventIs ==
    ASSUME NEW kind \in {"MESSAGE_CREATED", "ENTERADO", "RESPONSE_ADDED", "READY"}, NEW p \in Staff,
           NEW n \in 1 .. MaxResponses + 3, NEW r \in 0 .. MaxResponses, NEW e, e = Event(kind, p, n, r)
    PROVE  e \in InternalOperationalMessageHistory /\ e.event = kind /\ e.actor = p /\ e.sequence = n /\ e.response = r
  BY DEF Event, InternalOperationalMessageHistory

\* The event that p's command appends to the history h, which becomes g.
NextEvent(h, g, e, n, kind, p, r) == n = Len(h) + 1 /\ e = Event(kind, p, n, r) /\ g = Append(h, e)
HasRoom(x, q) == x.version + Len(q) < MaxResponses + 3

\* A told message appends an event: its number is the next one, and the numbering goes on.
LEMMA EventNumbered ==
    ASSUME NEW x, NEW h, NEW q, MessageTold(x, h, q), NEW kind \in {"ENTERADO", "RESPONSE_ADDED", "READY"}, NEW p \in Staff,
           NEW r \in 0 .. MaxResponses, NEW s, MessageNumbered(h, s), HasRoom(x, q),
           NEW n, NEW e, NEW g, NextEvent(h, g, e, n, kind, p, r)
    PROVE  Appended(h, g, e, n) /\ MessageNumbered(g, s) /\ e.event = kind /\ e.actor = p /\ e.response = r
<1>1. h \in Seq(InternalOperationalMessageHistory) /\ (\A i \in DOMAIN h : h[i].sequence = i) /\ EventsOf(h, "MESSAGE_CREATED") = {1}
  BY DEF MessageTold, MessageNumbered
<1>2. Len(h) = x.version + Len(q) /\ Len(h) \in Nat
  BY <1>1 DEF MessageTold, MessageCounted
<1>3. n \in 1 .. MaxResponses + 3
  BY <1>2, NotesAssumption DEF HasRoom, NextEvent
<1>4. e \in InternalOperationalMessageHistory /\ e.event = kind /\ e.actor = p /\ e.sequence = n /\ e.response = r
  BY <1>3, EventIs DEF NextEvent
<1>5. Appended(h, g, e, n)
  BY <1>1, <1>4, EventAppended DEF NextEvent
<1>6. \A i \in DOMAIN g : g[i].sequence = i
  BY <1>1, <1>4, <1>5 DEF Appended
<1>7. EventsOf(g, "MESSAGE_CREATED") = {1}
  BY <1>1, <1>4, <1>5 DEF Appended
<1>8. MessageNumbered(g, s)
  BY <1>5, <1>6, <1>7 DEF MessageNumbered, Appended
<1>9. QED
  BY <1>4, <1>5, <1>8

\* The row y of a message x that its recipient p takes note of, or reports ready at table t.
EnteredRow(y, x, p) == y = [x EXCEPT !.entered = p, !.version = x.version + 1]
ReadyRow(y, x, p, t) == y = [x EXCEPT !.status = "READY", !.ready = p, !.table = t, !.version = x.version + 1]
AtVersion(y, z, v) == y = [z EXCEPT !.version = v]

\* The version alone changes.
LEMMA NextVersion ==
    ASSUME NEW z \in InternalOperationalMessage, NEW v \in 1 .. 3, NEW y, AtVersion(y, z, v)
    PROVE  /\ y \in InternalOperationalMessage /\ y.version = v /\ y.entered = z.entered /\ y.status = z.status
           /\ y.recipient = z.recipient
  BY DEF InternalOperationalMessage, AtVersion

\* The recipient says Enterado.
LEMMA MessageEntered ==
    ASSUME NEW x, NEW h, NEW q, MessageTold(x, h, q), NEW p \in Staff, x.entered = NotYet,
           NEW y, EnteredRow(y, x, p),
           NEW n, NEW e, NEW g, NextEvent(h, g, e, n, "ENTERADO", p, 0)
    PROVE  MessageTold(y, g, q)
<1>1. x \in InternalOperationalMessage /\ MessageNumbered(h, q) /\ MessageMarked(x, h) /\ MessageCounted(x, h, q)
  BY DEF MessageTold
<1>2. x.version = 1 /\ Len(h) = x.version + Len(q) /\ Len(q) <= MaxResponses /\ q \in Seq(InternalOperationalMessageResponse)
  BY <1>1 DEF MessageCounted, MessageNumbered
<1>3. EventsOf(h, "ENTERADO") = {} /\ EventsOf(h, "READY") = {} /\ x.status # "READY"
  BY <1>1 DEF MessageMarked
<1>4. y \in InternalOperationalMessage /\ y.entered = p /\ y.version = 2 /\ y.status = x.status /\ y.recipient = x.recipient
  <2>1. PICK z : z = [x EXCEPT !.entered = p]
    OBVIOUS
  <2>2. z \in InternalOperationalMessage /\ z.entered = p /\ z.status = x.status /\ z.recipient = x.recipient
    BY <1>1, <2>1 DEF InternalOperationalMessage
  <2>3. AtVersion(y, z, 2)
    BY <1>2, <2>1 DEF AtVersion, EnteredRow
  <2>4. 2 \in 1 .. 3
    OBVIOUS
  <2>5. QED
    BY <2>2, <2>3, <2>4, NextVersion
<1>5. p # NotYet /\ Len(q) \in Nat /\ HasRoom(x, q) /\ 0 \in 0 .. MaxResponses
  BY <1>2, NotesAssumption DEF HasRoom
<1>6. Appended(h, g, e, n) /\ MessageNumbered(g, q) /\ e.event = "ENTERADO"
  BY <1>1, <1>5, EventNumbered
<1>7. EventsOf(g, "ENTERADO") = {n} /\ EventsOf(g, "READY") = {} /\ EventsOf(g, "RESPONSE_ADDED") = EventsOf(h, "RESPONSE_ADDED")
  BY <1>3, <1>6 DEF Appended
<1>8. MessageMarked(y, g)
  <2>1. n \in DOMAIN g
    BY <1>6 DEF Appended
  <2>2. QED
    BY <1>3, <1>4, <1>5, <1>7, <2>1 DEF MessageMarked
<1>9. MessageCounted(y, g, q)
  <2>1. Len(g) = y.version + Len(q)
    BY <1>2, <1>4, <1>5, <1>6 DEF Appended
  <2>2. Cardinality(EventsOf(g, "RESPONSE_ADDED")) = Len(q)
    BY <1>1, <1>7 DEF MessageCounted
  <2>3. QED
    BY <1>2, <1>3, <1>4, <1>5, <2>1, <2>2 DEF MessageCounted
<1>10. ASSUME NEW i \in EventsOf(g, "RESPONSE_ADDED") PROVE ResponseTold(y, g, q, i)
  <2>1. i \in EventsOf(h, "RESPONSE_ADDED") /\ i \in DOMAIN h /\ g[i] = h[i]
    BY <1>6, <1>7 DEF Appended
  <2>2. h[i].response \in DOMAIN q /\ q[h[i].response].author = h[i].actor /\ h[i].actor # x.recipient
    BY <1>3, <2>1 DEF MessageTold, ResponseTold
  <2>3. QED
    BY <1>4, <2>1, <2>2 DEF ResponseTold
<1>11. QED
  BY <1>4, <1>6, <1>8, <1>9, <1>10 DEF MessageTold

\* The recipient marks the message READY.
LEMMA MessageReady ==
    ASSUME NEW x, NEW h, NEW q, MessageTold(x, h, q), NEW p \in Staff, x.entered # NotYet, x.status # "READY",
           NEW t \in PreparedTables \cup {NoTable},
           NEW y, ReadyRow(y, x, p, t),
           NEW n, NEW e, NEW g, NextEvent(h, g, e, n, "READY", p, 0)
    PROVE  MessageTold(y, g, q)
<1>1. x \in InternalOperationalMessage /\ MessageNumbered(h, q) /\ MessageMarked(x, h) /\ MessageCounted(x, h, q)
  BY DEF MessageTold
<1>2. x.version = 2 /\ Len(h) = x.version + Len(q) /\ Len(q) <= MaxResponses /\ q \in Seq(InternalOperationalMessageResponse)
  BY <1>1 DEF MessageCounted, MessageNumbered
<1>3. PICK f \in DOMAIN h : EventsOf(h, "ENTERADO") = {f} /\ EventsOf(h, "READY") = {}
  BY <1>1 DEF MessageMarked
<1>4. y \in InternalOperationalMessage /\ y.entered = x.entered /\ y.version = 3 /\ y.status = "READY" /\ y.recipient = x.recipient
  <2>1. PICK z : z = [x EXCEPT !.status = "READY", !.ready = p, !.table = t]
    OBVIOUS
  <2>2. z \in InternalOperationalMessage /\ z.entered = x.entered /\ z.status = "READY" /\ z.recipient = x.recipient
    BY <1>1, <2>1 DEF InternalOperationalMessage
  <2>3. AtVersion(y, z, 3)
    BY <1>2, <2>1 DEF AtVersion, ReadyRow
  <2>4. 3 \in 1 .. 3
    OBVIOUS
  <2>5. QED
    BY <2>2, <2>3, <2>4, NextVersion
<1>5. Len(q) \in Nat /\ HasRoom(x, q) /\ 0 \in 0 .. MaxResponses
  BY <1>2, NotesAssumption DEF HasRoom
<1>6. Appended(h, g, e, n) /\ MessageNumbered(g, q) /\ e.event = "READY"
  BY <1>1, <1>5, EventNumbered
<1>7. EventsOf(g, "ENTERADO") = {f} /\ EventsOf(g, "READY") = {n} /\ EventsOf(g, "RESPONSE_ADDED") = EventsOf(h, "RESPONSE_ADDED")
  BY <1>3, <1>6 DEF Appended
<1>8. MessageMarked(y, g)
  <2>1. n \in DOMAIN g /\ f \in DOMAIN g /\ f < n
    BY <1>3, <1>6 DEF Appended
  <2>2. QED
    BY <1>3, <1>4, <1>7, <2>1 DEF MessageMarked
<1>9. MessageCounted(y, g, q)
  <2>1. Len(g) = y.version + Len(q)
    BY <1>2, <1>4, <1>5, <1>6 DEF Appended
  <2>2. Cardinality(EventsOf(g, "RESPONSE_ADDED")) = Len(q)
    BY <1>1, <1>7 DEF MessageCounted
  <2>3. QED
    BY <1>2, <1>4, <2>1, <2>2 DEF MessageCounted
<1>10. ASSUME NEW i \in EventsOf(g, "RESPONSE_ADDED") PROVE ResponseTold(y, g, q, i)
  <2>1. i \in EventsOf(h, "RESPONSE_ADDED") /\ i \in DOMAIN h /\ g[i] = h[i] /\ i < n
    BY <1>6, <1>7 DEF Appended
  <2>2. /\ h[i].response \in DOMAIN q /\ q[h[i].response].author = h[i].actor
        /\ h[i].actor = x.recipient => f < i
    BY <1>3, <2>1 DEF MessageTold, ResponseTold
  <2>3. QED
    BY <1>4, <1>7, <2>1, <2>2 DEF ResponseTold
<1>11. QED
  BY <1>4, <1>6, <1>8, <1>9, <1>10 DEF MessageTold

\* A participant responds.
LEMMA MessageAnswered ==
    ASSUME NEW x, NEW h, NEW q, MessageTold(x, h, q), NEW p \in Staff, NEW k \in NoteKeys,
           p = x.recipient => x.status # "READY" /\ x.entered # NotYet,
           NEW l, l = Len(q) + 1, l <= MaxResponses,
           NEW v, v = [author |-> p, key |-> k, sequence |-> l], NEW s, s = Append(q, v),
           NEW n, NEW e, NEW g, NextEvent(h, g, e, n, "RESPONSE_ADDED", p, l)
    PROVE  MessageTold(x, g, s)
<1>1. x \in InternalOperationalMessage /\ MessageNumbered(h, q) /\ MessageMarked(x, h) /\ MessageCounted(x, h, q)
  BY DEF MessageTold
<1>2. /\ x.version \in 1 .. 3 /\ Len(h) = x.version + Len(q)
      /\ h \in Seq(InternalOperationalMessageHistory) /\ q \in Seq(InternalOperationalMessageResponse)
      /\ \A i \in DOMAIN q : q[i].sequence = i
  BY <1>1 DEF MessageCounted, MessageNumbered, InternalOperationalMessage
<1>3. /\ l \in 1 .. MaxResponses /\ l \in 0 .. MaxResponses /\ Len(q) \in Nat
      /\ HasRoom(x, q)
  BY <1>2, NotesAssumption DEF HasRoom
<1>4. v \in InternalOperationalMessageResponse /\ v.author = p /\ v.sequence = l
  BY <1>3 DEF InternalOperationalMessageResponse
<1>5. /\ s \in Seq(InternalOperationalMessageResponse) /\ Len(s) = l /\ DOMAIN s = DOMAIN q \cup {l} /\ s[l] = v
      /\ \A i \in DOMAIN q : s[i] = q[i]
  BY <1>2, <1>4
<1>6. \A i \in DOMAIN s : s[i].sequence = i
  BY <1>2, <1>4, <1>5
<1>7. MessageNumbered(h, s)
  BY <1>1, <1>5, <1>6 DEF MessageNumbered
<1>8. Appended(h, g, e, n) /\ MessageNumbered(g, s) /\ e.event = "RESPONSE_ADDED" /\ e.actor = p /\ e.response = l
  BY <1>3, <1>7, EventNumbered
<1>9. /\ EventsOf(g, "ENTERADO") = EventsOf(h, "ENTERADO") /\ EventsOf(g, "READY") = EventsOf(h, "READY")
      /\ EventsOf(g, "RESPONSE_ADDED") = EventsOf(h, "RESPONSE_ADDED") \cup {n}
  BY <1>8 DEF Appended
<1>10. MessageMarked(x, g)
  <2>1. DOMAIN h \subseteq DOMAIN g
    BY <1>8 DEF Appended
  <2>2. QED
    BY <1>1, <1>9, <2>1 DEF MessageMarked
<1>11. Cardinality(EventsOf(g, "RESPONSE_ADDED")) = Len(s)
  <2>1. IsFiniteSet(DOMAIN h)
    <3>1. DOMAIN h = 1 .. Len(h) /\ Len(h) \in Int /\ 1 \in Int
      BY <1>2
    <3>2. QED
      BY <3>1, FS_Interval
  <2>2. IsFiniteSet(EventsOf(h, "RESPONSE_ADDED")) /\ n \notin EventsOf(h, "RESPONSE_ADDED")
    <3>1. EventsOf(h, "RESPONSE_ADDED") \subseteq DOMAIN h /\ n \notin DOMAIN h
      BY <1>8 DEF Appended
    <3>2. QED
      BY <2>1, <3>1, FS_Subset
  <2>3. Cardinality(EventsOf(h, "RESPONSE_ADDED")) = Len(q)
    BY <1>1 DEF MessageCounted
  <2>4. Cardinality(EventsOf(h, "RESPONSE_ADDED") \cup {n}) = Cardinality(EventsOf(h, "RESPONSE_ADDED")) + 1
    BY <2>2, FS_AddElement
  <2>5. QED
    BY <1>5, <1>9, <2>3, <2>4
<1>12. MessageCounted(x, g, s)
  <2>1. Len(g) = x.version + Len(s) /\ Len(s) <= MaxResponses
    BY <1>2, <1>3, <1>5, <1>8 DEF Appended
  <2>2. QED
    BY <1>1, <1>11, <2>1 DEF MessageCounted
<1>13. ASSUME NEW i \in EventsOf(g, "RESPONSE_ADDED") PROVE ResponseTold(x, g, s, i)
  <2>1. CASE i = n
    <3>1. g[i].response \in DOMAIN s /\ s[g[i].response].author = g[i].actor /\ g[i].actor = p
      BY <1>4, <1>5, <1>8, <2>1 DEF Appended
    <3>2. ASSUME p = x.recipient
          PROVE  (\E f \in EventsOf(g, "ENTERADO") : f < i) /\ \A r \in EventsOf(g, "READY") : i < r
      <4>1. EventsOf(h, "READY") = {} /\ \E f \in DOMAIN h : EventsOf(h, "ENTERADO") = {f}
        BY <1>1, <3>2 DEF MessageMarked
      <4>2. QED
        BY <1>8, <1>9, <2>1, <4>1 DEF Appended
    <3>3. QED
      BY <3>1, <3>2 DEF ResponseTold
  <2>2. CASE i # n
    <3>1. i \in EventsOf(h, "RESPONSE_ADDED") /\ i \in DOMAIN h /\ g[i] = h[i]
      BY <1>8, <1>9, <2>2 DEF Appended
    <3>2. ResponseTold(x, h, q, i)
      BY <3>1 DEF MessageTold
    <3>3. QED
      BY <1>5, <1>9, <3>1, <3>2 DEF ResponseTold
  <2>3. QED
    BY <2>1, <2>2
<1>14. QED
  BY <1>1, <1>8, <1>10, <1>12, <1>13 DEF MessageTold

\* A new message.
LEMMA MessageCreated ==
    ASSUME NEW p \in Staff, NEW r \in Staff, NEW k \in NoteKeys,
           NEW x, x = [creator |-> p, recipient |-> r, key |-> k, status |-> "REQUESTED", entered |-> NotYet,
                       ready |-> NotYet, table |-> NoTable, version |-> 1],
           NEW h, h = <<Event("MESSAGE_CREATED", p, 1, 0)>>, NEW q, q = <<>>
    PROVE  MessageTold(x, h, q)
<1>1. x \in InternalOperationalMessage /\ x.entered = NotYet /\ x.status = "REQUESTED" /\ x.version = 1
  BY DEF InternalOperationalMessage
<1>2. PICK e : e = Event("MESSAGE_CREATED", p, 1, 0)
  OBVIOUS
<1>3. e \in InternalOperationalMessageHistory /\ e.event = "MESSAGE_CREATED" /\ e.sequence = 1
  <2>1. 1 \in 1 .. MaxResponses + 3 /\ 0 \in 0 .. MaxResponses
    BY NotesAssumption
  <2>2. QED
    BY <1>2, <2>1, EventIs
<1>4. h = <<e>> /\ h \in Seq(InternalOperationalMessageHistory) /\ Len(h) = 1 /\ DOMAIN h = {1} /\ h[1] = e
  BY <1>2, <1>3
<1>5. /\ EventsOf(h, "MESSAGE_CREATED") = {1} /\ EventsOf(h, "ENTERADO") = {} /\ EventsOf(h, "READY") = {}
      /\ EventsOf(h, "RESPONSE_ADDED") = {}
  BY <1>3, <1>4 DEF EventsOf
<1>6. q \in Seq(InternalOperationalMessageResponse) /\ Len(q) = 0 /\ DOMAIN q = {}
  OBVIOUS
<1>7. MessageNumbered(h, q)
  BY <1>3, <1>4, <1>5, <1>6 DEF MessageNumbered
<1>8. MessageMarked(x, h)
  BY <1>1, <1>5 DEF MessageMarked
<1>9. MessageCounted(x, h, q)
  <2>1. Cardinality(EventsOf(h, "RESPONSE_ADDED")) = 0
    BY <1>5, FS_EmptySet
  <2>2. QED
    BY <1>1, <1>4, <1>6, <2>1, NotesAssumption DEF MessageCounted
<1>10. QED
  BY <1>1, <1>5, <1>7, <1>8, <1>9 DEF MessageTold

\* One message changes its row, its history and its responses.
LEMMA MessageReplaced ==
    ASSUME NEW n, NEW h, NEW q, MessagesSound(n, h, q), NEW m \in DOMAIN n,
           NEW y, NEW g, NEW s, MessageTold(y, g, s),
           NEW n2, n2 = [n EXCEPT ![m] = y], NEW h2, h2 = [h EXCEPT ![m] = g], NEW q2, q2 = [q EXCEPT ![m] = s]
    PROVE  MessagesSound(n2, h2, q2)
<1>1. /\ n \in Seq(InternalOperationalMessage) /\ Len(h) = Len(n) /\ Len(q) = Len(n)
      /\ h \in Seq(Seq(InternalOperationalMessageHistory)) /\ q \in Seq(Seq(InternalOperationalMessageResponse))
      /\ \A i \in DOMAIN n : MessageTold(n[i], h[i], q[i])
  BY DEF MessagesSound
<1>2. y \in InternalOperationalMessage /\ g \in Seq(InternalOperationalMessageHistory) /\ s \in Seq(InternalOperationalMessageResponse)
  BY DEF MessageTold, MessageNumbered
<1>3. m \in DOMAIN h /\ m \in DOMAIN q /\ DOMAIN h = DOMAIN n /\ DOMAIN q = DOMAIN n
  BY <1>1
<1>4. n2 \in Seq(InternalOperationalMessage) /\ Len(n2) = Len(n) /\ n2[m] = y /\ \A i \in DOMAIN n2 : i \in DOMAIN n /\ (i # m => n2[i] = n[i])
  BY <1>1, <1>2
<1>5. h2 \in Seq(Seq(InternalOperationalMessageHistory)) /\ Len(h2) = Len(h) /\ h2[m] = g /\ \A i \in DOMAIN h : i # m => h2[i] = h[i]
  BY <1>1, <1>2, <1>3
<1>6. q2 \in Seq(Seq(InternalOperationalMessageResponse)) /\ Len(q2) = Len(q) /\ q2[m] = s /\ \A i \in DOMAIN q : i # m => q2[i] = q[i]
  BY <1>1, <1>2, <1>3
<1>7. ASSUME NEW i \in DOMAIN n2 PROVE MessageTold(n2[i], h2[i], q2[i])
  <2>1. CASE i = m
    BY <1>4, <1>5, <1>6, <2>1
  <2>2. CASE i # m
    <3>1. i \in DOMAIN n /\ n2[i] = n[i] /\ h2[i] = h[i] /\ q2[i] = q[i]
      BY <1>3, <1>4, <1>5, <1>6, <2>2
    <3>2. QED
      BY <1>1, <3>1
  <2>3. QED
    BY <2>1, <2>2
<1>8. QED
  BY <1>1, <1>4, <1>5, <1>6, <1>7 DEF MessagesSound

\* Histories and responses only grow, so what the other commands saw of them stays a beginning.
Grows(h, h2) == DOMAIN h \subseteq DOMAIN h2 /\ \A m \in DOMAIN h : Len(h[m]) \in Nat /\ Len(h2[m]) \in Nat /\ Len(h[m]) <= Len(h2[m])

\* A command ends, or none does, while the messages grow.
LEMMA SnapshotsKept ==
    ASSUME NEW w, NEW h, NEW q, SnapshotsSound(w, h, q), NEW h2, Grows(h, h2), NEW q2, Grows(q, q2), DOMAIN q = DOMAIN h,
           NEW w2, w2 = w \/ \E p \in Staff : w2 = [w EXCEPT ![p] = NoNote]
    PROVE  SnapshotsSound(w2, h2, q2)
<1>1. /\ w \in [Staff -> {NoNote} \cup NoteUnderWay]
      /\ \A p \in Staff : w[p] # NoNote => /\ w[p].on \in DOMAIN h
                                           /\ w[p].events <= Len(h[w[p].on])
                                           /\ Len(w[p].replies) <= Len(q[w[p].on])
  BY DEF SnapshotsSound
<1>2. w2 \in [Staff -> {NoNote} \cup NoteUnderWay] /\ \A p \in Staff : w2[p] # NoNote => w2[p] = w[p]
  BY <1>1
<1>3. ASSUME NEW p \in Staff, w2[p] # NoNote
      PROVE  w2[p].on \in DOMAIN h2 /\ w2[p].events <= Len(h2[w2[p].on]) /\ Len(w2[p].replies) <= Len(q2[w2[p].on])
  <2>1. PICK c : c = w2[p]
    OBVIOUS
  <2>2. c \in NoteUnderWay /\ c.on \in DOMAIN h /\ c.events <= Len(h[c.on]) /\ Len(c.replies) <= Len(q[c.on])
    BY <1>1, <1>2, <1>3, <2>1
  <2>3. c.events \in Nat /\ Len(c.replies) \in Nat
    BY <2>2 DEF NoteUnderWay
  <2>4. PICK o : o = c.on
    OBVIOUS
  <2>5. /\ o \in DOMAIN h2 /\ Len(h[o]) \in Nat /\ Len(h2[o]) \in Nat /\ Len(h[o]) <= Len(h2[o])
        /\ Len(q[o]) \in Nat /\ Len(q2[o]) \in Nat /\ Len(q[o]) <= Len(q2[o])
    BY <2>2, <2>4 DEF Grows
  <2>6. c.events <= Len(h2[o]) /\ Len(c.replies) <= Len(q2[o])
    <3>1. PICK a, b : a = c.events /\ b = Len(c.replies)
      OBVIOUS
    <3>2. a \in Nat /\ b \in Nat /\ a <= Len(h[o]) /\ b <= Len(q[o])
      BY <2>2, <2>3, <2>4, <3>1
    <3>3. a <= Len(h2[o]) /\ b <= Len(q2[o])
      BY <2>5, <3>2
    <3>4. QED
      BY <3>1, <3>3
  <2>7. QED
    BY <2>1, <2>4, <2>5, <2>6
<1>4. QED
  BY <1>2, <1>3 DEF SnapshotsSound

\* The lengths of the histories and the responses of sound messages are numbers.
LEMMA MessagesHave ==
    ASSUME NEW n, NEW h, NEW q, MessagesSound(n, h, q)
    PROVE  /\ DOMAIN h = DOMAIN n /\ DOMAIN q = DOMAIN n /\ Grows(h, h) /\ Grows(q, q)
           /\ \A m \in DOMAIN n : Len(h[m]) \in Nat /\ Len(q[m]) \in Nat
<1>1. /\ n \in Seq(InternalOperationalMessage) /\ Len(h) = Len(n) /\ Len(q) = Len(n)
      /\ h \in Seq(Seq(InternalOperationalMessageHistory)) /\ q \in Seq(Seq(InternalOperationalMessageResponse))
  BY DEF MessagesSound
<1>2. DOMAIN h = DOMAIN n /\ DOMAIN q = DOMAIN n
  BY <1>1
<1>3. ASSUME NEW m \in DOMAIN h PROVE Len(h[m]) \in Nat
  <2>1. h[m] \in Seq(InternalOperationalMessageHistory)
    BY <1>1
  <2>2. QED
    BY <2>1
<1>4. ASSUME NEW m \in DOMAIN q PROVE Len(q[m]) \in Nat
  <2>1. q[m] \in Seq(InternalOperationalMessageResponse)
    BY <1>1
  <2>2. QED
    BY <2>1
<1>5. QED
  BY <1>2, <1>3, <1>4 DEF Grows

\* A number that no row carries, next to one seen, is the next number: nobody wrote meanwhile.
LEMMA NextIsFree ==
    ASSUME NEW S, NEW h \in Seq(S), \A i \in DOMAIN h : h[i].sequence = i, NEW k \in Nat, k <= Len(h),
           \A e \in Range(h) : e.sequence # k + 1
    PROVE  k = Len(h)
<1>1. SUFFICES ASSUME k < Len(h) PROVE FALSE
  OBVIOUS
<1>2. PICK i : i = k + 1
  OBVIOUS
<1>3. i \in DOMAIN h
  BY <1>1, <1>2
<1>4. h[i] \in Range(h) /\ h[i].sequence = i
  BY <1>3 DEF Range
<1>5. QED
  BY <1>2, <1>4

\* What a command under way holds.
LEMMA CommandHolds ==
    ASSUME NotesInv, NEW p \in Staff, noting[p] # NoNote, NEW m, m = noting[p].on, NEW k, k = noting[p].events,
           NEW r, r = noting[p].replies
    PROVE  /\ m \in DOMAIN note /\ m \in DOMAIN noteHistory /\ m \in DOMAIN noteReplies
           /\ MessageTold(note[m], noteHistory[m], noteReplies[m])
           /\ k \in Nat /\ k <= Len(noteHistory[m]) /\ r \in Seq(InternalOperationalMessageResponse) /\ Len(r) <= Len(noteReplies[m])
           /\ noting[p].preparable \subseteq PreparedTables
<1>1. MessagesSound(note, noteHistory, noteReplies) /\ SnapshotsSound(noting, noteHistory, noteReplies)
  BY DEF NotesInv
<1>2. noting[p] \in NoteUnderWay /\ m \in DOMAIN noteHistory /\ k <= Len(noteHistory[m]) /\ Len(r) <= Len(noteReplies[m])
  BY <1>1 DEF SnapshotsSound
<1>3. k \in Nat /\ r \in Seq(InternalOperationalMessageResponse) /\ noting[p].preparable \subseteq PreparedTables
  BY <1>2 DEF NoteUnderWay
<1>4. DOMAIN noteHistory = DOMAIN note /\ DOMAIN noteReplies = DOMAIN note
  BY <1>1, MessagesHave
<1>5. MessageTold(note[m], noteHistory[m], noteReplies[m])
  BY <1>1, <1>2, <1>4 DEF MessagesSound
<1>6. QED
  BY <1>2, <1>3, <1>4, <1>5

\* AppendHistory: the event takes the next number.
LEMMA HistoryAppended ==
    ASSUME NotesInv, NEW p \in Staff, noting[p] # NoNote, NEW m, m = noting[p].on,
           NEW kind, NEW r, AppendHistory(p, kind, r)
    PROVE  \E n, e, g : NextEvent(noteHistory[m], g, e, n, kind, p, r) /\ noteHistory' = [noteHistory EXCEPT ![m] = g]
<1>1. PICK k : k = noting[p].events
  OBVIOUS
<1>2. MessageTold(note[m], noteHistory[m], noteReplies[m]) /\ k \in Nat /\ k <= Len(noteHistory[m])
  BY <1>1, CommandHolds
<1>3. PICK h : h = noteHistory[m]
  OBVIOUS
<1>4. h \in Seq(InternalOperationalMessageHistory) /\ (\A i \in DOMAIN h : h[i].sequence = i) /\ k <= Len(h)
  BY <1>2, <1>3 DEF MessageTold, MessageNumbered
<1>5. \A e \in Range(h) : e.sequence # k + 1
  BY <1>1, <1>3 DEF AppendHistory
<1>6. k = Len(h)
  BY <1>2, <1>4, <1>5, NextIsFree
<1>7. PICK n, e, g : n = k + 1 /\ e = Event(kind, p, n, r) /\ g = Append(h, e)
  OBVIOUS
<1>8. noteHistory' = [noteHistory EXCEPT ![m] = g]
  BY <1>1, <1>3, <1>7 DEF AppendHistory
<1>9. NextEvent(noteHistory[m], g, e, n, kind, p, r)
  BY <1>3, <1>6, <1>7 DEF NextEvent
<1>10. QED
  BY <1>8, <1>9

\* The command of p on message m writes: the row becomes y, the history g, the responses s.
Written(p, m, y, g, s) ==
    /\ note' = [note EXCEPT ![m] = y] /\ noteHistory' = [noteHistory EXCEPT ![m] = g] /\ noteReplies' = [noteReplies EXCEPT ![m] = s]
    /\ noting' = [noting EXCEPT ![p] = NoNote] /\ eligible' = eligible /\ preparable' = preparable

\* A write that leaves its message told and its sequences no shorter keeps the invariant.
LEMMA WriteGoal ==
    ASSUME NotesInv, NEW p \in Staff, NEW m \in DOMAIN note, NEW y, NEW g, NEW s, MessageTold(y, g, s), Written(p, m, y, g, s),
           Len(noteHistory[m]) <= Len(g), Len(noteReplies[m]) <= Len(s)
    PROVE  NotesInv'
<1>1. MessagesSound(note, noteHistory, noteReplies) /\ SnapshotsSound(noting, noteHistory, noteReplies)
  BY DEF NotesInv
<1>2. PICK h, q, h2, q2 : h = noteHistory /\ q = noteReplies /\ h2 = noteHistory' /\ q2 = noteReplies'
  OBVIOUS
<1>3. MessagesSound(note', h2, q2)
  BY <1>1, <1>2, MessageReplaced DEF Written
<1>4. DOMAIN h = DOMAIN note /\ DOMAIN q = DOMAIN note /\ \A i \in DOMAIN note : Len(h[i]) \in Nat /\ Len(q[i]) \in Nat
  BY <1>1, <1>2, MessagesHave
<1>5. Len(g) \in Nat /\ Len(s) \in Nat
  BY DEF MessageTold, MessageNumbered
<1>6. h2 = [h EXCEPT ![m] = g] /\ q2 = [q EXCEPT ![m] = s] /\ Len(h[m]) <= Len(g) /\ Len(q[m]) <= Len(s)
  BY <1>2 DEF Written
<1>7. Grows(h, h2)
  BY <1>4, <1>5, <1>6 DEF Grows
<1>8. Grows(q, q2)
  BY <1>4, <1>5, <1>6 DEF Grows
<1>9. SnapshotsSound(noting', h2, q2)
  BY <1>1, <1>2, <1>4, <1>7, <1>8, SnapshotsKept DEF Written
<1>10. eligible' \subseteq Staff /\ preparable' \subseteq PreparedTables
  BY DEF NotesInv, Written
<1>11. QED
  BY <1>2, <1>3, <1>9, <1>10 DEF NotesInv

\* The length of what NextEvent appends to.
LEMMA LongerByOne ==
    ASSUME NEW h \in Seq(InternalOperationalMessageHistory), NEW g, NEW e, NEW n, NEW kind, NEW p, NEW r,
           NextEvent(h, g, e, n, kind, p, r)
    PROVE  Len(h) <= Len(g)
<1>1. Len(g) = Len(h) + 1 /\ Len(h) \in Nat
  BY DEF NextEvent
<1>2. QED
  BY <1>1

\* EnterMessage keeps the invariant.
LEMMA EnterMessageGoal ==
    ASSUME NotesInv, NEW p \in Staff, EnterMessage(p)
    PROVE  NotesInv'
<1>1. PICK m, y : m = noting[p].on /\ y = [note[m] EXCEPT !.entered = p, !.version = note[m].version + 1]
  OBVIOUS
<1>2. noting[p] # NoNote /\ AppendHistory(p, "ENTERADO", 0)
  BY DEF EnterMessage
<1>3. PICK n, e, g : NextEvent(noteHistory[m], g, e, n, "ENTERADO", p, 0) /\ noteHistory' = [noteHistory EXCEPT ![m] = g]
  BY <1>1, <1>2, HistoryAppended
<1>4. /\ m \in DOMAIN note /\ m \in DOMAIN noteReplies
      /\ MessageTold(note[m], noteHistory[m], noteReplies[m])
  BY <1>1, <1>2, CommandHolds
<1>5. EnteredRow(y, note[m], p) /\ note[m].entered = NotYet /\ note' = [note EXCEPT ![m] = y]
  BY <1>1 DEF EnterMessage, EnteredRow
<1>6. MessageTold(y, g, noteReplies[m])
  BY <1>3, <1>4, <1>5, MessageEntered
<1>7. /\ noteHistory[m] \in Seq(InternalOperationalMessageHistory) /\ Len(noteReplies[m]) \in Nat
  BY <1>4 DEF MessageTold, MessageNumbered
<1>8. Len(noteHistory[m]) <= Len(g) /\ Len(noteReplies[m]) <= Len(noteReplies[m])
  BY <1>3, <1>7, LongerByOne
<1>9. Written(p, m, y, g, noteReplies[m])
  <2>1. noteReplies' = noteReplies /\ noting' = [noting EXCEPT ![p] = NoNote] /\ eligible' = eligible /\ preparable' = preparable
    BY DEF EnterMessage, EndNote
  <2>2. noteReplies \in Seq(Seq(InternalOperationalMessageResponse))
    BY DEF NotesInv, MessagesSound
  <2>3. noteReplies' = [noteReplies EXCEPT ![m] = noteReplies[m]]
    BY <1>4, <2>1, <2>2
  <2>4. QED
    BY <1>3, <1>5, <2>1, <2>3 DEF Written
<1>10. QED
  BY <1>4, <1>6, <1>8, <1>9, WriteGoal

\* MarkReady keeps the invariant.
LEMMA MarkReadyGoal ==
    ASSUME NotesInv, NEW p \in Staff, NEW t \in PreparedTables \cup {NoTable}, MarkReady(p, t)
    PROVE  NotesInv'
<1>1. PICK m, y : /\ m = noting[p].on
                  /\ y = [note[m] EXCEPT !.status = "READY", !.ready = p, !.table = t, !.version = note[m].version + 1]
  OBVIOUS
<1>2. noting[p] # NoNote /\ AppendHistory(p, "READY", 0)
  BY DEF MarkReady
<1>3. PICK n, e, g : NextEvent(noteHistory[m], g, e, n, "READY", p, 0) /\ noteHistory' = [noteHistory EXCEPT ![m] = g]
  BY <1>1, <1>2, HistoryAppended
<1>4. /\ m \in DOMAIN note /\ m \in DOMAIN noteReplies
      /\ MessageTold(note[m], noteHistory[m], noteReplies[m])
  BY <1>1, <1>2, CommandHolds
<1>5. /\ ReadyRow(y, note[m], p, t) /\ note[m].entered # NotYet /\ note[m].status # "READY"
      /\ note' = [note EXCEPT ![m] = y]
  BY <1>1 DEF MarkReady, ReadyRow
<1>6. MessageTold(y, g, noteReplies[m])
  BY <1>3, <1>4, <1>5, MessageReady
<1>7. /\ noteHistory[m] \in Seq(InternalOperationalMessageHistory) /\ Len(noteReplies[m]) \in Nat
  BY <1>4 DEF MessageTold, MessageNumbered
<1>8. Len(noteHistory[m]) <= Len(g) /\ Len(noteReplies[m]) <= Len(noteReplies[m])
  BY <1>3, <1>7, LongerByOne
<1>9. Written(p, m, y, g, noteReplies[m])
  <2>1. noteReplies' = noteReplies /\ noting' = [noting EXCEPT ![p] = NoNote] /\ eligible' = eligible /\ preparable' = preparable
    BY DEF MarkReady, EndNote
  <2>2. noteReplies \in Seq(Seq(InternalOperationalMessageResponse))
    BY DEF NotesInv, MessagesSound
  <2>3. noteReplies' = [noteReplies EXCEPT ![m] = noteReplies[m]]
    BY <1>4, <2>1, <2>2
  <2>4. QED
    BY <1>3, <1>5, <2>1, <2>3 DEF Written
<1>10. QED
  BY <1>4, <1>6, <1>8, <1>9, WriteGoal

\* AddResponse keeps the invariant.
LEMMA AddResponseGoal ==
    ASSUME NotesInv, NEW p \in Staff, NEW k \in NoteKeys, AddResponse(p, k)
    PROVE  NotesInv'
<1>1. PICK m, c, q, l : m = noting[p].on /\ c = noting[p].replies /\ q = noteReplies[m] /\ l = Len(c) + 1
  OBVIOUS
<1>2. noting[p] # NoNote /\ AppendHistory(p, "RESPONSE_ADDED", l)
  BY <1>1 DEF AddResponse
<1>3. PICK n, e, g : NextEvent(noteHistory[m], g, e, n, "RESPONSE_ADDED", p, l) /\ noteHistory' = [noteHistory EXCEPT ![m] = g]
  BY <1>1, <1>2, HistoryAppended
<1>4. /\ m \in DOMAIN note /\ m \in DOMAIN noteReplies
      /\ MessageTold(note[m], noteHistory[m], q) /\ c \in Seq(InternalOperationalMessageResponse) /\ Len(c) <= Len(q)
  BY <1>1, <1>2, CommandHolds
<1>5. /\ noteHistory[m] \in Seq(InternalOperationalMessageHistory)
      /\ q \in Seq(InternalOperationalMessageResponse) /\ Len(q) \in Nat /\ Len(c) \in Nat
      /\ \A i \in DOMAIN q : q[i].sequence = i
  BY <1>4 DEF MessageTold, MessageNumbered
<1>6. \A e1 \in Range(q) : e1.sequence # Len(c) + 1
  BY <1>1 DEF AddResponse
<1>7. l = Len(q) + 1
  <2>1. Len(c) = Len(q)
    BY <1>4, <1>5, <1>6, NextIsFree
  <2>2. QED
    BY <1>1, <2>1
<1>8. PICK v, s : v = [author |-> p, key |-> k, sequence |-> l] /\ s = Append(q, v)
  OBVIOUS
<1>9. /\ noteReplies' = [noteReplies EXCEPT ![m] = s] /\ l <= MaxResponses
      /\ p = note[m].recipient => note[m].status # "READY" /\ note[m].entered # NotYet
  BY <1>1, <1>8 DEF AddResponse, MayRespond
<1>10. MessageTold(note[m], g, s)
  BY <1>3, <1>4, <1>7, <1>8, <1>9, MessageAnswered
<1>11. Len(noteHistory[m]) <= Len(g)
  BY <1>3, <1>5, LongerByOne
<1>12. Len(noteReplies[m]) <= Len(s)
  <2>1. Len(s) = Len(q) + 1
    BY <1>5, <1>8
  <2>2. QED
    BY <1>1, <1>5, <2>1
<1>13. Written(p, m, note[m], g, s)
  <2>1. note' = note /\ noting' = [noting EXCEPT ![p] = NoNote] /\ eligible' = eligible /\ preparable' = preparable
    BY DEF AddResponse, EndNote
  <2>2. note \in Seq(InternalOperationalMessage)
    BY DEF NotesInv, MessagesSound
  <2>3. note' = [note EXCEPT ![m] = note[m]]
    BY <1>4, <2>1, <2>2
  <2>4. QED
    BY <1>3, <1>9, <2>1, <2>3 DEF Written
<1>14. QED
  BY <1>4, <1>10, <1>11, <1>12, <1>13, WriteGoal

\* CreateMessage keeps the invariant.
LEMMA CreateMessageGoal ==
    ASSUME NotesInv, NEW p \in Staff, NEW q \in Staff, NEW k \in NoteKeys, CreateMessage(p, q, k)
    PROVE  NotesInv'
<1>1. PICK x, g, s : /\ x = [creator |-> p, recipient |-> q, key |-> k, status |-> "REQUESTED", entered |-> NotYet,
                             ready |-> NotYet, table |-> NoTable, version |-> 1]
                     /\ g = <<Event("MESSAGE_CREATED", p, 1, 0)>> /\ s = <<>>
  OBVIOUS
<1>2. MessageTold(x, g, s)
  BY <1>1, MessageCreated
<1>3. note' = Append(note, x) /\ noteHistory' = Append(noteHistory, g) /\ noteReplies' = Append(noteReplies, s)
  BY <1>1 DEF CreateMessage
<1>4. MessagesSound(note, noteHistory, noteReplies) /\ SnapshotsSound(noting, noteHistory, noteReplies)
  BY DEF NotesInv
<1>5. PICK n, h, r, n2, h2, r2 : n = note /\ h = noteHistory /\ r = noteReplies /\ n2 = note' /\ h2 = noteHistory' /\ r2 = noteReplies'
  OBVIOUS
<1>6. /\ n \in Seq(InternalOperationalMessage) /\ Len(h) = Len(n) /\ Len(r) = Len(n)
      /\ h \in Seq(Seq(InternalOperationalMessageHistory)) /\ r \in Seq(Seq(InternalOperationalMessageResponse))
      /\ \A i \in DOMAIN n : MessageTold(n[i], h[i], r[i])
  BY <1>4, <1>5 DEF MessagesSound
<1>7. x \in InternalOperationalMessage /\ g \in Seq(InternalOperationalMessageHistory) /\ s \in Seq(InternalOperationalMessageResponse)
  BY <1>2 DEF MessageTold, MessageNumbered
<1>8. n2 = Append(n, x) /\ h2 = Append(h, g) /\ r2 = Append(r, s)
  BY <1>3, <1>5
<1>9. PICK l : l = Len(n) + 1
  OBVIOUS
<1>10. /\ n2 \in Seq(InternalOperationalMessage) /\ Len(n2) = l /\ n2[l] = x /\ DOMAIN n2 = DOMAIN n \cup {l}
       /\ \A i \in DOMAIN n : n2[i] = n[i] /\ i # l
  BY <1>6, <1>7, <1>8, <1>9
<1>11. /\ h2 \in Seq(Seq(InternalOperationalMessageHistory)) /\ Len(h2) = l /\ h2[l] = g /\ DOMAIN h \subseteq DOMAIN h2
       /\ \A i \in DOMAIN h : h2[i] = h[i]
  BY <1>6, <1>7, <1>8, <1>9
<1>12. /\ r2 \in Seq(Seq(InternalOperationalMessageResponse)) /\ Len(r2) = l /\ r2[l] = s /\ DOMAIN r \subseteq DOMAIN r2
       /\ \A i \in DOMAIN r : r2[i] = r[i]
  BY <1>6, <1>7, <1>8, <1>9
<1>13. DOMAIN h = DOMAIN n /\ DOMAIN r = DOMAIN n /\ Grows(h, h) /\ Grows(r, r)
  BY <1>4, <1>5, MessagesHave
<1>14. ASSUME NEW i \in DOMAIN n2 PROVE MessageTold(n2[i], h2[i], r2[i])
  <2>1. CASE i = l
    BY <1>2, <1>10, <1>11, <1>12, <2>1
  <2>2. CASE i # l
    <3>1. i \in DOMAIN n /\ n2[i] = n[i] /\ h2[i] = h[i] /\ r2[i] = r[i]
      BY <1>10, <1>11, <1>12, <1>13, <2>2
    <3>2. QED
      BY <1>6, <3>1
  <2>3. QED
    BY <2>1, <2>2
<1>15. MessagesSound(n2, h2, r2)
  BY <1>10, <1>11, <1>12, <1>14 DEF MessagesSound
<1>16. Grows(h, h2) /\ Grows(r, r2)
  BY <1>11, <1>12, <1>13 DEF Grows
<1>17. SnapshotsSound(noting, h2, r2)
  BY <1>4, <1>5, <1>13, <1>16, SnapshotsKept
<1>18. noting' = noting /\ eligible' = eligible /\ preparable' = preparable
  BY DEF CreateMessage
<1>19. QED
  BY <1>5, <1>15, <1>17, <1>18 DEF NotesInv

\* BeginNote keeps the invariant.
LEMMA BeginNoteGoal ==
    ASSUME NotesInv, NEW p \in Staff, NEW m \in DOMAIN note, BeginNote(p, m)
    PROVE  NotesInv'
<1>1. MessagesSound(note, noteHistory, noteReplies) /\ SnapshotsSound(noting, noteHistory, noteReplies)
      /\ eligible \subseteq Staff /\ preparable \subseteq PreparedTables
  BY DEF NotesInv
<1>2. PICK b \in BOOLEAN : b = (p \in eligible)
  <2>1. (p \in eligible) \in BOOLEAN
    OBVIOUS
  <2>2. QED
    BY <2>1, Zenon
<1>3. PICK c : c = [on |-> m, events |-> Len(noteHistory[m]), replies |-> noteReplies[m], eligible |-> b, preparable |-> preparable]
  OBVIOUS
<1>4. noting' = [noting EXCEPT ![p] = c]
  BY <1>2, <1>3, Zenon DEF BeginNote
<1>5. /\ note' = note /\ noteHistory' = noteHistory /\ noteReplies' = noteReplies /\ eligible' = eligible /\ preparable' = preparable
  BY DEF BeginNote
<1>6. m \in DOMAIN noteHistory /\ Len(noteHistory[m]) \in Nat /\ Len(noteReplies[m]) \in Nat
  BY <1>1, MessagesHave
<1>7. m \in Nat /\ noteReplies[m] \in Seq(InternalOperationalMessageResponse)
  <2>1. note \in Seq(InternalOperationalMessage) /\ MessageTold(note[m], noteHistory[m], noteReplies[m])
    BY <1>1 DEF MessagesSound
  <2>2. m \in Nat
    BY <2>1
  <2>3. noteReplies[m] \in Seq(InternalOperationalMessageResponse)
    BY <2>1 DEF MessageTold, MessageNumbered
  <2>4. QED
    BY <2>2, <2>3
<1>8. c \in NoteUnderWay /\ c.on = m /\ c.events = Len(noteHistory[m]) /\ c.replies = noteReplies[m]
  BY <1>1, <1>3, <1>6, <1>7 DEF NoteUnderWay
<1>9. /\ noting \in [Staff -> {NoNote} \cup NoteUnderWay]
      /\ \A u \in Staff : noting[u] # NoNote => /\ noting[u].on \in DOMAIN noteHistory
                                                /\ noting[u].events <= Len(noteHistory[noting[u].on])
                                                /\ Len(noting[u].replies) <= Len(noteReplies[noting[u].on])
  BY <1>1 DEF SnapshotsSound
<1>10. PICK w : w = noting'
  OBVIOUS
<1>11. w \in [Staff -> {NoNote} \cup NoteUnderWay] /\ w[p] = c /\ \A u \in Staff : u # p => w[u] = noting[u]
  BY <1>4, <1>8, <1>9, <1>10
<1>12. SnapshotsSound(w, noteHistory, noteReplies)
  <2>1. ASSUME NEW u \in Staff, w[u] # NoNote
        PROVE  w[u].on \in DOMAIN noteHistory /\ w[u].events <= Len(noteHistory[w[u].on]) /\ Len(w[u].replies) <= Len(noteReplies[w[u].on])
    <3>1. CASE u = p
      BY <1>6, <1>8, <1>11, <3>1
    <3>2. CASE u # p
      BY <1>9, <1>11, <2>1, <3>2
    <3>3. QED
      BY <3>1, <3>2
  <2>2. QED
    BY <1>11, <2>1 DEF SnapshotsSound
<1>13. QED
  BY <1>1, <1>5, <1>10, <1>12 DEF NotesInv

\* A command fails, or the staff and the tables are administered.
LEMMA OtherNoteSteps ==
    ASSUME NotesInv,
           \/ \E p \in Staff : FailNote(p) \/ EligibilityChanges(p)
           \/ \E t \in PreparedTables : TablesChange(t)
           \/ UNCHANGED noteVars
    PROVE  NotesInv'
<1>1. /\ MessagesSound(note, noteHistory, noteReplies) /\ SnapshotsSound(noting, noteHistory, noteReplies)
      /\ eligible \subseteq Staff /\ preparable \subseteq PreparedTables
  BY DEF NotesInv
<1>2. note' = note /\ noteHistory' = noteHistory /\ noteReplies' = noteReplies
  BY DEF FailNote, EligibilityChanges, TablesChange, noteVars
<1>3. noting' = noting \/ \E p \in Staff : noting' = [noting EXCEPT ![p] = NoNote]
  BY DEF FailNote, EndNote, EligibilityChanges, TablesChange, noteVars
<1>4. SnapshotsSound(noting', noteHistory, noteReplies)
  <2>1. Grows(noteHistory, noteHistory) /\ Grows(noteReplies, noteReplies) /\ DOMAIN noteReplies = DOMAIN noteHistory
    BY <1>1, MessagesHave
  <2>2. QED
    BY <1>1, <1>3, <2>1, SnapshotsKept
<1>5. eligible' \subseteq Staff
  BY <1>1 DEF FailNote, EndNote, EligibilityChanges, TablesChange, noteVars
<1>6. preparable' \subseteq PreparedTables
  BY <1>1 DEF FailNote, EndNote, EligibilityChanges, TablesChange, noteVars
<1>7. QED
  BY <1>1, <1>2, <1>4, <1>5, <1>6 DEF NotesInv

\* The initial states satisfy the invariant.
LEMMA NotesStart == NotesInit => NotesInv
<1>1. HAVE NotesInit
<1>2. MessagesSound(note, noteHistory, noteReplies)
  <2>1. PICK n, h, q : n = note /\ h = noteHistory /\ q = noteReplies
    OBVIOUS
  <2>2. n = <<>> /\ h = <<>> /\ q = <<>>
    BY <1>1, <2>1 DEF NotesInit
  <2>3. MessagesSound(n, h, q)
    BY <2>2 DEF MessagesSound
  <2>4. QED
    BY <2>1, <2>3
<1>3. SnapshotsSound(noting, noteHistory, noteReplies)
  BY <1>1 DEF NotesInit, SnapshotsSound
<1>4. eligible \subseteq Staff /\ preparable \subseteq PreparedTables
  BY <1>1 DEF NotesInit
<1>5. QED
  BY <1>2, <1>3, <1>4 DEF NotesInv

\* Every step keeps the invariant.
LEMMA NotesStep == NotesInv /\ [NotesNext]_noteVars => NotesInv'
<1>1. HAVE NotesInv /\ [NotesNext]_noteVars
<1>2. CASE UNCHANGED noteVars
  BY <1>1, <1>2, OtherNoteSteps
<1>3. CASE \E p, q \in Staff, k \in NoteKeys : CreateMessage(p, q, k)
  BY <1>1, <1>3, CreateMessageGoal
<1>4. ASSUME NEW p \in Staff, \E m \in DOMAIN note : BeginNote(p, m) PROVE NotesInv'
  BY <1>1, <1>4, BeginNoteGoal
<1>5. ASSUME NEW p \in Staff, EnterMessage(p) PROVE NotesInv'
  BY <1>1, <1>5, EnterMessageGoal
<1>6. ASSUME NEW p \in Staff, FailNote(p) \/ EligibilityChanges(p) PROVE NotesInv'
  BY <1>1, <1>6, OtherNoteSteps
<1>7. ASSUME NEW p \in Staff, \E k \in NoteKeys : AddResponse(p, k) PROVE NotesInv'
  BY <1>1, <1>7, AddResponseGoal
<1>8. ASSUME NEW p \in Staff, \E t \in PreparedTables \cup {NoTable} : MarkReady(p, t) PROVE NotesInv'
  BY <1>1, <1>8, MarkReadyGoal
<1>9. CASE \E t \in PreparedTables : TablesChange(t)
  BY <1>1, <1>9, OtherNoteSteps
<1>10. QED
  BY <1>1, <1>2, <1>3, <1>4, <1>5, <1>6, <1>7, <1>8, <1>9 DEF NotesNext

\* The invariant says what the history tells of a message.
LEMMA NotesMean == NotesInv => HistoryTellsTheMessage
<1>1. HAVE NotesInv
<1>2. ASSUME NEW m \in DOMAIN note
      PROVE  /\ note[m] \in InternalOperationalMessage
             /\ \A i \in DOMAIN noteReplies[m] : noteReplies[m][i] \in InternalOperationalMessageResponse
             /\ \A i \in DOMAIN noteHistory[m] : noteHistory[m][i] \in InternalOperationalMessageHistory
             /\ \A i \in DOMAIN noteHistory[m] : noteHistory[m][i].sequence = i
             /\ Events(m, "MESSAGE_CREATED") = {1}
             /\ Cardinality(Events(m, "ENTERADO")) = (IF note[m].entered = NotYet THEN 0 ELSE 1)
             /\ Cardinality(Events(m, "READY")) = (IF note[m].status = "READY" THEN 1 ELSE 0)
             /\ \A e \in Events(m, "ENTERADO"), r \in Events(m, "READY") : e < r
             /\ \A i \in Events(m, "RESPONSE_ADDED") :
                   /\ noteReplies[m][noteHistory[m][i].response].author = noteHistory[m][i].actor
                   /\ noteHistory[m][i].actor = note[m].recipient =>
                         /\ \E e \in Events(m, "ENTERADO") : e < i
                         /\ \A r \in Events(m, "READY") : i < r
             /\ Len(noteReplies[m]) = Cardinality(Events(m, "RESPONSE_ADDED"))
             /\ note[m].version = 1 + Cardinality(Events(m, "ENTERADO") \cup Events(m, "READY"))
             /\ note[m].creator # note[m].recipient =>
                   \A p \in {note[m].creator, note[m].recipient} : ("RESPOND" \in AllowedActions(p, m)) <=> MayRespond(p, m)
  <2>1. PICK x, h, q : x = note[m] /\ h = noteHistory[m] /\ q = noteReplies[m]
    OBVIOUS
  <2>2. MessageTold(x, h, q)
    BY <1>1, <2>1 DEF NotesInv, MessagesSound
  <2>3. /\ x \in InternalOperationalMessage /\ MessageNumbered(h, q) /\ MessageMarked(x, h) /\ MessageCounted(x, h, q)
        /\ \A i \in EventsOf(h, "RESPONSE_ADDED") : ResponseTold(x, h, q, i)
    BY <2>2 DEF MessageTold
  <2>4. /\ h \in Seq(InternalOperationalMessageHistory) /\ q \in Seq(InternalOperationalMessageResponse)
        /\ \A i \in DOMAIN h : h[i].sequence = i /\ EventsOf(h, "MESSAGE_CREATED") = {1}
    BY <2>3 DEF MessageNumbered
  <2>5. (\A i \in DOMAIN h : h[i] \in InternalOperationalMessageHistory) /\ \A i \in DOMAIN q : q[i] \in InternalOperationalMessageResponse
    BY <2>4
  <2>6. EventsOf(h, "MESSAGE_CREATED") = {1}
    BY <2>3 DEF MessageNumbered
  <2>7. x.entered = NotYet => /\ Cardinality(EventsOf(h, "ENTERADO")) = 0 /\ Cardinality(EventsOf(h, "READY")) = 0
                              /\ x.status # "READY" /\ x.version = 1
                              /\ Cardinality(EventsOf(h, "ENTERADO") \cup EventsOf(h, "READY")) = 0
    <3>1. SUFFICES ASSUME x.entered = NotYet
                   PROVE  /\ EventsOf(h, "ENTERADO") = {} /\ EventsOf(h, "READY") = {} /\ x.status # "READY" /\ x.version = 1
                          /\ EventsOf(h, "ENTERADO") \cup EventsOf(h, "READY") = {}
      BY FS_EmptySet
    <3>2. QED
      BY <2>3, <3>1 DEF MessageMarked, MessageCounted
  <2>8. x.entered # NotYet /\ x.status # "READY" =>
           /\ Cardinality(EventsOf(h, "ENTERADO")) = 1 /\ Cardinality(EventsOf(h, "READY")) = 0 /\ x.version = 2
           /\ Cardinality(EventsOf(h, "ENTERADO") \cup EventsOf(h, "READY")) = 1
    <3>1. SUFFICES ASSUME x.entered # NotYet, x.status # "READY"
                   PROVE  /\ Cardinality(EventsOf(h, "ENTERADO")) = 1 /\ Cardinality(EventsOf(h, "READY")) = 0 /\ x.version = 2
                          /\ Cardinality(EventsOf(h, "ENTERADO") \cup EventsOf(h, "READY")) = 1
      OBVIOUS
    <3>2. PICK f : EventsOf(h, "ENTERADO") = {f}
      BY <2>3, <3>1 DEF MessageMarked
    <3>3. EventsOf(h, "READY") = {} /\ x.version = 2
      BY <2>3, <3>1 DEF MessageMarked, MessageCounted
    <3>4. EventsOf(h, "ENTERADO") \cup EventsOf(h, "READY") = {f}
      BY <3>2, <3>3
    <3>5. Cardinality({f}) = 1 /\ Cardinality({}) = 0
      BY FS_Singleton, FS_EmptySet
    <3>6. QED
      BY <3>2, <3>3, <3>4, <3>5
  <2>9. x.status = "READY" =>
           /\ Cardinality(EventsOf(h, "ENTERADO")) = 1 /\ Cardinality(EventsOf(h, "READY")) = 1 /\ x.version = 3 /\ x.entered # NotYet
           /\ Cardinality(EventsOf(h, "ENTERADO") \cup EventsOf(h, "READY")) = 2
    <3>1. SUFFICES ASSUME x.status = "READY"
                   PROVE  /\ Cardinality(EventsOf(h, "ENTERADO")) = 1 /\ Cardinality(EventsOf(h, "READY")) = 1 /\ x.version = 3
                          /\ x.entered # NotYet
                          /\ Cardinality(EventsOf(h, "ENTERADO") \cup EventsOf(h, "READY")) = 2
      OBVIOUS
    <3>2. x.entered # NotYet /\ x.version = 3
      BY <2>3, <3>1 DEF MessageMarked, MessageCounted
    <3>3. PICK f \in DOMAIN h : EventsOf(h, "ENTERADO") = {f}
      BY <2>3, <3>2 DEF MessageMarked
    <3>4. PICK r \in DOMAIN h : EventsOf(h, "READY") = {r}
      BY <2>3, <3>1 DEF MessageMarked
    <3>5. f # r
      <4>1. f < r
        BY <2>3, <3>3, <3>4 DEF MessageMarked
      <4>2. QED
        BY <2>4, <4>1
    <3>6. Cardinality({f}) = 1 /\ Cardinality({r}) = 1 /\ IsFiniteSet({f})
      BY FS_Singleton
    <3>7. Cardinality({f} \cup {r}) = Cardinality({f}) + 1
      BY <3>5, <3>6, FS_AddElement
    <3>8. QED
      BY <3>2, <3>3, <3>4, <3>6, <3>7
  <2>10. Len(q) = Cardinality(EventsOf(h, "RESPONSE_ADDED")) /\ \A e \in EventsOf(h, "ENTERADO"), r \in EventsOf(h, "READY") : e < r
    BY <2>3 DEF MessageMarked, MessageCounted
  <2>11. \A i \in EventsOf(h, "RESPONSE_ADDED") :
            /\ q[h[i].response].author = h[i].actor
            /\ h[i].actor = x.recipient => /\ \E e \in EventsOf(h, "ENTERADO") : e < i
                                           /\ \A r \in EventsOf(h, "READY") : i < r
    BY <2>3 DEF ResponseTold
  <2>12. /\ Cardinality(EventsOf(h, "ENTERADO")) = (IF x.entered = NotYet THEN 0 ELSE 1)
         /\ Cardinality(EventsOf(h, "READY")) = (IF x.status = "READY" THEN 1 ELSE 0)
         /\ x.version = 1 + Cardinality(EventsOf(h, "ENTERADO") \cup EventsOf(h, "READY"))
    BY <2>7, <2>8, <2>9
  <2>13. note[m].creator # note[m].recipient =>
            \A p \in {note[m].creator, note[m].recipient} : ("RESPOND" \in AllowedActions(p, m)) <=> MayRespond(p, m)
    BY DEF AllowedActions, MayRespond
  <2>14. QED
    BY <2>1, <2>3, <2>4, <2>5, <2>6, <2>10, <2>11, <2>12, <2>13 DEF Events
<1>3. QED
  BY <1>2 DEF HistoryTellsTheMessage, NotesTypeOK

\* However commands of a message's participants interleave, its row, its history and its
\* responses agree, and what a command has seen is a beginning of them.
THEOREM NotesSafety == NotesSpec => []NotesInv
  BY NotesStart, NotesStep, PTL DEF NotesSpec

\* The history tells every message as it is: numbered without gap, one event per response,
\* Enterado before READY, and no response of the recipient outside them.
THEOREM HistoryTold == NotesSpec => []HistoryTellsTheMessage
  BY NotesSafety, NotesMean, PTL

(***************************************************************************)
(* The digital waiter.                                                     *)
(***************************************************************************)

\* The least of some natural numbers is one of them.
LEMMA LeastIsOne ==
    ASSUME NEW S, S \subseteq Nat, S # {}
    PROVE  Min(S) \in S
<1>1. IsWellFoundedOn({p \in Nat \X Nat : p[1] < p[2]}, Nat)
  BY NatLessThanWellFounded DEF OpToRel
<1>2. PICK R : R = {p \in Nat \X Nat : p[1] < p[2]}
  OBVIOUS
<1>3. IsWellFoundedOn(R, Nat)
  BY <1>1, <1>2
<1>4. PICK x \in S : \A y \in S : ~(<<y, x>> \in R)
  BY <1>3, WFMin
<1>5. \A y \in S : ~(y < x)
  BY <1>2, <1>4
<1>6. \A y \in S : x <= y
  BY <1>5
<1>7. QED
  BY <1>6 DEF Min

\* Whatever a rule makes of the words refers to nothing but what the reply showed.
LEMMA RulesSound ==
    ASSUME NEW words, NEW reply, NEW prior, reply.pending.shown \in prior \cup {NoShown}
    PROVE  /\ DOMAIN Rules(words, reply) = 1 .. 19
           /\ \A i \in 1 .. 19 : CommandSound(Rules(words, reply)[i], prior)
<1>d. DOMAIN Rules(words, reply) = 1 .. 19
  BY DEF Rules
<1>1. CommandSound(Rules(words, reply)[1], prior)
  BY DEF Rules, Told, CommandSound, Intend, Bare, RestaurantIntentCode, EditOperations
<1>2. CommandSound(Rules(words, reply)[2], prior)
  BY DEF Rules, Told, CommandSound, Intend, Bare, RestaurantIntentCode, EditOperations
<1>3. CommandSound(Rules(words, reply)[3], prior)
  BY DEF Rules, Told, CommandSound, Intend, Bare, RestaurantIntentCode, EditOperations
<1>4. CommandSound(Rules(words, reply)[4], prior)
  BY DEF Rules, Told, CommandSound, Intend, Bare, RestaurantIntentCode, EditOperations
<1>5. CommandSound(Rules(words, reply)[5], prior)
  BY DEF Rules, Told, CommandSound, Intend, Bare, RestaurantIntentCode, EditOperations
<1>6. CommandSound(Rules(words, reply)[6], prior)
  BY DEF Rules, Told, CommandSound, Intend, Bare, RestaurantIntentCode, EditOperations
<1>7. CommandSound(Rules(words, reply)[7], prior)
  BY DEF Rules, Told, CommandSound, Intend, Bare, RestaurantIntentCode, EditOperations
<1>8. CommandSound(Rules(words, reply)[8], prior)
  BY DEF Rules, Told, CommandSound, Intend, Bare, RestaurantIntentCode, EditOperations
<1>9. CommandSound(Rules(words, reply)[9], prior)
  BY DEF Rules, Told, CommandSound, Intend, Bare, RestaurantIntentCode, EditOperations
<1>10. CommandSound(Rules(words, reply)[10], prior)
  BY DEF Rules, Told, CommandSound, Intend, Bare, RestaurantIntentCode, EditOperations
<1>11. CommandSound(Rules(words, reply)[11], prior)
  BY DEF Rules, Told, CommandSound, Intend, Bare, RestaurantIntentCode, EditOperations
<1>12. CommandSound(Rules(words, reply)[12], prior)
  BY DEF Rules, Told, CommandSound, Intend, Bare, RestaurantIntentCode, EditOperations
<1>13. CommandSound(Rules(words, reply)[13], prior)
  BY DEF Rules, Told, CommandSound, Intend, Bare, RestaurantIntentCode, EditOperations
<1>14. CommandSound(Rules(words, reply)[14], prior)
  BY DEF Rules, Told, CommandSound, Intend, Bare, RestaurantIntentCode, EditOperations
<1>15. CommandSound(Rules(words, reply)[15], prior)
  BY DEF Rules, Told, CommandSound, Intend, Bare, RestaurantIntentCode, EditOperations
<1>16. CommandSound(Rules(words, reply)[16], prior)
  BY DEF Rules, Told, CommandSound, Intend, Bare, RestaurantIntentCode, EditOperations
<1>17. CommandSound(Rules(words, reply)[17], prior)
  BY DEF Rules, Told, CommandSound, Intend, Bare, RestaurantIntentCode, EditOperations
<1>18. CommandSound(Rules(words, reply)[18], prior)
  BY DEF Rules, Told, CommandSound, Intend, Bare, RestaurantIntentCode, EditOperations
<1>19. CommandSound(Rules(words, reply)[19], prior)
  BY DEF Rules, Told, CommandSound, Intend, Bare, RestaurantIntentCode, EditOperations
<1>q. QED
  BY <1>d, <1>1, <1>2, <1>3, <1>4, <1>5, <1>6, <1>7, <1>8, <1>9, <1>10, <1>11, <1>12, <1>13, <1>14, <1>15, <1>16, <1>17, <1>18, <1>19

LEMMA InterpretationSound ==
    ASSUME NEW words, NEW reply, NEW prior, reply.pending.shown \in prior \cup {NoShown}
    PROVE  CommandSound(InterpretPendingOrText(words, reply), prior)
<1> DEFINE applying == {i \in DOMAIN Rules(words, reply) : Rules(words, reply)[i] # Bare}
<1>1. applying \subseteq 1 .. 19
  BY RulesSound
<1>2. CASE applying = {}
  <2>1. CommandSound(Bare, prior)
    BY DEF CommandSound, Bare, RestaurantIntentCode, EditOperations
  <2>2. QED
    BY <1>2, <2>1 DEF InterpretPendingOrText
<1>3. CASE applying # {}
  <2>1. applying \subseteq Nat
    BY <1>1
  <2>2. Min(applying) \in applying
    <3> HIDE DEF applying
    <3> QED BY <1>3, <2>1, LeastIsOne
  <2>3. CommandSound(Rules(words, reply)[Min(applying)], prior)
    <3>1. Min(applying) \in 1 .. 19
      BY <1>1, <2>2
    <3> HIDE DEF applying
    <3> QED BY <3>1, RulesSound
  <2>4. QED
    BY <1>3, <2>3 DEF InterpretPendingOrText
<1>4. QED
  BY <1>2, <1>3

LEMMA DialogueStart == DialogueInit => DialogueInv
<1> SUFFICES ASSUME DialogueInit PROVE DialogueInv
  OBVIOUS
<1>1. DraftSound(tray, drafts)
  BY DialogueAssumption DEF DialogueInit, DraftSound, NoTray, Draft
<1>2. tariff \in Nat
  BY DialogueAssumption, LeastIsOne DEF DialogueInit
<1>3. lastReply.pending.shown = NoShown
  BY DEF DialogueInit, NoReply, Nothing
<1>4. \A t \in Taps : TurnSound(turn[t], previewed)
  BY DEF DialogueInit, TurnSound, NoTurn
<1>5. OrdersSound(accepted, tray, drafts, previewed)
  BY DEF DialogueInit, OrdersSound
<1>6. QED
  BY <1>1, <1>2, <1>3, <1>4, <1>5 DEF DialogueInit, DialogueInv

\* A turn that moves on leaves the others alone; more may have been shown since.
LEMMA TurnMoves ==
    ASSUME DOMAIN turn = Taps, NEW prior, \A s \in Taps : TurnSound(turn[s], prior),
           NEW t \in Taps, NEW u, TurnSound(u, prior), turn' = [turn EXCEPT ![t] = u]
    PROVE  DOMAIN turn' = Taps /\ \A s \in Taps : TurnSound(turn'[s], prior)
<1>1. DOMAIN turn' = Taps
  OBVIOUS
<1>2. \A s \in Taps : turn'[s] = IF s = t THEN u ELSE turn[s]
  OBVIOUS
<1>3. QED
  BY <1>1, <1>2

\* An action that answers, and leaves the order and the draft alone.
Answers(t) ==
    \E r : r.pending.shown \in OrderPreview /\ turn' = [turn EXCEPT ![t] = [stage |-> "done", reply |-> r]]

LEMMA SayAnswers ==
    ASSUME NEW t, NEW code, NEW next, NEW pending, Say(t, code, next, pending), pending.shown \in OrderPreview
    PROVE  Answers(t)
<1>1. PICK r : r = [code |-> code, next |-> next, pending |-> pending]
  OBVIOUS
<1>2. r.pending.shown \in OrderPreview
  BY <1>1
<1>3. turn' = [turn EXCEPT ![t] = [stage |-> "done", reply |-> r]]
  BY <1>1 DEF Say
<1>4. QED
  BY <1>2, <1>3 DEF Answers

LEMMA Answered ==
    ASSUME DialogueInv, NEW t \in Taps, Answers(t), Rest, UNCHANGED tariff,
           DraftSound(tray, drafts)', OrdersSound(accepted, tray, drafts, previewed)'
    PROVE  DialogueInv'
<1>1. PICK r : r.pending.shown \in OrderPreview /\ turn' = [turn EXCEPT ![t] = [stage |-> "done", reply |-> r]]
  BY DEF Answers
<1>2. PICK u : u = [stage |-> "done", reply |-> r]
  OBVIOUS
<1>3. TurnSound(u, previewed)
  BY <1>1, <1>2 DEF TurnSound
<1>4. DOMAIN turn' = Taps /\ \A s \in Taps : TurnSound(turn'[s], previewed)
  BY <1>1, <1>2, <1>3, TurnMoves DEF DialogueInv
<1>5. QED
  BY <1>4 DEF DialogueInv, Rest

LEMMA AnsweredOnly ==
    ASSUME DialogueInv, NEW t \in Taps, Answers(t), Rest, UNCHANGED <<tray, drafts, tariff, accepted>>
    PROVE  DialogueInv'
<1>1. DraftSound(tray, drafts)' /\ OrdersSound(accepted, tray, drafts, previewed)'
  BY DEF DialogueInv, Rest, DraftSound, OrdersSound
<1>2. QED
  BY <1>1, Answered

\* What replies leave pending is no preview, but for a preview of the draft.
LEMMA PendingShown ==
    /\ NoShown \in OrderPreview /\ Nothing.shown = NoShown
    /\ \A d : OfDraft(d).shown = NoShown
    /\ \A c : OfResult(c).shown = NoShown /\ OfCheck(c).shown = NoShown /\ OfSettlement(c).shown = NoShown
    /\ \A p : OfPreview(p).shown = p
<1>1. NoShown \in OrderPreview /\ Nothing.shown = NoShown
  BY DEF NoShown, OrderPreview, Nothing
<1>2. \A d : OfDraft(d).shown = NoShown
  BY DEF OfDraft, Nothing
<1>3. \A c : OfResult(c).shown = NoShown
  BY DEF OfResult, Nothing
<1>4. \A c : OfCheck(c).shown = NoShown
  BY DEF OfCheck, Nothing
<1>5. \A c : OfSettlement(c).shown = NoShown
  BY DEF OfSettlement, Nothing
<1>6. \A p : OfPreview(p).shown = p
  BY DEF OfPreview, Nothing
<1>7. QED
  BY <1>1, <1>2, <1>3, <1>4, <1>5, <1>6

LEMMA PreviewTyped == ASSUME DialogueInv PROVE Preview \in OrderPreview /\ OfPreview(Preview).shown \in OrderPreview
<1>1. Preview \in OrderPreview
  BY DEF DialogueInv, DraftSound, Draft, Preview, OrderPreview
<1>2. QED
  BY <1>1, PendingShown

LEMMA Clarified ==
    ASSUME DialogueInv, NEW t \in Taps, NEW code, NEW next, NEW pending, pending.shown \in OrderPreview,
           Clarification(t, code, next, pending), Rest
    PROVE  DialogueInv'
<1>1. Answers(t)
  BY SayAnswers DEF Clarification
<1>2. UNCHANGED <<tray, drafts, tariff, accepted>>
  BY DEF Clarification, dinerVars
<1>3. QED
  BY <1>1, <1>2, AnsweredOnly

LEMMA BlockedAnswers == ASSUME NEW t, SayBlocked(t) PROVE Answers(t)
<1>1. Nothing.shown \in OrderPreview
  BY PendingShown
<1>2. QED
  BY <1>1, SayAnswers DEF SayBlocked

LEMMA BlockedKeeps == ASSUME DialogueInv, NEW t \in Taps, Blocked(t), Rest PROVE DialogueInv'
<1>1. Answers(t)
  BY BlockedAnswers DEF Blocked
<1>2. UNCHANGED <<tray, drafts, tariff, accepted>>
  BY DEF Blocked, dinerVars
<1>3. QED
  BY <1>1, <1>2, AnsweredOnly

LEMMA CheckRequiredKeeps == ASSUME DialogueInv, NEW t \in Taps, NEW next, CheckRequired(t, next), Rest PROVE DialogueInv'
<1>1. Nothing.shown \in OrderPreview
  BY PendingShown
<1>2. QED
  BY <1>1, Clarified DEF CheckRequired

LEMMA DraftsNumbered ==
    ASSUME DialogueInv, NEW o \in DOMAIN accepted
    PROVE  accepted[o].shown \in OrderPreview /\ accepted[o].shown.draft \in Nat
<1>1. accepted[o].shown \in OrderPreview
  BY DEF DialogueInv, OrdersSound
<1>2. QED
  BY <1>1 DEF OrderPreview

\* A new draft is newer than everything accepted.
LEMMA NewDraft ==
    ASSUME DialogueInv, tray = NoTray, drafts < MaxDrafts
    PROVE  /\ DraftSound(NewTray, drafts + 1) /\ OrdersSound(accepted, NewTray, drafts + 1, previewed)
           /\ NewTray # NoTray
<1>1. drafts \in Nat /\ drafts + 1 \in 0 .. MaxDrafts
  BY DialogueAssumption DEF DialogueInv, DraftSound
<1>2. NewTray \in Draft /\ NewTray.version = 1 /\ NewTray.id = drafts + 1
  BY <1>1 DEF NewTray, Draft
<1>3. DraftSound(NewTray, drafts + 1)
  BY <1>1, <1>2, DialogueAssumption DEF DraftSound
<1>4. \A o \in DOMAIN accepted : accepted[o].shown.draft \in Nat /\ accepted[o].shown.draft <= drafts
  BY DraftsNumbered DEF DialogueInv, OrdersSound
<1>5. OrdersSound(accepted, NewTray, drafts + 1, previewed)
  BY <1>1, <1>4 DEF DialogueInv, OrdersSound
<1>6. NewTray # NoTray
  BY <1>1, <1>2 DEF NoTray
<1>7. QED
  BY <1>3, <1>5, <1>6

LEMMA AskVersionKeeps == ASSUME DialogueInv, NEW t \in Taps, AskVersion(t) PROVE DialogueInv'
<1>r. Rest
  BY DEF AskVersion
<1>1. CASE tray # NoTray
  <2>1. OfDraft(tray).shown \in OrderPreview
    BY PendingShown
  <2>2. Clarification(t, "EXPECTED_DRAFT_VERSION_REQUIRED", "ADD_ITEM", OfDraft(tray))
    BY <1>1 DEF AskVersion
  <2>3. QED
    BY <1>r, <2>1, <2>2, Clarified
<1>2. CASE tray = NoTray /\ (OrderingBlocked \/ drafts >= MaxDrafts)
  <2>1. Nothing.shown \in OrderPreview
    BY PendingShown
  <2>2. Clarification(t, "EXPECTED_DRAFT_VERSION_REQUIRED", "ADD_ITEM", Nothing)
    BY <1>2 DEF AskVersion
  <2>3. QED
    BY <1>r, <2>1, <2>2, Clarified
<1>3. CASE tray = NoTray /\ ~(OrderingBlocked \/ drafts >= MaxDrafts)
  <2>1. /\ tray' = NewTray /\ drafts' = drafts + 1
        /\ Say(t, "EXPECTED_DRAFT_VERSION_REQUIRED", "ADD_ITEM", OfDraft(NewTray))
        /\ UNCHANGED <<tariff, accepted, bill, help>>
    BY <1>3 DEF AskVersion
  <2>2. OfDraft(NewTray).shown \in OrderPreview
    BY PendingShown
  <2>3. Answers(t)
    BY <2>1, <2>2, SayAnswers
  <2>4. drafts < MaxDrafts
    BY <1>3, DialogueAssumption DEF DialogueInv, DraftSound
  <2>5. DraftSound(NewTray, drafts + 1) /\ OrdersSound(accepted, NewTray, drafts + 1, previewed)
    BY <1>3, <2>4, NewDraft
  <2>6. DraftSound(tray, drafts)' /\ OrdersSound(accepted, tray, drafts, previewed)'
    BY <1>r, <2>1, <2>5 DEF Rest, DraftSound, OrdersSound
  <2>7. QED
    BY <1>r, <2>1, <2>3, <2>6, Answered
<1>4. QED
  BY <1>1, <1>2, <1>3

LEMMA DraftReviewKeeps == ASSUME DialogueInv, NEW t \in Taps, DraftReview(t) PROVE DialogueInv'
<1>r. Rest
  BY DEF DraftReview
<1>1. CASE tray = NoTray
  BY <1>r, <1>1, BlockedKeeps DEF DraftReview
<1>2. CASE tray # NoTray /\ Readiness(tray) # "READY"
  <2>1. OfDraft(tray).shown \in OrderPreview
    BY PendingShown
  <2>2. Clarification(t, "DRAFT", DraftGuidance(tray), OfDraft(tray))
    BY <1>2 DEF DraftReview
  <2>3. QED
    BY <1>r, <2>1, <2>2, Clarified
<1>3. CASE tray # NoTray /\ Readiness(tray) = "READY"
  <2>1. OfPreview(Preview).shown \in OrderPreview
    BY PreviewTyped
  <2>2. Clarification(t, "OK", "CONFIRM_ORDER", OfPreview(Preview))
    BY <1>3 DEF DraftReview
  <2>3. QED
    BY <1>r, <2>1, <2>2, Clarified
<1>4. QED
  BY <1>1, <1>2, <1>3

\* The confirmed draft becomes the newest order, as it was shown.
LEMMA AcceptedAsShown ==
    ASSUME DialogueInv, tray # NoTray, Preview \in previewed, NEW key \in ActionKeys
    PROVE  /\ OrdersSound(Append(accepted, [shown |-> Preview, key |-> key, billed |-> FALSE]), NoTray, drafts, previewed)
           /\ DraftSound(NoTray, drafts)
<1>1. PICK x : x = [shown |-> Preview, key |-> key, billed |-> FALSE]
  OBVIOUS
<1>2. x \in AcceptedOrder
  BY <1>1, PreviewTyped DEF AcceptedOrder
<1>3. x.shown \in previewed /\ x.shown.draft = drafts /\ drafts \in Nat
  BY <1>1, DialogueAssumption DEF Preview, DialogueInv, DraftSound
<1>4. /\ accepted \in Seq(AcceptedOrder)
      /\ \A o \in DOMAIN accepted : /\ accepted[o].shown \in previewed /\ accepted[o].shown.draft \in Nat
                                    /\ accepted[o].shown.draft < drafts
      /\ \A o, q \in DOMAIN accepted : accepted[o].shown.draft = accepted[q].shown.draft => o = q
  BY DraftsNumbered DEF DialogueInv, OrdersSound
<1>5. PICK a : a = Append(accepted, x)
  OBVIOUS
<1>6. a \in Seq(AcceptedOrder) /\ DOMAIN a = 1 .. Len(accepted) + 1
  BY <1>2, <1>4, <1>5
<1>7. a[Len(accepted) + 1] = x /\ \A o \in DOMAIN accepted : a[o] = accepted[o]
  BY <1>2, <1>4, <1>5
<1>8. \A o \in DOMAIN a : o = Len(accepted) + 1 \/ o \in DOMAIN accepted
  BY <1>4, <1>6
<1>9. OrdersSound(a, NoTray, drafts, previewed)
  BY <1>3, <1>4, <1>6, <1>7, <1>8 DEF OrdersSound
<1>10. DraftSound(NoTray, drafts)
  BY DialogueAssumption DEF DialogueInv, DraftSound, NoTray, Draft
<1>11. QED
  BY <1>1, <1>5, <1>9, <1>10

LEMMA OrderConfirmationKeeps == ASSUME DialogueInv, NEW t \in Taps, OrderConfirmation(t) PROVE DialogueInv'
<1>r. Rest
  BY DEF OrderConfirmation
<1>c. CommandSound(Command(t), previewed) /\ turn[t].key \in ActionKeys
  BY DEF OrderConfirmation, Meant, Command, DialogueInv, TurnSound
<1>1. CASE Command(t).version = 0 \/ Command(t).shown = NoShown
  <2>1. PICK p : p = IF tray # NoTray /\ Readiness(tray) = "READY" THEN OfPreview(Preview) ELSE Nothing
    OBVIOUS
  <2>2. p.shown \in OrderPreview
    BY <2>1, PreviewTyped, PendingShown
  <2>3. Clarification(t, "CONFIRMATION_EVIDENCE_REQUIRED", "REVIEW_DRAFT", p)
    BY <1>1, <2>1 DEF OrderConfirmation
  <2>4. QED
    BY <1>r, <2>2, <2>3, Clarified
<1>2. CASE ~(Command(t).version = 0 \/ Command(t).shown = NoShown) /\ Replayed(t) # {}
  <2>1. CASE tray # NoTray
    BY <1>2, <1>r, <2>1, BlockedKeeps DEF OrderConfirmation
  <2>2. CASE tray = NoTray
    <3>1. OfResult(Min(Replayed(t))).shown \in OrderPreview
      BY PendingShown
    <3>2. Clarification(t, "OK", "VIEW_ORDER", OfResult(Min(Replayed(t))))
      BY <1>2, <2>2 DEF OrderConfirmation
    <3>3. QED
      BY <1>r, <3>1, <3>2, Clarified
  <2>3. QED
    BY <2>1, <2>2
<1>3. CASE /\ ~(Command(t).version = 0 \/ Command(t).shown = NoShown) /\ Replayed(t) = {}
           /\ (tray = NoTray \/ OrderingBlocked \/ Readiness(tray) # "READY" \/ ~StillAsShown(Command(t)))
  BY <1>3, <1>r, BlockedKeeps DEF OrderConfirmation
<1>4. CASE /\ ~(Command(t).version = 0 \/ Command(t).shown = NoShown) /\ Replayed(t) = {}
           /\ ~(tray = NoTray \/ OrderingBlocked \/ Readiness(tray) # "READY" \/ ~StillAsShown(Command(t)))
  <2>1. /\ accepted' = Append(accepted, [shown |-> Preview, key |-> turn[t].key, billed |-> FALSE])
        /\ tray' = NoTray
        /\ Say(t, "OK", "VIEW_ORDER", OfResult(Len(accepted) + 1))
        /\ UNCHANGED <<drafts, tariff, bill, help>>
    BY <1>4 DEF OrderConfirmation
  <2>2. Preview \in previewed
    BY <1>4, <1>c DEF StillAsShown, CommandSound
  <2>3. OfResult(Len(accepted) + 1).shown \in OrderPreview
    BY PendingShown
  <2>4. Answers(t)
    BY <2>1, <2>3, SayAnswers
  <2>5. PICK a : a = Append(accepted, [shown |-> Preview, key |-> turn[t].key, billed |-> FALSE])
    OBVIOUS
  <2>6. OrdersSound(a, NoTray, drafts, previewed) /\ DraftSound(NoTray, drafts)
    BY <1>4, <1>c, <2>2, <2>5, AcceptedAsShown
  <2>7. DraftSound(tray, drafts)' /\ OrdersSound(accepted, tray, drafts, previewed)'
    BY <1>r, <2>1, <2>5, <2>6 DEF Rest, DraftSound, OrdersSound
  <2>8. QED
    BY <1>r, <2>1, <2>4, <2>7, Answered
<1>5. QED
  BY <1>1, <1>2, <1>3, <1>4

\* Billing marks the orders and changes nothing they were accepted for.
LEMMA BilledOrders ==
    ASSUME DialogueInv
    PROVE  OrdersSound([o \in DOMAIN accepted |-> [accepted[o] EXCEPT !.billed = TRUE]], tray, drafts, previewed)
<1>1. accepted \in Seq(AcceptedOrder)
  BY DEF DialogueInv, OrdersSound
<1>2. PICK a : a = [o \in DOMAIN accepted |-> [accepted[o] EXCEPT !.billed = TRUE]]
  OBVIOUS
<1>3. \A x \in AcceptedOrder : [x EXCEPT !.billed = TRUE] \in AcceptedOrder /\ [x EXCEPT !.billed = TRUE].shown = x.shown
  BY DEF AcceptedOrder
<1>4. DOMAIN a = DOMAIN accepted /\ \A o \in DOMAIN accepted : a[o] = [accepted[o] EXCEPT !.billed = TRUE]
  BY <1>2
<1>5. \A o \in DOMAIN accepted : accepted[o] \in AcceptedOrder
  BY <1>1
<1>6. \A o \in DOMAIN accepted : a[o] \in AcceptedOrder /\ a[o].shown = accepted[o].shown
  BY <1>3, <1>4, <1>5
<1>7. a \in [1 .. Len(accepted) -> AcceptedOrder]
  BY <1>1, <1>2, <1>6
<1>8. a \in Seq(AcceptedOrder)
  BY <1>1, <1>7
<1>9. OrdersSound(a, tray, drafts, previewed)
  BY <1>4, <1>6, <1>8 DEF DialogueInv, OrdersSound
<1>10. QED
  BY <1>2, <1>9

LEMMA CreateBillKeeps == ASSUME DialogueInv, NEW t \in Taps, CreateBill(t), Rest PROVE DialogueInv'
<1>n. Nothing.shown \in OrderPreview
  BY PendingShown
<1>1. CASE Clarification(t, "PAYMENT_SCOPE_REQUIRED", "INDIVIDUAL", Nothing)
  BY <1>1, <1>n, Clarified
<1>2. CASE Blocked(t)
  BY <1>2, BlockedKeeps
<1>3. ASSUME NEW c,
             accepted' = [o \in DOMAIN accepted |-> [accepted[o] EXCEPT !.billed = TRUE]],
             Say(t, "OK", "INITIATE_PAYMENT", [Nothing EXCEPT !.check = c, !.checkVersion = 1]),
             UNCHANGED <<tray, drafts, tariff, help>>
      PROVE  DialogueInv'
  <2>1. PICK p : p = [Nothing EXCEPT !.check = c, !.checkVersion = 1]
    OBVIOUS
  <2>2. p.shown \in OrderPreview
    BY <2>1, <1>n DEF Nothing
  <2>3. Answers(t)
    BY <1>3, <2>1, <2>2, SayAnswers
  <2>4. PICK a : a = [o \in DOMAIN accepted |-> [accepted[o] EXCEPT !.billed = TRUE]]
    OBVIOUS
  <2>5. OrdersSound(a, tray, drafts, previewed)
    BY <2>4, BilledOrders
  <2>6. accepted' = a
    BY <1>3, <2>4
  <2>u. UNCHANGED <<tray, drafts, tariff, previewed>>
    BY <1>3 DEF Rest
  <2>7. DraftSound(tray, drafts)'
    BY <2>u DEF DraftSound, DialogueInv
  <2>8. OrdersSound(accepted, tray, drafts, previewed)'
    BY <2>u, <2>5, <2>6 DEF OrdersSound
  <2>9. QED
    BY <2>u, <2>3, <2>7, <2>8, Answered
<1>4. QED
  BY <1>1, <1>2, <1>3 DEF CreateBill

LEMMA HandoffKeeps == ASSUME DialogueInv, NEW t \in Taps, NEW type, Handoff(t, type), Rest PROVE DialogueInv'
<1>1. CASE Blocked(t)
  BY <1>1, BlockedKeeps
<1>2. ASSUME NEW r, Clarification(t, "STAFF", "WAIT_FOR_STAFF", OfResult(r)) PROVE DialogueInv'
  <2>1. OfResult(r).shown \in OrderPreview
    BY PendingShown
  <2>2. QED
    BY <1>2, <2>1, Clarified
<1>3. ASSUME NEW r, Say(t, "STAFF", "WAIT_FOR_STAFF", OfResult(r)), UNCHANGED <<tray, drafts, tariff, accepted, bill>>
      PROVE  DialogueInv'
  <2>1. OfResult(r).shown \in OrderPreview
    BY PendingShown
  <2>2. Answers(t)
    BY <1>3, <2>1, SayAnswers
  <2>3. QED
    BY <1>3, <2>2, AnsweredOnly
<1>4. QED
  BY <1>1, <1>2, <1>3 DEF Handoff

LEMMA PaymentRequestKeeps == ASSUME DialogueInv, NEW t \in Taps, PaymentRequest(t) PROVE DialogueInv'
<1>r. Rest
  BY DEF PaymentRequest
<1>p. \A c : OfSettlement(c).shown \in OrderPreview
  BY PendingShown
<1>1. CASE CheckRequired(t, "REQUEST_PAYMENT")
  BY <1>r, <1>1, CheckRequiredKeeps
<1>2. CASE Handoff(t, "CASH_PAYMENT_ASSISTANCE")
  BY <1>r, <1>2, HandoffKeeps
<1>3. CASE CreateBill(t)
  BY <1>r, <1>3, CreateBillKeeps
<1>4. CASE Blocked(t)
  BY <1>r, <1>4, BlockedKeeps
<1>5. CASE Clarification(t, "PAYMENT_METHOD_REQUIRED", "CARD", OfSettlement(Command(t).check))
  BY <1>r, <1>p, <1>5, Clarified
<1>6. CASE Clarification(t, "OK", "OPEN_SECURE_PAYMENT_SOURCE", OfSettlement(Command(t).check))
  BY <1>r, <1>p, <1>6, Clarified
<1>7. QED
  BY <1>1, <1>2, <1>3, <1>4, <1>5, <1>6 DEF PaymentRequest

LEMMA DocumentRequestKeeps == ASSUME DialogueInv, NEW t \in Taps, DocumentRequest(t) PROVE DialogueInv'
<1>r. Rest
  BY DEF DocumentRequest
<1>1. PICK type, next : Handoff(t, type) \/ CheckRequired(t, next)
  BY DEF DocumentRequest
<1>2. QED
  BY <1>r, <1>1, HandoffKeeps, CheckRequiredKeeps

LEMMA PaymentStatusKeeps == ASSUME DialogueInv, NEW t \in Taps, PaymentStatus(t) PROVE DialogueInv'
<1>r. Rest
  BY DEF PaymentStatus
<1>p. \A c : OfSettlement(c).shown \in OrderPreview
  BY PendingShown
<1>1. CASE CheckRequired(t, "PAYMENT_STATUS")
  BY <1>r, <1>1, CheckRequiredKeeps
<1>2. CASE Blocked(t)
  BY <1>r, <1>2, BlockedKeeps
<1>3. ASSUME NEW next, NEW c, Clarification(t, "OK", next, OfSettlement(c)) PROVE DialogueInv'
  BY <1>r, <1>p, <1>3, Clarified
<1>4. QED
  BY <1>1, <1>2, <1>3 DEF PaymentStatus

LEMMA PaymentRecoveryKeeps ==
    ASSUME DialogueInv, NEW t \in Taps, NEW settled \in BOOLEAN, PaymentRecovery(t, settled) PROVE DialogueInv'
<1>r. Rest
  BY DEF PaymentRecovery
<1>n. Nothing.shown \in OrderPreview
  BY PendingShown
<1>1. CASE Clarification(t, "PAYMENT_REFERENCE_REQUIRED", "PAYMENT_STATUS", Nothing)
  BY <1>r, <1>n, <1>1, Clarified
<1>2. CASE Blocked(t)
  BY <1>r, <1>2, BlockedKeeps
<1>3. ASSUME NEW next, NEW c, Say(t, "RECOVERY", next, [OfResult(c) EXCEPT !.payment = c]),
             UNCHANGED <<tray, drafts, tariff, accepted, help>>
      PROVE  DialogueInv'
  <2>1. PICK p : p = [OfResult(c) EXCEPT !.payment = c]
    OBVIOUS
  <2>2. p.shown \in OrderPreview
    BY <1>n, <2>1 DEF OfResult, Nothing
  <2>3. Answers(t)
    BY <1>3, <2>1, <2>2, SayAnswers
  <2>4. QED
    BY <1>r, <1>3, <2>3, AnsweredOnly
<1>4. QED
  BY <1>1, <1>2, <1>3 DEF PaymentRecovery

LEMMA CheckQueryKeeps == ASSUME DialogueInv, NEW t \in Taps, CheckQuery(t) PROVE DialogueInv'
<1>r. Rest
  BY DEF CheckQuery
<1>p. \A c : OfCheck(c).shown \in OrderPreview
  BY PendingShown
<1>1. CASE CheckRequired(t, "VIEW_ACCOUNT")
  BY <1>r, <1>1, CheckRequiredKeeps
<1>2. CASE Blocked(t)
  BY <1>r, <1>2, BlockedKeeps
<1>3. ASSUME NEW next, NEW c, Clarification(t, "CHECK", next, OfCheck(c)) PROVE DialogueInv'
  BY <1>r, <1>p, <1>3, Clarified
<1>4. QED
  BY <1>1, <1>2, <1>3 DEF CheckQuery

LEMMA ServiceContinuationKeeps == ASSUME DialogueInv, NEW t \in Taps, ServiceContinuation(t) PROVE DialogueInv'
<1>r. Rest
  BY DEF ServiceContinuation
<1>1. CASE Blocked(t)
  BY <1>r, <1>1, BlockedKeeps
<1>2. ASSUME NEW c, Say(t, "OK", "NONE", OfCheck(c)), UNCHANGED <<tray, drafts, tariff, accepted, help>>
      PROVE  DialogueInv'
  <2>1. OfCheck(c).shown \in OrderPreview
    BY PendingShown
  <2>2. Answers(t)
    BY <1>2, <2>1, SayAnswers
  <2>3. QED
    BY <1>r, <1>2, <2>2, AnsweredOnly
<1>3. QED
  BY <1>1, <1>2 DEF ServiceContinuation

LEMMA QueryKeeps == ASSUME DialogueInv, NEW t \in Taps, Query(t) PROVE DialogueInv'
<1>1. Nothing.shown \in OrderPreview
  BY PendingShown
<1>2. Rest /\ Clarification(t, "OK", "NONE", Nothing)
  BY DEF Query
<1>3. QED
  BY <1>1, <1>2, Clarified

\* An edit leaves a list of items.
LEMMA ItemsTyped ==
    ASSUME NEW S, NEW s \in Seq(S), NEW e \in S, NEW i \in DOMAIN s
    PROVE  [s EXCEPT ![i] = e] \in Seq(S) /\ RemoveAt(s, i) \in Seq(S)
<1>1. [s EXCEPT ![i] = e] \in Seq(S)
  OBVIOUS
<1>2. Len(s) \in Nat /\ i \in 1 .. Len(s)
  OBVIOUS
<1>3. SubSeq(s, 1, i - 1) \in Seq(S) /\ SubSeq(s, i + 1, Len(s)) \in Seq(S)
  BY <1>2
<1>4. RemoveAt(s, i) \in Seq(S)
  BY <1>3 DEF RemoveAt
<1>5. QED
  BY <1>1, <1>4

LEMMA EditsTyped ==
    ASSUME NEW items \in Seq(BOOLEAN), NEW c, NEW unclear \in BOOLEAN, c.operation \in EditOperations,
           c.operation = "ADD" \/ c.item \in DOMAIN items
    PROVE  EditedItems(items, c, unclear) \in Seq(BOOLEAN)
<1>1. CASE c.operation = "ADD"
  <2>1. \A S : \A s \in Seq(S), e \in S : Append(s, e) \in Seq(S)
    OBVIOUS
  <2>2. Append(items, unclear) \in Seq(BOOLEAN)
    BY <2>1
  <2>3. EditedItems(items, c, unclear) = Append(items, unclear)
    BY <1>1 DEF EditedItems
  <2>4. QED
    BY <2>2, <2>3
<1>2. CASE c.operation = "CONFIGURE"
  <2>1. FALSE \in BOOLEAN /\ c.item \in DOMAIN items
    BY <1>2
  <2>2. [items EXCEPT ![c.item] = FALSE] \in Seq(BOOLEAN)
    BY <2>1, ItemsTyped
  <2>3. EditedItems(items, c, unclear) = [items EXCEPT ![c.item] = FALSE]
    BY <1>2 DEF EditedItems
  <2>4. QED
    BY <2>2, <2>3
<1>3. CASE c.operation = "MODIFY"
  BY <1>3 DEF EditedItems
<1>4. CASE c.operation = "REMOVE"
  <2>1. FALSE \in BOOLEAN /\ c.item \in DOMAIN items
    BY <1>4
  <2>2. RemoveAt(items, c.item) \in Seq(BOOLEAN)
    BY <2>1, ItemsTyped
  <2>3. EditedItems(items, c, unclear) = RemoveAt(items, c.item)
    BY <1>4 DEF EditedItems
  <2>4. QED
    BY <2>2, <2>3
<1>5. QED
  BY <1>1, <1>2, <1>3, <1>4 DEF EditOperations

\* A draft with a new version and other items is the same draft.
LEMMA DraftEdited ==
    ASSUME NEW d, NEW n, DraftSound(d, n), d # NoTray, d.version <= MaxEditsOfDraft, NEW items \in Seq(BOOLEAN)
    PROVE  DraftSound([d EXCEPT !.version = @ + 1, !.items = items], n)
<1>1. d \in Draft
  BY DEF DraftSound
<1>2. PICK e : e = [d EXCEPT !.version = @ + 1, !.items = items]
  OBVIOUS
<1>3. e \in Draft /\ e.id = d.id /\ e.version = d.version + 1
  <2>1. PICK S : S = Seq(BOOLEAN)
    OBVIOUS
  <2>2. d \in [id : Nat, version : Nat, items : S] /\ items \in S
    BY <1>1, <2>1 DEF Draft
  <2>3. PICK f : f = [d EXCEPT !.version = d.version + 1]
    OBVIOUS
  <2>4. f \in [id : Nat, version : Nat, items : S] /\ f.id = d.id /\ f.version = d.version + 1
    BY <2>2, <2>3
  <2>5. PICK g : g = [f EXCEPT !.items = items]
    OBVIOUS
  <2>6. g \in [id : Nat, version : Nat, items : S] /\ g.id = d.id /\ g.version = d.version + 1
    BY <2>2, <2>4, <2>5
  <2>7. g = e
    BY <1>2, <2>3, <2>5
  <2>8. QED
    BY <2>1, <2>6, <2>7 DEF Draft
<1>4. e.version <= MaxEditsOfDraft + 1
  BY <1>1, <1>3, DialogueAssumption DEF Draft
<1>5. DraftSound(e, n)
  BY <1>3, <1>4 DEF DraftSound
<1>6. QED
  BY <1>2, <1>5

\* The orders know the draft only by whether there is one.
LEMMA OrdersApart ==
    ASSUME NEW a, NEW d, NEW e, NEW n, NEW prior, OrdersSound(a, d, n, prior), d # NoTray \/ e = NoTray
    PROVE  OrdersSound(a, e, n, prior)
  BY DEF OrdersSound

LEMMA OrderExpressionKeeps ==
    ASSUME DialogueInv, NEW t \in Taps, NEW unclear \in BOOLEAN, OrderExpression(t, unclear) PROVE DialogueInv'
<1>1. PICK c : c = Command(t)
  OBVIOUS
<1>2. PICK creates \in BOOLEAN : creates <=> (c.operation = "ADD" /\ tray = NoTray /\ ~OrderingBlocked /\ drafts < MaxDrafts)
  OBVIOUS
<1>3. PICK current : current = IF creates THEN NewTray ELSE tray
  OBVIOUS
<1>4. PICK n : n = IF creates THEN drafts + 1 ELSE drafts
  OBVIOUS
<1>5. PICK edited : edited = [current EXCEPT !.version = @ + 1, !.items = EditedItems(current.items, c, unclear)]
  OBVIOUS
<1>6. /\ Meant(t, "ORDER_EXPRESSION")
      /\ drafts' = n /\ UNCHANGED <<tariff, accepted, bill, help>> /\ Rest
      /\ \/ tray' = current /\ SayBlocked(t)
         \/ tray' = current /\ Say(t, "AMBIGUOUS_REFERENCE", "SELECT_CANDIDATE", Nothing)
         \/ /\ ~(current = NoTray \/ (c.operation # "ADD" /\ c.item \notin DOMAIN current.items))
            /\ ~(current.version > MaxEditsOfDraft)
            /\ tray' = edited /\ Say(t, "DRAFT", DraftGuidance(edited), OfDraft(edited))
  BY <1>1, <1>2, <1>3, <1>4, <1>5 DEF OrderExpression
<1>7. DraftSound(current, n) /\ OrdersSound(accepted, current, n, previewed)
  <2>1. CASE creates
    BY <1>2, <1>3, <1>4, <2>1, NewDraft
  <2>2. CASE ~creates
    BY <1>3, <1>4, <2>2 DEF DialogueInv
  <2>3. QED
    BY <2>1, <2>2
<1>8. CommandSound(c, previewed)
  BY <1>1, <1>6 DEF Meant, Command, DialogueInv, TurnSound
<1>9. ASSUME tray' = current PROVE DraftSound(tray, drafts)' /\ OrdersSound(accepted, tray, drafts, previewed)'
  BY <1>6, <1>7, <1>9 DEF Rest, DraftSound, OrdersSound
<1>10. CASE tray' = current /\ SayBlocked(t)
  BY <1>6, <1>9, <1>10, BlockedAnswers, Answered
<1>11. CASE tray' = current /\ Say(t, "AMBIGUOUS_REFERENCE", "SELECT_CANDIDATE", Nothing)
  <2>1. Nothing.shown \in OrderPreview
    BY PendingShown
  <2>2. Answers(t)
    BY <1>11, <2>1, SayAnswers
  <2>3. QED
    BY <1>6, <1>9, <1>11, <2>2, Answered
<1>12. CASE /\ ~(current = NoTray \/ (c.operation # "ADD" /\ c.item \notin DOMAIN current.items))
            /\ ~(current.version > MaxEditsOfDraft)
            /\ tray' = edited /\ Say(t, "DRAFT", DraftGuidance(edited), OfDraft(edited))
  <2>1. current \in Draft /\ current.items \in Seq(BOOLEAN) /\ current.version \in Nat
    BY <1>7 DEF DraftSound, Draft
  <2>2. PICK items : items = EditedItems(current.items, c, unclear)
    OBVIOUS
  <2>3. items \in Seq(BOOLEAN)
    BY <1>8, <1>12, <2>1, <2>2, EditsTyped DEF CommandSound
  <2>4. current.version <= MaxEditsOfDraft /\ current # NoTray
    BY <1>12, <2>1, DialogueAssumption
  <2>5. DraftSound(edited, n)
    BY <1>5, <1>7, <2>2, <2>3, <2>4, DraftEdited
  <2>6. OrdersSound(accepted, edited, n, previewed)
    BY <1>7, <2>4, OrdersApart
  <2>7. OfDraft(edited).shown \in OrderPreview
    BY PendingShown
  <2>8. Answers(t)
    BY <1>12, <2>7, SayAnswers
  <2>9. DraftSound(tray, drafts)' /\ OrdersSound(accepted, tray, drafts, previewed)'
    BY <1>6, <1>12, <2>5, <2>6 DEF Rest, DraftSound, OrdersSound
  <2>10. QED
    BY <1>6, <2>8, <2>9, Answered
<1>13. QED
  BY <1>6, <1>10, <1>11, <1>12

LEMMA ActKeeps == ASSUME DialogueInv, NEW t \in Taps, Act(t) PROVE DialogueInv'
  BY AskVersionKeeps, DraftReviewKeeps, OrderConfirmationKeeps, PaymentRequestKeeps, DocumentRequestKeeps, PaymentStatusKeeps,
     CheckQueryKeeps, ServiceContinuationKeeps, QueryKeeps, OrderExpressionKeeps, PaymentRecoveryKeeps DEF Act

LEMMA HearKeeps ==
    ASSUME DialogueInv, NEW t \in Taps, NEW command, NEW key \in ActionKeys, CommandSound(command, previewed),
           Hear(t, command, key)
    PROVE  DialogueInv'
<1>1. PICK u : u = [stage |-> "meant", command |-> command, key |-> key]
  OBVIOUS
<1>2. TurnSound(u, previewed)
  BY <1>1 DEF TurnSound
<1>3. turn' = [turn EXCEPT ![t] = u] /\ UNCHANGED <<tray, drafts, tariff, accepted, lastReply, previewed>>
  BY <1>1 DEF Hear, dinerVars
<1>4. DOMAIN turn' = Taps /\ \A s \in Taps : TurnSound(turn'[s], previewed)
  BY <1>2, <1>3, TurnMoves DEF DialogueInv
<1>5. QED
  BY <1>3, <1>4 DEF DialogueInv, DraftSound, OrdersSound

\* What has been shown stays shown.
LEMMA MoreShown ==
    ASSUME NEW u, NEW prior, NEW more, prior \subseteq more, TurnSound(u, prior) PROVE TurnSound(u, more)
  BY DEF TurnSound, CommandSound

LEMMA ReplyKeeps == ASSUME DialogueInv, NEW t \in Taps, Reply(t) PROVE DialogueInv'
<1>1. turn[t].reply.pending.shown \in OrderPreview
  BY DEF Reply, DialogueInv, TurnSound
<1>2. PICK x : x = turn[t].reply.pending.shown
  OBVIOUS
<1>3. /\ previewed \subseteq previewed' /\ previewed' \subseteq previewed \cup {x}
      /\ lastReply'.pending.shown \in previewed' \cup {NoShown}
  BY <1>2 DEF Reply, DialogueInv
<1>4. turn' = [turn EXCEPT ![t] = NoTurn] /\ UNCHANGED <<tray, drafts, tariff, accepted>>
  BY DEF Reply, dinerVars
<1>5. TurnSound(NoTurn, previewed)
  BY DEF TurnSound, NoTurn
<1>6. DOMAIN turn' = Taps /\ \A s \in Taps : TurnSound(turn'[s], previewed)
  BY <1>4, <1>5, TurnMoves DEF DialogueInv
<1>7. \A s \in Taps : TurnSound(turn'[s], previewed')
  BY <1>3, <1>6, MoreShown
<1>8. OrdersSound(accepted, tray, drafts, previewed)'
  BY <1>3, <1>4 DEF DialogueInv, OrdersSound
<1>9. DraftSound(tray, drafts)' /\ tariff' \in Nat /\ previewed' \subseteq OrderPreview
  BY <1>1, <1>2, <1>3, <1>4 DEF DialogueInv, DraftSound
<1>10. QED
  BY <1>3, <1>6, <1>7, <1>8, <1>9 DEF DialogueInv

\* What happens outside the conversation changes the draft at most.
LEMMA OutsideKeeps ==
    ASSUME DialogueInv, UNCHANGED <<drafts, accepted, lastReply, previewed, turn>>, tariff' \in Nat,
           DraftSound(tray', drafts), tray # NoTray \/ tray' = NoTray
    PROVE  DialogueInv'
<1>1. OrdersSound(accepted, tray', drafts, previewed)
  BY OrdersApart DEF DialogueInv
<1>2. OrdersSound(accepted, tray, drafts, previewed)'
  BY <1>1 DEF OrdersSound
<1>3. DraftSound(tray, drafts)'
  BY DEF DraftSound
<1>4. \A t \in Taps : TurnSound(turn'[t], previewed')
  BY DEF DialogueInv
<1>5. QED
  BY <1>2, <1>3, <1>4 DEF DialogueInv

LEMMA ScreensKeep == ASSUME DialogueInv, ScreensNext PROVE DialogueInv'
<1>t. tray \in Draft /\ tariff \in Nat /\ DraftSound(tray, drafts)
  BY DEF DialogueInv, DraftSound
<1>1. ASSUME NEW v \in Tariffs, TariffChanges(v) PROVE DialogueInv'
  <2>1. UNCHANGED <<tray, drafts, accepted, lastReply, previewed, turn>> /\ tariff' \in Nat
    BY <1>1, DialogueAssumption DEF TariffChanges, Outside
  <2>2. QED
    BY <1>t, <2>1, OutsideKeeps
<1>2. CASE EditOnScreen
  <2>1. PICK items : items = Append(tray.items, FALSE)
    OBVIOUS
  <2>2. items \in Seq(BOOLEAN)
    <3>1. \A S : \A s \in Seq(S), e \in S : Append(s, e) \in Seq(S)
      OBVIOUS
    <3>2. tray.items \in Seq(BOOLEAN)
      BY <1>t DEF Draft
    <3>3. QED
      BY <2>1, <3>1, <3>2
  <2>3. tray' = [tray EXCEPT !.version = @ + 1, !.items = items]
    BY <1>2, <2>1 DEF EditOnScreen
  <2>4. tray # NoTray /\ tray.version <= MaxEditsOfDraft /\ UNCHANGED <<drafts, accepted, lastReply, previewed, turn, tariff>>
    BY <1>2 DEF EditOnScreen, Outside
  <2>5. DraftSound(tray', drafts)
    BY <1>t, <2>2, <2>3, <2>4, DraftEdited
  <2>6. tariff' \in Nat
    BY <1>t, <2>4
  <2>7. QED
    BY <2>4, <2>5, <2>6, OutsideKeeps
<1>3. CASE AbandonDraft
  <2>1. tray' = NoTray /\ UNCHANGED <<drafts, accepted, lastReply, previewed, turn, tariff>>
    BY <1>3 DEF AbandonDraft, Outside
  <2>2. DraftSound(NoTray, drafts)
    BY <1>t, DialogueAssumption DEF DraftSound, NoTray, Draft
  <2>3. QED
    BY <1>t, <2>1, <2>2, OutsideKeeps
<1>4. QED
  BY <1>1, <1>2, <1>3 DEF ScreensNext

LEMMA DialogueStep == ASSUME DialogueInv, [DialogueNext]_dialogueVars PROVE DialogueInv'
<1>u. ASSUME UNCHANGED <<tray, drafts, tariff, accepted, lastReply, previewed, turn>> PROVE DialogueInv'
  <2>1. DraftSound(tray', drafts) /\ tariff' \in Nat
    BY <1>u DEF DialogueInv
  <2>2. QED
    BY <1>u, <2>1, OutsideKeeps
<1>1. CASE UNCHANGED dialogueVars
  BY <1>1, <1>u DEF dialogueVars, dinerVars
<1>2. ASSUME NEW t \in Taps, NEW w \in STRING, NEW k \in ActionKeys, Hear(t, InterpretPendingOrText(w, lastReply), k)
      PROVE  DialogueInv'
  <2>1. CommandSound(InterpretPendingOrText(w, lastReply), previewed)
    BY InterpretationSound DEF DialogueInv
  <2>2. QED
    BY <1>2, <2>1, HearKeeps
<1>3. ASSUME NEW t \in Taps, NEW c \in ConversationActionCommand, NEW k \in ActionKeys, Hear(t, c, k) PROVE DialogueInv'
  <2>1. CommandSound(c, previewed)
    BY DEF ConversationActionCommand, CommandSound
  <2>2. QED
    BY <1>3, <2>1, HearKeeps
<1>4. CASE ScreensNext
  BY <1>4, ScreensKeep
<1>5. CASE PaymentsNext
  <2>1. UNCHANGED <<tray, drafts, tariff, accepted, lastReply, previewed, turn>>
    BY <1>5 DEF PaymentsNext, CloseChat, PayBill, Outside, dinerVars
  <2>2. QED
    BY <1>u, <2>1
<1>6. QED
  BY <1>1, <1>2, <1>3, <1>4, <1>5, ActKeeps, ReplyKeeps DEF DialogueNext, TurnsNext

\* Every order was accepted on terms a reply had shown for that draft and version, and a
\* draft became one order at most: the fingerprint compared by the confirmation
\* (orchestration.py, orchestrate_action) is enough, whoever edits or reprices meanwhile.
THEOREM ConfirmedAlways == DialogueSpec => []ConfirmedAsShown
<1>1. DialogueInv => ConfirmedAsShown
  <2> SUFFICES ASSUME DialogueInv PROVE ConfirmedAsShown
    OBVIOUS
  <2>1. tray.id \in 0 .. MaxDrafts /\ tray.version \in 0 .. MaxEditsOfDraft + 1 /\ tray.items \in Seq(BOOLEAN)
    BY DialogueAssumption DEF DialogueInv, DraftSound, Draft, NoTray
  <2>2. \A t \in Taps : turn[t].stage = "meant" => Command(t).intent \in RestaurantIntentCode
    BY DEF DialogueInv, TurnSound, CommandSound, Command
  <2>3. QED
    BY <2>1, <2>2 DEF ConfirmedAsShown, DialogueTypeOK, DialogueInv, OrdersSound
<1>2. QED
  BY <1>1, DialogueStart, DialogueStep, PTL DEF DialogueSpec

(***************************************************************************)
(* Cash.                                                                   *)
(***************************************************************************)

MovementAdded(rows, new, r) == new = Append(rows, r)

\* What one more movement changes: the sum and the number of its session, and the sum of its
\* payment.
MovementEffect(rows, new, r) ==
    /\ new \in Seq(CashMovement) /\ Len(new) = Len(rows) + 1 /\ new[Len(rows) + 1] = r
    /\ \A m \in DOMAIN rows : m \in DOMAIN new /\ new[m] = rows[m]
    /\ DOMAIN new = DOMAIN rows \cup {Len(rows) + 1}
    /\ \A s : /\ CashOf(rows, s) \in Int
              /\ CashOf(new, s) = CashOf(rows, s) + (IF r.session = s THEN r.amount ELSE 0)
    /\ \A p : /\ PaidOf(rows, p) \in Int
              /\ PaidOf(new, p) = PaidOf(rows, p) + (IF r.payment = p THEN r.amount ELSE 0)
    /\ \A s : /\ Cardinality(MovementsOf(rows, s)) \in Nat
              /\ Cardinality(MovementsOf(new, s)) = Cardinality(MovementsOf(rows, s)) + (IF r.session = s THEN 1 ELSE 0)

LEMMA MovementAdds ==
    ASSUME NEW rows \in Seq(CashMovement), NEW r \in CashMovement, NEW new, MovementAdded(rows, new, r)
    PROVE  MovementEffect(rows, new, r)
<1>1. PICK n \in Nat : n = Len(rows)
  OBVIOUS
<1>2. /\ new \in Seq(CashMovement) /\ Len(new) = n + 1 /\ new[n + 1] = r
      /\ DOMAIN new = 1 .. n + 1 /\ DOMAIN rows = 1 .. n
      /\ \A m \in 1 .. n : new[m] = rows[m]
  BY <1>1 DEF MovementAdded
<1>3. r.amount \in Int /\ \A m \in 1 .. n : rows[m].amount \in Int
  <2>1. \A m \in 1 .. n : rows[m] \in CashMovement
    BY <1>2
  <2>2. QED
    BY <2>1 DEF CashMovement
<1>4. ASSUME NEW s
      PROVE  /\ CashOf(rows, s) \in Int
             /\ CashOf(new, s) = CashOf(rows, s) + (IF r.session = s THEN r.amount ELSE 0)
  <2>1. PICK f : f = [m \in DOMAIN rows |-> IF rows[m].session = s THEN rows[m].amount ELSE 0]
    OBVIOUS
  <2>2. PICK h : h = [m \in DOMAIN new |-> IF new[m].session = s THEN new[m].amount ELSE 0]
    OBVIOUS
  <2>3. \A k \in 1 .. n : f[k] \in Int /\ h[k] = f[k]
    BY <1>2, <1>3, <2>1, <2>2
  <2>4. h[n + 1] = (IF r.session = s THEN r.amount ELSE 0) /\ h[n + 1] \in Int
    BY <1>2, <1>3, <2>2
  <2>5. Total(h, n + 1) = Total(f, n) + h[n + 1] /\ Total(f, n) \in Int
    BY <2>3, <2>4, TotalAppended
  <2>6. CashOf(rows, s) = Total(f, n) /\ CashOf(new, s) = Total(h, n + 1)
    BY <1>1, <1>2, <2>1, <2>2 DEF CashOf
  <2>7. QED
    BY <2>4, <2>5, <2>6
<1>5. ASSUME NEW p
      PROVE  /\ PaidOf(rows, p) \in Int
             /\ PaidOf(new, p) = PaidOf(rows, p) + (IF r.payment = p THEN r.amount ELSE 0)
  <2>1. PICK f : f = [m \in DOMAIN rows |-> IF rows[m].payment = p THEN rows[m].amount ELSE 0]
    OBVIOUS
  <2>2. PICK h : h = [m \in DOMAIN new |-> IF new[m].payment = p THEN new[m].amount ELSE 0]
    OBVIOUS
  <2>3. \A k \in 1 .. n : f[k] \in Int /\ h[k] = f[k]
    BY <1>2, <1>3, <2>1, <2>2
  <2>4. h[n + 1] = (IF r.payment = p THEN r.amount ELSE 0) /\ h[n + 1] \in Int
    BY <1>2, <1>3, <2>2
  <2>5. Total(h, n + 1) = Total(f, n) + h[n + 1] /\ Total(f, n) \in Int
    BY <2>3, <2>4, TotalAppended
  <2>6. PaidOf(rows, p) = Total(f, n) /\ PaidOf(new, p) = Total(h, n + 1)
    BY <1>1, <1>2, <2>1, <2>2 DEF PaidOf
  <2>7. QED
    BY <2>4, <2>5, <2>6
<1>6. ASSUME NEW s
      PROVE  /\ Cardinality(MovementsOf(rows, s)) \in Nat
             /\ Cardinality(MovementsOf(new, s)) = Cardinality(MovementsOf(rows, s)) + (IF r.session = s THEN 1 ELSE 0)
  <2>1. MovementsOf(rows, s) \subseteq 1 .. n /\ n + 1 \notin MovementsOf(rows, s)
    BY <1>2 DEF MovementsOf
  <2>2. IsFiniteSet(MovementsOf(rows, s)) /\ Cardinality(MovementsOf(rows, s)) \in Nat
    <3>1. IsFiniteSet(1 .. n)
      BY FS_Interval
    <3>2. IsFiniteSet(MovementsOf(rows, s))
      BY <2>1, <3>1, FS_Subset
    <3>3. QED
      BY <3>2, FS_CardinalityType
  <2>3. CASE r.session = s
    <3>1. MovementsOf(new, s) = MovementsOf(rows, s) \cup {n + 1}
      BY <1>2, <2>3 DEF MovementsOf
    <3>2. QED
      BY <2>1, <2>2, <2>3, <3>1, FS_AddElement
  <2>4. CASE r.session # s
    <3>1. MovementsOf(new, s) = MovementsOf(rows, s)
      BY <1>2, <2>4 DEF MovementsOf
    <3>2. QED
      BY <2>2, <2>4, <3>1
  <2>5. QED
    BY <2>3, <2>4
<1>7. \A m \in DOMAIN rows : m \in DOMAIN new /\ new[m] = rows[m]
  BY <1>2
<1>8. DOMAIN new = DOMAIN rows \cup {n + 1}
  BY <1>2
<1>9. QED
  BY <1>1, <1>2, <1>4, <1>5, <1>6, <1>7, <1>8 DEF MovementEffect

LEMMA SessionCashInt ==
    ASSUME NEW rows \in Seq(CashMovement), NEW s
    PROVE  CashOf(rows, s) \in Int
<1>1. PICK n \in Nat : n = Len(rows) /\ DOMAIN rows = 1 .. n
  OBVIOUS
<1>2. \A m \in 1 .. n : rows[m] \in CashMovement
  BY <1>1
<1>3. PICK f : f = [m \in DOMAIN rows |-> IF rows[m].session = s THEN rows[m].amount ELSE 0]
  OBVIOUS
<1>4. \A m \in 1 .. n : f[m] \in Int
  BY <1>1, <1>2, <1>3 DEF CashMovement
<1>5. QED
  BY <1>1, <1>3, <1>4, TotalInt DEF CashOf

\* A session has no more movements than there are.
LEMMA MovementsBounded ==
    ASSUME NEW rows \in Seq(CashMovement), Len(rows) <= MaxMovements, NEW s
    PROVE  Cardinality(MovementsOf(rows, s)) \in 0 .. MaxMovements
<1>1. PICK n \in Nat : n = Len(rows) /\ DOMAIN rows = 1 .. n
  OBVIOUS
<1>2. MovementsOf(rows, s) \subseteq 1 .. n
  BY <1>1 DEF MovementsOf
<1>3. IsFiniteSet(1 .. n) /\ Cardinality(1 .. n) = n
  <2>1. IsFiniteSet(1 .. n) /\ Cardinality(1 .. n) = IF 1 > n THEN 0 ELSE n - 1 + 1
    BY FS_Interval
  <2>2. QED
    BY <2>1
<1>4. Cardinality(MovementsOf(rows, s)) <= n /\ Cardinality(MovementsOf(rows, s)) \in Nat
  BY <1>2, <1>3, FS_Subset, FS_CardinalityType
<1>5. QED
  BY <1>1, <1>4, CashAssumption

Numbered(old, new, s, n) == new = [old EXCEPT ![s].version = @ + n]

MovedIn(s, n) ==
    /\ cashSession[s].status = "OPEN"
    /\ movement' \in Seq(CashMovement) /\ Len(movement') <= MaxMovements
    /\ \A m \in DOMAIN movement' : movement'[m].session \in DOMAIN cashSession /\ movement'[m].payment <= Len(cashPayment')
    /\ \A t : t # s => /\ CashOf(movement', t) = CashOf(movement, t)
                       /\ Cardinality(MovementsOf(movement', t)) = Cardinality(MovementsOf(movement, t))
    /\ Cardinality(MovementsOf(movement', s)) = Cardinality(MovementsOf(movement, s)) + n
    /\ Numbered(cashSession, cashSession', s, n)
    /\ UNCHANGED <<activated, cashCount, closing>>

\* Movements of an open session, n of them: the rest of the drawer is as it was.
LEMMA MovedInSession ==
    ASSUME CashInv, NEW s \in DOMAIN cashSession, NEW n \in Nat \ {0}, MovedIn(s, n)
    PROVE  /\ cashSession' \in Seq(CashSession) /\ Len(cashSession') = Len(cashSession)
           /\ VersionsNumberMovements' /\ CountsAreOfThePast'
           /\ ClosingsKnowTheSum' /\ SelectedCountsExist' /\ SessionsBalance'
<1> USE DEF MovedIn
<1>0. /\ cashSession \in Seq(CashSession) /\ movement \in Seq(CashMovement) /\ cashCount \in Seq(CashCount)
      /\ \A t \in DOMAIN cashSession : cashSession[t] \in CashSession
      /\ \A c \in DOMAIN cashCount : cashCount[c] \in CashCount
  BY DEF CashInv, CashRows
<1>1. PICK v : v = cashSession[s].version + n
  OBVIOUS
<1>2. v = Cardinality(MovementsOf(movement', s)) /\ v \in 0 .. MaxMovements /\ cashSession[s].version < v
  <2>1. v = Cardinality(MovementsOf(movement', s)) /\ v \in 0 .. MaxMovements
    BY <1>1, MovementsBounded DEF CashInv, VersionsNumberMovements, MovedIn
  <2>2. cashSession[s].version \in Nat
    BY <1>0, CashAssumption DEF CashSession
  <2>3. QED
    BY <1>1, <2>1, <2>2, CashAssumption
<1>3. PICK x : x = [cashSession[s] EXCEPT !.version = v]
  OBVIOUS
<1>4. /\ x \in CashSession /\ x.version = v /\ x.status = "OPEN" /\ x.register = cashSession[s].register
  BY <1>0, <1>2, <1>3 DEF CashSession
<1>5. cashSession' = [cashSession EXCEPT ![s] = x]
  BY <1>1, <1>3 DEF Numbered
<1>6. /\ cashSession' \in Seq(CashSession) /\ Len(cashSession') = Len(cashSession)
      /\ DOMAIN cashSession' = DOMAIN cashSession
      /\ \A t \in DOMAIN cashSession : cashSession'[t] = IF t = s THEN x ELSE cashSession[t]
  BY <1>0, <1>4, <1>5
<1>7. VersionsNumberMovements'
  <2>1. \A t \in DOMAIN cashSession : cashSession'[t].version = Cardinality(MovementsOf(movement', t))
    BY <1>2, <1>4, <1>6 DEF CashInv, VersionsNumberMovements
  <2>2. QED
    BY <1>6, <2>1 DEF VersionsNumberMovements
<1>8. CountsAreOfThePast'
  <2>1. ASSUME NEW c \in DOMAIN cashCount
        PROVE  /\ cashCount[c].session \in DOMAIN cashSession
               /\ cashCount[c].version <= cashSession'[cashCount[c].session].version
    <3>1. /\ cashCount[c].session \in DOMAIN cashSession
          /\ cashCount[c].version <= cashSession[cashCount[c].session].version
      BY DEF CashInv, CountsAreOfThePast
    <3>2. cashCount[c].version \in Nat /\ cashSession[cashCount[c].session].version \in Nat
      BY <1>0, <3>1, CashAssumption DEF CashCount, CashSession
    <3>3. QED
      BY <1>2, <1>4, <1>6, <3>1, <3>2
  <2>2. QED
    BY <1>6, <2>1 DEF CountsAreOfThePast
<1>9. ClosingsKnowTheSum'
  <2>1. ASSUME NEW k \in Closings, closing[k] # NoClosing
        PROVE  /\ closing[k] \in [count : DOMAIN cashCount, expected : Int]
               /\ CountIsCurrent(closing[k].count)' => closing[k].expected = ExpectedCash(cashCount[closing[k].count].session)'
    <3>1. PICK c : c = closing[k].count
      OBVIOUS
    <3>2. /\ closing[k] \in [count : DOMAIN cashCount, expected : Int] /\ c \in DOMAIN cashCount
          /\ CountIsCurrent(c) => closing[k].expected = ExpectedCash(cashCount[c].session)
      BY <2>1, <3>1 DEF CashInv, ClosingsKnowTheSum
    <3>3. /\ cashCount[c].session \in DOMAIN cashSession
          /\ cashCount[c].version <= cashSession[cashCount[c].session].version
          /\ cashCount[c].version \in Nat /\ cashSession[cashCount[c].session].version \in Nat
      <4>1. /\ cashCount[c].session \in DOMAIN cashSession
            /\ cashCount[c].version <= cashSession[cashCount[c].session].version
        BY <3>2 DEF CashInv, CountsAreOfThePast
      <4>2. cashCount[c] \in CashCount /\ cashSession[cashCount[c].session] \in CashSession
        BY <1>0, <3>2, <4>1
      <4>3. QED
        BY <4>1, <4>2, CashAssumption DEF CashCount, CashSession
    <3>4. CASE cashCount[c].session = s
      <4>1. cashSession'[cashCount[c].session].version = v /\ v \in Nat /\ cashCount[c].version < v
        BY <1>2, <1>4, <1>6, <3>3, <3>4, CashAssumption
      <4>2. ~CountIsCurrent(c)'
        BY <3>3, <4>1 DEF CountIsCurrent
      <4>3. QED
        BY <3>1, <3>2, <4>2
    <3>5. CASE cashCount[c].session # s
      <4>1. CashOf(movement', cashCount[c].session) = CashOf(movement, cashCount[c].session)
        BY <3>5
      <4>2. cashSession'[cashCount[c].session] = cashSession[cashCount[c].session]
        BY <1>6, <3>3, <3>5
      <4>3. CountIsCurrent(c)' => closing[k].expected = ExpectedCash(cashCount[c].session)'
        BY <3>2, <4>1, <4>2 DEF CountIsCurrent, ExpectedCash
      <4>4. QED
        BY <3>1, <3>2, <4>3
    <3>6. QED
      BY <3>4, <3>5
  <2>2. QED
    BY <2>1 DEF ClosingsKnowTheSum
<1>10. SelectedCountsExist'
  BY <1>4, <1>6 DEF CashInv, SelectedCountsExist
<1>11. SessionsBalance'
  <2>1. ASSUME NEW t \in DOMAIN cashSession, cashSession'[t].status = "CLOSED"
        PROVE  /\ cashSession'[t] = cashSession[t]
               /\ CashOf(movement', t) = CashOf(movement, t)
               /\ Cardinality(MovementsOf(movement', t)) = Cardinality(MovementsOf(movement, t))
    BY <1>4, <1>6, <2>1
  <2>2. \A t \in DOMAIN cashSession : cashSession'[t].status = cashSession[t].status /\ cashSession'[t].register = cashSession[t].register
    BY <1>4, <1>6
  <2>3. QED
    BY <1>6, <2>1, <2>2 DEF CashInv, SessionsBalance, ExpectedCash
<1>12. QED
  BY <1>6, <1>7, <1>8, <1>9, <1>10, <1>11

LEMMA CashStart == CashInit => CashInv
<1> SUFFICES ASSUME CashInit PROVE CashInv
  OBVIOUS
<1>1. CashRows
  <2>1. activated \in BOOLEAN
    BY DEF CashInit
  <2>2. PICK P : P = [session : 0 .. MaxSessions, amount : CashAmounts]
    OBVIOUS
  <2>3. /\ cashSession \in Seq(CashSession) /\ movement \in Seq(CashMovement) /\ cashCount \in Seq(CashCount) /\ cashPayment \in Seq(P)
        /\ Len(cashSession) = 0 /\ Len(movement) = 0 /\ Len(cashCount) = 0 /\ Len(cashPayment) = 0
    BY DEF CashInit
  <2>4. QED
    BY <2>1, <2>2, <2>3, CashAssumption DEF CashRows
<1>2. VersionsNumberMovements /\ CountsAreOfThePast /\ SelectedCountsExist /\ SessionsBalance /\ DrawerTellsPayments
  BY DEF CashInit, VersionsNumberMovements, CountsAreOfThePast, SelectedCountsExist, SessionsBalance, DrawerTellsPayments
<1>3. closing = [k \in Closings |-> closing[k]] /\ ClosingsKnowTheSum
  BY DEF CashInit, ClosingsKnowTheSum
<1>4. QED
  BY <1>1, <1>2, <1>3 DEF CashInv

LEMMA CashOpens ==
    ASSUME CashInv, NEW c \in Cashiers, NEW r \in Registers, OpenCashSession(c, r)
    PROVE  CashInv'
<1>0. /\ cashSession \in Seq(CashSession) /\ \A t \in DOMAIN cashSession : cashSession[t] \in CashSession
      /\ DOMAIN cashSession = 1 .. Len(cashSession) /\ Len(cashSession) \in Nat
      /\ UNCHANGED <<activated, movement, cashCount, cashPayment, closing>>
  BY DEF CashInv, CashRows, OpenCashSession
<1>1. PICK n \in Nat : n = Len(cashSession)
  BY <1>0
<1>2. PICK x : x = [register |-> r, cashier |-> c, status |-> "OPEN", version |-> 0, selected |-> 0, final |-> 0,
                    expected |-> 0, variance |-> 0, reasoned |-> FALSE, by |-> c]
  OBVIOUS
<1>3. x \in CashSession /\ x.status = "OPEN" /\ x.register = r /\ x.version = 0
  BY <1>2, CashAssumption DEF CashSession
<1>4. cashSession' = Append(cashSession, x)
  BY <1>2 DEF OpenCashSession
<1>5. /\ cashSession' \in Seq(CashSession) /\ Len(cashSession') = n + 1 /\ n + 1 <= MaxSessions
      /\ DOMAIN cashSession' = DOMAIN cashSession \cup {n + 1} /\ n + 1 \notin DOMAIN cashSession
      /\ cashSession'[n + 1] = x /\ \A t \in DOMAIN cashSession : cashSession'[t] = cashSession[t]
  <2>1. n < MaxSessions
    BY <1>1 DEF OpenCashSession
  <2>2. QED
    BY <1>0, <1>1, <1>3, <1>4, <2>1, CashAssumption
<1>6. CashRows'
  BY <1>0, <1>5 DEF CashInv, CashRows
<1>7. VersionsNumberMovements'
  <2>1. \A m \in DOMAIN movement : movement[m].session \in DOMAIN cashSession
    BY DEF CashInv, VersionsNumberMovements
  <2>2. MovementsOf(movement, n + 1) = {}
    BY <1>5, <2>1 DEF MovementsOf
  <2>3. Cardinality(MovementsOf(movement, n + 1)) = 0
    BY <2>2, FS_EmptySet
  <2>4. QED
    BY <1>0, <1>3, <1>5, <2>3 DEF CashInv, VersionsNumberMovements
<1>8. CountsAreOfThePast'
  BY <1>0, <1>5 DEF CashInv, CountsAreOfThePast
<1>9. ClosingsKnowTheSum'
  BY <1>0, <1>5 DEF CashInv, ClosingsKnowTheSum, CountIsCurrent, ExpectedCash, CountsAreOfThePast
<1>10. SelectedCountsExist'
  BY <1>0, <1>3, <1>5 DEF CashInv, SelectedCountsExist
<1>11. SessionsBalance'
  <2>1. \A t \in DOMAIN cashSession : ~(cashSession[t].register = r /\ cashSession[t].status = "OPEN")
    BY <1>0 DEF OpenCashSession, Range
  <2>2. \A t \in DOMAIN cashSession' : cashSession'[t].status = "CLOSED" => t \in DOMAIN cashSession /\ cashSession'[t] = cashSession[t]
    BY <1>3, <1>5
  <2>3. ASSUME NEW s \in DOMAIN cashSession', NEW t \in DOMAIN cashSession',
               cashSession'[s].status = "OPEN", cashSession'[t].status = "OPEN",
               cashSession'[s].register = cashSession'[t].register
        PROVE s = t
    <3>1. CASE s \in DOMAIN cashSession /\ t \in DOMAIN cashSession
      BY <1>5, <2>3, <3>1 DEF CashInv, SessionsBalance
    <3>2. QED
      BY <1>3, <1>5, <2>1, <2>3, <3>1
  <2>4. QED
    BY <1>0, <2>2, <2>3 DEF CashInv, SessionsBalance, ExpectedCash
<1>12. DrawerTellsPayments'
  BY <1>0 DEF CashInv, DrawerTellsPayments
<1>13. QED
  BY <1>0, <1>6, <1>7, <1>8, <1>9, <1>10, <1>11, <1>12 DEF CashInv

LEMMA CashCounted ==
    ASSUME CashInv, NEW c \in Cashiers, NEW s \in DOMAIN cashSession, NEW a \in ManualAmounts \cup {0}, CreateCashCount(c, s, a)
    PROVE  CashInv'
<1>0. /\ cashCount \in Seq(CashCount) /\ DOMAIN cashCount = 1 .. Len(cashCount) /\ Len(cashCount) \in Nat
      /\ cashSession \in Seq(CashSession) /\ cashSession[s] \in CashSession /\ s \in 1 .. MaxSessions
      /\ UNCHANGED <<activated, cashSession, movement, cashPayment, closing>>
  BY CashAssumption DEF CashInv, CashRows, CreateCashCount
<1>1. PICK n \in Nat : n = Len(cashCount)
  BY <1>0
<1>2. PICK x : x = [session |-> s, amount |-> a, version |-> cashSession[s].version, actor |-> c]
  OBVIOUS
<1>3. x \in CashCount /\ x.session = s /\ x.version = cashSession[s].version /\ cashSession[s].version \in Nat
  BY <1>0, <1>2, CashAssumption DEF CashCount, CashSession
<1>4. cashCount' = Append(cashCount, x)
  BY <1>2 DEF CreateCashCount
<1>5. /\ cashCount' \in Seq(CashCount) /\ Len(cashCount') = n + 1 /\ n + 1 <= MaxCounts
      /\ DOMAIN cashCount' = DOMAIN cashCount \cup {n + 1}
      /\ cashCount'[n + 1] = x /\ \A t \in DOMAIN cashCount : cashCount'[t] = cashCount[t]
  <2>1. n < MaxCounts
    BY <1>1 DEF CreateCashCount
  <2>2. QED
    BY <1>0, <1>1, <1>3, <1>4, <2>1, CashAssumption
<1>6. CashRows'
  BY <1>0, <1>5 DEF CashInv, CashRows
<1>7. VersionsNumberMovements' /\ DrawerTellsPayments'
  BY <1>0 DEF CashInv, VersionsNumberMovements, DrawerTellsPayments
<1>8. CountsAreOfThePast'
  BY <1>0, <1>3, <1>5 DEF CashInv, CountsAreOfThePast
<1>9. ClosingsKnowTheSum'
  BY <1>0, <1>5 DEF CashInv, ClosingsKnowTheSum, CountIsCurrent, ExpectedCash
<1>10. SelectedCountsExist'
  BY <1>0, <1>5 DEF CashInv, SelectedCountsExist
<1>11. SessionsBalance'
  BY <1>0, <1>5 DEF CashInv, SessionsBalance, ExpectedCash, SelectedCountsExist
<1>12. QED
  BY <1>0, <1>6, <1>7, <1>8, <1>9, <1>10, <1>11 DEF CashInv

LEMMA CashMovedByHand ==
    ASSUME CashInv, NEW c \in Cashiers, NEW s \in DOMAIN cashSession, NEW t \in MovementTypes, NEW a \in Signed,
           CreateManualMovement(c, s, t, a)
    PROVE  CashInv'
<1>0. /\ movement \in Seq(CashMovement) /\ Len(movement) \in Nat /\ cashSession \in Seq(CashSession) /\ s \in 1 .. MaxSessions
      /\ UNCHANGED <<activated, cashCount, cashPayment, closing>> /\ cashSession[s].status = "OPEN"
      /\ a \in Int /\ Len(movement) < MaxMovements
      /\ Numbered(cashSession, cashSession', s, 1)
  <2>1. a \in Int
    <3>1. \A b \in ManualAmounts : b \in Int
      BY CashAssumption
    <3>2. \A b \in Int : -b \in Int
      OBVIOUS
    <3>3. \A b \in ManualAmounts : -b \in Int
      BY <3>1, <3>2
    <3>4. a \in ManualAmounts \/ \E b \in ManualAmounts : a = -b
      BY DEF Signed
    <3>5. QED
      BY <3>1, <3>3, <3>4
  <2>2. s \in 1 .. MaxSessions /\ movement \in Seq(CashMovement) /\ cashSession \in Seq(CashSession) /\ Len(movement) \in Nat
    BY CashAssumption DEF CashInv, CashRows
  <2>3. /\ UNCHANGED <<activated, cashCount, cashPayment, closing>> /\ cashSession[s].status = "OPEN"
        /\ Len(movement) < MaxMovements
    BY DEF CreateManualMovement
  <2>4. Numbered(cashSession, cashSession', s, 1)
    BY DEF CreateManualMovement, Numbered
  <2>5. QED
    BY <2>1, <2>2, <2>3, <2>4
<1>1. PICK x : x = [session |-> s, type |-> t, amount |-> a, payment |-> 0, actor |-> c]
  OBVIOUS
<1>2. x \in CashMovement /\ x.session = s /\ x.payment = 0 /\ x.amount = a
  BY <1>0, <1>1, CashAssumption DEF CashMovement
<1>3. MovementEffect(movement, movement', x)
  <2>1. MovementAdded(movement, movement', x)
    BY <1>1 DEF CreateManualMovement, MovementAdded
  <2>2. QED
    BY <1>0, <1>2, <2>1, MovementAdds
<1>4. /\ movement' \in Seq(CashMovement) /\ Len(movement') <= MaxMovements
      /\ \A m \in DOMAIN movement' : movement'[m].session \in DOMAIN cashSession /\ movement'[m].payment <= Len(cashPayment')
  <2>1. /\ movement' \in Seq(CashMovement) /\ Len(movement') = Len(movement) + 1 /\ movement'[Len(movement) + 1] = x
        /\ DOMAIN movement' = DOMAIN movement \cup {Len(movement) + 1}
        /\ \A m \in DOMAIN movement : movement'[m] = movement[m]
    BY <1>3 DEF MovementEffect
  <2>2. Len(cashPayment) \in Nat
    BY DEF CashInv, CashRows
  <2>3. \A m \in DOMAIN movement : movement[m].session \in DOMAIN cashSession /\ movement[m].payment <= Len(cashPayment)
    BY DEF CashInv, VersionsNumberMovements
  <2>4. Len(movement') <= MaxMovements
    BY <1>0, <2>1, CashAssumption
  <2>5. QED
    BY <1>0, <1>2, <2>1, <2>2, <2>3, <2>4
<1>5. \A u : u # s => /\ CashOf(movement', u) = CashOf(movement, u)
                      /\ Cardinality(MovementsOf(movement', u)) = Cardinality(MovementsOf(movement, u))
  <2>1. ASSUME NEW u, u # s
        PROVE  /\ CashOf(movement', u) = CashOf(movement, u)
               /\ Cardinality(MovementsOf(movement', u)) = Cardinality(MovementsOf(movement, u))
    BY <1>2, <1>3, <2>1 DEF MovementEffect
  <2>2. QED
    BY <2>1
<1>6. Cardinality(MovementsOf(movement', s)) = Cardinality(MovementsOf(movement, s)) + 1
  BY <1>2, <1>3 DEF MovementEffect
<1>7. /\ cashSession' \in Seq(CashSession) /\ Len(cashSession') = Len(cashSession)
      /\ VersionsNumberMovements' /\ CountsAreOfThePast'
      /\ ClosingsKnowTheSum' /\ SelectedCountsExist' /\ SessionsBalance'
  <2>1. MovedIn(s, 1)
    BY <1>0, <1>4, <1>5, <1>6 DEF MovedIn
  <2>2. QED
    BY <2>1, MovedInSession
<1>8. DrawerTellsPayments'
  <2>1. ASSUME NEW p \in DOMAIN cashPayment PROVE PaidOf(movement', p) = PaidOf(movement, p)
    <3>1. p # 0
      BY DEF CashInv, CashRows
    <3>2. QED
      BY <1>2, <1>3, <3>1 DEF MovementEffect
  <2>2. QED
    BY <1>0, <2>1 DEF CashInv, DrawerTellsPayments
<1>9. CashRows'
  BY <1>0, <1>4, <1>7 DEF CashInv, CashRows
<1>10. QED
  BY <1>0, <1>7, <1>8, <1>9 DEF CashInv

\* Nothing was moved yet for the payment that comes next.
LEMMA NextPaymentUnpaid ==
    ASSUME NEW rows \in Seq(CashMovement), NEW n \in Nat, \A m \in DOMAIN rows : rows[m].payment <= n
    PROVE  PaidOf(rows, n + 1) = 0
<1>1. PICK k \in Nat : k = Len(rows) /\ DOMAIN rows = 1 .. k
  OBVIOUS
<1>2. PICK f : f = [m \in DOMAIN rows |-> IF rows[m].payment = n + 1 THEN rows[m].amount ELSE 0]
  OBVIOUS
<1>3. \A m \in 1 .. k : f[m] = 0
  BY <1>1, <1>2
<1>4. Total(f, k) = 0
  BY <1>3, TotalNone
<1>5. QED
  BY <1>1, <1>2, <1>4 DEF PaidOf

LEMMA OneRowAdded ==
    ASSUME NEW S, NEW q \in Seq(S), NEW a \in S
    PROVE  q \o <<a>> = Append(q, a)
OBVIOUS

LEMMA TwoRowsAdded ==
    ASSUME NEW S, NEW q \in Seq(S), NEW a \in S, NEW b \in S
    PROVE  q \o (<<a>> \o <<b>>) = Append(Append(q, a), b)
OBVIOUS

CashReceipt == [session : 0 .. MaxSessions, amount : CashAmounts]

\* A payment beside what it moved: the earlier ones are told as before.
LEMMA PaymentTold ==
    ASSUME CashInv, NEW x \in CashReceipt, cashPayment' = Append(cashPayment, x), Len(cashPayment) + 1 <= MaxCashPayments,
           \A p \in DOMAIN cashPayment : PaidOf(movement', p) = PaidOf(movement, p),
           PaidOf(movement', Len(cashPayment) + 1) = (IF x.session = NoSession THEN 0 ELSE x.amount)
    PROVE  DrawerTellsPayments' /\ cashPayment' \in Seq(CashReceipt) /\ Len(cashPayment') = Len(cashPayment) + 1
<1>1. cashPayment \in Seq(CashReceipt)
  BY DEF CashInv, CashRows, CashReceipt
<1>2. PICK n \in Nat : n = Len(cashPayment)
  BY <1>1
<1>3. /\ cashPayment' \in Seq(CashReceipt) /\ Len(cashPayment') = n + 1 /\ DOMAIN cashPayment' = DOMAIN cashPayment \cup {n + 1}
      /\ cashPayment'[n + 1] = x /\ \A p \in DOMAIN cashPayment : cashPayment'[p] = cashPayment[p]
  BY <1>1, <1>2
<1>4. DrawerTellsPayments'
  BY <1>2, <1>3 DEF CashInv, DrawerTellsPayments
<1>5. QED
  BY <1>2, <1>3, <1>4

LEMMA CashPaid ==
    ASSUME CashInv, NEW s \in DOMAIN cashSession \cup {NoSession}, NEW a \in CashAmounts, NEW t \in CashAmounts, PayCash(s, a, t)
    PROVE  CashInv'
<1>0. /\ movement \in Seq(CashMovement) /\ Len(movement) \in Nat /\ cashSession \in Seq(CashSession)
      /\ cashPayment \in Seq(CashReceipt) /\ Len(cashPayment) \in Nat /\ cashSession \in Seq(CashSession)
      /\ UNCHANGED <<activated, cashCount, closing>> /\ a \in Nat /\ t \in Nat /\ a <= t
      /\ Len(movement) + 2 <= MaxMovements /\ Len(cashPayment) + 1 <= MaxCashPayments
      /\ s \in 0 .. MaxSessions
  <2>1. /\ movement \in Seq(CashMovement) /\ Len(movement) \in Nat /\ cashSession \in Seq(CashSession)
        /\ cashPayment \in Seq(CashReceipt) /\ Len(cashPayment) \in Nat /\ cashSession \in Seq(CashSession)
    BY DEF CashInv, CashRows, CashReceipt
  <2>2. s \in 0 .. MaxSessions
    BY CashAssumption DEF CashInv, CashRows, NoSession
  <2>3. QED
    BY <2>1, <2>2, CashAssumption DEF PayCash
<1>1. PICK p \in Nat : p = Len(cashPayment) + 1
  BY <1>0
<1>2. PICK x : x = [session |-> s, amount |-> a]
  OBVIOUS
<1>3. x \in CashReceipt /\ x.session = s /\ x.amount = a /\ cashPayment' = Append(cashPayment, x)
  BY <1>0, <1>2 DEF CashReceipt, PayCash
<1>4. \A m \in DOMAIN movement : movement[m].session \in DOMAIN cashSession /\ movement[m].payment <= Len(cashPayment)
  BY DEF CashInv, VersionsNumberMovements
<1>5. PaidOf(movement, p) = 0
  BY <1>0, <1>1, <1>4, NextPaymentUnpaid
<1>6. \A n \in DOMAIN cashPayment : n # p
  BY <1>0, <1>1
<1>7. CASE s = NoSession
  <2>1. movement' = movement /\ cashSession' = cashSession
    BY <1>0, <1>7 DEF PayCash
  <2>2. DrawerTellsPayments' /\ cashPayment' \in Seq(CashReceipt) /\ Len(cashPayment') = Len(cashPayment) + 1
    BY <1>0, <1>1, <1>3, <1>5, <1>7, <2>1, PaymentTold
  <2>3. CashRows'
    BY <1>0, <2>1, <2>2 DEF CashInv, CashRows, CashReceipt
  <2>4. VersionsNumberMovements'
    <3>1. \A m \in DOMAIN movement : movement[m].payment <= Len(cashPayment) + 1
      <4>1. \A m \in DOMAIN movement : movement[m] \in CashMovement
        BY <1>0
      <4>2. QED
        BY <1>0, <1>4, <4>1, CashAssumption DEF CashMovement
    <3>2. QED
      BY <2>1, <2>2, <3>1 DEF CashInv, VersionsNumberMovements
  <2>5. /\ CountsAreOfThePast' /\ closing' = [k \in Closings |-> closing'[k]] /\ ClosingsKnowTheSum'
        /\ SelectedCountsExist' /\ SessionsBalance'
    BY <1>0, <2>1 DEF CashInv, CountsAreOfThePast, ClosingsKnowTheSum, CountIsCurrent, ExpectedCash, SelectedCountsExist, SessionsBalance
  <2>6. QED
    BY <2>2, <2>3, <2>4, <2>5 DEF CashInv
<1>8. CASE s # NoSession
  <2>0. s \in DOMAIN cashSession /\ cashSession[s].status = "OPEN"
    BY <1>8 DEF PayCash, CashSessionForPayment
  <2>1. PICK y : y = [session |-> s, type |-> "CUSTOMER_TENDER", amount |-> t, payment |-> p, actor |-> "payment"]
    OBVIOUS
  <2>2. PICK z : z = [session |-> s, type |-> "CUSTOMER_CHANGE", amount |-> a - t, payment |-> p, actor |-> "payment"]
    OBVIOUS
  <2>3. /\ y \in CashMovement /\ z \in CashMovement
        /\ y.session = s /\ z.session = s /\ y.payment = p /\ z.payment = p /\ y.amount = t /\ z.amount = a - t
    BY <1>0, <1>1, <1>8, <2>1, <2>2 DEF CashMovement, NoSession
  <2>4. PICK one : one = Append(movement, y)
    OBVIOUS
  <2>5. MovementEffect(movement, one, y) /\ one \in Seq(CashMovement)
    <3>1. MovementAdded(movement, one, y)
      BY <2>4 DEF MovementAdded
    <3>2. MovementEffect(movement, one, y)
      BY <1>0, <2>3, <3>1, MovementAdds
    <3>3. QED
      BY <3>2 DEF MovementEffect
  <2>6. ASSUME NEW n \in {1, 2}, movement' \in Seq(CashMovement), Len(movement') = Len(movement) + n,
               \A m \in DOMAIN movement' : (m \in DOMAIN movement /\ movement'[m] = movement[m]) \/ movement'[m] \in {y, z},
               \A u : u # s => /\ CashOf(movement', u) = CashOf(movement, u)
                               /\ Cardinality(MovementsOf(movement', u)) = Cardinality(MovementsOf(movement, u)),
               Cardinality(MovementsOf(movement', s)) = Cardinality(MovementsOf(movement, s)) + n,
               \A u \in Nat : PaidOf(movement', u) = IF u = p THEN a ELSE PaidOf(movement, u),
               Numbered(cashSession, cashSession', s, n)
        PROVE  CashInv'
    <3>1. DrawerTellsPayments' /\ cashPayment' \in Seq(CashReceipt) /\ Len(cashPayment') = Len(cashPayment) + 1
      <4>1. \A u \in DOMAIN cashPayment : PaidOf(movement', u) = PaidOf(movement, u)
        BY <1>0, <1>6, <2>6
      <4>2. PaidOf(movement', Len(cashPayment) + 1) = (IF x.session = NoSession THEN 0 ELSE x.amount)
        BY <1>1, <1>3, <1>8, <2>6
      <4>3. QED
        BY <1>0, <1>3, <4>1, <4>2, PaymentTold
    <3>2. \A m \in DOMAIN movement' : movement'[m].session \in DOMAIN cashSession /\ movement'[m].payment <= Len(cashPayment')
      <4>1. \A m \in DOMAIN movement : movement[m].payment \in Nat
        <5>1. \A m \in DOMAIN movement : movement[m] \in CashMovement
          BY <1>0
        <5>2. QED
          BY <5>1, CashAssumption DEF CashMovement
      <4>2. ASSUME NEW m \in DOMAIN movement'
            PROVE  movement'[m].session \in DOMAIN cashSession /\ movement'[m].payment <= Len(cashPayment')
        <5>1. CASE m \in DOMAIN movement /\ movement'[m] = movement[m]
          BY <1>0, <1>4, <3>1, <4>1, <5>1
        <5>2. CASE movement'[m] \in {y, z}
          BY <1>0, <1>1, <2>0, <2>3, <3>1, <5>2
        <5>3. QED
          BY <2>6, <5>1, <5>2
      <4>3. QED
        BY <4>2
    <3>3. Len(movement') <= MaxMovements
      BY <1>0, <2>6, CashAssumption
    <3>4. MovedIn(s, n)
      BY <1>0, <2>0, <2>6, <3>2, <3>3 DEF MovedIn
    <3>5. /\ cashSession' \in Seq(CashSession) /\ Len(cashSession') = Len(cashSession)
          /\ VersionsNumberMovements' /\ CountsAreOfThePast'
          /\ ClosingsKnowTheSum' /\ SelectedCountsExist' /\ SessionsBalance'
      <4>1. n \in Nat \ {0}
        BY <2>6
      <4>2. QED
        BY <2>0, <3>4, <4>1, MovedInSession
    <3>6. CashRows'
      BY <1>0, <2>6, <3>1, <3>3, <3>5 DEF CashInv, CashRows, CashReceipt
    <3>7. QED
      BY <1>0, <3>1, <3>5, <3>6 DEF CashInv
  <2>7. CASE t > a
    <3>1. MovementEffect(one, movement', z)
      <4>1. movement' = movement \o (<<y>> \o <<z>>)
        BY <1>1, <1>8, <2>1, <2>2, <2>7 DEF PayCash, PaymentMovements
      <4>2. movement' = Append(one, z)
        BY <1>0, <2>3, <2>4, <4>1, TwoRowsAdded
      <4>3. MovementAdded(one, movement', z)
        BY <4>2 DEF MovementAdded
      <4>4. QED
        BY <2>3, <2>5, <4>3, MovementAdds
    <3>2. Numbered(cashSession, cashSession', s, 2)
      BY <1>8, <2>7 DEF PayCash, PaymentMovements, Numbered
    <3>3. /\ movement' \in Seq(CashMovement) /\ Len(movement') = Len(movement) + 2
          /\ \A m \in DOMAIN movement' : (m \in DOMAIN movement /\ movement'[m] = movement[m]) \/ movement'[m] \in {y, z}
      BY <1>0, <2>5, <3>1 DEF MovementEffect
    <3>4. \A u : u # s => /\ CashOf(movement', u) = CashOf(movement, u)
                          /\ Cardinality(MovementsOf(movement', u)) = Cardinality(MovementsOf(movement, u))
      BY <2>3, <2>5, <3>1 DEF MovementEffect
    <3>5. Cardinality(MovementsOf(movement', s)) = Cardinality(MovementsOf(movement, s)) + 2
      BY <2>3, <2>5, <3>1 DEF MovementEffect
    <3>6. ASSUME NEW u \in Nat PROVE PaidOf(movement', u) = IF u = p THEN a ELSE PaidOf(movement, u)
      <4>1. PaidOf(movement, u) \in Int /\ PaidOf(one, u) = PaidOf(movement, u) + (IF y.payment = u THEN y.amount ELSE 0)
        BY <2>5 DEF MovementEffect
      <4>2. PaidOf(movement', u) = PaidOf(one, u) + (IF z.payment = u THEN z.amount ELSE 0)
        BY <3>1 DEF MovementEffect
      <4>3. QED
        BY <1>0, <1>5, <2>3, <4>1, <4>2
    <3>7. QED
      BY <2>6, <3>2, <3>3, <3>4, <3>5, <3>6
  <2>8. CASE ~(t > a)
    <3>1. movement' = one /\ t = a
      <4>1. movement' = movement \o (<<y>> \o <<>>)
        BY <1>1, <1>8, <2>1, <2>8 DEF PayCash, PaymentMovements
      <4>2. movement' = movement \o <<y>>
        BY <2>3, <4>1
      <4>3. QED
        BY <1>0, <2>3, <2>4, <2>8, <4>2, OneRowAdded
    <3>2. Numbered(cashSession, cashSession', s, 1)
      BY <1>8, <2>8 DEF PayCash, PaymentMovements, Numbered
    <3>3. /\ movement' \in Seq(CashMovement) /\ Len(movement') = Len(movement) + 1
          /\ \A m \in DOMAIN movement' : (m \in DOMAIN movement /\ movement'[m] = movement[m]) \/ movement'[m] \in {y, z}
      BY <1>0, <2>5, <3>1 DEF MovementEffect
    <3>4. \A u : u # s => /\ CashOf(movement', u) = CashOf(movement, u)
                          /\ Cardinality(MovementsOf(movement', u)) = Cardinality(MovementsOf(movement, u))
      BY <2>3, <2>5, <3>1 DEF MovementEffect
    <3>5. Cardinality(MovementsOf(movement', s)) = Cardinality(MovementsOf(movement, s)) + 1
      BY <2>3, <2>5, <3>1 DEF MovementEffect
    <3>6. ASSUME NEW u \in Nat PROVE PaidOf(movement', u) = IF u = p THEN a ELSE PaidOf(movement, u)
      <4>1. PaidOf(movement, u) \in Int /\ PaidOf(one, u) = PaidOf(movement, u) + (IF y.payment = u THEN y.amount ELSE 0)
        BY <2>5 DEF MovementEffect
      <4>2. QED
        BY <1>0, <1>5, <2>3, <3>1, <4>1
    <3>7. QED
      BY <2>6, <3>2, <3>3, <3>4, <3>5, <3>6
  <2>9. QED
    BY <2>7, <2>8
<1>9. QED
  BY <1>7, <1>8

LEMMA CashCloseBegins ==
    ASSUME CashInv, NEW k \in Closings, NEW n \in DOMAIN cashCount, BeginClose(k, n)
    PROVE  CashInv'
<1>0. /\ UNCHANGED <<activated, cashSession, movement, cashCount, cashPayment>>
      /\ movement \in Seq(CashMovement)
  BY DEF BeginClose, CashInv, CashRows
<1>1. PICK x : x = [count |-> n, expected |-> ExpectedCash(cashCount[n].session)]
  OBVIOUS
<1>2. closing' = [closing EXCEPT ![k] = x]
  BY <1>1 DEF BeginClose
<1>3. closing' = [j \in Closings |-> closing'[j]] /\ \A j \in Closings : closing'[j] = IF j = k THEN x ELSE closing[j]
  BY <1>2 DEF CashInv
<1>4. x \in [count : DOMAIN cashCount, expected : Int] /\ x.count = n /\ x.expected = ExpectedCash(cashCount[n].session)
  <2>1. ExpectedCash(cashCount[n].session) \in Int
    BY <1>0, SessionCashInt DEF ExpectedCash
  <2>2. QED
    BY <1>1, <2>1
<1>5. ClosingsKnowTheSum'
  <2>1. ASSUME NEW j \in Closings
        PROVE  \/ closing'[j] = NoClosing
               \/ /\ closing'[j] \in [count : DOMAIN cashCount, expected : Int]
                  /\ CountIsCurrent(closing'[j].count) => closing'[j].expected = ExpectedCash(cashCount[closing'[j].count].session)
    <3>1. CASE j = k
      BY <1>3, <1>4, <3>1
    <3>2. CASE j # k
      BY <1>3, <3>2 DEF CashInv, ClosingsKnowTheSum
    <3>3. QED
      BY <3>1, <3>2
  <2>2. QED
    BY <1>0, <2>1 DEF ClosingsKnowTheSum, CountIsCurrent, ExpectedCash
<1>6. /\ CashRows' /\ VersionsNumberMovements' /\ CountsAreOfThePast' /\ SelectedCountsExist' /\ SessionsBalance' /\ DrawerTellsPayments'
  BY <1>0 DEF CashInv, CashRows, VersionsNumberMovements, CountsAreOfThePast, SelectedCountsExist, SessionsBalance, ExpectedCash, DrawerTellsPayments
<1>7. QED
  BY <1>3, <1>5, <1>6 DEF CashInv

\* A request that ends is forgotten.
LEMMA ClosingForgotten ==
    ASSUME CashInv, NEW k \in Closings, closing' = [closing EXCEPT ![k] = NoClosing]
    PROVE  closing' = [j \in Closings |-> closing'[j]] /\ \A j \in Closings : closing'[j] = IF j = k THEN NoClosing ELSE closing[j]
BY DEF CashInv

LEMMA CashCloseRefused ==
    ASSUME CashInv, NEW k \in Closings, RefuseClose(k)
    PROVE  CashInv'
<1>0. UNCHANGED <<activated, cashSession, movement, cashCount, cashPayment>>
  BY DEF RefuseClose
<1>1. closing' = [j \in Closings |-> closing'[j]] /\ \A j \in Closings : closing'[j] = IF j = k THEN NoClosing ELSE closing[j]
  BY ClosingForgotten DEF RefuseClose
<1>2. ClosingsKnowTheSum'
  BY <1>0, <1>1 DEF CashInv, ClosingsKnowTheSum, CountIsCurrent, ExpectedCash
<1>3. /\ CashRows' /\ VersionsNumberMovements' /\ CountsAreOfThePast' /\ SelectedCountsExist' /\ SessionsBalance' /\ DrawerTellsPayments'
  BY <1>0 DEF CashInv, CashRows, VersionsNumberMovements, CountsAreOfThePast, SelectedCountsExist, SessionsBalance, ExpectedCash, DrawerTellsPayments
<1>4. QED
  BY <1>1, <1>2, <1>3 DEF CashInv

\* What closing writes into the row.
Closed(old, new, n, expected, variance, c) ==
    \E b \in BOOLEAN :
        /\ (b <=> variance # 0)
        /\ new = [old EXCEPT !.selected = n, !.final = old.version, !.expected = expected, !.variance = variance,
                             !.reasoned = b, !.status = "CLOSED", !.by = c]

LEMMA ClosedRow ==
    ASSUME NEW old \in CashSession, NEW new, NEW n \in 0 .. MaxCounts, NEW e \in Int, NEW v \in Int, NEW c \in Cashiers,
           Closed(old, new, n, e, v, c)
    PROVE  /\ new \in CashSession /\ new.status = "CLOSED" /\ new.version = old.version /\ new.register = old.register
           /\ new.selected = n /\ new.final = old.version /\ new.expected = e /\ new.variance = v
           /\ (new.reasoned <=> v # 0)
<1>1. PICK b \in BOOLEAN : /\ (b <=> v # 0)
                           /\ new = [old EXCEPT !.selected = n, !.final = old.version, !.expected = e, !.variance = v,
                                                !.reasoned = b, !.status = "CLOSED", !.by = c]
  BY DEF Closed
<1>3. /\ new \in CashSession /\ new.status = "CLOSED" /\ new.version = old.version /\ new.register = old.register
      /\ new.selected = n /\ new.final = old.version /\ new.expected = e /\ new.variance = v /\ new.reasoned = b
  BY <1>1 DEF CashSession
<1>4. QED
  BY <1>1, <1>3

ClosedIn(s, n, e, v, c) == \E x : Closed(cashSession[s], x, n, e, v, c) /\ cashSession' = [cashSession EXCEPT ![s] = x]

LEMMA CashCloses ==
    ASSUME CashInv, NEW c \in Cashiers, NEW k \in Closings, NEW b \in BOOLEAN, CloseCashSession(c, k, b)
    PROVE  CashInv'
<1>1. PICK n : n = closing[k].count
  OBVIOUS
<1>2. PICK e : e = closing[k].expected
  OBVIOUS
<1>3. PICK s : s = cashCount[n].session
  OBVIOUS
<1>4. closing[k] # NoClosing /\ cashSession[s].status = "OPEN" /\ CountIsCurrent(n)
  BY <1>1, <1>3 DEF CloseCashSession
<1>5. n \in DOMAIN cashCount /\ e \in Int /\ e = ExpectedCash(s)
  <2>1. closing[k] \in [count : DOMAIN cashCount, expected : Int] /\ e = ExpectedCash(s)
    BY <1>1, <1>2, <1>3, <1>4 DEF CashInv, ClosingsKnowTheSum
  <2>2. QED
    BY <1>1, <1>2, <2>1
<1>6. /\ cashSession \in Seq(CashSession) /\ cashCount \in Seq(CashCount) /\ s \in DOMAIN cashSession /\ cashSession[s] \in CashSession
      /\ cashCount[n].amount \in Nat /\ n \in 0 .. MaxCounts
      /\ UNCHANGED <<activated, movement, cashCount, cashPayment>> /\ closing' = [closing EXCEPT ![k] = NoClosing]
  <2>1. cashSession \in Seq(CashSession) /\ cashCount \in Seq(CashCount) /\ Len(cashCount) <= MaxCounts
    BY DEF CashInv, CashRows
  <2>2. s \in DOMAIN cashSession
    BY <1>3, <1>5 DEF CashInv, CountsAreOfThePast
  <2>3. cashCount[n].amount \in Nat
    <3>1. cashCount[n] \in CashCount
      BY <1>5, <2>1
    <3>2. cashCount[n].amount \in ManualAmounts \cup {0}
      BY <3>1 DEF CashCount
    <3>3. \A u \in ManualAmounts \cup {0} : u \in Nat
      BY CashAssumption
    <3>4. QED
      BY <3>2, <3>3
  <2>4. n \in 0 .. MaxCounts
    BY <1>5, <2>1, CashAssumption
  <2>5. UNCHANGED <<activated, movement, cashCount, cashPayment>> /\ closing' = [closing EXCEPT ![k] = NoClosing]
    BY DEF CloseCashSession
  <2>6. cashSession[s] \in CashSession
    BY <2>1, <2>2
  <2>7. QED
    BY <2>1, <2>2, <2>3, <2>4, <2>5, <2>6
<1>7. PICK v \in Int : v = cashCount[n].amount - e
  BY <1>5, <1>6
<1>8. ClosedIn(s, n, e, v, c)
  <2>1. PICK r \in BOOLEAN : r = (v # 0)
    OBVIOUS
  <2>2. PICK x : x = [cashSession[s] EXCEPT !.selected = n, !.final = cashSession[s].version, !.expected = e, !.variance = v,
                                            !.reasoned = r, !.status = "CLOSED", !.by = c]
    OBVIOUS
  <2>3. Closed(cashSession[s], x, n, e, v, c)
    BY <2>1, <2>2 DEF Closed
  <2>4. cashSession' = [cashSession EXCEPT ![s] = x]
    BY <1>1, <1>2, <1>3, <1>7, <2>1, <2>2 DEF CloseCashSession
  <2>5. QED
    BY <2>3, <2>4 DEF ClosedIn
<1>9. PICK x : Closed(cashSession[s], x, n, e, v, c) /\ cashSession' = [cashSession EXCEPT ![s] = x]
  BY <1>8 DEF ClosedIn
<1>10. /\ x \in CashSession /\ x.status = "CLOSED" /\ x.version = cashSession[s].version /\ x.register = cashSession[s].register
       /\ x.selected = n /\ x.final = cashSession[s].version /\ x.expected = e /\ x.variance = v
       /\ (x.reasoned <=> v # 0)
  BY <1>5, <1>6, <1>9, ClosedRow
<1>11. /\ cashSession' \in Seq(CashSession) /\ Len(cashSession') = Len(cashSession) /\ DOMAIN cashSession' = DOMAIN cashSession
       /\ \A t \in DOMAIN cashSession : cashSession'[t] = IF t = s THEN x ELSE cashSession[t]
  BY <1>6, <1>9, <1>10
<1>12. \A t \in DOMAIN cashSession : cashSession'[t].version = cashSession[t].version /\ cashSession'[t].register = cashSession[t].register
  BY <1>10, <1>11
<1>13. closing' = [j \in Closings |-> closing'[j]] /\ \A j \in Closings : closing'[j] = IF j = k THEN NoClosing ELSE closing[j]
  BY <1>6, ClosingForgotten
<1>14. CashRows'
  BY <1>6, <1>11 DEF CashInv, CashRows
<1>15. VersionsNumberMovements' /\ CountsAreOfThePast' /\ DrawerTellsPayments'
  BY <1>6, <1>11, <1>12 DEF CashInv, VersionsNumberMovements, CountsAreOfThePast, DrawerTellsPayments
<1>16. ClosingsKnowTheSum'
  <2>1. ASSUME NEW j \in Closings, NEW m, m = closing'[j].count
        PROVE  \/ closing'[j] = NoClosing
               \/ /\ closing'[j] \in [count : DOMAIN cashCount, expected : Int]
                  /\ CountIsCurrent(m)' => closing'[j].expected = ExpectedCash(cashCount[m].session)
    <3>1. CASE j = k
      BY <1>13, <3>1
    <3>2. CASE closing[j] = NoClosing /\ j # k
      BY <1>13, <3>2
    <3>3. CASE closing[j] # NoClosing /\ j # k
      <4>1. closing'[j] = closing[j]
        BY <1>13, <3>3
      <4>2. /\ closing[j] \in [count : DOMAIN cashCount, expected : Int] /\ closing[j].count \in DOMAIN cashCount
            /\ CountIsCurrent(closing[j].count) => closing[j].expected = ExpectedCash(cashCount[closing[j].count].session)
        BY <3>3 DEF CashInv, ClosingsKnowTheSum
      <4>3. cashCount[closing[j].count].session \in DOMAIN cashSession
        BY <4>2 DEF CashInv, CountsAreOfThePast
      <4>4. m = closing[j].count
        BY <2>1, <4>1
      <4>5. CountIsCurrent(m)' => CountIsCurrent(m)
        BY <1>6, <1>12, <4>3, <4>4 DEF CountIsCurrent
      <4>6. QED
        BY <4>1, <4>2, <4>4, <4>5
    <3>4. QED
      BY <3>1, <3>2, <3>3
  <2>2. QED
    BY <1>6, <2>1 DEF ClosingsKnowTheSum, ExpectedCash, CountIsCurrent
<1>17. SelectedCountsExist'
  BY <1>5, <1>6, <1>10, <1>11 DEF CashInv, SelectedCountsExist
<1>18. SessionsBalance'
  <2>1. ASSUME NEW t \in DOMAIN cashSession, cashSession'[t].status = "CLOSED"
        PROVE  /\ cashSession'[t].expected = CashOf(movement, t)
               /\ cashCount[cashSession'[t].selected].session = t
               /\ cashSession'[t].variance = cashCount[cashSession'[t].selected].amount - CashOf(movement, t)
               /\ cashSession'[t].final = Cardinality(MovementsOf(movement, t))
               /\ cashSession'[t].reasoned <=> cashSession'[t].variance # 0
    <3>1. CASE t = s
      <4>1. cashSession[s].version = Cardinality(MovementsOf(movement, s))
        BY <1>6 DEF CashInv, VersionsNumberMovements
      <4>2. QED
        BY <1>3, <1>5, <1>6, <1>7, <1>10, <1>11, <3>1, <4>1 DEF ExpectedCash
    <3>2. CASE t # s
      BY <1>11, <2>1, <3>2 DEF CashInv, SessionsBalance, ExpectedCash
    <3>3. QED
      BY <3>1, <3>2
  <2>2. ASSUME NEW t \in DOMAIN cashSession, NEW u \in DOMAIN cashSession,
               cashSession'[t].status = "OPEN", cashSession'[u].status = "OPEN", cashSession'[t].register = cashSession'[u].register
        PROVE  t = u
    BY <1>10, <1>11, <1>12, <2>2 DEF CashInv, SessionsBalance
  <2>3. QED
    BY <1>6, <1>11, <2>1, <2>2 DEF SessionsBalance, ExpectedCash
<1>19. QED
  BY <1>13, <1>14, <1>15, <1>16, <1>17, <1>18 DEF CashInv

LEMMA CashActivated ==
    ASSUME CashInv, ActivateCashManagement
    PROVE  CashInv'
<1>0. UNCHANGED <<cashSession, movement, cashCount, cashPayment, closing>>
  BY DEF ActivateCashManagement
<1>1. activated' \in BOOLEAN
  BY DEF ActivateCashManagement
<1>2. CashRows'
  BY <1>0, <1>1 DEF CashInv, CashRows
<1>3. QED
  BY <1>0, <1>2 DEF CashInv, VersionsNumberMovements, CountsAreOfThePast, ClosingsKnowTheSum, CountIsCurrent, ExpectedCash,
        SelectedCountsExist, SessionsBalance, DrawerTellsPayments

LEMMA CashStep == CashInv /\ [CashNext]_cashVars => CashInv'
<1> SUFFICES ASSUME CashInv, [CashNext]_cashVars PROVE CashInv'
  OBVIOUS
<1>1. CASE ActivateCashManagement
  BY <1>1, CashActivated
<1>2. CASE \E c \in Cashiers, r \in Registers : OpenCashSession(c, r)
  BY <1>2, CashOpens
<1>3. CASE \E c \in Cashiers, s \in DOMAIN cashSession, t \in MovementTypes, a \in Signed : CreateManualMovement(c, s, t, a)
  BY <1>3, CashMovedByHand
<1>4. CASE \E c \in Cashiers, s \in DOMAIN cashSession, a \in ManualAmounts \cup {0} : CreateCashCount(c, s, a)
  BY <1>4, CashCounted
<1>5. CASE \E c \in Cashiers, k \in Closings, reasoned \in BOOLEAN : CloseCashSession(c, k, reasoned)
  BY <1>5, CashCloses
<1>6. CASE \E k \in Closings, n \in DOMAIN cashCount : BeginClose(k, n)
  BY <1>6, CashCloseBegins
<1>7. CASE \E k \in Closings : RefuseClose(k)
  BY <1>7, CashCloseRefused
<1>8. CASE \E s \in DOMAIN cashSession \cup {NoSession}, a \in CashAmounts, t \in CashAmounts : PayCash(s, a, t)
  BY <1>8, CashPaid
<1>9. CASE UNCHANGED cashVars
  <2>1. UNCHANGED <<cashSession, movement, cashCount, cashPayment, closing>> /\ activated' = activated
    BY <1>9 DEF cashVars
  <2>2. CashRows'
    BY <2>1 DEF CashInv, CashRows
  <2>3. QED
    BY <2>1, <2>2 DEF CashInv, VersionsNumberMovements, CountsAreOfThePast, ClosingsKnowTheSum, CountIsCurrent, ExpectedCash,
          SelectedCountsExist, SessionsBalance, DrawerTellsPayments
<1>10. QED
  BY <1>1, <1>2, <1>3, <1>4, <1>5, <1>6, <1>7, <1>8, <1>9 DEF CashNext

\* The drawer balances: a closed session froze the sum of all its movements against a count
\* taken after the last of them, and a cash payment moved what it is worth, for any registers,
\* amounts and requests to close that race with movements (cash_management/service.py).
THEOREM DrawersBalance == CashSpec => []ClosedSessionsBalance
<1>1. CashInv => ClosedSessionsBalance
  <2> SUFFICES ASSUME CashInv PROVE ClosedSessionsBalance
    OBVIOUS
  <2>1. CashTypeOK
    BY DEF CashInv, CashRows, CashTypeOK
  <2>2. QED
    BY <2>1 DEF CashInv, ClosedSessionsBalance
<1>2. QED
  BY <1>1, CashStart, CashStep, PTL DEF CashSpec

-----------------------------------------------------------------------------
(***************************************************************************)
(* The onboarding import.                                                  *)
(***************************************************************************)

\* A value stepped on n times has its stages.
Stepped(U, a, F, n, g) == g \in [0 .. n -> U] /\ g[0] = a /\ \A i \in 1 .. n : g[i] = F[g[i - 1]]

LEMMA StagesExist ==
    ASSUME NEW U, NEW a \in U, NEW F \in [U -> U]
    PROVE  \A n \in Nat : \E g : Stepped(U, a, F, n, g)
<1>1. PICK S : S = {n \in Nat : \E g : Stepped(U, a, F, n, g)}
  OBVIOUS
<1>2. 0 \in S
  <2>1. PICK g : g = [i \in 0 .. 0 |-> a]
    OBVIOUS
  <2>2. Stepped(U, a, F, 0, g)
    BY <2>1 DEF Stepped
  <2>3. QED
    BY <1>1, <2>2
<1>3. ASSUME NEW n \in Nat, n \in S PROVE n + 1 \in S
  <2>1. PICK g : Stepped(U, a, F, n, g)
    BY <1>1, <1>3
  <2>2. g \in [0 .. n -> U] /\ g[0] = a /\ \A i \in 1 .. n : g[i] = F[g[i - 1]]
    BY <2>1 DEF Stepped
  <2>3. PICK h : h = [i \in 0 .. n + 1 |-> IF i = n + 1 THEN F[g[n]] ELSE g[i]]
    OBVIOUS
  <2>4. g[n] \in U /\ F[g[n]] \in U
    BY <2>2
  <2>5. h \in [0 .. n + 1 -> U] /\ h[0] = a
    BY <2>2, <2>3, <2>4
  <2>6. ASSUME NEW i \in 1 .. n + 1 PROVE h[i] = F[h[i - 1]]
    <3>1. CASE i = n + 1
      <4>1. h[i] = F[g[n]] /\ h[i - 1] = g[n]
        BY <2>3, <3>1
      <4>2. QED
        BY <4>1
    <3>2. CASE i # n + 1
      <4>1. i \in 1 .. n /\ h[i] = g[i] /\ h[i - 1] = g[i - 1]
        BY <2>3, <3>2
      <4>2. QED
        BY <2>2, <4>1
    <3>3. QED
      BY <3>1, <3>2
  <2>7. Stepped(U, a, F, n + 1, h)
    BY <2>5, <2>6 DEF Stepped
  <2>8. QED
    BY <1>1, <2>7
<1>4. \A n \in Nat : n \in S
  BY <1>2, <1>3, AllNumbers
<1>5. QED
  BY <1>1, <1>4

\* The contract lists every group.
LEMMA GroupsListed == \A k \in Keys : GroupOrder(k) \in Nat
<1>1. \A g \in Kinds : \E n \in 1 .. Len(Contract) : Contract[n] = g
  <2>1. Len(Contract) = 18
    BY DEF Contract
  <2>2. /\ Contract[1] = "resources" /\ Contract[2] = "preparation_configuration" /\ Contract[3] = "preparation_areas"
        /\ Contract[4] = "categories" /\ Contract[5] = "products" /\ Contract[6] = "menus"
    BY DEF Contract
  <2>3. /\ Contract[7] = "menu_sections" /\ Contract[8] = "menu_items" /\ Contract[9] = "prices"
        /\ Contract[10] = "warehouses" /\ Contract[11] = "inventory_items" /\ Contract[12] = "uom_conversions"
    BY DEF Contract
  <2>4. /\ Contract[13] = "suppliers" /\ Contract[14] = "supplier_offerings"
        /\ Contract[15] = "consumption_definitions" /\ Contract[16] = "preparation_routes"
        /\ Contract[17] = "tax_rules" /\ Contract[18] = "product_fiscal_classifications"
    BY DEF Contract
  <2>5. QED
    BY <2>1, <2>2, <2>3, <2>4 DEF Kinds
<1>2. TAKE k \in Keys
<1>3. Kind[k] \in Kinds
  BY RowConstants
<1>4. \E n \in 1 .. Len(Contract) : Contract[n] = Kind[k]
  BY <1>1, <1>3
<1>5. GroupOrder(k) \in 1 .. Len(Contract)
  BY <1>4 DEF GroupOrder
<1>6. Len(Contract) \in Nat
  BY DEF Contract
<1>7. QED
  BY <1>5, <1>6

\* While rows are pending, the next one is one of them.
LEMMA NextRowPending ==
    ASSUME NEW d, DOMAIN d \subseteq Keys, NEW s \in SUBSET DOMAIN d, s # {}
    PROVE  NextRow(s, d) \in s
<1>1. Ready(s, d) \subseteq s /\ Ready(s, d) # {}
  BY DEF Ready
<1>2. PICK R : R = {p \in Nat \X Nat : p[1] < p[2]}
  OBVIOUS
<1>3. IsWellFoundedOn(R, Nat)
  BY <1>2, NatLessThanWellFounded DEF OpToRel
<1>4. PICK T : T = {GroupOrder(k) : k \in Ready(s, d)}
  OBVIOUS
<1>5. T \subseteq Nat /\ T # {}
  BY <1>1, <1>4, GroupsListed
<1>6. PICK x \in T : \A y \in T : ~(<<y, x>> \in R)
  BY <1>3, <1>5, WFMin
<1>7. \A y \in T : x <= y
  <2> SUFFICES ASSUME NEW y \in T PROVE x <= y
    OBVIOUS
  <2>1. x \in Nat /\ y \in Nat /\ ~(<<y, x>> \in R)
    BY <1>5, <1>6
  <2>2. ~(y < x)
    BY <1>2, <2>1
  <2>3. QED
    BY <2>1, <2>2
<1>8. \E k \in s : k \in Ready(s, d) /\ \A j \in Ready(s, d) : GroupOrder(k) <= GroupOrder(j)
  BY <1>1, <1>4, <1>6, <1>7
<1>9. QED
  BY <1>8 DEF NextRow

\* What is still to come after i rows were put in order.
Pendings(d, n, c) ==
    /\ c = [i \in 0 .. n |-> c[i]] /\ c[0] = DOMAIN d
    /\ \A i \in 1 .. n : c[i] = c[i - 1] \ {NextRow(c[i - 1], d)}

LEMMA OrderStages ==
    ASSUME NEW d, DOMAIN d \subseteq Keys, NEW n, n = Cardinality(DOMAIN d)
    PROVE  /\ n \in Nat
           /\ \E c : Pendings(d, n, c) /\ DependencyOrderedRows(d) = [i \in 1 .. n |-> NextRow(c[i - 1], d)]
<1>1. IsFiniteSet(DOMAIN d) /\ n \in Nat
  BY DatasetAssumption, FS_Subset, FS_CardinalityType
<1>2. PICK U : U = SUBSET DOMAIN d
  OBVIOUS
<1>3. PICK F : F = [s \in U |-> s \ {NextRow(s, d)}]
  OBVIOUS
<1>4. F \in [U -> U] /\ DOMAIN d \in U
  BY <1>2, <1>3
<1>5. PICK g : Stepped(U, DOMAIN d, F, n, g)
  BY <1>1, <1>4, StagesExist
<1>6. g \in [0 .. n -> U] /\ g[0] = DOMAIN d /\ \A i \in 1 .. n : g[i] = F[g[i - 1]]
  BY <1>5 DEF Stepped
<1>7. \A i \in 1 .. n : g[i] = g[i - 1] \ {NextRow(g[i - 1], d)}
  <2> SUFFICES ASSUME NEW i \in 1 .. n PROVE g[i] = g[i - 1] \ {NextRow(g[i - 1], d)}
    OBVIOUS
  <2>1. i - 1 \in 0 .. n
    BY <1>1
  <2>2. g[i - 1] \in U /\ g[i] = F[g[i - 1]]
    BY <1>6, <2>1
  <2>3. QED
    BY <1>3, <2>2
<1>8. g = [i \in 0 .. n |-> IF i = 0 THEN DOMAIN d ELSE g[i - 1] \ {NextRow(g[i - 1], d)}]
  <2>1. DOMAIN g = 0 .. n /\ g[0] = DOMAIN d /\ g = [i \in 0 .. n |-> g[i]]
    BY <1>6
  <2>2. \A i \in 0 .. n : g[i] = IF i = 0 THEN DOMAIN d ELSE g[i - 1] \ {NextRow(g[i - 1], d)}
    BY <1>1, <1>7, <2>1
  <2>3. QED
    BY <2>1, <2>2
<1>9. PICK c : c = CHOOSE u : u = [i \in 0 .. n |-> IF i = 0 THEN DOMAIN d ELSE u[i - 1] \ {NextRow(u[i - 1], d)}]
  OBVIOUS
<1>10. c = [i \in 0 .. n |-> IF i = 0 THEN DOMAIN d ELSE c[i - 1] \ {NextRow(c[i - 1], d)}]
  BY <1>8, <1>9
<1>11. Pendings(d, n, c)
  <2>1. \A i \in 0 .. n : c[i] = IF i = 0 THEN DOMAIN d ELSE c[i - 1] \ {NextRow(c[i - 1], d)}
    BY <1>10
  <2>2. c = [i \in 0 .. n |-> c[i]]
    BY <1>10, <2>1
  <2>3. c[0] = DOMAIN d
    <3>1. 0 \in 0 .. n
      BY <1>1
    <3>2. c[0] = IF 0 = 0 THEN DOMAIN d ELSE c[0 - 1] \ {NextRow(c[0 - 1], d)}
      BY <2>1, <3>1, Zenon
    <3>3. QED
      BY <3>2
  <2>4. \A i \in 1 .. n : c[i] = c[i - 1] \ {NextRow(c[i - 1], d)}
    <3> SUFFICES ASSUME NEW i \in 1 .. n PROVE c[i] = c[i - 1] \ {NextRow(c[i - 1], d)}
      OBVIOUS
    <3>1. i \in 0 .. n /\ i # 0
      BY <1>1
    <3>2. c[i] = IF i = 0 THEN DOMAIN d ELSE c[i - 1] \ {NextRow(c[i - 1], d)}
      BY <2>1, <3>1, Zenon
    <3>3. QED
      BY <3>1, <3>2
  <2>5. QED
    BY <2>2, <2>3, <2>4 DEF Pendings
<1>12. DependencyOrderedRows(d) = [i \in 1 .. n |-> NextRow(c[i - 1], d)]
  BY <1>9 DEF DependencyOrderedRows
<1>13. QED
  BY <1>1, <1>11, <1>12

\* The rows in order are the rows of the dataset, every one of them.
LEMMA OrderedRows ==
    ASSUME NEW d, DOMAIN d \subseteq Keys
    PROVE  DependencyOrderedRows(d) \in Seq(DOMAIN d) /\ Range(DependencyOrderedRows(d)) = DOMAIN d
<1>1. PICK n : n = Cardinality(DOMAIN d)
  OBVIOUS
<1>2. n \in Nat /\ IsFiniteSet(DOMAIN d)
  BY <1>1, OrderStages, DatasetAssumption, FS_Subset
<1>3. PICK c : Pendings(d, n, c) /\ DependencyOrderedRows(d) = [i \in 1 .. n |-> NextRow(c[i - 1], d)]
  BY <1>1, OrderStages
<1>4. PICK s : s = [i \in 1 .. n |-> NextRow(c[i - 1], d)]
  OBVIOUS
<1>5. PICK S : S = {i \in Nat : i <= n => /\ c[i] \subseteq DOMAIN d /\ IsFiniteSet(c[i]) /\ Cardinality(c[i]) = n - i
                                         /\ \A k \in DOMAIN d \ c[i] : \E j \in 1 .. i : s[j] = k}
  OBVIOUS
<1>6. 0 \in S
  BY <1>1, <1>2, <1>3, <1>5 DEF Pendings
<1>7. ASSUME NEW i \in Nat, i \in S PROVE i + 1 \in S
  <2> SUFFICES ASSUME i + 1 <= n
               PROVE  /\ c[i + 1] \subseteq DOMAIN d /\ IsFiniteSet(c[i + 1]) /\ Cardinality(c[i + 1]) = n - (i + 1)
                      /\ \A k \in DOMAIN d \ c[i + 1] : \E j \in 1 .. i + 1 : s[j] = k
    BY <1>5
  <2>1. /\ c[i] \subseteq DOMAIN d /\ IsFiniteSet(c[i]) /\ Cardinality(c[i]) = n - i
        /\ \A k \in DOMAIN d \ c[i] : \E j \in 1 .. i : s[j] = k
    BY <1>2, <1>5, <1>7
  <2>2. c[i] # {}
    BY <1>2, <2>1, FS_EmptySet
  <2>3. NextRow(c[i], d) \in c[i]
    BY <2>1, <2>2, NextRowPending
  <2>4. i + 1 \in 1 .. n /\ (i + 1) - 1 = i
    BY <1>2
  <2>5. c[i + 1] = c[i] \ {NextRow(c[i], d)} /\ s[i + 1] = NextRow(c[i], d)
    BY <1>3, <1>4, <2>4 DEF Pendings
  <2>6. IsFiniteSet(c[i + 1]) /\ Cardinality(c[i + 1]) = (n - i) - 1
    BY <2>1, <2>3, <2>5, FS_RemoveElement
  <2>7. ASSUME NEW k \in DOMAIN d \ c[i + 1] PROVE \E j \in 1 .. i + 1 : s[j] = k
    <3>1. CASE k \in c[i]
      <4>1. s[i + 1] = k /\ i + 1 \in 1 .. i + 1
        BY <2>5, <2>7, <3>1
      <4>2. QED
        BY <4>1
    <3>2. CASE k \notin c[i]
      <4>1. PICK j \in 1 .. i : s[j] = k
        BY <2>1, <3>2
      <4>2. QED
        BY <4>1
    <3>3. QED
      BY <3>1, <3>2
  <2>8. QED
    BY <1>2, <2>1, <2>5, <2>6, <2>7
<1>8. \A i \in Nat : i \in S
  BY <1>6, <1>7, AllNumbers
<1>9. \A i \in 1 .. n : s[i] \in DOMAIN d
  <2> SUFFICES ASSUME NEW i \in 1 .. n PROVE s[i] \in DOMAIN d
    OBVIOUS
  <2>1. i - 1 \in Nat /\ i - 1 <= n /\ n - (i - 1) # 0
    BY <1>2
  <2>2. c[i - 1] \subseteq DOMAIN d /\ IsFiniteSet(c[i - 1]) /\ Cardinality(c[i - 1]) = n - (i - 1)
    BY <1>5, <1>8, <2>1
  <2>3. c[i - 1] # {}
    BY <2>1, <2>2, FS_EmptySet
  <2>4. NextRow(c[i - 1], d) \in c[i - 1]
    BY <2>2, <2>3, NextRowPending
  <2>5. QED
    BY <1>4, <2>2, <2>4
<1>10. \A k \in DOMAIN d : \E j \in 1 .. n : s[j] = k
  <2>1. n \in S /\ n <= n
    BY <1>2, <1>8
  <2>2. IsFiniteSet(c[n]) /\ Cardinality(c[n]) = n - n /\ \A k \in DOMAIN d \ c[n] : \E j \in 1 .. n : s[j] = k
    BY <1>5, <2>1
  <2>3. c[n] = {}
    BY <1>2, <2>2, FS_EmptySet
  <2>4. QED
    BY <2>2, <2>3
<1>11. s \in Seq(DOMAIN d) /\ DOMAIN s = 1 .. n
  BY <1>2, <1>4, <1>9
<1>12. Range(s) = DOMAIN d
  BY <1>9, <1>10, <1>11 DEF Range
<1>13. QED
  BY <1>3, <1>4, <1>11, <1>12

-----------------------------------------------------------------------------
(* The tree of categories.                                                 *)

ParentsOf(rows, k) == {rows[k].ref} \cap Categories

\* What is known of the ancestors after n rounds.
Above(rows, n, u) ==
    /\ u \in [0 .. n -> [Categories -> SUBSET Categories]]
    /\ u[0] = Parents(rows)
    /\ \A i \in 1 .. n : u[i] = Wider(u[i - 1])

\* Round by round, category by category.
LEMMA AboveStart ==
    ASSUME NEW rows, NEW n \in Nat, NEW u, Above(rows, n, u), NEW k \in Categories
    PROVE  u[0][k] = ParentsOf(rows, k)
BY DEF Above, Parents, ParentsOf

Round(u, i, k) == u[i + 1][k] = u[i][k] \cup UNION {u[i][q] : q \in u[i][k]}

LEMMA AboveStep ==
    ASSUME NEW rows, NEW n \in Nat, NEW u, Above(rows, n, u), NEW i \in Nat, i + 1 <= n, NEW k \in Categories
    PROVE  Round(u, i, k)
<1>1. i + 1 \in 1 .. n /\ (i + 1) - 1 = i
  OBVIOUS
<1>2. u[i + 1] = Wider(u[i])
  BY <1>1 DEF Above
<1>3. QED
  BY <1>2, Zenon DEF Wider, Round

LEMMA AncestorStages ==
    ASSUME NEW rows, NEW n, n = Cardinality(Categories)
    PROVE  n \in Nat /\ IsFiniteSet(Categories) /\ \E u : Above(rows, n, u) /\ AncestorsIn(rows) = u[n]
<1>1. IsFiniteSet(Categories) /\ n \in Nat
  <2>1. Categories \subseteq Keys
    BY DEF Categories
  <2>2. QED
    BY <2>1, DatasetAssumption, FS_Subset, FS_CardinalityType
<1>2. PICK U : U = [Categories -> SUBSET Categories]
  OBVIOUS
<1>3. PICK F : F = [v \in U |-> Wider(v)]
  OBVIOUS
<1>4. Parents(rows) \in U
  BY <1>2 DEF Parents
<1>5. F \in [U -> U]
  <2>1. ASSUME NEW v \in U PROVE Wider(v) \in U
    BY <1>2 DEF Wider
  <2>2. QED
    BY <1>3, <2>1
<1>6. PICK g : Stepped(U, Parents(rows), F, n, g)
  BY <1>1, <1>4, <1>5, StagesExist
<1>7. g \in [0 .. n -> U] /\ g[0] = Parents(rows) /\ \A i \in 1 .. n : g[i] = F[g[i - 1]]
  BY <1>6 DEF Stepped
<1>8. ASSUME NEW i \in 1 .. n PROVE g[i] = Wider(g[i - 1])
  <2>1. i - 1 \in 0 .. n
    BY <1>1
  <2>2. g[i - 1] \in U /\ g[i] = F[g[i - 1]]
    BY <1>7, <2>1
  <2>3. QED
    BY <1>3, <2>2
<1>9. g = [i \in 0 .. n |-> IF i = 0 THEN Parents(rows) ELSE Wider(g[i - 1])]
  <2>1. DOMAIN g = 0 .. n /\ g = [i \in 0 .. n |-> g[i]]
    BY <1>7
  <2>2. \A i \in 0 .. n : g[i] = IF i = 0 THEN Parents(rows) ELSE Wider(g[i - 1])
    BY <1>1, <1>7, <1>8
  <2>3. QED
    BY <2>1, <2>2
<1>10. PICK c : c = CHOOSE u : u = [i \in 0 .. n |-> IF i = 0 THEN Parents(rows) ELSE Wider(u[i - 1])]
  OBVIOUS
<1>11. c = [i \in 0 .. n |-> IF i = 0 THEN Parents(rows) ELSE Wider(c[i - 1])]
  BY <1>9, <1>10
<1>12. c = [i \in 0 .. n |-> c[i]] /\ \A i \in 0 .. n : c[i] = IF i = 0 THEN Parents(rows) ELSE Wider(c[i - 1])
  BY <1>11
<1>13. c[0] = Parents(rows)
  <2>1. 0 \in 0 .. n
    BY <1>1
  <2>2. QED
    BY <1>12, <2>1, Zenon
<1>14. ASSUME NEW i \in 1 .. n PROVE c[i] = Wider(c[i - 1])
  <2>1. i \in 0 .. n /\ i # 0
    BY <1>1
  <2>2. QED
    BY <1>12, <2>1, Zenon
<1>15. PICK S : S = {i \in Nat : i <= n => c[i] \in U}
  OBVIOUS
<1>16. 0 \in S
  BY <1>4, <1>13, <1>15
<1>17. ASSUME NEW i \in Nat, i \in S PROVE i + 1 \in S
  <2> SUFFICES ASSUME i + 1 <= n PROVE c[i + 1] \in U
    BY <1>15
  <2>1. c[i] \in U /\ i + 1 \in 1 .. n /\ (i + 1) - 1 = i
    BY <1>1, <1>15, <1>17
  <2>2. c[i + 1] = Wider(c[i])
    BY <1>14, <2>1
  <2>3. QED
    BY <1>2, <2>1, <2>2 DEF Wider
<1>18. \A i \in Nat : i \in S
  BY <1>16, <1>17, AllNumbers
<1>19. \A i \in 0 .. n : c[i] \in U
  BY <1>1, <1>15, <1>18
<1>20. c \in [0 .. n -> U]
  BY <1>12, <1>19
<1>21. Above(rows, n, c)
  BY <1>2, <1>13, <1>14, <1>20 DEF Above
<1>22. AncestorsIn(rows) = c[n]
  BY <1>10 DEF AncestorsIn
<1>23. QED
  BY <1>1, <1>21, <1>22

\* A set that holds the parents of what it holds.
ClosedUpward(rows, S) == S \subseteq Categories /\ \A y \in S : ParentsOf(rows, y) \subseteq S

\* Such a set holds what each round finds above a category whose parents it holds.
LEMMA StagesWithin ==
    ASSUME NEW rows, NEW n \in Nat, NEW u, Above(rows, n, u), NEW S, ClosedUpward(rows, S)
    PROVE  \A i \in 0 .. n, x \in Categories : ParentsOf(rows, x) \subseteq S => u[i][x] \subseteq S
<1>1. PICK T : T = {i \in Nat : i <= n => \A x \in Categories : ParentsOf(rows, x) \subseteq S => u[i][x] \subseteq S}
  OBVIOUS
<1>2. 0 \in T
  BY <1>1, AboveStart
<1>3. ASSUME NEW i \in Nat, i \in T PROVE i + 1 \in T
  <2> SUFFICES ASSUME i + 1 <= n, NEW x \in Categories, ParentsOf(rows, x) \subseteq S PROVE u[i + 1][x] \subseteq S
    BY <1>1
  <2>1. \A z \in Categories : ParentsOf(rows, z) \subseteq S => u[i][z] \subseteq S
    BY <1>1, <1>3
  <2>2. i + 1 \in 1 .. n /\ (i + 1) - 1 = i
    OBVIOUS
  <2>3. u[i + 1][x] = u[i][x] \cup UNION {u[i][q] : q \in u[i][x]}
    <3>1. Round(u, i, x)
      BY AboveStep
    <3>2. QED
      BY <3>1 DEF Round
  <2>4. u[i][x] \subseteq S
    BY <2>1
  <2>5. \A q \in u[i][x] : u[i][q] \subseteq S
    BY <2>1, <2>4 DEF ClosedUpward
  <2>6. QED
    BY <2>3, <2>4, <2>5
<1>4. \A i \in Nat : i \in T
  BY <1>2, <1>3, AllNumbers
<1>5. QED
  BY <1>1, <1>4

\* The ancestors of a category are the least such set that holds its parents.
LEMMA AncestorsWithin ==
    ASSUME NEW rows, NEW S, ClosedUpward(rows, S), NEW x \in Categories, ParentsOf(rows, x) \subseteq S
    PROVE  AncestorsIn(rows)[x] \subseteq S
<1>1. PICK n : n = Cardinality(Categories)
  OBVIOUS
<1>2. n \in Nat
  BY <1>1, AncestorStages
<1>3. PICK u : Above(rows, n, u) /\ AncestorsIn(rows) = u[n]
  BY <1>1, AncestorStages
<1>4. n \in 0 .. n
  BY <1>2
<1>5. u[n][x] \subseteq S
  BY <1>2, <1>3, <1>4, StagesWithin
<1>6. QED
  BY <1>3, <1>5

LEMMA AncestorsClosed ==
    ASSUME NEW rows, NEW x \in Categories
    PROVE  ClosedUpward(rows, AncestorsIn(rows)[x]) /\ ParentsOf(rows, x) \subseteq AncestorsIn(rows)[x]
<1>1. PICK n : n = Cardinality(Categories)
  OBVIOUS
<1>2. n \in Nat /\ IsFiniteSet(Categories)
  BY <1>1, AncestorStages
<1>3. PICK u : Above(rows, n, u) /\ AncestorsIn(rows) = u[n]
  BY <1>1, AncestorStages
<1>4. \A i \in 0 .. n : \A z \in Categories : u[i][z] \subseteq Categories
  BY <1>3 DEF Above
<1>5. PICK T : T = {i \in Nat : i <= n => \A z \in Categories : ParentsOf(rows, z) \subseteq u[i][z]}
  OBVIOUS
<1>6. 0 \in T
  BY <1>2, <1>3, <1>5, AboveStart
<1>7. ASSUME NEW i \in Nat, i \in T PROVE i + 1 \in T
  <2> SUFFICES ASSUME i + 1 <= n, NEW z \in Categories PROVE ParentsOf(rows, z) \subseteq u[i + 1][z]
    BY <1>5
  <2>1. ParentsOf(rows, z) \subseteq u[i][z]
    BY <1>2, <1>5, <1>7
  <2>3. u[i + 1][z] = u[i][z] \cup UNION {u[i][q] : q \in u[i][z]}
    <3>1. Round(u, i, z)
      BY <1>2, <1>3, AboveStep
    <3>2. QED
      BY <3>1 DEF Round
  <2>4. QED
    BY <2>1, <2>3
<1>8. \A i \in Nat : i \in T
  BY <1>6, <1>7, AllNumbers
<1>9. \A i \in 0 .. n : \A z \in Categories : ParentsOf(rows, z) \subseteq u[i][z]
  BY <1>2, <1>5, <1>8
<1>10. PICK G : G = {i \in Nat : i <= n => ClosedUpward(rows, u[i][x]) \/ i < Cardinality(u[i][x])}
  OBVIOUS
<1>11. 0 \in G
  <2> SUFFICES ASSUME ~ClosedUpward(rows, u[0][x]) PROVE 0 < Cardinality(u[0][x])
    BY <1>10
  <2>1. 0 \in 0 .. n /\ u[0][x] \subseteq Categories
    BY <1>2, <1>4
  <2>2. u[0][x] # {}
    BY <2>1 DEF ClosedUpward
  <2>3. IsFiniteSet(u[0][x])
    BY <1>2, <2>1, FS_Subset
  <2>4. Cardinality(u[0][x]) \in Nat /\ Cardinality(u[0][x]) # 0
    BY <2>2, <2>3, FS_CardinalityType, FS_EmptySet
  <2>5. QED
    BY <2>4
<1>12. ASSUME NEW i \in Nat, i \in G PROVE i + 1 \in G
  <2> SUFFICES ASSUME i + 1 <= n, ~ClosedUpward(rows, u[i + 1][x]) PROVE i + 1 < Cardinality(u[i + 1][x])
    BY <1>10
  <2>1. i \in 0 .. n /\ i + 1 \in 0 .. n /\ i + 1 \in 1 .. n /\ (i + 1) - 1 = i
    BY <1>2
  <2>2. ClosedUpward(rows, u[i][x]) \/ i < Cardinality(u[i][x])
    BY <1>2, <1>10, <1>12
  <2>3. u[i + 1][x] = u[i][x] \cup UNION {u[i][q] : q \in u[i][x]}
    <3>1. Round(u, i, x)
      BY <1>2, <1>3, AboveStep
    <3>2. QED
      BY <3>1 DEF Round
  <2>4. ~ClosedUpward(rows, u[i][x])
    <3> SUFFICES ASSUME ClosedUpward(rows, u[i][x]) PROVE FALSE
      OBVIOUS
    <3>1. \A q \in u[i][x] : q \in Categories /\ ParentsOf(rows, q) \subseteq u[i][x]
      BY DEF ClosedUpward
    <3>2. \A q \in Categories : ParentsOf(rows, q) \subseteq u[i][x] => u[i][q] \subseteq u[i][x]
      BY <1>2, <1>3, <2>1, StagesWithin
    <3>3. u[i + 1][x] = u[i][x]
      BY <2>3, <3>1, <3>2
    <3>4. QED
      BY <3>3
  <2>5. PICK y \in u[i][x], z \in Categories : z \in ParentsOf(rows, y) /\ z \notin u[i][x]
    <3>1. u[i][x] \subseteq Categories
      BY <1>4, <2>1
    <3>2. \A y \in u[i][x] : ParentsOf(rows, y) \subseteq Categories
      BY DEF ParentsOf
    <3>3. QED
      BY <2>4, <3>1, <3>2 DEF ClosedUpward
  <2>6. z \in u[i + 1][x]
    BY <1>4, <1>9, <2>1, <2>3, <2>5
  <2>7. IsFiniteSet(u[i + 1][x]) /\ IsFiniteSet(u[i][x])
    BY <1>2, <1>4, <2>1, FS_Subset
  <2>8. PICK V : V = u[i][x] \cup {z}
    OBVIOUS
  <2>9. IsFiniteSet(V) /\ Cardinality(V) = Cardinality(u[i][x]) + 1
    BY <2>5, <2>7, <2>8, FS_AddElement
  <2>10. V \subseteq u[i + 1][x]
    BY <2>3, <2>6, <2>8
  <2>11. Cardinality(V) <= Cardinality(u[i + 1][x])
    BY <2>7, <2>10, FS_Subset
  <2>12. Cardinality(u[i][x]) \in Nat /\ Cardinality(u[i + 1][x]) \in Nat
    BY <2>7, FS_CardinalityType
  <2>13. QED
    BY <2>2, <2>4, <2>9, <2>11, <2>12
<1>13. \A i \in Nat : i \in G
  BY <1>11, <1>12, AllNumbers
<1>14. ClosedUpward(rows, u[n][x])
  <2>1. u[n][x] \subseteq Categories
    BY <1>2, <1>4
  <2>2. IsFiniteSet(u[n][x]) /\ Cardinality(u[n][x]) <= n
    BY <1>1, <1>2, <2>1, FS_Subset
  <2>3. Cardinality(u[n][x]) \in Nat
    BY <2>2, FS_CardinalityType
  <2>4. ClosedUpward(rows, u[n][x]) \/ n < Cardinality(u[n][x])
    BY <1>2, <1>10, <1>13
  <2>5. QED
    BY <1>2, <2>2, <2>3, <2>4
<1>15. QED
  BY <1>2, <1>3, <1>9, <1>14

IsTree(rows) == \A x \in Categories : x \notin AncestorsIn(rows)[x]

\* The links alone decide.
LEMMA TreeSame ==
    ASSUME NEW old, NEW new, IsTree(old), \A x \in Categories : new[x].ref = old[x].ref
    PROVE  IsTree(new)
<1> SUFFICES ASSUME NEW x \in Categories PROVE x \notin AncestorsIn(new)[x]
  BY DEF IsTree
<1>1. PICK S : S = AncestorsIn(old)[x]
  OBVIOUS
<1>2. ClosedUpward(old, S) /\ ParentsOf(old, x) \subseteq S
  BY <1>1, AncestorsClosed
<1>3. ClosedUpward(new, S) /\ ParentsOf(new, x) \subseteq S
  BY <1>2 DEF ClosedUpward, ParentsOf
<1>4. AncestorsIn(new)[x] \subseteq S
  BY <1>3, AncestorsWithin
<1>5. QED
  BY <1>1, <1>4 DEF IsTree

\* A category whose new parent is neither itself nor below it leaves a tree.
LEMMA TreeGrafted ==
    ASSUME NEW old, NEW new, IsTree(old), NEW k \in Categories, \A x \in Categories \ {k} : new[x].ref = old[x].ref,
           \A q \in ParentsOf(new, k) : q # k /\ k \notin AncestorsIn(old)[q]
    PROVE  IsTree(new)
<1> SUFFICES ASSUME NEW x \in Categories PROVE x \notin AncestorsIn(new)[x]
  BY DEF IsTree
<1>1. PICK A : A = AncestorsIn(old)[x]
  OBVIOUS
<1>2. ClosedUpward(old, A) /\ ParentsOf(old, x) \subseteq A /\ x \notin A
  BY <1>1, AncestorsClosed DEF IsTree
<1>3. PICK Q : Q = ParentsOf(new, k) \cup UNION {AncestorsIn(old)[q] : q \in ParentsOf(new, k)}
  OBVIOUS
<1>4. ParentsOf(new, k) \subseteq Categories
  BY DEF ParentsOf
<1>5. ClosedUpward(old, Q) /\ k \notin Q
  <2>1. \A q \in ParentsOf(new, k) : ClosedUpward(old, AncestorsIn(old)[q]) /\ ParentsOf(old, q) \subseteq AncestorsIn(old)[q]
    BY <1>4, AncestorsClosed
  <2>2. QED
    BY <1>3, <1>4, <2>1 DEF ClosedUpward
<1>6. ClosedUpward(new, Q)
  BY <1>5 DEF ClosedUpward, ParentsOf
<1>7. CASE x = k
  <2>1. ParentsOf(new, x) \subseteq Q
    BY <1>3, <1>7
  <2>2. AncestorsIn(new)[x] \subseteq Q
    BY <1>6, <2>1, AncestorsWithin
  <2>3. QED
    BY <1>5, <1>7, <2>2
<1>8. CASE x # k /\ k \notin A
  <2>1. ClosedUpward(new, A) /\ ParentsOf(new, x) \subseteq A
    BY <1>2, <1>8 DEF ClosedUpward, ParentsOf
  <2>2. AncestorsIn(new)[x] \subseteq A
    BY <2>1, AncestorsWithin
  <2>3. QED
    BY <1>2, <2>2
<1>9. CASE x # k /\ k \in A
  <2>1. ParentsOf(new, x) \subseteq A \cup Q
    BY <1>2, <1>9 DEF ParentsOf
  <2>2. ClosedUpward(new, A \cup Q)
    <3>1. \A y \in A \ {k} : ParentsOf(new, y) \subseteq A
      BY <1>2 DEF ClosedUpward, ParentsOf
    <3>2. ParentsOf(new, k) \subseteq Q
      BY <1>3
    <3>3. QED
      BY <1>2, <1>6, <3>1, <3>2 DEF ClosedUpward
  <2>3. AncestorsIn(new)[x] \subseteq A \cup Q
    BY <2>1, <2>2, AncestorsWithin
  <2>4. x \notin Q
    <3> SUFFICES ASSUME x \in Q PROVE FALSE
      OBVIOUS
    <3>1. ParentsOf(old, x) \subseteq Q
      BY <1>5 DEF ClosedUpward
    <3>2. A \subseteq Q
      BY <1>1, <1>5, <3>1, AncestorsWithin
    <3>3. QED
      BY <1>5, <1>9, <3>2
  <2>5. QED
    BY <1>2, <2>3, <2>4
<1>10. QED
  BY <1>7, <1>8, <1>9

-----------------------------------------------------------------------------
(* Rows and what may be written to them.                                   *)

\* What a write of row k may leave: links that keep the tree, one default, no second rule at an
\* instant, a later version.
MayWrite(k, new) ==
    /\ new \in Rows /\ new # Absent
    /\ Kind[k] = "warehouses" /\ new.ref = "DEFAULT" => Defaults \subseteq {k}
    /\ Kind[k] \in Dated /\ new.status = "ACTIVE" =>
          \A j \in Keys \ {k} : Kind[j] = Kind[k] /\ Owner[j] = Owner[k] /\ row[j].status = "ACTIVE"
                                   => ~Overlap(Spans[k][new.val], Spans[j][row[j].val])
    /\ Kind[k] = "categories" /\ new.ref \in Categories =>
          new.ref # k /\ k \notin Ancestors(new.ref) /\ row[new.ref] # Absent
    /\ Kind[k] \in Versioned => new.ver > row[k].ver
    /\ Kind[k] \in Relinked /\ row[k] # Absent => new.ref = row[k].ref
    /\ Kind[k] = "suppliers" => new.ref = None

\* What no write does: remove a row, change one behind its version, or its link where that is kept.
RowsGrow(old, new) ==
    \A k \in Keys : /\ old[k] # Absent => new[k] # Absent
                    /\ Kind[k] \in Versioned =>
                          /\ new[k].ver \in Nat /\ old[k].ver \in Nat /\ old[k].ver <= new[k].ver
                          /\ old[k].ver = new[k].ver => new[k] = old[k]
                    /\ Kind[k] \in Relinked /\ old[k] # Absent => new[k].ref = old[k].ref

\* A plain row, with no link to mind and no version.
Plain == Kinds \ ({"warehouses", "categories"} \cup Dated \cup Versioned)

LEMMA AbsentRow == Absent \in Rows /\ Absent.ver = 0 /\ Absent.ref = None /\ Absent.status = "ABSENT" /\ Absent.val = 0
  BY DEF Absent, Rows

LEMMA RowsKept ==
    ASSUME RowInv, row' = row
    PROVE  RowsGrow(row, row')
<1>1. \A k \in Keys : row[k].ver \in Nat
  BY DEF RowInv, Rows
<1>2. QED
  BY <1>1 DEF RowsGrow

LEMMA RowInvSame ==
    ASSUME RowInv, row' = row, hidden' \subseteq Keys, site' \in {"ACTIVE", "INACTIVE"}
    PROVE  RowInv'
BY DEF RowInv, Defaults, NoTwoRulesAtOnce, CategoriesAcyclic, Ancestors

LEMMA RowWritten ==
    ASSUME RowInv, NEW k \in Keys, NEW new, MayWrite(k, new), row' = [row EXCEPT ![k] = new],
           hidden' \subseteq Keys, site' \in {"ACTIVE", "INACTIVE"}
    PROVE  RowInv' /\ RowsGrow(row, row')
<1>1. /\ row \in [Keys -> Rows] /\ new \in Rows /\ new # Absent /\ row' \in [Keys -> Rows]
      /\ row'[k] = new /\ \A j \in Keys \ {k} : row'[j] = row[j]
  BY DEF RowInv, MayWrite
<1>2. \A i, j \in Defaults' : i = j
  <2>1. Defaults \subseteq Keys /\ Defaults' \subseteq Keys /\ \A i, j \in Defaults : i = j
    BY DEF Defaults, RowInv
  <2>2. \A j \in Keys \ {k} : j \in Defaults' => j \in Defaults
    BY <1>1 DEF Defaults
  <2>3. k \in Defaults' => Defaults \subseteq {k}
    BY <1>1 DEF Defaults, MayWrite
  <2>4. QED
    BY <2>1, <2>2, <2>3
<1>3. NoTwoRulesAtOnce'
  <2> SUFFICES ASSUME NEW i \in Keys, NEW j \in Keys, i # j, Kind[i] = Kind[j], Owner[i] = Owner[j], Kind[j] \in Dated,
                      row'[i].status = "ACTIVE", row'[j].status = "ACTIVE"
               PROVE  ~Overlap(Spans[i][row'[i].val], Spans[j][row'[j].val])
    BY DEF NoTwoRulesAtOnce, Dated
  <2>1. \A a, b : Overlap(a, b) <=> Overlap(b, a)
    BY DEF Overlap
  <2>2. CASE i = k
    BY <1>1, <2>2 DEF MayWrite
  <2>3. CASE j = k
    BY <1>1, <2>1, <2>3 DEF MayWrite
  <2>4. CASE i # k /\ j # k
    BY <1>1, <2>4 DEF RowInv, NoTwoRulesAtOnce, Dated
  <2>5. QED
    BY <2>2, <2>3, <2>4
<1>4. CategoriesAcyclic'
  <2>1. IsTree(row)
    BY DEF RowInv, CategoriesAcyclic, Ancestors, IsTree
  <2>2. IsTree(row')
    <3>1. CASE k \in Categories
      <4>1. \A x \in Categories \ {k} : row'[x].ref = row[x].ref
        BY <1>1 DEF Categories
      <4>2. \A q \in ParentsOf(row', k) : q # k /\ k \notin AncestorsIn(row)[q]
        BY <1>1, <3>1 DEF ParentsOf, Categories, MayWrite, Ancestors
      <4>3. QED
        BY <2>1, <3>1, <4>1, <4>2, TreeGrafted
    <3>2. CASE k \notin Categories
      <4>1. \A x \in Categories : row'[x].ref = row[x].ref
        BY <1>1, <3>2 DEF Categories
      <4>2. QED
        BY <2>1, <4>1, TreeSame
    <3>3. QED
      BY <3>1, <3>2
  <2>3. QED
    BY <2>2 DEF CategoriesAcyclic, Ancestors, IsTree
<1>5. \A j \in Categories : row'[j].ref \in Categories => row'[row'[j].ref] # Absent
  <2> SUFFICES ASSUME NEW j \in Categories, row'[j].ref \in Categories PROVE row'[row'[j].ref] # Absent
    OBVIOUS
  <2>1. j \in Keys /\ row'[j].ref \in Keys
    BY DEF Categories
  <2>2. CASE j = k
    <3>1. Kind[k] = "categories" /\ new.ref \in Categories /\ row'[j].ref = new.ref
      BY <1>1, <2>2 DEF Categories
    <3>2. row[new.ref] # Absent /\ new.ref # k
      BY <3>1 DEF MayWrite
    <3>3. QED
      BY <1>1, <2>1, <3>1, <3>2
  <2>3. CASE j # k
    <3>1. row'[j].ref = row[j].ref /\ row[row[j].ref] # Absent
      BY <1>1, <2>1, <2>3 DEF RowInv
    <3>2. QED
      BY <1>1, <2>1, <3>1
  <2>4. QED
    BY <2>2, <2>3
<1>6. \A j \in Keys : row[j].ver \in Nat /\ new.ver \in Nat
  BY <1>1 DEF Rows
<1>7. \A j \in Keys : Kind[j] \in Versioned /\ row'[j].ver = 0 => row'[j] = Absent
  <2>1. Kind[k] \in Versioned => new.ver # 0
    BY <1>6 DEF MayWrite
  <2>2. QED
    BY <1>1, <2>1 DEF RowInv
<1>8. \A j \in Keys : Kind[j] = "suppliers" => row'[j].ref = None
  BY <1>1 DEF RowInv, MayWrite
<1>9. RowInv'
  BY <1>1, <1>2, <1>3, <1>4, <1>5, <1>7, <1>8 DEF RowInv, Defaults, Categories
<1>10. RowsGrow(row, row')
  <2>1. Kind[k] \in Versioned => row[k].ver < new.ver
    BY <1>6 DEF MayWrite
  <2>2. Kind[k] \in Relinked /\ row[k] # Absent => new.ref = row[k].ref
    BY DEF MayWrite
  <2>3. QED
    BY <1>1, <1>6, <2>1, <2>2 DEF RowsGrow
<1>11. QED
  BY <1>9, <1>10

\* A plan of a row stays what it was while rows only grow.
LEMMA PlanKept ==
    ASSUME NEW old, NEW new, RowsGrow(old, new), NEW k \in Keys, NEW r, NEW p, PlanHolds(old, k, r, p)
    PROVE  PlanHolds(new, k, r, p)
<1>1. p.seen \in Rows /\ p.seen.ver \in Nat
  BY DEF PlanHolds, Rows
<1>2. Kind[k] \in Versioned => p.seen.ver <= new[k].ver /\ (p.seen.ver = new[k].ver => new[k] = p.seen)
  BY <1>1 DEF RowsGrow, PlanHolds
<1>3. QED
  BY <1>1, <1>2 DEF RowsGrow, PlanHolds

-----------------------------------------------------------------------------
(* What a plan says.                                                       *)

\* A plan refuses, or names an operation on the row as it stands.
PlanFits(k, r, p) ==
    \/ p = Refused
    \/ \E op \in {"CREATE", "UPDATE", "UNCHANGED"} :
          /\ p = Planned(k, op)
          /\ op # "CREATE" => row[k] # Absent
          /\ op = "UNCHANGED" => AsRequested(k, row[k], r)
          /\ Kind[k] = "supplier_offerings" /\ op # "CREATE" => row[k].ref = r.ref

LEMMA RefusedFits ==
    ASSUME NEW k, NEW r
    PROVE  PlanFits(k, r, Refused)
BY DEF PlanFits

LEMMA SameAsRequested ==
    ASSUME NEW k, NEW s, NEW r \in Requests, s \in Rows, s # Absent, Same(s, r)
    PROVE  AsRequested(k, s, r)
<1>1. s.val = r.val /\ s.status = r.status /\ s.ref = r.ref
  BY DEF Same
<1>2. CASE Kind[k] = "uom_conversions"
  BY <1>1, <1>2 DEF AsRequested
<1>3. CASE Kind[k] = "inventory_items"
  <2>1. /\ Shown(k, s).val = s.val /\ Shown(k, s).status = s.status /\ Shown(k, s).ref = None
        /\ Shown(k, r).val = r.val /\ Shown(k, r).status = r.status /\ Shown(k, r).ref = None
    BY <1>3 DEF Shown, Rows, Requests
  <2>2. QED
    BY <1>1, <1>3, <2>1 DEF AsRequested, Same
<1>4. CASE Kind[k] # "uom_conversions" /\ Kind[k] # "inventory_items"
  BY <1>1, <1>4 DEF AsRequested, Same, Shown
<1>5. QED
  BY <1>2, <1>3, <1>4

LEMMA OperationFits ==
    ASSUME RowInv, NEW k \in Keys, NEW r \in Requests,
           Kind[k] = "supplier_offerings" /\ row[k] # Absent => row[k].ref = r.ref
    PROVE  PlanFits(k, r, Planned(k, Operation(k, r)))
<1>1. row[k] \in Rows
  BY DEF RowInv
<1>2. PICK op : op = Operation(k, r)
  OBVIOUS
<1>3. /\ op \in {"CREATE", "UPDATE", "UNCHANGED"}
      /\ op # "CREATE" => row[k] # Absent
      /\ op = "UNCHANGED" => row[k] # Absent /\ Same(row[k], r)
  <2>1. row[k] = Absent => ~Same(row[k], r)
    BY AbsentRow DEF Same, Requests
  <2>2. QED
    BY <1>2, <2>1 DEF Operation, Same
<1>4. op = "UNCHANGED" => AsRequested(k, row[k], r)
  BY <1>1, <1>3, SameAsRequested
<1>5. QED
  BY <1>2, <1>3, <1>4 DEF PlanFits

LEMMA PlanOfFits ==
    ASSUME RowInv, NEW k \in Keys, NEW r \in Requests, Kind[k] # "supplier_offerings",
           NEW links, NEW pending, NEW active \in BOOLEAN
    PROVE  PlanFits(k, r, PlanOf(k, r, links, pending, active))
<1>1. PICK p : p = PlanOf(k, r, links, pending, active)
  OBVIOUS
<1>2. \/ p = Refused
      \/ row[k] # Absent /\ p = Planned(k, "UPDATE")
      \/ p = Planned(k, Operation(k, r))
  BY <1>1 DEF PlanOf
<1>3. row[k] # Absent => PlanFits(k, r, Planned(k, "UPDATE"))
  BY DEF PlanFits
<1>4. QED
  BY <1>1, <1>2, <1>3, RefusedFits, OperationFits

\* Whatever its kind.
LEMMA PlanRowFits ==
    ASSUME RowInv, NEW k \in Keys, NEW r \in Requests, NEW d
    PROVE  PlanFits(k, r, PlanRow(k, r, d))
<1>1. PICK p : p = PlanRow(k, r, d)
  OBVIOUS
<1>2. Kind[k] \in Kinds
  BY RowConstants
<1>3. \A links, pending : \A active \in BOOLEAN : Kind[k] # "supplier_offerings" => PlanFits(k, r, PlanOf(k, r, links, pending, active))
  BY PlanOfFits
<1>4. Kind[k] # "supplier_offerings" => PlanFits(k, r, Planned(k, Operation(k, r)))
  BY OperationFits
<1>5. PlanFits(k, r, Refused)
  BY RefusedFits
<1>6. CASE Kind[k] = "resources"
  <2>1. p = PlanResource(k, r, DOMAIN d)
    BY <1>1, <1>6 DEF PlanRow
  <2>2. QED
    BY <1>1, <1>3, <1>5, <1>6, <2>1 DEF PlanResource
<1>7. CASE Kind[k] = "preparation_configuration"
  <2>1. p = PlanConfiguration(k, r, DOMAIN d)
    BY <1>1, <1>7 DEF PlanRow
  <2>2. QED
    BY <1>1, <1>4, <1>7, <2>1 DEF PlanConfiguration
<1>8. CASE Kind[k] = "preparation_areas"
  <2>1. p = PlanArea(k, r, DOMAIN d)
    BY <1>1, <1>8 DEF PlanRow
  <2>2. QED
    BY <1>1, <1>3, <1>8, <2>1 DEF PlanArea
<1>9. CASE Kind[k] = "categories"
  <2>1. p = PlanCategory(k, r, DOMAIN d)
    BY <1>1, <1>9 DEF PlanRow
  <2>2. QED
    BY <1>1, <1>3, <1>9, <2>1 DEF PlanCategory
<1>10. CASE Kind[k] = "products"
  <2>1. p = PlanProduct(k, r, DOMAIN d)
    BY <1>1, <1>10 DEF PlanRow
  <2>2. QED
    BY <1>1, <1>3, <1>10, <2>1 DEF PlanProduct
<1>11. CASE Kind[k] = "preparation_routes"
  <2>1. p = PlanRoute(k, r, DOMAIN d)
    BY <1>1, <1>11 DEF PlanRow
  <2>2. QED
    BY <1>1, <1>3, <1>5, <1>11, <2>1 DEF PlanRoute
<1>12. CASE Kind[k] = "menus"
  <2>1. p = PlanMenu(k, r, DOMAIN d)
    BY <1>1, <1>12 DEF PlanRow
  <2>2. QED
    BY <1>1, <1>3, <1>5, <1>12, <2>1 DEF PlanMenu
<1>13. CASE Kind[k] = "menu_sections"
  <2>1. p = PlanMenuSection(k, r, DOMAIN d)
    BY <1>1, <1>13 DEF PlanRow
  <2>2. QED
    BY <1>1, <1>3, <1>13, <2>1 DEF PlanMenuSection
<1>14. CASE Kind[k] = "menu_items"
  <2>1. p = PlanMenuItem(k, r, DOMAIN d)
    BY <1>1, <1>14 DEF PlanRow
  <2>2. QED
    BY <1>1, <1>3, <1>14, <2>1 DEF PlanMenuItem
<1>15. CASE Kind[k] = "prices"
  <2>1. p = PlanPrice(k, r, DOMAIN d)
    BY <1>1, <1>15 DEF PlanRow
  <2>2. QED
    BY <1>1, <1>3, <1>5, <1>15, <2>1 DEF PlanPrice
<1>16. CASE Kind[k] = "warehouses"
  <2>1. p = PlanWarehouse(k, r, DOMAIN d)
    BY <1>1, <1>16 DEF PlanRow
  <2>2. QED
    BY <1>1, <1>4, <1>5, <1>16, <2>1 DEF PlanWarehouse
<1>17. CASE Kind[k] = "consumption_definitions"
  <2>1. p = PlanConsumption(k, r, DOMAIN d)
    BY <1>1, <1>17 DEF PlanRow
  <2>2. QED
    BY <1>1, <1>3, <1>5, <1>17, <2>1 DEF PlanConsumption
<1>18. CASE Kind[k] = "tax_rules"
  <2>1. p = PlanTaxRule(k, r, DOMAIN d)
    BY <1>1, <1>18 DEF PlanRow
  <2>2. QED
    BY <1>1, <1>4, <1>5, <1>18, <2>1 DEF PlanTaxRule
<1>19. CASE Kind[k] = "product_fiscal_classifications"
  <2>1. p = PlanFiscal(k, r, d)
    BY <1>1, <1>19 DEF PlanRow
  <2>2. p = Refused \/ p = PlanOf(k, r, Links(k, r), DOMAIN d, FALSE)
    BY <2>1 DEF PlanFiscal
  <2>3. QED
    BY <1>1, <1>3, <1>5, <1>19, <2>2
<1>20. CASE Kind[k] = "uom_conversions"
  <2>1. p = PlanConversion(k, r, DOMAIN d)
    BY <1>1, <1>20 DEF PlanRow
  <2>2. \/ p = Planned(k, "CREATE")
        \/ row[k] # Absent /\ row[k].val = r.val /\ p = Planned(k, "UNCHANGED")
    BY <2>1 DEF PlanConversion
  <2>3. row[k].val = r.val => AsRequested(k, row[k], r)
    BY <1>20 DEF AsRequested
  <2>4. QED
    BY <1>1, <1>20, <2>2, <2>3 DEF PlanFits
<1>21. CASE Kind[k] \in {"inventory_items", "suppliers", "supplier_offerings"}
  <2>1. p = PlanVersioned(k, r, DOMAIN d)
    BY <1>1, <1>21 DEF PlanRow
  <2>2. \/ p = Refused
        \/ /\ p = Planned(k, Operation(k, r))
           /\ Kind[k] = "supplier_offerings" /\ row[k] # Absent => row[k].ref = r.ref
    BY <2>1 DEF PlanVersioned
  <2>3. QED
    BY <1>1, <1>5, <2>2, OperationFits
<1>22. QED
  BY <1>2, <1>6, <1>7, <1>8, <1>9, <1>10, <1>11, <1>12, <1>13, <1>14, <1>15, <1>16, <1>17, <1>18, <1>19, <1>20, <1>21 DEF Kinds

\* Such a plan holds of the rows it was made from.
LEMMA PlanMade ==
    ASSUME RowInv, NEW k \in Keys, NEW r, NEW p, PlanFits(k, r, p)
    PROVE  PlanHolds(row, k, r, p)
<1>1. row[k] \in Rows /\ row[k].ver \in Nat
  BY DEF RowInv, Rows
<1>2. CASE p = Refused
  <2>1. p.op = "CREATE" /\ p.seen = Absent
    BY <1>2 DEF Refused
  <2>2. Kind[k] \in Versioned /\ row[k].ver = 0 => row[k] = Absent
    BY DEF RowInv
  <2>3. QED
    BY <1>1, <2>1, <2>2, AbsentRow DEF PlanHolds
<1>3. CASE p # Refused
  <2>1. PICK op \in {"CREATE", "UPDATE", "UNCHANGED"} :
           /\ p = Planned(k, op)
           /\ op # "CREATE" => row[k] # Absent
           /\ Kind[k] = "supplier_offerings" /\ op # "CREATE" => row[k].ref = r.ref
    BY <1>3 DEF PlanFits
  <2>2. p.op = op /\ p.seen = row[k]
    BY <2>1 DEF Planned
  <2>3. QED
    BY <1>1, <2>1, <2>2 DEF PlanHolds
<1>4. QED
  BY <1>2, <1>3

LEMMA PlanUnchanged ==
    ASSUME NEW k, NEW r, NEW p, PlanFits(k, r, p), p.op = "UNCHANGED"
    PROVE  AsRequested(k, row[k], r) /\ ~p.blocked
<1>1. p # Refused
  BY DEF Refused
<1>2. PICK op \in {"CREATE", "UPDATE", "UNCHANGED"} : p = Planned(k, op) /\ (op = "UNCHANGED" => AsRequested(k, row[k], r))
  BY <1>1 DEF PlanFits
<1>3. QED
  BY <1>2 DEF Planned

-----------------------------------------------------------------------------
(* What a provision does.                                                  *)

\* It refuses; or leaves a row that is as requested, or was when planned; or writes what may be
\* written, as requested, and where the kind is careful only over what was last observed.
Fits(k, r, p, done) ==
    \/ done.op = "CONFLICT"
    \/ /\ done.op # "CONFLICT" /\ done.new = row[k]
       /\ AsRequested(k, row[k], r) \/ p.op = "UNCHANGED"
    \/ /\ done.op # "CONFLICT" /\ MayWrite(k, done.new) /\ AsRequested(k, done.new, r)
       /\ Kind[k] \in Careful => row[k] = p.seen

LEMMA ConflictFits ==
    ASSUME NEW k, NEW r, NEW p
    PROVE  Fits(k, r, p, Conflict(k))
BY DEF Fits, Conflict, Left

LEMMA KeptFits ==
    ASSUME NEW k, NEW r, NEW p, AsRequested(k, row[k], r) \/ p.op = "UNCHANGED"
    PROVE  Fits(k, r, p, Left("UNCHANGED", row[k]))
BY DEF Fits, Left

LEMMA WrittenFits ==
    ASSUME NEW k, NEW r, NEW p, NEW op \in {"CREATE", "UPDATE"}, NEW new, MayWrite(k, new),
           AsRequested(k, new, r), Kind[k] \in Careful => row[k] = p.seen
    PROVE  Fits(k, r, p, Left(op, new))
BY DEF Fits, Left

\* A request written over nothing, and over a row.
LEMMA RequestedRow ==
    ASSUME RowInv, NEW k \in Keys, NEW r \in Requests
    PROVE  /\ r.val \in 1 .. 2 /\ r.status \in {"ACTIVE", "INACTIVE"} /\ r.ref \in Keys \cup {None, "DEFAULT"}
           /\ RowOf(r) = [val |-> r.val, status |-> r.status, ref |-> r.ref, ver |-> 1]
           /\ RowOf(r) \in Rows /\ RowOf(r) # Absent /\ AsRequested(k, RowOf(r), r)
<1>1. r.val \in 1 .. 2 /\ r.status \in {"ACTIVE", "INACTIVE"} /\ r.ref \in Keys \cup {None, "DEFAULT"}
  BY DEF Requests
<1>2. PICK v \in 0 .. 2, one \in Nat : v = r.val /\ v # 0 /\ one = 1
  BY <1>1
<1>3. PICK s \in {"ABSENT", "ACTIVE", "INACTIVE"}, q \in Keys \cup {None, "DEFAULT", "POS"} : s = r.status /\ q = r.ref
  BY <1>1
<1>4. RowOf(r) = [val |-> v, status |-> s, ref |-> q, ver |-> one]
  BY <1>2, <1>3 DEF RowOf
<1>5. RowOf(r) \in Rows
  BY <1>4 DEF Rows
<1>6. RowOf(r) # Absent /\ Same(RowOf(r), r)
  BY <1>2, <1>3, <1>4, AbsentRow DEF Same
<1>7. AsRequested(k, RowOf(r), r)
  BY <1>5, <1>6, SameAsRequested
<1>8. QED
  BY <1>1, <1>5, <1>6, <1>7 DEF RowOf

LEMMA AmendedRow ==
    ASSUME RowInv, NEW k \in Keys, NEW r \in Requests, NEW new, new = Amended(k, r)
    PROVE  /\ new.val = r.val /\ new.status = r.status /\ new.ref = r.ref
           /\ new \in Rows /\ new # Absent /\ AsRequested(k, new, r)
           /\ Kind[k] \in Versioned => new.ver = row[k].ver + 1
<1>1. row[k].ver \in Nat
  BY DEF RowInv, Rows
<1>2. PICK n \in Nat : n = IF Kind[k] \in Versioned THEN row[k].ver + 1 ELSE 1
  BY <1>1
<1>3. PICK v \in 0 .. 2 : v = r.val /\ v # 0
  BY RequestedRow
<1>4. PICK s \in {"ABSENT", "ACTIVE", "INACTIVE"}, q \in Keys \cup {None, "DEFAULT", "POS"} : s = r.status /\ q = r.ref
  BY RequestedRow
<1>5. new = [val |-> v, status |-> s, ref |-> q, ver |-> n]
  BY <1>2, <1>3, <1>4 DEF Amended, RowOf
<1>6. new \in Rows /\ new # Absent /\ Same(new, r)
  BY <1>3, <1>4, <1>5, AbsentRow DEF Rows, Same
<1>7. AsRequested(k, new, r)
  BY <1>6, SameAsRequested
<1>8. QED
  BY <1>2, <1>3, <1>4, <1>5, <1>6, <1>7

\* A kind with neither links to mind nor versions may be written freely.
LEMMA PlainWrite ==
    ASSUME NEW k \in Keys, Kind[k] \in Plain, NEW new \in Rows, new # Absent
    PROVE  MayWrite(k, new)
BY DEF Plain, MayWrite, Dated, Versioned, Relinked

\* Converging is sound when what it would write may be written.
LEMMA ConvergedFits ==
    ASSUME RowInv, NEW k \in Keys, NEW r \in Requests, NEW p,
           row[k] = Absent => MayWrite(k, RowOf(r)),
           row[k] # Absent /\ Operation(k, r) = "UPDATE" => MayWrite(k, Amended(k, r)),
           Kind[k] \in Careful => row[k] = p.seen \/ (row[k] # Absent /\ Same(row[k], r))
    PROVE  Fits(k, r, p, Converged(k, r))
<1>1. row[k] \in Rows
  BY DEF RowInv
<1>2. row[k] = Absent => ~Same(row[k], r)
  BY AbsentRow DEF Same, Requests
<1>3. CASE row[k] = Absent
  <2>1. Converged(k, r) = Left("CREATE", RowOf(r))
    BY <1>2, <1>3, Zenon DEF Converged
  <2>2. QED
    BY <1>2, <1>3, <2>1, RequestedRow, WrittenFits
<1>4. CASE row[k] # Absent /\ Same(row[k], r)
  <2>1. Converged(k, r) = Left("UNCHANGED", row[k])
    BY <1>4, Zenon DEF Converged
  <2>2. AsRequested(k, row[k], r)
    BY <1>1, <1>4, SameAsRequested
  <2>3. QED
    BY <2>1, <2>2, KeptFits
<1>5. CASE row[k] # Absent /\ ~Same(row[k], r)
  <2>1. Converged(k, r) = Left("UPDATE", Amended(k, r)) /\ Operation(k, r) = "UPDATE"
    BY <1>5, Zenon DEF Converged, Operation
  <2>2. PICK new : new = Amended(k, r)
    OBVIOUS
  <2>3. MayWrite(k, new) /\ AsRequested(k, new, r)
    BY <1>5, <2>1, <2>2, AmendedRow
  <2>4. Fits(k, r, p, Left("UPDATE", new))
    BY <1>5, <2>3, WrittenFits
  <2>5. QED
    BY <2>1, <2>2, <2>4
<1>6. QED
  BY <1>3, <1>4, <1>5

LEMMA GuardedFits ==
    ASSUME RowInv, NEW k \in Keys, NEW r \in Requests, NEW p,
           row[k] = p.seen => Fits(k, r, p, Converged(k, r))
    PROVE  Fits(k, r, p, Guarded(k, r, p))
<1>1. row[k] \in Rows
  BY DEF RowInv
<1>2. CASE row[k] = p.seen
  <2>1. Guarded(k, r, p) = Converged(k, r)
    BY <1>2, Zenon DEF Guarded
  <2>2. QED
    BY <1>2, <2>1
<1>3. CASE row[k] # p.seen /\ row[k] # Absent /\ Same(row[k], r)
  <2>1. Guarded(k, r, p) = Left("UNCHANGED", row[k])
    BY <1>3, Zenon DEF Guarded
  <2>2. AsRequested(k, row[k], r)
    BY <1>1, <1>3, SameAsRequested
  <2>3. QED
    BY <2>1, <2>2, KeptFits
<1>4. CASE row[k] # p.seen /\ ~(row[k] # Absent /\ Same(row[k], r))
  <2>1. Guarded(k, r, p) = Conflict(k)
    BY <1>4, Zenon DEF Guarded
  <2>2. QED
    BY <2>1, ConflictFits
<1>5. QED
  BY <1>2, <1>3, <1>4

LEMMA PlainConverges ==
    ASSUME RowInv, NEW k \in Keys, NEW r \in Requests, NEW p, Kind[k] \in Plain,
           Kind[k] \in Careful => row[k] = p.seen
    PROVE  Fits(k, r, p, Converged(k, r))
<1>1. MayWrite(k, RowOf(r))
  BY RequestedRow, PlainWrite
<1>2. MayWrite(k, Amended(k, r))
  <2>1. PICK new : new = Amended(k, r)
    OBVIOUS
  <2>2. QED
    BY <2>1, AmendedRow, PlainWrite
<1>3. QED
  BY <1>1, <1>2, ConvergedFits

\* Each authority.
LEMMA ResourceFits ==
    ASSUME RowInv, NEW k \in Keys, NEW r \in Requests, NEW p, Kind[k] = "resources"
    PROVE  Fits(k, r, p, ProvisionResource(k, r, p))
<1>1. ProvisionResource(k, r, p) = Conflict(k) \/ ProvisionResource(k, r, p) = Converged(k, r)
  BY DEF ProvisionResource
<1>2. Fits(k, r, p, Converged(k, r))
  BY PlainConverges DEF Plain, Kinds, Dated, Versioned, Careful
<1>3. QED
  BY <1>1, <1>2, ConflictFits

LEMMA SimpleFits ==
    ASSUME RowInv, NEW k \in Keys, NEW r \in Requests, NEW p, NEW done,
           Kind[k] \in {"preparation_configuration", "preparation_areas", "products", "preparation_routes",
                        "menus", "menu_sections", "menu_items"},
           done = Conflict(k) \/ done = Converged(k, r)
    PROVE  Fits(k, r, p, done)
<1>1. Fits(k, r, p, Converged(k, r))
  BY PlainConverges DEF Plain, Kinds, Dated, Versioned, Careful
<1>2. QED
  BY <1>1, ConflictFits

LEMMA PriceFits ==
    ASSUME RowInv, NEW k \in Keys, NEW r \in Requests, NEW p, Kind[k] = "prices"
    PROVE  Fits(k, r, p, ProvisionPrice(k, r, p))
<1>1. ProvisionPrice(k, r, p) = Conflict(k) \/ ProvisionPrice(k, r, p) = Guarded(k, r, p)
  BY DEF ProvisionPrice
<1>2. row[k] = p.seen => Fits(k, r, p, Converged(k, r))
  BY PlainConverges DEF Plain, Kinds, Dated, Versioned
<1>3. Fits(k, r, p, Guarded(k, r, p))
  BY <1>2, GuardedFits
<1>4. QED
  BY <1>1, <1>3, ConflictFits

\* No category is above one that does not exist.
LEMMA AboveNothing ==
    ASSUME RowInv, NEW k \in Categories, row[k] = Absent, NEW q \in Categories
    PROVE  k \notin Ancestors(q)
<1>1. PICK S : S = {c \in Categories : row[c] # Absent}
  OBVIOUS
<1>2. \A c \in Categories : ParentsOf(row, c) \subseteq S
  BY <1>1 DEF RowInv, ParentsOf
<1>3. ClosedUpward(row, S)
  BY <1>1, <1>2 DEF ClosedUpward
<1>4. AncestorsIn(row)[q] \subseteq S
  BY <1>2, <1>3, AncestorsWithin
<1>5. QED
  BY <1>1, <1>4 DEF Ancestors

LEMMA CategoryWrite ==
    ASSUME NEW k \in Keys, Kind[k] = "categories", NEW new \in Rows, new # Absent,
           new.ref \in Categories => new.ref # k /\ k \notin Ancestors(new.ref) /\ row[new.ref] # Absent
    PROVE  MayWrite(k, new)
BY DEF MayWrite, Dated, Versioned, Relinked

LEMMA CategoryFits ==
    ASSUME RowInv, NEW k \in Keys, NEW r \in Requests, NEW p, Kind[k] = "categories"
    PROVE  Fits(k, r, p, ProvisionCategory(k, r))
<1>1. k \in Categories /\ Categories \subseteq Keys /\ None \notin Keys
  BY DatasetAssumption DEF Categories
<1>2. \/ ProvisionCategory(k, r) = Conflict(k)
      \/ /\ ProvisionCategory(k, r) = Converged(k, r)
         /\ There(r.ref) /\ ~(Operation(k, r) = "UPDATE" /\ ~ParentAllowed(k, r.ref))
  BY DEF ProvisionCategory
<1>3. ASSUME There(r.ref), ~(Operation(k, r) = "UPDATE" /\ ~ParentAllowed(k, r.ref))
      PROVE  Fits(k, r, p, Converged(k, r))
  <2>1. r.ref \in Categories => row[r.ref] # Absent /\ r.ref # None
    BY <1>1, <1>3 DEF There
  <2>2. row[k] = Absent => MayWrite(k, RowOf(r))
    <3> SUFFICES ASSUME row[k] = Absent PROVE MayWrite(k, RowOf(r))
      OBVIOUS
    <3>1. PICK new : new = RowOf(r)
      OBVIOUS
    <3>2. new \in Rows /\ new # Absent /\ new.ref = r.ref
      BY <3>1, RequestedRow DEF RowOf
    <3>3. r.ref \in Categories => r.ref # k /\ k \notin Ancestors(r.ref)
      BY <1>1, <2>1, AboveNothing
    <3>4. MayWrite(k, new)
      BY <2>1, <3>2, <3>3, CategoryWrite
    <3>5. QED
      BY <3>1, <3>4
  <2>3. row[k] # Absent /\ Operation(k, r) = "UPDATE" => MayWrite(k, Amended(k, r))
    <3> SUFFICES ASSUME Operation(k, r) = "UPDATE" PROVE MayWrite(k, Amended(k, r))
      OBVIOUS
    <3>1. PICK new : new = Amended(k, r)
      OBVIOUS
    <3>2. new \in Rows /\ new # Absent /\ new.ref = r.ref
      BY <3>1, AmendedRow
    <3>3. r.ref \in Categories => r.ref # k /\ k \notin Ancestors(r.ref)
      BY <1>3, <2>1 DEF ParentAllowed
    <3>4. MayWrite(k, new)
      BY <2>1, <3>2, <3>3, CategoryWrite
    <3>5. QED
      BY <3>1, <3>4
  <2>4. Kind[k] \notin Careful
    BY DEF Careful
  <2>5. QED
    BY <2>2, <2>3, <2>4, ConvergedFits
<1>4. QED
  BY <1>2, <1>3, ConflictFits

\* The version of a row that is not there.
LEMMA VersionAfter ==
    ASSUME RowInv, NEW k \in Keys, NEW r \in Requests
    PROVE  /\ row[k] = Absent => RowOf(r).ver > row[k].ver
           /\ Kind[k] \in Versioned => Amended(k, r).ver > row[k].ver
<1>1. row[k].ver \in Nat
  BY DEF RowInv, Rows
<1>2. row[k] = Absent => RowOf(r).ver = 1 /\ row[k].ver = 0
  BY AbsentRow DEF RowOf
<1>3. PICK new : new = Amended(k, r)
  OBVIOUS
<1>4. Kind[k] \in Versioned => new.ver = row[k].ver + 1
  BY <1>3, AmendedRow
<1>5. QED
  BY <1>1, <1>2, <1>3, <1>4

LEMMA WarehouseWrite ==
    ASSUME NEW k \in Keys, Kind[k] = "warehouses", NEW new \in Rows, new # Absent, new.ver > row[k].ver,
           new.ref = "DEFAULT" => Defaults \subseteq {k}
    PROVE  MayWrite(k, new)
BY DEF MayWrite, Dated, Relinked

LEMMA WarehouseFits ==
    ASSUME RowInv, NEW k \in Keys, NEW r \in Requests, NEW p, p.seen \in Rows, Kind[k] = "warehouses"
    PROVE  Fits(k, r, p, ProvisionWarehouse(k, r, p))
<1>1. \/ ProvisionWarehouse(k, r, p) = Conflict(k)
      \/ /\ ProvisionWarehouse(k, r, p) = Guarded(k, r, p)
         /\ ~(row[k] = Absent /\ r.ref = "DEFAULT" /\ DefaultTaken(k))
         /\ ~(row[k] # Absent /\ p.seen # Absent /\ row[k].ref # r.ref)
  BY DEF ProvisionWarehouse
<1>2. ASSUME ~(row[k] = Absent /\ r.ref = "DEFAULT" /\ DefaultTaken(k)),
             ~(row[k] # Absent /\ p.seen # Absent /\ row[k].ref # r.ref)
      PROVE  Fits(k, r, p, Guarded(k, r, p))
  <2> SUFFICES ASSUME row[k] = p.seen PROVE Fits(k, r, p, Converged(k, r))
    BY GuardedFits
  <2>1. Kind[k] \in Versioned
    BY DEF Versioned
  <2>2. row[k] = Absent => MayWrite(k, RowOf(r))
    <3> SUFFICES ASSUME row[k] = Absent PROVE MayWrite(k, RowOf(r))
      OBVIOUS
    <3>1. PICK new : new = RowOf(r)
      OBVIOUS
    <3>2. new \in Rows /\ new # Absent /\ new.ref = r.ref /\ new.ver > row[k].ver
      BY <3>1, RequestedRow, VersionAfter DEF RowOf
    <3>3. r.ref = "DEFAULT" => Defaults \subseteq {k}
      BY <1>2 DEF DefaultTaken
    <3>4. MayWrite(k, new)
      BY <3>2, <3>3, WarehouseWrite
    <3>5. QED
      BY <3>1, <3>4
  <2>3. row[k] # Absent /\ Operation(k, r) = "UPDATE" => MayWrite(k, Amended(k, r))
    <3> SUFFICES ASSUME row[k] # Absent PROVE MayWrite(k, Amended(k, r))
      OBVIOUS
    <3>1. PICK new : new = Amended(k, r)
      OBVIOUS
    <3>2. new \in Rows /\ new # Absent /\ new.ref = r.ref /\ new.ver > row[k].ver
      BY <2>1, <3>1, AmendedRow, VersionAfter
    <3>3. row[k].ref = r.ref
      BY <1>2
    <3>4. r.ref = "DEFAULT" => k \in Defaults
      BY <3>3 DEF Defaults
    <3>5. r.ref = "DEFAULT" => Defaults \subseteq {k}
      BY <3>4 DEF RowInv
    <3>6. MayWrite(k, new)
      BY <3>2, <3>5, WarehouseWrite
    <3>7. QED
      BY <3>1, <3>6
  <2>4. QED
    BY <2>2, <2>3, ConvergedFits
<1>3. QED
  BY <1>1, <1>2, ConflictFits

LEMMA VersionedWrite ==
    ASSUME NEW k \in Keys, Kind[k] \in Versioned \ {"warehouses"}, NEW new \in Rows, new # Absent,
           new.ver > row[k].ver,
           Kind[k] \in Relinked /\ row[k] # Absent => new.ref = row[k].ref,
           Kind[k] = "suppliers" => new.ref = None
    PROVE  MayWrite(k, new)
BY DEF MayWrite, Dated, Versioned

LEMMA ConsumptionFits ==
    ASSUME RowInv, NEW k \in Keys, NEW r \in Requests, NEW p, PlanHolds(row, k, r, p), Kind[k] = "consumption_definitions"
    PROVE  Fits(k, r, p, ProvisionConsumption(k, r, p))
<1>1. Kind[k] \in Versioned \ {"warehouses"} /\ Kind[k] \notin Relinked /\ Kind[k] # "suppliers"
  BY DEF Versioned, Relinked
<1>2. row[k].ver = p.seen.ver => row[k] = p.seen
  BY <1>1 DEF PlanHolds
<1>3. p.op \in {"CREATE", "UPDATE", "UNCHANGED"} /\ row[k] \in Rows
  BY DEF PlanHolds, RowInv
<1>4. PICK new : new = Amended(k, r)
  OBVIOUS
<1>5. new \in Rows /\ new # Absent /\ AsRequested(k, new, r) /\ new.ver > row[k].ver
  BY <1>1, <1>4, AmendedRow, VersionAfter
<1>6. MayWrite(k, new)
  BY <1>1, <1>5, VersionedWrite
<1>7. CASE p.op = "UNCHANGED"
  <2>1. ProvisionConsumption(k, r, p) = Left("UNCHANGED", row[k])
    BY <1>7, Zenon DEF ProvisionConsumption
  <2>2. QED
    BY <1>7, <2>1, KeptFits
<1>8. CASE p.op # "UNCHANGED" /\ row[k].ver # p.seen.ver /\ Same(row[k], r)
  <2>1. ProvisionConsumption(k, r, p) = Left("UNCHANGED", row[k])
    BY <1>8, Zenon DEF ProvisionConsumption
  <2>2. row[k] # Absent
    BY <1>8, AbsentRow DEF Same, Requests
  <2>3. AsRequested(k, row[k], r)
    BY <1>3, <1>8, <2>2, SameAsRequested
  <2>4. QED
    BY <2>1, <2>3, KeptFits
<1>9. CASE p.op # "UNCHANGED" /\ row[k].ver # p.seen.ver /\ ~Same(row[k], r)
  <2>1. ProvisionConsumption(k, r, p) = Conflict(k)
    BY <1>9, Zenon DEF ProvisionConsumption
  <2>2. QED
    BY <2>1, ConflictFits
<1>10. CASE p.op # "UNCHANGED" /\ row[k].ver = p.seen.ver
  <2>1. ProvisionConsumption(k, r, p) = Conflict(k) \/ ProvisionConsumption(k, r, p) = Left(p.op, new)
    BY <1>4, <1>10 DEF ProvisionConsumption
  <2>2. row[k] = p.seen
    BY <1>2, <1>10
  <2>3. Fits(k, r, p, Left(p.op, new))
    BY <1>3, <1>5, <1>6, <1>10, <2>2, WrittenFits
  <2>4. QED
    BY <2>1, <2>3, ConflictFits
<1>11. QED
  BY <1>7, <1>8, <1>9, <1>10

\* A dated row that clashes with none may be written.
LEMMA DatedWrite ==
    ASSUME NEW k \in Keys, Kind[k] \in Dated, NEW r \in Requests, ~Clash(k, r),
           NEW new \in Rows, new # Absent, new.val = r.val, new.status = r.status
    PROVE  MayWrite(k, new)
<1>1. /\ Kind[k] # "warehouses" /\ Kind[k] # "categories" /\ Kind[k] \notin Versioned
      /\ Kind[k] \notin Relinked /\ Kind[k] # "suppliers"
  BY DEF Dated, Versioned, Relinked
<1>2. new.status = "ACTIVE" =>
         \A j \in Keys \ {k} : Kind[j] = Kind[k] /\ Owner[j] = Owner[k] /\ row[j].status = "ACTIVE"
                                  => ~Overlap(Spans[k][new.val], Spans[j][row[j].val])
  BY Zenon DEF Clash
<1>3. QED
  BY <1>1, <1>2, Zenon DEF MayWrite

LEMMA DatedFits ==
    ASSUME RowInv, NEW k \in Keys, NEW r \in Requests, NEW p, NEW done, Kind[k] \in Dated,
           \/ done = Conflict(k)
           \/ row[k] # Absent /\ Same(row[k], r) /\ done = Left("UNCHANGED", row[k])
           \/ /\ done = Converged(k, r) /\ ~Clash(k, r)
              /\ row[k] = p.seen \/ (row[k] # Absent /\ Same(row[k], r))
    PROVE  Fits(k, r, p, done)
<1>1. row[k] \in Rows
  BY DEF RowInv
<1>2. row[k] # Absent /\ Same(row[k], r) => AsRequested(k, row[k], r)
  BY <1>1, SameAsRequested
<1>3. ASSUME ~Clash(k, r), row[k] = p.seen \/ (row[k] # Absent /\ Same(row[k], r))
      PROVE  Fits(k, r, p, Converged(k, r))
  <2>1. PICK new : new = RowOf(r)
    OBVIOUS
  <2>2. new \in Rows /\ new # Absent /\ new.val = r.val /\ new.status = r.status
    BY <2>1, RequestedRow DEF RowOf
  <2>3. MayWrite(k, new)
    BY <1>3, <2>2, DatedWrite
  <2>4. PICK old : old = Amended(k, r)
    OBVIOUS
  <2>5. old \in Rows /\ old # Absent /\ old.val = r.val /\ old.status = r.status
    BY <2>4, AmendedRow
  <2>6. MayWrite(k, old)
    BY <1>3, <2>5, DatedWrite
  <2>7. QED
    BY <1>3, <2>1, <2>3, <2>4, <2>6, ConvergedFits
<1>4. QED
  BY <1>2, <1>3, ConflictFits, KeptFits

LEMMA TaxRuleFits ==
    ASSUME RowInv, NEW k \in Keys, NEW r \in Requests, NEW p, Kind[k] = "tax_rules"
    PROVE  Fits(k, r, p, ProvisionTaxRule(k, r, p))
<1>1. PICK done : done = ProvisionTaxRule(k, r, p)
  OBVIOUS
<1>2. \/ done = Conflict(k)
      \/ row[k] # Absent /\ Same(row[k], r) /\ done = Left("UNCHANGED", row[k])
      \/ /\ done = Converged(k, r) /\ ~Clash(k, r)
         /\ row[k] = p.seen \/ (row[k] # Absent /\ Same(row[k], r))
  <2>1. CASE Clash(k, r) \/ (row[k] # p.seen /\ (p.seen # Absent \/ ~Same(row[k], r)))
    BY <1>1, <2>1, AbsentRow DEF ProvisionTaxRule, Same
  <2>2. CASE ~Clash(k, r) /\ ~(row[k] # p.seen /\ (p.seen # Absent \/ ~Same(row[k], r)))
    <3>1. row[k] = p.seen \/ (row[k] # Absent /\ Same(row[k], r))
      BY <2>2 DEF Same
    <3>2. (done = Left("UNCHANGED", row[k]) /\ row[k] # Absent /\ Same(row[k], r)) \/ done = Converged(k, r)
      BY <1>1, <2>2, Zenon DEF ProvisionTaxRule
    <3>3. QED
      BY <2>2, <3>1, <3>2
  <2>3. QED
    BY <2>1, <2>2
<1>3. QED
  BY <1>1, <1>2, DatedFits DEF Dated

LEMMA FiscalFits ==
    ASSUME RowInv, NEW k \in Keys, NEW r \in Requests, NEW p, Kind[k] = "product_fiscal_classifications"
    PROVE  Fits(k, r, p, ProvisionFiscal(k, r, p))
<1>1. PICK done : done = ProvisionFiscal(k, r, p)
  OBVIOUS
<1>2. \/ done = Conflict(k)
      \/ row[k] # Absent /\ Same(row[k], r) /\ done = Left("UNCHANGED", row[k])
      \/ /\ done = Converged(k, r) /\ ~Clash(k, r)
         /\ row[k] = p.seen \/ (row[k] # Absent /\ Same(row[k], r))
  <2>1. CASE Clash(k, r) \/ (row[k] # p.seen /\ (p.seen # Absent \/ ~Same(row[k], r)))
    BY <1>1, <2>1, AbsentRow DEF ProvisionFiscal, Same
  <2>2. CASE ~Clash(k, r) /\ ~(row[k] # p.seen /\ (p.seen # Absent \/ ~Same(row[k], r)))
    <3>1. row[k] = p.seen \/ (row[k] # Absent /\ Same(row[k], r))
      BY <2>2 DEF Same
    <3>2. (done = Left("UNCHANGED", row[k]) /\ row[k] # Absent /\ Same(row[k], r)) \/ done = Converged(k, r)
      BY <1>1, <2>2, Zenon DEF ProvisionFiscal
    <3>3. QED
      BY <2>2, <3>1, <3>2
  <2>3. QED
    BY <2>1, <2>2
<1>3. QED
  BY <1>1, <1>2, DatedFits DEF Dated

LEMMA VersionedFits ==
    ASSUME RowInv, NEW k \in Keys, NEW r \in Requests, NEW p, PlanHolds(row, k, r, p),
           p.op # "UNCHANGED", ~p.blocked, Kind[k] \in Relinked, Kind[k] = "suppliers" => r.ref = None
    PROVE  Fits(k, r, p, ProvisionVersioned(k, r, p))
<1>1. Kind[k] \in Versioned \ {"warehouses"}
  BY DEF Versioned, Relinked
<1>2. row[k] \in Rows /\ row[k].ver \in Nat /\ p.op \in {"CREATE", "UPDATE"} /\ p.seen.ver \in Nat
  BY DEF RowInv, PlanHolds, Rows
<1>3. /\ p.seen.ver <= row[k].ver
      /\ p.seen.ver = row[k].ver => row[k] = p.seen
      /\ p.op # "CREATE" => row[k] # Absent
      /\ Kind[k] = "supplier_offerings" /\ p.op # "CREATE" => p.seen.ref = r.ref
  BY <1>1 DEF PlanHolds
<1>4. Kind[k] = "suppliers" => row[k].ref = None
  BY DEF RowInv
<1>5. \/ ProvisionVersioned(k, r, p) = Conflict(k)
      \/ p.op = "CREATE" /\ row[k] = Absent /\ ProvisionVersioned(k, r, p) = Left("CREATE", RowOf(r))
      \/ /\ p.op = "UPDATE" /\ row[k].ver = p.seen.ver
         /\ ProvisionVersioned(k, r, p) = Left("UPDATE", [Amended(k, r) EXCEPT !.ref = row[k].ref])
  BY <1>2 DEF ProvisionVersioned
<1>6. ASSUME p.op = "CREATE", row[k] = Absent
      PROVE  Fits(k, r, p, Left("CREATE", RowOf(r)))
  <2>1. PICK new : new = RowOf(r)
    OBVIOUS
  <2>2. new \in Rows /\ new # Absent /\ new.ref = r.ref /\ AsRequested(k, new, r) /\ new.ver > row[k].ver
    BY <1>6, <2>1, RequestedRow, VersionAfter DEF RowOf
  <2>3. MayWrite(k, new)
    BY <1>1, <1>6, <2>2, VersionedWrite
  <2>4. row[k] = p.seen
    BY <1>2, <1>3, <1>6, AbsentRow
  <2>5. Fits(k, r, p, Left("CREATE", new))
    BY <2>2, <2>3, <2>4, WrittenFits
  <2>6. QED
    BY <2>1, <2>5
<1>7. ASSUME p.op = "UPDATE", row[k].ver = p.seen.ver
      PROVE  Fits(k, r, p, Left("UPDATE", [Amended(k, r) EXCEPT !.ref = row[k].ref]))
  <2>1. PICK a : a = Amended(k, r)
    OBVIOUS
  <2>2. a \in Rows /\ a # Absent /\ a.val = r.val /\ a.status = r.status /\ a.ver = row[k].ver + 1
    BY <1>1, <2>1, AmendedRow
  <2>3. PICK new : new = [a EXCEPT !.ref = row[k].ref]
    OBVIOUS
  <2>4. /\ new \in Rows /\ new.val = r.val /\ new.status = r.status /\ new.ref = row[k].ref
        /\ new.ver = row[k].ver + 1
    BY <1>2, <2>2, <2>3 DEF Rows
  <2>5. new # Absent /\ new.ver > row[k].ver
    BY <1>2, <2>4, AbsentRow
  <2>6. MayWrite(k, new)
    BY <1>1, <1>4, <2>4, <2>5, VersionedWrite
  <2>7. row[k] = p.seen
    BY <1>3, <1>7
  <2>8. AsRequested(k, new, r)
    <3>1. CASE Kind[k] = "inventory_items"
      <4>1. /\ Shown(k, new).val = new.val /\ Shown(k, new).status = new.status /\ Shown(k, new).ref = None
            /\ Shown(k, r).val = r.val /\ Shown(k, r).status = r.status /\ Shown(k, r).ref = None
        BY <2>4, <3>1 DEF Shown, Rows, Requests
      <4>2. QED
        BY <2>4, <2>5, <3>1, <4>1 DEF AsRequested, Same
    <3>2. CASE Kind[k] # "inventory_items"
      <4>1. new.ref = r.ref
        BY <1>3, <1>4, <1>7, <2>4, <2>7, <3>2 DEF Relinked
      <4>2. Same(new, r)
        BY <2>4, <4>1 DEF Same
      <4>3. QED
        BY <2>4, <2>5, <4>2, SameAsRequested
    <3>3. QED
      BY <3>1, <3>2
  <2>9. Fits(k, r, p, Left("UPDATE", new))
    BY <2>6, <2>7, <2>8, WrittenFits
  <2>10. QED
    BY <2>1, <2>3, <2>9
<1>8. QED
  BY <1>5, <1>6, <1>7, ConflictFits

LEMMA ConversionFits ==
    ASSUME RowInv, NEW k \in Keys, NEW r \in Requests, NEW p, Kind[k] = "uom_conversions"
    PROVE  Fits(k, r, p, ProvisionConversion(k, r))
<1>1. Kind[k] \in Versioned \ {"warehouses"} /\ Kind[k] \notin Relinked /\ Kind[k] # "suppliers" /\ Kind[k] \notin Careful
  BY DEF Versioned, Relinked, Careful
<1>2. PICK new : new = Amended(k, r)
  OBVIOUS
<1>3. ProvisionConversion(k, r) = Conflict(k) \/ ProvisionConversion(k, r) = Left("CREATE", new)
  BY <1>2 DEF ProvisionConversion
<1>4. new \in Rows /\ new # Absent /\ AsRequested(k, new, r) /\ new.ver > row[k].ver
  BY <1>1, <1>2, AmendedRow, VersionAfter
<1>5. MayWrite(k, new)
  BY <1>1, <1>4, VersionedWrite
<1>6. Fits(k, r, p, Left("CREATE", new))
  BY <1>1, <1>4, <1>5, WrittenFits
<1>7. QED
  BY <1>3, <1>6, ConflictFits

\* Whatever its kind.
LEMMA ProvisionRowFits ==
    ASSUME RowInv, NEW k \in Keys, NEW r \in Requests, NEW p, PlanHolds(row, k, r, p),
           Kind[k] \notin PlansAgain => p.op # "UNCHANGED" /\ ~p.blocked,
           Kind[k] = "suppliers" => r.ref = None
    PROVE  Fits(k, r, p, ProvisionRow(k, r, p))
<1>1. PICK done : done = ProvisionRow(k, r, p)
  OBVIOUS
<1>2. Kind[k] \in Kinds /\ p.seen \in Rows
  BY RowConstants DEF PlanHolds
<1>3. CASE Kind[k] = "resources"
  <2>1. done = ProvisionResource(k, r, p)
    BY <1>1, <1>3 DEF ProvisionRow
  <2>2. QED
    BY <1>1, <1>3, <2>1, ResourceFits
<1>4. CASE Kind[k] \in {"preparation_configuration", "preparation_areas", "products", "preparation_routes",
                        "menus", "menu_sections", "menu_items"}
  <2>2. done = Conflict(k) \/ done = Converged(k, r)
    <3>1. CASE Kind[k] = "preparation_configuration"
      BY <1>1, <3>1 DEF ProvisionRow, ProvisionConfiguration
    <3>2. CASE Kind[k] = "preparation_areas"
      BY <1>1, <3>2 DEF ProvisionRow, ProvisionArea
    <3>3. CASE Kind[k] = "products"
      BY <1>1, <3>3 DEF ProvisionRow, ProvisionProduct
    <3>4. CASE Kind[k] = "preparation_routes"
      BY <1>1, <3>4 DEF ProvisionRow, ProvisionRoute
    <3>5. CASE Kind[k] = "menus"
      BY <1>1, <3>5 DEF ProvisionRow, ProvisionMenu
    <3>6. CASE Kind[k] = "menu_sections"
      BY <1>1, <3>6 DEF ProvisionRow, ProvisionMenuSection
    <3>7. CASE Kind[k] = "menu_items"
      BY <1>1, <3>7 DEF ProvisionRow, ProvisionMenuItem
    <3>8. QED
      BY <1>4, <3>1, <3>2, <3>3, <3>4, <3>5, <3>6, <3>7
  <2>3. QED
    BY <1>1, <1>4, <2>2, SimpleFits
<1>5. CASE Kind[k] = "categories"
  <2>1. done = ProvisionCategory(k, r)
    BY <1>1, <1>5 DEF ProvisionRow
  <2>2. QED
    BY <1>1, <1>5, <2>1, CategoryFits
<1>6. CASE Kind[k] = "prices"
  <2>1. done = ProvisionPrice(k, r, p)
    BY <1>1, <1>6 DEF ProvisionRow
  <2>2. QED
    BY <1>1, <1>6, <2>1, PriceFits
<1>7. CASE Kind[k] = "warehouses"
  <2>1. done = ProvisionWarehouse(k, r, p)
    BY <1>1, <1>7 DEF ProvisionRow
  <2>2. QED
    BY <1>1, <1>2, <1>7, <2>1, WarehouseFits
<1>8. CASE Kind[k] = "consumption_definitions"
  <2>1. done = ProvisionConsumption(k, r, p)
    BY <1>1, <1>8 DEF ProvisionRow
  <2>2. QED
    BY <1>1, <1>8, <2>1, ConsumptionFits
<1>9. CASE Kind[k] = "tax_rules"
  <2>1. done = ProvisionTaxRule(k, r, p)
    BY <1>1, <1>9 DEF ProvisionRow
  <2>2. QED
    BY <1>1, <1>9, <2>1, TaxRuleFits
<1>10. CASE Kind[k] = "product_fiscal_classifications"
  <2>1. done = ProvisionFiscal(k, r, p)
    BY <1>1, <1>10 DEF ProvisionRow
  <2>2. QED
    BY <1>1, <1>10, <2>1, FiscalFits
<1>11. CASE Kind[k] = "uom_conversions"
  <2>1. done = ProvisionConversion(k, r)
    BY <1>1, <1>11 DEF ProvisionRow
  <2>2. QED
    BY <1>1, <1>11, <2>1, ConversionFits
<1>12. CASE Kind[k] \in Relinked
  <2>1. done = ProvisionVersioned(k, r, p) /\ Kind[k] \notin PlansAgain
    BY <1>1, <1>12 DEF ProvisionRow, Relinked, PlansAgain
  <2>2. QED
    BY <1>1, <1>12, <2>1, VersionedFits
<1>13. QED
  BY <1>2, <1>3, <1>4, <1>5, <1>6, <1>7, <1>8, <1>9, <1>10, <1>11, <1>12 DEF Kinds, Relinked

-----------------------------------------------------------------------------
(* What the API writes.                                                    *)

LEMMA EditMade ==
    ASSUME RowInv, NEW k \in Keys, NEW new, Edit(k, new), MayWrite(k, new)
    PROVE  RowInv' /\ RowsGrow(row, row')
<1>1. row' = [row EXCEPT ![k] = new] /\ hidden' = hidden /\ site' = site
  BY DEF Edit
<1>2. hidden' \subseteq Keys /\ site' \in {"ACTIVE", "INACTIVE"}
  BY <1>1 DEF RowInv
<1>3. QED
  BY <1>1, <1>2, RowWritten

LEMMA UpdatedRow ==
    ASSUME RowInv, NEW k \in Keys, NEW v \in 1 .. 2, NEW st \in {"ACTIVE", "INACTIVE"}, NEW new, new = Updated(k, v, st)
    PROVE  new \in Rows /\ new # Absent /\ new.ref = row[k].ref
<1>1. row[k].ver \in Nat /\ row[k].ref \in Keys \cup {None, "DEFAULT", "POS"}
  BY DEF RowInv, Rows
<1>2. PICK n \in Nat : n = IF Kind[k] \in Versioned THEN row[k].ver + 1 ELSE 1
  BY <1>1
<1>3. PICK w \in 0 .. 2 : w = v /\ w # 0
  OBVIOUS
<1>4. PICK s \in {"ABSENT", "ACTIVE", "INACTIVE"}, q \in Keys \cup {None, "DEFAULT", "POS"} : s = st /\ q = row[k].ref
  BY <1>1
<1>5. new = [val |-> w, status |-> s, ref |-> q, ver |-> n]
  BY <1>2, <1>3, <1>4 DEF Updated, Amended, RowOf
<1>6. QED
  BY <1>3, <1>4, <1>5, AbsentRow DEF Rows

LEMMA RelinkedRow ==
    ASSUME NEW a \in Rows, a # Absent, NEW q \in Keys \cup {None}, a.val # 0, NEW new, new = [a EXCEPT !.ref = q]
    PROVE  new \in Rows /\ new # Absent /\ new.ref = q
BY AbsentRow DEF Rows

LEMMA UpdatedValue ==
    ASSUME NEW k, NEW v, NEW st
    PROVE  Updated(k, v, st).val = v
BY DEF Updated, Amended, RowOf

LEMMA FreshRow ==
    ASSUME NEW v \in 1 .. 2, NEW q \in Keys \cup {None, "POS"}, NEW new, new = RowOf([val |-> v, status |-> "ACTIVE", ref |-> q])
    PROVE  new \in Rows /\ new # Absent
<1>1. PICK w \in 0 .. 2 : w = v /\ w # 0
  OBVIOUS
<1>2. PICK s \in {"ABSENT", "ACTIVE", "INACTIVE"}, one \in Nat : s = "ACTIVE" /\ one = 1
  OBVIOUS
<1>3. new = [val |-> w, status |-> s, ref |-> q, ver |-> one]
  BY <1>1, <1>2 DEF RowOf
<1>4. QED
  BY <1>1, <1>2, <1>3, AbsentRow DEF Rows

\* A row of a plain kind may be written by any edit.
Editable == {"resources", "preparation_areas", "preparation_routes", "products", "menus", "menu_sections",
             "menu_items", "prices"}

LEMMA PlainEdit ==
    ASSUME RowInv, NEW k \in Keys, Kind[k] \in Editable, NEW new, Edit(k, new), new \in Rows, new # Absent
    PROVE  RowInv' /\ RowsGrow(row, row')
<1>1. Kind[k] \in Plain
  BY DEF Plain, Kinds, Dated, Versioned, Editable
<1>2. MayWrite(k, new)
  BY <1>1, PlainWrite
<1>3. QED
  BY <1>2, EditMade

LEMMA CreateEdit ==
    ASSUME RowInv, NEW k \in Keys, Kind[k] \in Editable, NEW v \in 1 .. 2, NEW q \in Keys \cup {None, "POS"},
           Edit(k, RowOf([val |-> v, status |-> "ACTIVE", ref |-> q]))
    PROVE  RowInv' /\ RowsGrow(row, row')
<1>1. PICK new : new = RowOf([val |-> v, status |-> "ACTIVE", ref |-> q])
  OBVIOUS
<1>2. new \in Rows /\ new # Absent /\ Edit(k, new)
  BY <1>1, FreshRow
<1>3. QED
  BY <1>2, PlainEdit

LEMMA UpdateEdit ==
    ASSUME RowInv, NEW k \in Keys, Kind[k] \in Editable, NEW v \in 1 .. 2, NEW st \in {"ACTIVE", "INACTIVE"},
           Edit(k, Updated(k, v, st))
    PROVE  RowInv' /\ RowsGrow(row, row')
<1>1. PICK new : new = Updated(k, v, st)
  OBVIOUS
<1>2. new \in Rows /\ new # Absent /\ Edit(k, new)
  BY <1>1, UpdatedRow
<1>3. QED
  BY <1>2, PlainEdit

LEMMA RelinkEdit ==
    ASSUME RowInv, NEW k \in Keys, Kind[k] \in Editable, NEW v \in 1 .. 2, NEW st \in {"ACTIVE", "INACTIVE"},
           NEW q \in Keys \cup {None}, Edit(k, [Updated(k, v, st) EXCEPT !.ref = q])
    PROVE  RowInv' /\ RowsGrow(row, row')
<1>1. PICK a : a = Updated(k, v, st)
  OBVIOUS
<1>2. a \in Rows /\ a # Absent /\ a.val # 0
  BY <1>1, UpdatedRow, UpdatedValue
<1>3. PICK new : new = [a EXCEPT !.ref = q]
  OBVIOUS
<1>4. new \in Rows /\ new # Absent /\ Edit(k, new)
  BY <1>1, <1>2, <1>3, RelinkedRow
<1>5. QED
  BY <1>4, PlainEdit

LEMMA CategoryEdit ==
    ASSUME RowInv, NEW k \in Keys, NEW v \in 1 .. 2, NEW st \in {"ACTIVE", "INACTIVE"}, NEW q \in Keys \cup {None},
           UpdateCategory(k, v, st, q)
    PROVE  RowInv' /\ RowsGrow(row, row')
<1>1. /\ Kind[k] = "categories" /\ MayLink(k, q) /\ ParentAllowed(k, q)
      /\ Edit(k, [Updated(k, v, st) EXCEPT !.ref = q])
  BY DEF UpdateCategory
<1>2. PICK a : a = Updated(k, v, st)
  OBVIOUS
<1>3. a \in Rows /\ a # Absent /\ a.val # 0
  BY <1>2, UpdatedRow, UpdatedValue
<1>4. PICK new : new = [a EXCEPT !.ref = q]
  OBVIOUS
<1>5. new \in Rows /\ new # Absent /\ new.ref = q /\ Edit(k, new)
  BY <1>1, <1>2, <1>3, <1>4, RelinkedRow
<1>6. q \in Categories => q # k /\ k \notin Ancestors(q) /\ row[q] # Absent
  BY <1>1, DatasetAssumption DEF MayLink, ParentAllowed, Categories
<1>7. MayWrite(k, new)
  BY <1>1, <1>5, <1>6, CategoryWrite
<1>8. QED
  BY <1>5, <1>7, EditMade

LEMMA MenuEdit ==
    ASSUME RowInv, NEW k \in Keys, NEW v \in 1 .. 2, NEW shown, UpdateMenu(k, v, shown)
    PROVE  RowInv' /\ RowsGrow(row, row')
<1>1. /\ Kind[k] = "menus" /\ row[k] # Absent /\ row' = [row EXCEPT ![k].val = v]
      /\ hidden' = (IF shown THEN hidden \ {k} ELSE hidden \cup {k}) /\ site' = site
  BY DEF UpdateMenu
<1>2. row \in [Keys -> Rows] /\ hidden \subseteq Keys /\ site \in {"ACTIVE", "INACTIVE"}
  BY DEF RowInv
<1>3. PICK new : new = [row[k] EXCEPT !.val = v]
  OBVIOUS
<1>4. row' = [row EXCEPT ![k] = new]
  BY <1>1, <1>3
<1>5. new \in Rows /\ new.val # 0
  BY <1>2, <1>3 DEF Rows
<1>6. new # Absent
  BY <1>5, AbsentRow
<1>7. Kind[k] \in Plain
  BY <1>1 DEF Plain, Kinds, Dated, Versioned
<1>8. MayWrite(k, new)
  BY <1>5, <1>6, <1>7, PlainWrite
<1>9. hidden' \subseteq Keys /\ site' \in {"ACTIVE", "INACTIVE"}
  BY <1>1, <1>2
<1>10. QED
  BY <1>4, <1>8, <1>9, RowWritten

\* What a workload may hold.
LEMMA DataTyped ==
    ASSUME data \in Workloads
    PROVE  \A i \in Imports : /\ DOMAIN data[i] \subseteq Keys
                              /\ \A k \in DOMAIN data[i] : /\ data[i][k] \in Requests
                                                           /\ Kind[k] = "suppliers" => data[i][k].ref = None
BY DatasetAssumption

LEMMA RowEdited ==
    ASSUME RowInv, data \in Workloads, EditRow
    PROVE  RowInv' /\ RowsGrow(row, row')
<1>1. DataKeys \subseteq Keys
  BY DataTyped DEF DataKeys
<1>2. PICK k \in DataKeys, v \in 1 .. 2, st \in {"ACTIVE", "INACTIVE"}, ref \in DataKeys \cup {None} :
         \/ CreateResource(k, v) \/ UpdateResource(k, v, st)
         \/ CreateArea(k, v, ref) \/ UpdateArea(k, v, st, ref) \/ ReviseRoute(k, v, ref)
         \/ UpdateCategory(k, v, st, ref) \/ UpdateProduct(k, v, st, ref)
         \/ UpdateMenu(k, v, st = "ACTIVE") \/ UpdateMenuLocation(k, st)
         \/ UpdateMenuSection(k, v, st) \/ CreateMenuItem(k, v, ref) \/ UpdateMenuItem(k, v, st, ref)
         \/ CreatePrice(k, v) \/ UpdatePrice(k, v, st) \/ SynchronizePrice(k, v)
  BY Zenon DEF EditRow
<1>3. /\ k \in Keys /\ ref \in Keys \cup {None} /\ ref \in Keys \cup {None, "POS"}
      /\ None \in Keys \cup {None, "POS"} /\ "POS" \in Keys \cup {None, "POS"}
  BY <1>1
<1>4. CASE CreateResource(k, v)
  BY <1>3, <1>4, CreateEdit DEF CreateResource, CreatedBy, Editable
<1>5. CASE UpdateResource(k, v, st)
  BY <1>3, <1>5, UpdateEdit DEF UpdateResource, Editable
<1>6. CASE CreateArea(k, v, ref)
  BY <1>3, <1>6, CreateEdit DEF CreateArea, CreatedBy, Editable
<1>7. CASE UpdateArea(k, v, st, ref)
  BY <1>3, <1>7, RelinkEdit DEF UpdateArea, Editable
<1>8. CASE ReviseRoute(k, v, ref)
  BY <1>3, <1>8, CreateEdit DEF ReviseRoute, Editable
<1>9. CASE UpdateCategory(k, v, st, ref)
  BY <1>3, <1>9, CategoryEdit
<1>10. CASE UpdateProduct(k, v, st, ref)
  BY <1>3, <1>10, RelinkEdit DEF UpdateProduct, Editable
<1>11. CASE UpdateMenu(k, v, st = "ACTIVE")
  BY <1>3, <1>11, MenuEdit
<1>12. CASE UpdateMenuLocation(k, st)
  <2>1. Kind[k] \in Editable /\ row[k] # Absent /\ Edit(k, Updated(k, row[k].val, st))
    BY <1>3, <1>12 DEF UpdateMenuLocation, Editable
  <2>2. row[k] \in Rows
    BY <1>3 DEF RowInv
  <2>3. PICK new : new = Updated(k, row[k].val, st)
    OBVIOUS
  <2>4. new \in Rows /\ new.status = st
    <3>1. PICK w \in 0 .. 2, s \in {"ABSENT", "ACTIVE", "INACTIVE"}, q \in Keys \cup {None, "DEFAULT", "POS"}, one \in Nat :
             w = row[k].val /\ s = st /\ q = row[k].ref /\ one = 1
      BY <2>2 DEF Rows
    <3>2. Kind[k] \notin Versioned
      BY <2>1 DEF Editable, Versioned
    <3>3. new = [val |-> w, status |-> s, ref |-> q, ver |-> one]
      BY <2>3, <3>1, <3>2 DEF Updated, Amended, RowOf
    <3>4. QED
      BY <3>1, <3>3 DEF Rows
  <2>5. new # Absent
    BY <2>4, AbsentRow
  <2>6. QED
    BY <1>3, <2>1, <2>3, <2>4, <2>5, PlainEdit
<1>13. CASE UpdateMenuSection(k, v, st)
  BY <1>3, <1>13, UpdateEdit DEF UpdateMenuSection, Editable
<1>14. CASE CreateMenuItem(k, v, ref)
  BY <1>3, <1>14, CreateEdit DEF CreateMenuItem, CreatedBy, Editable
<1>15. CASE UpdateMenuItem(k, v, st, ref)
  BY <1>3, <1>15, RelinkEdit DEF UpdateMenuItem, Editable
<1>16. CASE CreatePrice(k, v)
  BY <1>3, <1>16, CreateEdit DEF CreatePrice, CreatedBy, Editable
<1>17. CASE UpdatePrice(k, v, st)
  BY <1>3, <1>17, UpdateEdit DEF UpdatePrice, Editable
<1>18. CASE SynchronizePrice(k, v)
  BY <1>3, <1>18, CreateEdit DEF SynchronizePrice, Editable
<1>19. QED
  BY <1>2, <1>4, <1>5, <1>6, <1>7, <1>8, <1>9, <1>10, <1>11, <1>12, <1>13, <1>14, <1>15, <1>16, <1>17, <1>18

-----------------------------------------------------------------------------
(* What every step does to the imports that do not take it.                *)

LEMMA SoundKept ==
    ASSUME NEW old, NEW new, RowsGrow(old, new), NEW d, DOMAIN d \subseteq Keys,
           NEW result, NEW step, NEW planned, NEW rest, NEW now, NEW h,
           ImportSound(old, d, result, step, planned, rest, now, h), NEW more, h \subseteq more, more \subseteq DOMAIN d
    PROVE  ImportSound(new, d, result, step, planned, rest, now, more)
<1>1. /\ result \in Terminal \cup {"none", "IN_PROGRESS"} /\ step \in Steps
      /\ rest \in Seq(DOMAIN d)
      /\ step \in Claimed => result # "none"
      /\ step \in Working => /\ DOMAIN d \subseteq h \cup Range(rest)
                             /\ \A k \in DOMAIN d : ~planned[k].blocked
      /\ step = "done" /\ result = "SUCCESS" => h = DOMAIN d
  BY Zenon DEF ImportSound
<1>2. step \in Running => /\ DOMAIN planned = DOMAIN d
                          /\ \A k \in DOMAIN d : /\ PlanHolds(old, k, d[k], planned[k])
                                                 /\ planned[k].op = "UNCHANGED" => k \in h
  BY Zenon DEF ImportSound
<1>3. step = "begun" => /\ rest # <<>> /\ PlanHolds(old, Head(rest), d[Head(rest)], now)
                        /\ now.op = "UNCHANGED" => Head(rest) \in h
                        /\ Kind[Head(rest)] \notin PlansAgain => now.op # "UNCHANGED" /\ ~now.blocked
  BY Zenon DEF ImportSound
<1>4. \A k \in DOMAIN d : \A p : PlanHolds(old, k, d[k], p) => PlanHolds(new, k, d[k], p)
  BY PlanKept
<1>5. step = "begun" => Head(rest) \in DOMAIN d
  BY <1>1, <1>3
<1>6. step \in Running => /\ DOMAIN planned = DOMAIN d
                          /\ \A k \in DOMAIN d : /\ PlanHolds(new, k, d[k], planned[k])
                                                 /\ planned[k].op = "UNCHANGED" => k \in more
  BY <1>2, <1>4
<1>7. step = "begun" => /\ rest # <<>> /\ PlanHolds(new, Head(rest), d[Head(rest)], now)
                        /\ now.op = "UNCHANGED" => Head(rest) \in more
                        /\ Kind[Head(rest)] \notin PlansAgain => now.op # "UNCHANGED" /\ ~now.blocked
  BY <1>3, <1>4, <1>5
<1>8. step \in Working => /\ DOMAIN d \subseteq more \cup Range(rest)
                          /\ \A k \in DOMAIN d : ~planned[k].blocked
  BY <1>1
<1>9. step = "done" /\ result = "SUCCESS" => more = DOMAIN d
  BY <1>1
<1>10. QED
  BY <1>1, <1>6, <1>7, <1>8, <1>9, Zenon DEF ImportSound

\* The evidence of a dataset may move while a request for it is not done.
LEMMA SoundClaimed ==
    ASSUME NEW rows, NEW d, NEW result, NEW step, NEW planned, NEW rest, NEW now, NEW h,
           ImportSound(rows, d, result, step, planned, rest, now, h), step # "done",
           NEW later \in Terminal \cup {"IN_PROGRESS"}
    PROVE  ImportSound(rows, d, later, step, planned, rest, now, h)
<1>1. later \in Terminal \cup {"none", "IN_PROGRESS"} /\ later # "none"
  BY DEF Terminal
<1>2. QED
  BY <1>1, Zenon DEF ImportSound

FirstOf(d, i) == CHOOSE j \in Imports : d[j] = d[i]

LEMMA SameFingerprint ==
    ASSUME data' = data
    PROVE  \A i : Fingerprint(i)' = Fingerprint(i)
<1> TAKE i
<1>1. Fingerprint(i)' = FirstOf(data', i)
  BY DEF Fingerprint, FirstOf
<1>2. Fingerprint(i) = FirstOf(data, i)
  BY DEF Fingerprint, FirstOf
<1>3. QED
  BY <1>1, <1>2

LEMMA FingerprintTells ==
    \A i \in Imports : Fingerprint(i) \in Imports /\ data[Fingerprint(i)] = data[i]
BY DEF Fingerprint

\* The tables have an entry for every request.
ImportShape(e, c, pl, t, s, o, h) ==
    /\ e \in [Imports -> Terminal \cup {"none", "IN_PROGRESS"}] /\ c \in [Imports -> Steps]
    /\ DOMAIN pl = Imports /\ DOMAIN t = Imports /\ DOMAIN s = Imports
    /\ DOMAIN o = Imports /\ DOMAIN h = Imports

LEMMA ShapeNow ==
    ASSUME ImportInv
    PROVE  ImportShape(evidence, pc, plan, todo, seen, outcome, held)
BY DEF ImportInv, ImportShape

ImportNow(i) == ImportSound(row, data[i], evidence[Fingerprint(i)], pc[i], plan[i], todo[i], seen[i], held[i])

\* What the requests outside A do not notice.
OthersWait(A) ==
    \A j \in Imports \ A : /\ pc'[j] = pc[j] /\ plan'[j] = plan[j] /\ todo'[j] = todo[j]
                           /\ seen'[j] = seen[j] /\ outcome'[j] = outcome[j]
                           /\ \/ evidence'[Fingerprint(j)] = evidence[Fingerprint(j)]
                              \/ /\ evidence'[Fingerprint(j)] \in Terminal \cup {"IN_PROGRESS"}
                                 /\ pc[j] # "done"
HeldGrows == \A j \in Imports : held[j] \subseteq held'[j] /\ held'[j] \subseteq DOMAIN data[j]
\* What the requests of A must see to.
OwnSound(A) ==
    \A i \in A : /\ ImportSound(row', data[i], evidence'[Fingerprint(i)], pc'[i], plan'[i], todo'[i], seen'[i], held'[i])
                 /\ outcome'[i] # <<>> => pc'[i] \in Claimed
                 /\ pc'[i] \in Claimed => \/ pc[i] \in Claimed
                                          \/ \A j \in Imports \ {i} : data[j] = data[i] => pc[j] \notin Claimed

LEMMA StepKeeps ==
    ASSUME ImportInv, data' = data, RowInv', RowsGrow(row, row'),
           ImportShape(evidence', pc', plan', todo', seen', outcome', held'),
           NEW A \in SUBSET Imports, \A i, j \in A : i = j, OthersWait(A), HeldGrows, OwnSound(A)
    PROVE  ImportInv'
<1>1. /\ data \in Workloads /\ \A i \in Imports : ImportNow(i) /\ (outcome[i] # <<>> => pc[i] \in Claimed)
      /\ \A i, j \in Imports : pc[i] \in Claimed /\ pc[j] \in Claimed /\ data[i] = data[j] => i = j
  BY Zenon DEF ImportInv, ImportNow
<1>2. \A i \in Imports : DOMAIN data[i] \subseteq Keys
  BY <1>1, DataTyped
<1>3. ASSUME NEW j \in Imports \ A
      PROVE  /\ ImportSound(row', data[j], evidence'[Fingerprint(j)], pc'[j], plan'[j], todo'[j], seen'[j], held'[j])
             /\ outcome'[j] # <<>> => pc'[j] \in Claimed
  <2>1. held[j] \subseteq held'[j] /\ held'[j] \subseteq DOMAIN data[j]
    BY DEF HeldGrows
  <2>2. ImportSound(row, data[j], evidence[Fingerprint(j)], pc[j], plan[j], todo[j], seen[j], held[j])
    BY <1>1 DEF ImportNow
  <2>3. ImportSound(row', data[j], evidence[Fingerprint(j)], pc[j], plan[j], todo[j], seen[j], held'[j])
    BY <1>2, <2>1, <2>2, SoundKept
  <2>4. /\ pc'[j] = pc[j] /\ plan'[j] = plan[j] /\ todo'[j] = todo[j] /\ seen'[j] = seen[j] /\ outcome'[j] = outcome[j]
        /\ \/ evidence'[Fingerprint(j)] = evidence[Fingerprint(j)]
           \/ /\ evidence'[Fingerprint(j)] \in Terminal \cup {"IN_PROGRESS"}
              /\ pc[j] # "done"
    BY DEF OthersWait
  <2>5. ImportSound(row', data[j], evidence'[Fingerprint(j)], pc[j], plan[j], todo[j], seen[j], held'[j])
    BY <2>3, <2>4, SoundClaimed
  <2>6. QED
    BY <1>1, <2>4, <2>5
<1>4. \A j \in Imports : /\ ImportSound(row', data'[j], evidence'[Fingerprint(j)], pc'[j], plan'[j], todo'[j], seen'[j], held'[j])
                         /\ outcome'[j] # <<>> => pc'[j] \in Claimed
  BY <1>3 DEF OwnSound
<1>5. \A i, j \in Imports : pc'[i] \in Claimed /\ pc'[j] \in Claimed /\ data'[i] = data'[j] => i = j
  <2> SUFFICES ASSUME NEW i \in Imports, NEW j \in Imports, pc'[i] \in Claimed, pc'[j] \in Claimed, data[i] = data[j], i # j
               PROVE  FALSE
    OBVIOUS
  <2>1. \A x \in Imports \ A : pc'[x] = pc[x]
    BY DEF OthersWait
  <2>2. \A x \in A : pc'[x] \in Claimed => pc[x] \in Claimed \/ \A y \in Imports \ {x} : data[y] = data[x] => pc[y] \notin Claimed
    BY DEF OwnSound
  <2>3. CASE i \in A
    <3>1. j \notin A /\ pc[j] \in Claimed
      BY <2>1, <2>3
    <3>2. pc[i] \in Claimed
      BY <2>2, <2>3, <3>1
    <3>3. QED
      BY <1>1, <3>1, <3>2
  <2>4. CASE j \in A
    <3>1. i \notin A /\ pc[i] \in Claimed
      BY <2>1, <2>4
    <3>2. pc[j] \in Claimed
      BY <2>2, <2>4, <3>1
    <3>3. QED
      BY <1>1, <3>1, <3>2
  <2>5. CASE i \notin A /\ j \notin A
    BY <1>1, <2>1, <2>5
  <2>6. QED
    BY <2>3, <2>4, <2>5
<1>6. \A j : Fingerprint(j)' = Fingerprint(j)
  BY SameFingerprint
<1>7. \A j \in Imports : ImportSound(row', data'[j], evidence'[Fingerprint(j)'], pc'[j], plan'[j], todo'[j], seen'[j], held'[j])
  BY <1>4, <1>6
<1>8. data' \in Workloads
  BY <1>1
<1>9. QED
  BY <1>4, <1>5, <1>7, <1>8, Zenon DEF ImportInv, ImportShape

\* What an observation notes.
LEMMA Observed ==
    ASSUME ImportInv, Observe, data' = data
    PROVE  /\ HeldGrows /\ DOMAIN held' = Imports
           /\ \A j \in Imports : pc'[j] \in Running =>
                 \A k \in DOMAIN data[j] : AsRequested(k, row'[k], data[j][k]) => k \in held'[j]
<1>1. \A j \in Imports : held[j] \subseteq DOMAIN data[j]
  BY DEF ImportInv, ImportSound
<1>2. DOMAIN held' = Imports
  BY Zenon DEF Observe
<1>3. ASSUME NEW j \in Imports
      PROVE  held'[j] = IF pc'[j] \in Running
                        THEN held[j] \cup {k \in DOMAIN data[j] : AsRequested(k, row'[k], data[j][k])} ELSE held[j]
  BY Zenon DEF Observe, Running
<1>4. HeldGrows
  BY <1>1, <1>3 DEF HeldGrows
<1>5. QED
  BY <1>2, <1>3, <1>4

LEMMA NothingObserved ==
    ASSUME ImportInv, held' = held
    PROVE  HeldGrows
BY DEF ImportInv, ImportSound, HeldGrows

-----------------------------------------------------------------------------
(* The steps of an import.                                                 *)

LEMMA OwnNow ==
    ASSUME ImportInv, NEW i \in Imports
    PROVE  /\ ImportNow(i) /\ RowInv /\ DOMAIN data[i] \subseteq Keys
           /\ \A k \in DOMAIN data[i] : data[i][k] \in Requests /\ (Kind[k] = "suppliers" => data[i][k].ref = None)
           /\ outcome[i] # <<>> => pc[i] \in Claimed
<1>1. /\ data \in Workloads /\ RowInv
      /\ \A j \in Imports : ImportNow(j) /\ (outcome[j] # <<>> => pc[j] \in Claimed)
  BY Zenon DEF ImportInv, ImportNow
<1>2. QED
  BY <1>1, DataTyped

\* Where the rows stay and only request i moves.
OnlyThe(i) ==
    \A j \in Imports \ {i} : /\ pc'[j] = pc[j] /\ plan'[j] = plan[j] /\ todo'[j] = todo[j]
                             /\ seen'[j] = seen[j] /\ outcome'[j] = outcome[j]

LEMMA RowsStill ==
    ASSUME ImportInv, UNCHANGED rowVars
    PROVE  RowInv' /\ RowsGrow(row, row') /\ row' = row
<1>1. row' = row /\ hidden' = hidden /\ site' = site
  BY DEF rowVars
<1>2. RowInv
  BY DEF ImportInv
<1>3. hidden' \subseteq Keys /\ site' \in {"ACTIVE", "INACTIVE"}
  BY <1>1, <1>2 DEF RowInv
<1>4. QED
  BY <1>1, <1>2, <1>3, RowInvSame, RowsKept

LEMMA RejectKeeps ==
    ASSUME ImportInv, NEW i \in Imports, RejectImport(i)
    PROVE  ImportInv'
<1>1. /\ pc[i] = "idle" /\ pc' = [pc EXCEPT ![i] = "rejected"] /\ UNCHANGED rowVars /\ data' = data /\ evidence' = evidence
      /\ plan' = plan /\ todo' = todo /\ seen' = seen /\ outcome' = outcome /\ held' = held
  BY DEF RejectImport, Goto
<1>2. ImportShape(evidence, pc, plan, todo, seen, outcome, held)
  BY ShapeNow
<1>3. ImportShape(evidence', pc', plan', todo', seen', outcome', held') /\ pc'[i] = "rejected"
  BY <1>1, <1>2 DEF ImportShape, Steps
<1>4. OthersWait({i})
  BY <1>1, <1>2 DEF OthersWait, ImportShape
<1>5. HeldGrows /\ RowInv' /\ RowsGrow(row, row') /\ row' = row
  BY <1>1, NothingObserved, RowsStill
<1>6. ImportSound(row, data[i], evidence[Fingerprint(i)], pc[i], plan[i], todo[i], seen[i], held[i])
  BY OwnNow DEF ImportNow
<1>7. ImportSound(row, data[i], evidence[Fingerprint(i)], "rejected", plan[i], todo[i], seen[i], held[i])
  BY <1>6 DEF ImportSound, Steps, Claimed, Working, Running
<1>8. outcome[i] = <<>>
  BY <1>1, OwnNow DEF Claimed, Working
<1>9. OwnSound({i})
  BY <1>1, <1>3, <1>5, <1>7, <1>8 DEF OwnSound, Claimed, Working
<1>10. QED
  BY <1>1, <1>3, <1>4, <1>5, <1>9, StepKeeps

LEMMA ReplayKeeps ==
    ASSUME ImportInv, NEW i \in Imports, ReplayImport(i)
    PROVE  ImportInv'
<1>1. /\ pc[i] = "planned" /\ pc' = [pc EXCEPT ![i] = "replayed"] /\ UNCHANGED rowVars /\ data' = data /\ evidence' = evidence
      /\ plan' = plan /\ todo' = todo /\ seen' = seen /\ outcome' = outcome /\ held' = held
  BY DEF ReplayImport, Goto
<1>2. ImportShape(evidence, pc, plan, todo, seen, outcome, held)
  BY ShapeNow
<1>3. ImportShape(evidence', pc', plan', todo', seen', outcome', held') /\ pc'[i] = "replayed"
  BY <1>1, <1>2 DEF ImportShape, Steps
<1>4. OthersWait({i})
  BY <1>1, <1>2 DEF OthersWait, ImportShape
<1>5. HeldGrows /\ RowInv' /\ RowsGrow(row, row') /\ row' = row
  BY <1>1, NothingObserved, RowsStill
<1>6. ImportSound(row, data[i], evidence[Fingerprint(i)], pc[i], plan[i], todo[i], seen[i], held[i])
  BY OwnNow DEF ImportNow
<1>7. ImportSound(row, data[i], evidence[Fingerprint(i)], "replayed", plan[i], todo[i], seen[i], held[i])
  BY <1>6 DEF ImportSound, Steps, Claimed, Working, Running
<1>8. outcome[i] = <<>>
  BY <1>1, OwnNow DEF Claimed, Working
<1>9. OwnSound({i})
  BY <1>1, <1>3, <1>5, <1>7, <1>8 DEF OwnSound, Claimed, Working
<1>10. QED
  BY <1>1, <1>3, <1>4, <1>5, <1>9, StepKeeps

LEMMA CrashKeeps ==
    ASSUME ImportInv, NEW i \in Imports, CrashImport(i)
    PROVE  ImportInv'
<1>1. /\ pc[i] \in Working /\ pc' = [pc EXCEPT ![i] = "crashed"] /\ UNCHANGED rowVars /\ data' = data /\ evidence' = evidence
      /\ plan' = plan /\ todo' = todo /\ seen' = seen /\ outcome' = outcome /\ held' = held
  BY DEF CrashImport, Goto, Working
<1>2. ImportShape(evidence, pc, plan, todo, seen, outcome, held)
  BY ShapeNow
<1>3. ImportShape(evidence', pc', plan', todo', seen', outcome', held') /\ pc'[i] = "crashed"
  BY <1>1, <1>2 DEF ImportShape, Steps
<1>4. OthersWait({i})
  BY <1>1, <1>2 DEF OthersWait, ImportShape
<1>5. HeldGrows /\ RowInv' /\ RowsGrow(row, row') /\ row' = row
  BY <1>1, NothingObserved, RowsStill
<1>6. ImportSound(row, data[i], evidence[Fingerprint(i)], pc[i], plan[i], todo[i], seen[i], held[i])
  BY OwnNow DEF ImportNow
<1>7. ImportSound(row, data[i], evidence[Fingerprint(i)], "crashed", plan[i], todo[i], seen[i], held[i])
  BY <1>1, <1>6 DEF ImportSound, Steps, Claimed, Working, Running
<1>8. OwnSound({i})
  BY <1>1, <1>3, <1>5, <1>7 DEF OwnSound, Claimed
<1>9. QED
  BY <1>1, <1>3, <1>4, <1>5, <1>8, StepKeeps

LEMMA BuildKeeps ==
    ASSUME ImportInv, NEW i \in Imports, BuildImportPlan(i)
    PROVE  ImportInv'
<1>1. /\ pc[i] = "idle" /\ pc' = [pc EXCEPT ![i] = "planned"] /\ UNCHANGED rowVars /\ data' = data /\ evidence' = evidence
      /\ todo' = todo /\ seen' = seen /\ outcome' = outcome /\ Observe
  BY DEF BuildImportPlan, Goto
<1>2. PICK planned : planned = [k \in DOMAIN data[i] |-> PlanRow(k, data[i][k], data[i])]
  OBVIOUS
<1>3. plan' = [plan EXCEPT ![i] = planned]
  BY <1>2 DEF BuildImportPlan
<1>4. ImportShape(evidence, pc, plan, todo, seen, outcome, held)
  BY ShapeNow
<1>5. /\ HeldGrows /\ DOMAIN held' = Imports
      /\ \A j \in Imports : pc'[j] \in Running =>
            \A k \in DOMAIN data[j] : AsRequested(k, row'[k], data[j][k]) => k \in held'[j]
  BY <1>1, Observed
<1>6. ImportShape(evidence', pc', plan', todo', seen', outcome', held') /\ pc'[i] = "planned" /\ plan'[i] = planned
  BY <1>1, <1>3, <1>4, <1>5 DEF ImportShape, Steps
<1>7. OthersWait({i})
  BY <1>1, <1>3, <1>4 DEF OthersWait, ImportShape
<1>8. RowInv' /\ RowsGrow(row, row') /\ row' = row
  BY <1>1, RowsStill
<1>9. ImportSound(row, data[i], evidence[Fingerprint(i)], pc[i], plan[i], todo[i], seen[i], held[i])
  BY OwnNow DEF ImportNow
<1>10. \A k \in DOMAIN data[i] : PlanHolds(row, k, data[i][k], planned[k]) /\ (planned[k].op = "UNCHANGED" => k \in held'[i])
  <2> SUFFICES ASSUME NEW k \in DOMAIN data[i]
               PROVE  PlanHolds(row, k, data[i][k], planned[k]) /\ (planned[k].op = "UNCHANGED" => k \in held'[i])
    OBVIOUS
  <2>1. RowInv /\ k \in Keys /\ data[i][k] \in Requests
    BY OwnNow
  <2>2. PlanFits(k, data[i][k], planned[k])
    BY <1>2, <2>1, PlanRowFits
  <2>3. PlanHolds(row, k, data[i][k], planned[k])
    BY <2>1, <2>2, PlanMade
  <2>4. planned[k].op = "UNCHANGED" => AsRequested(k, row[k], data[i][k])
    BY <2>2, PlanUnchanged
  <2>5. "planned" \in Running
    BY DEF Running
  <2>6. QED
    BY <1>5, <1>6, <1>8, <2>3, <2>4, <2>5
<1>11. DOMAIN planned = DOMAIN data[i] /\ held'[i] \subseteq DOMAIN data[i]
  BY <1>2, <1>5 DEF HeldGrows
<1>12. ImportSound(row, data[i], evidence[Fingerprint(i)], "planned", planned, todo[i], seen[i], held'[i])
  BY <1>9, <1>10, <1>11 DEF ImportSound, Steps, Claimed, Working, Running
<1>13. outcome[i] = <<>>
  BY <1>1, OwnNow DEF Claimed, Working
<1>14. OwnSound({i})
  BY <1>1, <1>6, <1>8, <1>12, <1>13 DEF OwnSound, Claimed, Working
<1>15. QED
  BY <1>1, <1>5, <1>6, <1>7, <1>8, <1>14, StepKeeps

\* The evidence row names its dataset: other requests for it have not claimed it.
LEMMA FirstToClaim ==
    ASSUME ImportInv, NEW i \in Imports, Unclaimed(i)
    PROVE  \A j \in Imports : data[j] = data[i] => pc[j] \notin Claimed /\ Fingerprint(j) = Fingerprint(i)
<1> SUFFICES ASSUME NEW j \in Imports, data[j] = data[i]
             PROVE  pc[j] \notin Claimed /\ Fingerprint(j) = Fingerprint(i)
  OBVIOUS
<1>1. Fingerprint(j) = Fingerprint(i)
  BY DEF Fingerprint
<1>2. evidence[Fingerprint(j)] = "none"
  BY <1>1 DEF Unclaimed
<1>3. ImportSound(row, data[j], evidence[Fingerprint(j)], pc[j], plan[j], todo[j], seen[j], held[j])
  BY OwnNow DEF ImportNow
<1>4. pc[j] \notin Claimed
  BY <1>2, <1>3 DEF ImportSound
<1>5. QED
  BY <1>1, <1>4

\* Claiming, for both ways to end it.
LEMMA ClaimKeeps ==
    ASSUME ImportInv, NEW i \in Imports, NEW status \in {"IN_PROGRESS", "FAILED"}, NEW step \in {"next", "done"},
           Claim(i, status, step), step = "next" => status = "IN_PROGRESS" /\ Blockers(i) = {}, step = "done" => status = "FAILED"
    PROVE  ImportInv'
<1>1. /\ pc[i] = "planned" /\ pc' = [pc EXCEPT ![i] = step] /\ UNCHANGED rowVars /\ data' = data
      /\ evidence' = [evidence EXCEPT ![Fingerprint(i)] = status] /\ todo' = [todo EXCEPT ![i] = DependencyOrderedRows(data[i])]
      /\ plan' = plan /\ seen' = seen /\ Observe /\ Unclaimed(i)
  BY DEF Claim, Goto
<1>2. PICK o : outcome' = [outcome EXCEPT ![i] = o]
  BY DEF Claim
<1>3. PICK rest : rest = DependencyOrderedRows(data[i])
  OBVIOUS
<1>4. ImportShape(evidence, pc, plan, todo, seen, outcome, held)
  BY ShapeNow
<1>5. HeldGrows /\ DOMAIN held' = Imports
  BY <1>1, Observed
<1>6. status \in Terminal \cup {"IN_PROGRESS"} /\ step \in Steps /\ Fingerprint(i) \in Imports
  BY FingerprintTells DEF Terminal, Steps
<1>7. /\ ImportShape(evidence', pc', plan', todo', seen', outcome', held')
      /\ pc'[i] = step /\ todo'[i] = rest /\ evidence'[Fingerprint(i)] = status
  BY <1>1, <1>2, <1>3, <1>4, <1>5, <1>6 DEF ImportShape
<1>8. OthersWait({i})
  <2> SUFFICES ASSUME NEW j \in Imports \ {i}
               PROVE  /\ pc'[j] = pc[j] /\ plan'[j] = plan[j] /\ todo'[j] = todo[j]
                      /\ seen'[j] = seen[j] /\ outcome'[j] = outcome[j]
                      /\ \/ evidence'[Fingerprint(j)] = evidence[Fingerprint(j)]
                         \/ evidence'[Fingerprint(j)] \in Terminal \cup {"IN_PROGRESS"} /\ pc[j] # "done"
    BY DEF OthersWait
  <2>1. /\ pc'[j] = pc[j] /\ plan'[j] = plan[j] /\ todo'[j] = todo[j]
        /\ seen'[j] = seen[j] /\ outcome'[j] = outcome[j]
    BY <1>1, <1>2, <1>4 DEF ImportShape
  <2>2. CASE Fingerprint(j) = Fingerprint(i)
    <3>1. data[j] = data[i]
      BY <2>2, FingerprintTells
    <3>2. pc[j] # "done"
      BY <1>1, <3>1, FirstToClaim DEF Claimed
    <3>3. QED
      BY <1>6, <1>7, <2>1, <2>2, <3>2
  <2>3. CASE Fingerprint(j) # Fingerprint(i)
    <3>1. Fingerprint(j) \in Imports
      BY FingerprintTells
    <3>2. evidence'[Fingerprint(j)] = evidence[Fingerprint(j)]
      BY <1>1, <1>4, <2>3, <3>1 DEF ImportShape
    <3>3. QED
      BY <2>1, <3>2
  <2>4. QED
    BY <2>2, <2>3
<1>9. RowInv' /\ RowsGrow(row, row') /\ row' = row
  BY <1>1, RowsStill
<1>10. held'[i] \subseteq DOMAIN data[i] /\ held[i] \subseteq held'[i] /\ DOMAIN data[i] \subseteq Keys
  BY <1>5, OwnNow DEF HeldGrows
<1>11. ImportSound(row, data[i], evidence[Fingerprint(i)], "planned", plan[i], todo[i], seen[i], held[i])
  BY <1>1, OwnNow DEF ImportNow
<1>12. ImportSound(row, data[i], evidence[Fingerprint(i)], "planned", plan[i], todo[i], seen[i], held'[i])
  BY <1>9, <1>10, <1>11, SoundKept
<1>13. rest \in Seq(DOMAIN data[i]) /\ Range(rest) = DOMAIN data[i]
  BY <1>3, <1>10, OrderedRows
<1>14. ImportSound(row, data[i], status, step, plan[i], rest, seen[i], held'[i])
  <2>1. CASE step = "next"
    <3>1. \A k \in DOMAIN data[i] : ~plan[i][k].blocked
      BY <1>12, <2>1 DEF Blockers, ImportSound, Running
    <3>2. QED
      BY <1>6, <1>12, <1>13, <2>1, <3>1 DEF ImportSound, Steps, Claimed, Working, Running
  <2>2. CASE step = "done"
    BY <1>6, <1>12, <1>13, <2>2 DEF ImportSound, Steps, Claimed, Working, Running
  <2>3. QED
    BY <2>1, <2>2
<1>15. step \in Claimed /\ \A j \in Imports \ {i} : data[j] = data[i] => pc[j] \notin Claimed
  BY <1>1, FirstToClaim DEF Claimed, Working
<1>16. plan'[i] = plan[i] /\ seen'[i] = seen[i]
  BY <1>1
<1>17. OwnSound({i})
  BY <1>7, <1>9, <1>14, <1>15, <1>16 DEF OwnSound
<1>18. QED
  BY <1>1, <1>5, <1>7, <1>8, <1>9, <1>17, StepKeeps

\* Taking a row off the list.
LEMMA TailKept ==
    ASSUME NEW S, NEW q \in Seq(S), q # <<>>
    PROVE  Head(q) \in S /\ Tail(q) \in Seq(S) /\ \A x \in Range(q) : x = Head(q) \/ x \in Range(Tail(q))
<1>1. Head(q) \in S /\ Tail(q) \in Seq(S) /\ Len(q) \in Nat \ {0} /\ Len(Tail(q)) = Len(q) - 1
  OBVIOUS
<1>2. ASSUME NEW x \in Range(q) PROVE x = Head(q) \/ x \in Range(Tail(q))
  <2>1. PICK n \in 1 .. Len(q) : q[n] = x
    BY DEF Range
  <2>2. CASE n = 1
    BY <2>1, <2>2
  <2>3. CASE n # 1
    <3>1. n - 1 \in 1 .. Len(Tail(q)) /\ Tail(q)[n - 1] = q[n]
      BY <1>1, <2>1, <2>3
    <3>2. n - 1 \in DOMAIN Tail(q)
      BY <1>1, <3>1
    <3>3. QED
      BY <2>1, <3>1, <3>2 DEF Range
  <2>4. QED
    BY <2>2, <2>3
<1>3. QED
  BY <1>1, <1>2

\* A reported row: what held stays, and the row reported is held.
LEMMA ReportedSound ==
    ASSUME NEW rows, NEW d, NEW result, NEW step \in {"next", "begun"}, NEW planned, NEW rest, NEW now, NEW h,
           ImportSound(rows, d, result, step, planned, rest, now, h), rest # <<>>, Head(rest) \in h
    PROVE  ImportSound(rows, d, result, "next", planned, Tail(rest), now, h)
<1>1. rest \in Seq(DOMAIN d) /\ DOMAIN d \subseteq h \cup Range(rest)
  BY DEF ImportSound, Working
<1>2. Tail(rest) \in Seq(DOMAIN d) /\ \A x \in Range(rest) : x = Head(rest) \/ x \in Range(Tail(rest))
  BY <1>1, TailKept
<1>3. DOMAIN d \subseteq h \cup Range(Tail(rest))
  BY <1>1, <1>2
<1>4. step \in Claimed /\ step \in Running /\ step \in Working /\ "next" \in Steps /\ "next" # "begun" /\ "next" # "done"
  BY DEF Claimed, Running, Working, Steps
<1>5. /\ result \in Terminal \cup {"none", "IN_PROGRESS"} /\ h \subseteq DOMAIN d /\ result # "none"
      /\ DOMAIN planned = DOMAIN d
      /\ \A k \in DOMAIN d : /\ PlanHolds(rows, k, d[k], planned[k])
                             /\ planned[k].op = "UNCHANGED" => k \in h
      /\ \A k \in DOMAIN d : ~planned[k].blocked
  BY <1>4 DEF ImportSound
<1>6. QED
  BY <1>2, <1>3, <1>4, <1>5 DEF ImportSound

LEMMA SkipKeeps ==
    ASSUME ImportInv, NEW i \in Imports, SkipRow(i)
    PROVE  ImportInv'
<1>1. /\ pc[i] = "next" /\ pc' = [pc EXCEPT ![i] = "next"] /\ UNCHANGED rowVars /\ data' = data /\ evidence' = evidence
      /\ todo[i] # <<>> /\ todo' = [todo EXCEPT ![i] = Tail(todo[i])] /\ plan' = plan /\ seen' = seen /\ Observe
      /\ plan[i][Row(i)].op = "UNCHANGED"
  BY DEF SkipRow, Reported, Goto
<1>2. PICK o : outcome' = [outcome EXCEPT ![i] = o]
  BY DEF SkipRow, Reported
<1>3. ImportShape(evidence, pc, plan, todo, seen, outcome, held)
  BY ShapeNow
<1>4. HeldGrows /\ DOMAIN held' = Imports
  BY <1>1, Observed
<1>5. ImportShape(evidence', pc', plan', todo', seen', outcome', held') /\ pc'[i] = "next" /\ todo'[i] = Tail(todo[i])
  BY <1>1, <1>2, <1>3, <1>4 DEF ImportShape, Steps
<1>6. OthersWait({i})
  BY <1>1, <1>2, <1>3 DEF OthersWait, ImportShape
<1>7. RowInv' /\ RowsGrow(row, row') /\ row' = row
  BY <1>1, RowsStill
<1>8. held'[i] \subseteq DOMAIN data[i] /\ held[i] \subseteq held'[i] /\ DOMAIN data[i] \subseteq Keys
  BY <1>4, OwnNow DEF HeldGrows
<1>9. ImportSound(row, data[i], evidence[Fingerprint(i)], "next", plan[i], todo[i], seen[i], held[i])
  BY <1>1, OwnNow DEF ImportNow
<1>10. ImportSound(row, data[i], evidence[Fingerprint(i)], "next", plan[i], todo[i], seen[i], held'[i])
  BY <1>7, <1>8, <1>9, SoundKept
<1>11. Head(todo[i]) \in held'[i]
  <2>1. todo[i] \in Seq(DOMAIN data[i])
    BY <1>9 DEF ImportSound
  <2>2. Head(todo[i]) \in DOMAIN data[i]
    BY <1>1, <2>1
  <2>3. QED
    BY <1>1, <1>10, <2>2 DEF ImportSound, Running, Row
<1>12. ImportSound(row, data[i], evidence[Fingerprint(i)], "next", plan[i], Tail(todo[i]), seen[i], held'[i])
  BY <1>1, <1>10, <1>11, ReportedSound
<1>13. "next" \in Claimed
  BY DEF Claimed, Working
<1>14. OwnSound({i})
  BY <1>1, <1>5, <1>7, <1>12, <1>13 DEF OwnSound
<1>15. QED
  BY <1>1, <1>4, <1>5, <1>6, <1>7, <1>14, StepKeeps

\* Deciding on a row.
LEMMA DecidedSound ==
    ASSUME NEW rows, NEW d, NEW result, NEW planned, NEW rest, NEW old, NEW now, NEW h, NEW step \in {"begun", "failed"},
           ImportSound(rows, d, result, "next", planned, rest, old, h), rest # <<>>,
           PlanHolds(rows, Head(rest), d[Head(rest)], now), now.op = "UNCHANGED" => Head(rest) \in h,
           Kind[Head(rest)] \notin PlansAgain => now.op # "UNCHANGED" /\ ~now.blocked
    PROVE  ImportSound(rows, d, result, step, planned, rest, now, h)
<1>1. step \in Claimed /\ step \in Running /\ step \in Working /\ step \in Steps /\ step # "done"
  BY DEF Claimed, Running, Working, Steps
<1>2. "next" \in Claimed /\ "next" \in Running /\ "next" \in Working
  BY DEF Claimed, Running, Working
<1>3. QED
  BY <1>1, <1>2 DEF ImportSound

LEMMA RowToWriteNow ==
    ASSUME ImportInv, NEW i \in Imports, RowToWrite(i)
    PROVE  /\ pc[i] = "next" /\ todo[i] # <<>> /\ Row(i) \in DOMAIN data[i] /\ Row(i) \in Keys /\ Request(i) \in Requests
           /\ plan[i][Row(i)].op # "UNCHANGED" /\ ~plan[i][Row(i)].blocked /\ PlanHolds(row, Row(i), Request(i), plan[i][Row(i)])
<1>1. pc[i] = "next" /\ todo[i] # <<>> /\ plan[i][Row(i)].op # "UNCHANGED"
  BY DEF RowToWrite
<1>2. ImportSound(row, data[i], evidence[Fingerprint(i)], "next", plan[i], todo[i], seen[i], held[i])
  BY <1>1, OwnNow DEF ImportNow
<1>3. todo[i] \in Seq(DOMAIN data[i])
  BY <1>2 DEF ImportSound
<1>4. Row(i) \in DOMAIN data[i]
  BY <1>1, <1>3 DEF Row
<1>5. /\ \A k \in DOMAIN data[i] : PlanHolds(row, k, data[i][k], plan[i][k])
      /\ \A k \in DOMAIN data[i] : ~plan[i][k].blocked
  BY <1>2 DEF ImportSound, Running, Working
<1>6. Row(i) \in Keys /\ Request(i) \in Requests
  BY <1>4, OwnNow DEF Request
<1>7. QED
  BY <1>1, <1>4, <1>5, <1>6 DEF Request

LEMMA DecideKeeps ==
    ASSUME ImportInv, NEW i \in Imports, NEW p, NEW step \in {"begun", "failed"}, RowToWrite(i),
           seen' = [seen EXCEPT ![i] = p], pc' = [pc EXCEPT ![i] = step],
           UNCHANGED <<rowVars, data, evidence, plan, todo, outcome, crashes>>, Observe,
           PlanHolds(row, Row(i), Request(i), p), p.op = "UNCHANGED" => AsRequested(Row(i), row[Row(i)], Request(i)),
           Kind[Row(i)] \notin PlansAgain => p.op # "UNCHANGED" /\ ~p.blocked
    PROVE  ImportInv'
<1>1. UNCHANGED rowVars /\ data' = data /\ evidence' = evidence /\ plan' = plan /\ todo' = todo /\ outcome' = outcome
  OBVIOUS
<1>2. pc[i] = "next" /\ todo[i] # <<>> /\ Row(i) \in DOMAIN data[i]
  BY RowToWriteNow
<1>3. ImportShape(evidence, pc, plan, todo, seen, outcome, held)
  BY ShapeNow
<1>4. /\ HeldGrows /\ DOMAIN held' = Imports
      /\ \A j \in Imports : pc'[j] \in Running =>
            \A k \in DOMAIN data[j] : AsRequested(k, row'[k], data[j][k]) => k \in held'[j]
  BY <1>1, Observed
<1>5. step \in Steps /\ step \in Running /\ step \in Claimed
  BY DEF Steps, Running, Claimed, Working
<1>6. ImportShape(evidence', pc', plan', todo', seen', outcome', held') /\ pc'[i] = step /\ seen'[i] = p
  BY <1>1, <1>3, <1>4, <1>5 DEF ImportShape
<1>7. OthersWait({i})
  BY <1>1, <1>3 DEF OthersWait, ImportShape
<1>8. RowInv' /\ RowsGrow(row, row') /\ row' = row
  BY <1>1, RowsStill
<1>9. held'[i] \subseteq DOMAIN data[i] /\ held[i] \subseteq held'[i] /\ DOMAIN data[i] \subseteq Keys
  BY <1>4, OwnNow DEF HeldGrows
<1>10. ImportSound(row, data[i], evidence[Fingerprint(i)], "next", plan[i], todo[i], seen[i], held[i])
  BY <1>2, OwnNow DEF ImportNow
<1>11. ImportSound(row, data[i], evidence[Fingerprint(i)], "next", plan[i], todo[i], seen[i], held'[i])
  BY <1>8, <1>9, <1>10, SoundKept
<1>12. p.op = "UNCHANGED" => Row(i) \in held'[i]
  BY <1>2, <1>4, <1>5, <1>6, <1>8 DEF Request
<1>13. ImportSound(row, data[i], evidence[Fingerprint(i)], step, plan[i], todo[i], p, held'[i])
  BY <1>2, <1>11, <1>12, DecidedSound DEF Row, Request
<1>14. OwnSound({i})
  BY <1>1, <1>2, <1>5, <1>6, <1>8, <1>13 DEF OwnSound, Claimed, Working
<1>15. QED
  BY <1>1, <1>4, <1>6, <1>7, <1>8, <1>14, StepKeeps

LEMMA BeginKeeps ==
    ASSUME ImportInv, NEW i \in Imports, BeginRow(i)
    PROVE  ImportInv'
<1>1. PICK p : p = PlanRow(Row(i), Request(i), <<>>)
  OBVIOUS
<1>2. PICK step \in {"begun", "failed"} : step = IF p.blocked THEN "failed" ELSE "begun"
  OBVIOUS
<1>3. /\ RowToWrite(i) /\ Kind[Row(i)] \in PlansAgain /\ seen' = [seen EXCEPT ![i] = p]
      /\ pc' = [pc EXCEPT ![i] = step] /\ UNCHANGED <<rowVars, data, evidence, plan, todo, outcome, crashes>> /\ Observe
  BY <1>1, <1>2 DEF BeginRow, Goto
<1>4. RowInv /\ Row(i) \in Keys /\ Request(i) \in Requests
  BY <1>3, RowToWriteNow, OwnNow
<1>5. PlanFits(Row(i), Request(i), p)
  BY <1>1, <1>4, PlanRowFits
<1>6. PlanHolds(row, Row(i), Request(i), p) /\ (p.op = "UNCHANGED" => AsRequested(Row(i), row[Row(i)], Request(i)))
  BY <1>4, <1>5, PlanMade, PlanUnchanged
<1>7. QED
  BY <1>3, <1>6, DecideKeeps

LEMMA UseKeeps ==
    ASSUME ImportInv, NEW i \in Imports, UseThePlan(i)
    PROVE  ImportInv'
<1>1. PICK p : p = plan[i][Row(i)]
  OBVIOUS
<1>2. /\ RowToWrite(i) /\ seen' = [seen EXCEPT ![i] = p]
      /\ pc' = [pc EXCEPT ![i] = "begun"] /\ UNCHANGED <<rowVars, data, evidence, plan, todo, outcome, crashes>> /\ Observe
  BY <1>1 DEF UseThePlan, Goto
<1>3. p.op # "UNCHANGED" /\ ~p.blocked /\ PlanHolds(row, Row(i), Request(i), p)
  BY <1>1, <1>2, RowToWriteNow
<1>4. PICK step \in {"begun", "failed"} : step = "begun"
  OBVIOUS
<1>5. QED
  BY <1>2, <1>3, <1>4, DecideKeeps

\* What an application finds: a row, what was decided of it, and what its authority may do.
LEMMA ApplyNow ==
    ASSUME ImportInv, NEW i \in Imports, pc[i] = "begun"
    PROVE  /\ todo[i] # <<>> /\ Row(i) \in DOMAIN data[i] /\ Row(i) \in Keys /\ Request(i) \in Requests
           /\ seen[i].op = "UNCHANGED" => Row(i) \in held[i]
           /\ Fits(Row(i), Request(i), seen[i], ProvisionRow(Row(i), Request(i), seen[i]))
<1>1. ImportSound(row, data[i], evidence[Fingerprint(i)], "begun", plan[i], todo[i], seen[i], held[i])
  BY OwnNow DEF ImportNow
<1>2. /\ todo[i] \in Seq(DOMAIN data[i]) /\ todo[i] # <<>> /\ PlanHolds(row, Head(todo[i]), data[i][Head(todo[i])], seen[i])
      /\ seen[i].op = "UNCHANGED" => Head(todo[i]) \in held[i]
      /\ Kind[Head(todo[i])] \notin PlansAgain => seen[i].op # "UNCHANGED" /\ ~seen[i].blocked
  BY <1>1 DEF ImportSound
<1>3. PICK k : k = Row(i)
  OBVIOUS
<1>4. PICK r : r = Request(i)
  OBVIOUS
<1>5. k = Head(todo[i]) /\ k \in DOMAIN data[i] /\ r = data[i][k]
  BY <1>2, <1>3, <1>4 DEF Row, Request
<1>6. RowInv /\ k \in Keys /\ r \in Requests /\ (Kind[k] = "suppliers" => r.ref = None)
  BY <1>5, OwnNow
<1>7. PlanHolds(row, k, r, seen[i]) /\ (Kind[k] \notin PlansAgain => seen[i].op # "UNCHANGED" /\ ~seen[i].blocked)
  BY <1>2, <1>5
<1>8. Fits(k, r, seen[i], ProvisionRow(k, r, seen[i]))
  BY <1>6, <1>7, ProvisionRowFits
<1>9. QED
  BY <1>2, <1>3, <1>4, <1>5, <1>6, <1>8

LEMMA ApplyKeeps ==
    ASSUME ImportInv, NEW i \in Imports, ApplyRow(i)
    PROVE  ImportInv'
<1>1. PICK k : k = Row(i)
  OBVIOUS
<1>2. PICK r : r = Request(i)
  OBVIOUS
<1>3. PICK done : done = ProvisionRow(k, r, seen[i])
  OBVIOUS
<1>4. /\ pc[i] = "begun" /\ hidden' = hidden /\ site' = site /\ data' = data /\ evidence' = evidence
      /\ plan' = plan /\ seen' = seen /\ Observe
  BY DEF ApplyRow
<1>5. \/ /\ done.op = "CONFLICT" /\ pc' = [pc EXCEPT ![i] = "failed"]
         /\ row' = row /\ todo' = todo /\ outcome' = outcome
      \/ /\ done.op # "CONFLICT" /\ Reported(i, done.op) /\ row' = [row EXCEPT ![k] = done.new]
  BY <1>1, <1>2, <1>3, Zenon DEF ApplyRow, Goto
<1>6. /\ todo[i] # <<>> /\ k \in DOMAIN data[i] /\ k \in Keys /\ r \in Requests
      /\ seen[i].op = "UNCHANGED" => k \in held[i]
      /\ Fits(k, r, seen[i], done)
  BY <1>1, <1>2, <1>3, <1>4, ApplyNow
<1>7. ImportShape(evidence, pc, plan, todo, seen, outcome, held)
  BY ShapeNow
<1>8. /\ HeldGrows /\ DOMAIN held' = Imports
      /\ \A j \in Imports : pc'[j] \in Running =>
            \A q \in DOMAIN data[j] : AsRequested(q, row'[q], data[j][q]) => q \in held'[j]
  BY <1>4, Observed
<1>9. RowInv /\ row \in [Keys -> Rows] /\ hidden' \subseteq Keys /\ site' \in {"ACTIVE", "INACTIVE"}
  BY <1>4, OwnNow DEF RowInv
<1>10. k = Head(todo[i]) /\ r = data[i][k]
  BY <1>1, <1>2 DEF Row, Request
<1>11. held'[i] \subseteq DOMAIN data[i] /\ held[i] \subseteq held'[i] /\ DOMAIN data[i] \subseteq Keys
  BY <1>8, OwnNow DEF HeldGrows
<1>12. ImportSound(row, data[i], evidence[Fingerprint(i)], "begun", plan[i], todo[i], seen[i], held[i])
  BY <1>4, OwnNow DEF ImportNow
<1>13. "failed" \in Claimed /\ "next" \in Claimed /\ "begun" \in Claimed /\ "next" \in Running
  BY DEF Claimed, Working, Running
<1>14. CASE /\ done.op = "CONFLICT" /\ pc' = [pc EXCEPT ![i] = "failed"]
            /\ row' = row /\ todo' = todo /\ outcome' = outcome
  <2>1. RowInv' /\ RowsGrow(row, row')
    BY <1>9, <1>14, RowInvSame, RowsKept
  <2>2. ImportShape(evidence', pc', plan', todo', seen', outcome', held') /\ pc'[i] = "failed"
    BY <1>4, <1>7, <1>8, <1>14 DEF ImportShape, Steps
  <2>3. OthersWait({i})
    BY <1>4, <1>7, <1>14 DEF OthersWait, ImportShape
  <2>4. ImportSound(row', data[i], evidence[Fingerprint(i)], "begun", plan[i], todo[i], seen[i], held'[i])
    BY <1>11, <1>12, <2>1, SoundKept
  <2>5. ImportSound(row', data[i], evidence[Fingerprint(i)], "failed", plan[i], todo[i], seen[i], held'[i])
    BY <2>4 DEF ImportSound, Steps, Claimed, Working, Running
  <2>6. OwnSound({i})
    BY <1>4, <1>13, <1>14, <2>2, <2>5 DEF OwnSound
  <2>7. QED
    BY <1>4, <1>8, <2>1, <2>2, <2>3, <2>6, StepKeeps
<1>15. CASE done.op # "CONFLICT" /\ Reported(i, done.op) /\ row' = [row EXCEPT ![k] = done.new]
  <2>1. PICK o : outcome' = [outcome EXCEPT ![i] = o]
    BY <1>15 DEF Reported
  <2>2. todo' = [todo EXCEPT ![i] = Tail(todo[i])] /\ pc' = [pc EXCEPT ![i] = "next"]
    BY <1>15 DEF Reported, Goto
  <2>3. ImportShape(evidence', pc', plan', todo', seen', outcome', held') /\ pc'[i] = "next" /\ todo'[i] = Tail(todo[i])
    BY <1>4, <1>7, <1>8, <2>1, <2>2 DEF ImportShape, Steps
  <2>4. OthersWait({i})
    BY <1>4, <1>7, <2>1, <2>2 DEF OthersWait, ImportShape
  <2>5. row'[k] = done.new
    BY <1>6, <1>9, <1>15
  <2>6. RowInv' /\ RowsGrow(row, row') /\ (AsRequested(k, row'[k], r) \/ seen[i].op = "UNCHANGED")
    <3>1. CASE done.new = row[k] /\ (AsRequested(k, row[k], r) \/ seen[i].op = "UNCHANGED")
      <4>1. row' = row
        BY <1>9, <1>15, <3>1
      <4>2. RowInv' /\ RowsGrow(row, row')
        BY <1>9, <4>1, RowInvSame, RowsKept
      <4>3. QED
        BY <2>5, <3>1, <4>2
    <3>2. CASE MayWrite(k, done.new) /\ AsRequested(k, done.new, r)
      <4>1. RowInv' /\ RowsGrow(row, row')
        BY <1>6, <1>9, <1>15, <3>2, RowWritten
      <4>2. QED
        BY <2>5, <3>2, <4>1
    <3>3. QED
      BY <1>6, <1>15, <3>1, <3>2 DEF Fits
  <2>7. k \in held'[i]
    BY <1>6, <1>8, <1>10, <1>11, <1>13, <2>3, <2>6
  <2>8. ImportSound(row', data[i], evidence[Fingerprint(i)], "begun", plan[i], todo[i], seen[i], held'[i])
    BY <1>11, <1>12, <2>6, SoundKept
  <2>9. ImportSound(row', data[i], evidence[Fingerprint(i)], "next", plan[i], Tail(todo[i]), seen[i], held'[i])
    BY <1>6, <1>10, <2>7, <2>8, ReportedSound
  <2>10. OwnSound({i})
    BY <1>4, <1>13, <2>3, <2>9 DEF OwnSound
  <2>11. QED
    BY <1>4, <1>8, <2>3, <2>4, <2>6, <2>10, StepKeeps
<1>16. QED
  BY <1>5, <1>14, <1>15

LEMMA FinishKeeps ==
    ASSUME ImportInv, NEW i \in Imports, FinishImport(i)
    PROVE  ImportInv'
<1>1. PICK result : result = Result(i)
  OBVIOUS
<1>2. /\ pc[i] = "failed" \/ (pc[i] = "next" /\ todo[i] = <<>>)
      /\ evidence' = [evidence EXCEPT ![Fingerprint(i)] = result] /\ pc' = [pc EXCEPT ![i] = "done"]
      /\ UNCHANGED rowVars /\ data' = data /\ plan' = plan /\ todo' = todo /\ seen' = seen /\ outcome' = outcome
      /\ held' = held
  BY <1>1 DEF FinishImport, Goto
<1>3. result \in Terminal /\ (result = "SUCCESS" => pc[i] = "next")
  BY <1>1 DEF Result, Terminal
<1>4. ImportShape(evidence, pc, plan, todo, seen, outcome, held)
  BY ShapeNow
<1>5. Fingerprint(i) \in Imports /\ pc[i] \in Claimed
  BY <1>2, FingerprintTells DEF Claimed, Working
<1>6. ImportShape(evidence', pc', plan', todo', seen', outcome', held') /\ pc'[i] = "done" /\ evidence'[Fingerprint(i)] = result
  BY <1>2, <1>3, <1>4, <1>5 DEF ImportShape, Steps
<1>7. OthersWait({i})
  <2> SUFFICES ASSUME NEW j \in Imports \ {i}
               PROVE  /\ pc'[j] = pc[j] /\ plan'[j] = plan[j] /\ todo'[j] = todo[j]
                      /\ seen'[j] = seen[j] /\ outcome'[j] = outcome[j]
                      /\ \/ evidence'[Fingerprint(j)] = evidence[Fingerprint(j)]
                         \/ evidence'[Fingerprint(j)] \in Terminal \cup {"IN_PROGRESS"} /\ pc[j] # "done"
    BY DEF OthersWait
  <2>1. /\ pc'[j] = pc[j] /\ plan'[j] = plan[j] /\ todo'[j] = todo[j]
        /\ seen'[j] = seen[j] /\ outcome'[j] = outcome[j]
    BY <1>2, <1>4 DEF ImportShape
  <2>2. CASE Fingerprint(j) = Fingerprint(i)
    <3>1. data[j] = data[i]
      BY <2>2, FingerprintTells
    <3>2. pc[j] \notin Claimed
      BY <1>5, <3>1, Zenon DEF ImportInv
    <3>3. QED
      BY <1>3, <1>6, <2>1, <2>2, <3>2 DEF Claimed
  <2>3. CASE Fingerprint(j) # Fingerprint(i)
    <3>1. Fingerprint(j) \in Imports
      BY FingerprintTells
    <3>2. evidence'[Fingerprint(j)] = evidence[Fingerprint(j)]
      BY <1>2, <1>4, <2>3, <3>1 DEF ImportShape
    <3>3. QED
      BY <2>1, <3>2
  <2>4. QED
    BY <2>2, <2>3
<1>8. HeldGrows /\ RowInv' /\ RowsGrow(row, row') /\ row' = row
  BY <1>2, NothingObserved, RowsStill
<1>9. ImportSound(row, data[i], evidence[Fingerprint(i)], pc[i], plan[i], todo[i], seen[i], held[i])
  BY OwnNow DEF ImportNow
<1>10. result = "SUCCESS" => held[i] = DOMAIN data[i]
  <2> SUFFICES ASSUME pc[i] = "next", todo[i] = <<>> PROVE held[i] = DOMAIN data[i]
    BY <1>2, <1>3
  <2>1. Range(todo[i]) = {}
    BY DEF Range
  <2>2. DOMAIN data[i] \subseteq held[i] \cup Range(todo[i]) /\ held[i] \subseteq DOMAIN data[i]
    BY <1>9 DEF ImportSound, Working
  <2>3. QED
    BY <2>1, <2>2
<1>11. ImportSound(row, data[i], result, "done", plan[i], todo[i], seen[i], held[i])
  BY <1>3, <1>9, <1>10 DEF ImportSound, Steps, Claimed, Working, Running, Terminal
<1>12. "done" \in Claimed
  BY DEF Claimed
<1>13. plan'[i] = plan[i] /\ todo'[i] = todo[i] /\ seen'[i] = seen[i] /\ held'[i] = held[i]
  BY <1>2
<1>14. OwnSound({i})
  BY <1>5, <1>6, <1>8, <1>11, <1>12, <1>13 DEF OwnSound
<1>15. QED
  BY <1>2, <1>6, <1>7, <1>8, <1>14, StepKeeps

LEMMA EditKeeps ==
    ASSUME ImportInv, EditThroughApi
    PROVE  ImportInv'
<1>1. /\ data' = data /\ evidence' = evidence /\ pc' = pc /\ plan' = plan /\ todo' = todo /\ seen' = seen
      /\ outcome' = outcome /\ Observe
      /\ EditRow \/ \E st \in {"ACTIVE", "INACTIVE"} : SetLocationStatus(st)
  BY DEF EditThroughApi
<1>2. RowInv /\ data \in Workloads
  BY DEF ImportInv
<1>3. RowInv' /\ RowsGrow(row, row')
  <2>1. CASE EditRow
    BY <1>2, <2>1, RowEdited
  <2>2. ASSUME NEW st \in {"ACTIVE", "INACTIVE"}, SetLocationStatus(st) PROVE RowInv' /\ RowsGrow(row, row')
    <3>1. row' = row /\ hidden' = hidden /\ site' = st
      BY <2>2 DEF SetLocationStatus
    <3>2. hidden' \subseteq Keys /\ site' \in {"ACTIVE", "INACTIVE"}
      BY <1>2, <3>1 DEF RowInv
    <3>3. QED
      BY <1>2, <3>1, <3>2, RowInvSame, RowsKept
  <2>3. QED
    BY <1>1, <2>1, <2>2
<1>4. ImportShape(evidence, pc, plan, todo, seen, outcome, held)
  BY ShapeNow
<1>5. HeldGrows /\ DOMAIN held' = Imports
  BY <1>1, Observed
<1>6. ImportShape(evidence', pc', plan', todo', seen', outcome', held')
  BY <1>1, <1>4, <1>5 DEF ImportShape
<1>7. PICK A : A = {}
  OBVIOUS
<1>8. A \in SUBSET Imports /\ (\A i, j \in A : i = j) /\ OwnSound(A)
  BY <1>7 DEF OwnSound
<1>9. OthersWait(A)
  BY <1>1 DEF OthersWait
<1>10. QED
  BY <1>1, <1>3, <1>5, <1>6, <1>8, <1>9, StepKeeps
-----------------------------------------------------------------------------
(* The invariant.                                                          *)

LEMMA ImportStart ==
    ASSUME Init
    PROVE  ImportInv
<1>1. /\ row = [k \in Keys |-> Absent] /\ hidden = {} /\ site = "ACTIVE" /\ data \in Workloads
      /\ evidence = [i \in Imports |-> "none"] /\ pc = [i \in Imports |-> "idle"]
      /\ plan = [i \in Imports |-> <<>>] /\ todo = [i \in Imports |-> <<>>] /\ seen = [i \in Imports |-> NoPlan]
      /\ outcome = [i \in Imports |-> <<>>] /\ held = [i \in Imports |-> {}]
  BY DEF Init
<1>2. \A k \in Keys : row[k] = Absent /\ row[k].ref = None /\ row[k].status = "ABSENT"
  BY <1>1, AbsentRow
<1>3. row \in [Keys -> Rows]
  BY <1>1, AbsentRow
<1>4. Defaults = {}
  BY <1>2, Zenon DEF Defaults, None
<1>5. NoTwoRulesAtOnce
  BY <1>2 DEF NoTwoRulesAtOnce
<1>6. None \notin Keys
  BY DatasetAssumption
<1>7. \A k \in Categories : k \in Keys /\ row[k].ref \notin Categories
  BY <1>2, <1>6 DEF Categories
<1>8. CategoriesAcyclic
  <2> SUFFICES ASSUME NEW k \in Categories PROVE k \notin AncestorsIn(row)[k]
    BY DEF CategoriesAcyclic, Ancestors
  <2>1. PICK S : S = {}
    OBVIOUS
  <2>2. ClosedUpward(row, S) /\ ParentsOf(row, k) \subseteq S
    BY <1>7, <2>1 DEF ClosedUpward, ParentsOf
  <2>3. AncestorsIn(row)[k] \subseteq S
    BY <2>2, AncestorsWithin
  <2>4. QED
    BY <2>1, <2>3
<1>9. RowInv
  <2>1. hidden \subseteq Keys /\ site \in {"ACTIVE", "INACTIVE"}
    BY <1>1
  <2>2. \A j, k \in Defaults : j = k
    BY <1>4
  <2>3. \A k \in Categories : row[k].ref \in Categories => row[row[k].ref] # Absent
    BY <1>7
  <2>4. QED
    BY <1>2, <1>3, <1>5, <1>8, <2>1, <2>2, <2>3 DEF RowInv
<1>10. ASSUME NEW i \in Imports
       PROVE  ImportSound(row, data[i], evidence[Fingerprint(i)], pc[i], plan[i], todo[i], seen[i], held[i])
  <2>1. evidence[Fingerprint(i)] = "none" /\ pc[i] = "idle" /\ todo[i] = <<>> /\ held[i] = {}
    BY <1>1, FingerprintTells
  <2>2. <<>> \in Seq(DOMAIN data[i])
    OBVIOUS
  <2>3. QED
    BY <2>1, <2>2 DEF ImportSound, Steps, Claimed, Working, Running
<1>11. \A i \in Imports : pc[i] \notin Claimed /\ outcome[i] = <<>>
  BY <1>1 DEF Claimed, Working
<1>12. /\ evidence \in [Imports -> Terminal \cup {"none", "IN_PROGRESS"}] /\ pc \in [Imports -> Steps]
       /\ DOMAIN plan = Imports /\ DOMAIN todo = Imports /\ DOMAIN seen = Imports
       /\ DOMAIN outcome = Imports /\ DOMAIN held = Imports
  BY <1>1 DEF Steps
<1>13. QED
  BY <1>1, <1>9, <1>10, <1>11, <1>12, Zenon DEF ImportInv

\* Nothing happens.
LEMMA PauseKeeps ==
    ASSUME ImportInv, UNCHANGED vars
    PROVE  ImportInv'
<1>1. /\ UNCHANGED rowVars /\ data' = data /\ evidence' = evidence /\ pc' = pc /\ plan' = plan /\ todo' = todo
      /\ seen' = seen /\ outcome' = outcome /\ held' = held
  BY DEF vars, importVars
<1>2. RowInv' /\ RowsGrow(row, row')
  BY <1>1, RowsStill
<1>3. ImportShape(evidence', pc', plan', todo', seen', outcome', held')
  BY <1>1, ShapeNow
<1>4. HeldGrows
  BY <1>1, NothingObserved
<1>5. PICK A : A = {}
  OBVIOUS
<1>6. A \in SUBSET Imports /\ (\A i, j \in A : i = j) /\ OwnSound(A) /\ OthersWait(A)
  BY <1>1, <1>5 DEF OwnSound, OthersWait
<1>7. QED
  BY <1>1, <1>2, <1>3, <1>4, <1>6, StepKeeps

LEMMA ImportStays ==
    ASSUME ImportInv, [Next]_vars
    PROVE  ImportInv'
<1>1. ASSUME NEW i \in Imports, ClaimImport(i) PROVE ImportInv'
  <2>1. Blockers(i) = {} /\ Claim(i, "IN_PROGRESS", "next")
    BY <1>1, Zenon DEF ClaimImport
  <2>2. QED
    BY <2>1, ClaimKeeps
<1>2. ASSUME NEW i \in Imports, BlockImport(i) PROVE ImportInv'
  <2>1. Claim(i, "FAILED", "done")
    BY <1>2, Zenon DEF BlockImport
  <2>2. QED
    BY <2>1, ClaimKeeps
<1>3. ASSUME NEW i \in Imports, ImportStep(i) PROVE ImportInv'
  <2>1. \/ RejectImport(i) \/ BuildImportPlan(i) \/ ReplayImport(i) \/ ClaimImport(i)
        \/ BlockImport(i) \/ SkipRow(i) \/ BeginRow(i) \/ UseThePlan(i) \/ ApplyRow(i)
        \/ FinishImport(i)
    BY <1>3, Zenon DEF ImportStep
  <2>2. QED
    BY <1>1, <1>2, <2>1, RejectKeeps, BuildKeeps, ReplayKeeps, SkipKeeps, BeginKeeps, UseKeeps, ApplyKeeps, FinishKeeps, Zenon
<1>4. CASE Next
  <2>1. EditThroughApi \/ \E i \in Imports : ImportStep(i) \/ CrashImport(i)
    BY <1>4, Zenon DEF Next
  <2>2. QED
    BY <1>3, <2>1, CrashKeeps, EditKeeps, Zenon
<1>5. CASE UNCHANGED vars
  BY <1>5, PauseKeeps
<1>6. QED
  BY <1>4, <1>5

LEMMA ImportAlways == Spec => []ImportInv
<1>1. Init => ImportInv
  BY ImportStart
<1>2. ImportInv /\ [Next]_vars => ImportInv'
  BY ImportStays
<1>3. QED
  BY <1>1, <1>2, PTL DEF Spec
\* What the invariant says of the rows and of one request.
LEMMA SoundData ==
    ASSUME ImportInv
    PROVE  ImportedDataIsSound
<1>1. RowInv
  BY DEF ImportInv
<1>2. ASSUME NEW i \in Imports
      PROVE  held[i] \subseteq DOMAIN data[i] /\ Range(todo[i]) \subseteq DOMAIN data[i]
  <2>1. held[i] \subseteq DOMAIN data[i] /\ todo[i] \in Seq(DOMAIN data[i])
    BY OwnNow DEF ImportNow, ImportSound
  <2>2. Range(todo[i]) \subseteq DOMAIN data[i]
    BY <2>1 DEF Range
  <2>3. QED
    BY <2>1, <2>2
<1>3. /\ evidence \in [Imports -> Terminal \cup {"none", "IN_PROGRESS"}]
      /\ pc \in [Imports -> Steps]
  BY DEF ImportInv
<1>4. ImportTypeOK
  BY <1>1, <1>2, <1>3 DEF ImportTypeOK, RowInv
<1>5. OneDefaultWarehouse
  <2>1. CASE Defaults = {}
    BY <2>1, FS_EmptySet DEF OneDefaultWarehouse
  <2>2. CASE Defaults # {}
    <3>1. PICK x : x \in Defaults
      BY <2>2
    <3>2. Defaults = {x}
      BY <1>1, <3>1 DEF RowInv
    <3>3. QED
      BY <3>2, FS_Singleton DEF OneDefaultWarehouse
  <2>3. QED
    BY <2>1, <2>2
<1>6. QED
  BY <1>1, <1>4, <1>5 DEF ImportedDataIsSound, RowInv

(* However many imports run and whatever the API edits meanwhile, the rows   *)
(* keep their types, a location has one default warehouse, no two active tax *)
(* rules or classifications of one owner share an instant and the categories *)
(* stay a tree: the locked decisions of the importer's authorities and of    *)
(* set_category_parent are enough.                                           *)
THEOREM ImportedSound == Spec => []ImportedDataIsSound
<1>1. ImportInv => ImportedDataIsSound
  BY SoundData
<1>2. QED
  BY <1>1, ImportAlways, PTL

(* confirm_import says SUCCESS only when every row of the workbook was as    *)
(* requested at some moment of that request.                                 *)
THEOREM SuccessIsTrue == Spec => []SuccessRowsHeld
<1>1. ImportInv => SuccessRowsHeld
  <2> SUFFICES ASSUME ImportInv, NEW i \in Imports, pc[i] = "done", evidence[Fingerprint(i)] = "SUCCESS"
               PROVE  held[i] = DOMAIN data[i]
    BY DEF SuccessRowsHeld
  <2>1. ImportNow(i)
    BY OwnNow
  <2>2. QED
    BY <2>1 DEF ImportNow, ImportSound
<1>2. QED
  BY <1>1, ImportAlways, PTL

(* A dataset sent any number of times is written by one request: the unique  *)
(* fingerprint of the evidence decides.                                      *)
THEOREM RunsOnce == Spec => []ExecutedOnce
<1>1. ImportInv => ExecutedOnce
  <2> SUFFICES ASSUME ImportInv, NEW i \in Imports, NEW j \in Imports, i # j, data[i] = data[j],
                      outcome[i] # <<>>, outcome[j] # <<>>
               PROVE  FALSE
    BY DEF ExecutedOnce
  <2>1. pc[i] \in Claimed /\ pc[j] \in Claimed
    BY OwnNow
  <2>2. QED
    BY <2>1, Zenon DEF ImportInv
<1>2. QED
  BY <1>1, ImportAlways, PTL

\* Only applying its row takes a request on from there with another row.
LEMMA OnlyApplying ==
    ASSUME ImportInv, Next, NEW i \in Imports, pc[i] = "begun", pc'[i] = "next", row' # row
    PROVE  ApplyRow(i)
<1>1. DOMAIN pc = Imports
  BY DEF ImportInv
<1>2. ~EditThroughApi
  BY DEF EditThroughApi
<1>3. PICK j \in Imports : ImportStep(j) \/ CrashImport(j)
  BY <1>2, Zenon DEF Next
<1>4. ~CrashImport(j)
  BY DEF CrashImport, rowVars
<1>5. ~RejectImport(j) /\ ~BuildImportPlan(j) /\ ~ReplayImport(j)
  BY DEF RejectImport, BuildImportPlan, ReplayImport, rowVars
<1>6. ~ClaimImport(j) /\ ~BlockImport(j)
  BY DEF ClaimImport, BlockImport, Claim, rowVars
<1>7. ~SkipRow(j) /\ ~FinishImport(j)
  BY DEF SkipRow, FinishImport, rowVars
<1>8. ~BeginRow(j) /\ ~UseThePlan(j)
  BY DEF BeginRow, UseThePlan, rowVars
<1>9. ApplyRow(j)
  BY <1>3, <1>4, <1>5, <1>6, <1>7, <1>8, Zenon DEF ImportStep
<1>10. pc' = [pc EXCEPT ![j] = "failed"] \/ pc' = [pc EXCEPT ![j] = "next"]
  BY <1>9, Zenon DEF ApplyRow, Goto, Reported
<1>11. j = i
  BY <1>1, <1>10
<1>12. QED
  BY <1>9, <1>11

LEMMA ApplyLosesNothing ==
    ASSUME ImportInv, NEW i \in Imports, ApplyRow(i), pc'[i] = "next", Kind[Row(i)] \in Careful, row' # row
    PROVE  row[Row(i)] = seen[i].seen
<1>1. PICK k : k = Row(i)
  OBVIOUS
<1>2. PICK done : done = ProvisionRow(k, Request(i), seen[i])
  OBVIOUS
<1>3. pc[i] = "begun"
  BY DEF ApplyRow
<1>4. \/ pc' = [pc EXCEPT ![i] = "failed"]
      \/ row' = [row EXCEPT ![k] = done.new] /\ done.op # "CONFLICT"
  BY <1>1, <1>2, Zenon DEF ApplyRow, Goto
<1>5. row' = [row EXCEPT ![k] = done.new] /\ done.op # "CONFLICT"
  BY <1>4 DEF ImportInv
<1>6. done.new # row[k]
  <2>1. row \in [Keys -> Rows]
    BY OwnNow DEF RowInv
  <2>2. QED
    BY <1>5, <2>1
<1>7. Fits(k, Request(i), seen[i], done)
  BY <1>1, <1>2, <1>3, ApplyNow
<1>8. QED
  BY <1>1, <1>5, <1>6, <1>7 DEF Fits

(* Where an authority plans again or carries the version of its plan, a row  *)
(* written by a provision_ function is overwritten only as it was observed.  *)
THEOREM NoUpdateLost == Spec => NoLostUpdate
<1>1. ASSUME ImportInv, [Next]_vars
      PROVE  [\A i \in Imports :
                (pc[i] = "begun" /\ pc'[i] = "next" /\ Kind[Row(i)] \in Careful /\ row' # row)
                    => row[Row(i)] = seen[i].seen]_vars
  <2>1. CASE UNCHANGED vars
    BY <2>1
  <2>2. CASE Next
    <3> SUFFICES ASSUME NEW i \in Imports, pc[i] = "begun", pc'[i] = "next", Kind[Row(i)] \in Careful, row' # row
                 PROVE  row[Row(i)] = seen[i].seen
      OBVIOUS
    <3>1. ApplyRow(i)
      BY <1>1, <2>2, OnlyApplying
    <3>2. QED
      BY <1>1, <3>1, ApplyLosesNothing
  <2>3. QED
    BY <1>1, <2>1, <2>2
<1>2. QED
  BY <1>1, ImportAlways, PTL DEF Spec, NoLostUpdate
=============================================================================
