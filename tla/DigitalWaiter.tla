---------------------------- MODULE DigitalWaiter ----------------------------
(***************************************************************************)
(* The conversation of one diner with the digital waiter:                  *)
(* intelligence/orchestration.py and execute_conversation_action           *)
(* (routes/diner_experience.py).                                           *)
(*                                                                         *)
(* A turn is three transactions: the diner's message is appended and its   *)
(* words interpreted in the light of the last reply; the action is carried *)
(* out; the waiter's reply, which holds what the next words may refer to,  *)
(* is appended.  Several turns may be under way.  Drafts, checks and staff *)
(* requests are kept as far as the dialogue tells them apart.              *)
(***************************************************************************)
EXTENDS Integers, FiniteSets, Sequences, SequencesExt, FiniteSetsExt

CONSTANTS Taps,          \* turns that can be under way at once
          ActionKeys,    \* idempotency keys
          Tariffs,       \* commercial terms of the menu, as a number
          MaxDrafts, MaxEditsOfDraft, MaxHelp, MaxBills

ASSUME DialogueAssumption ==
    Tariffs # {} /\ Tariffs \subseteq Nat /\ MaxDrafts \in Nat /\ MaxEditsOfDraft \in Nat

VARIABLES tray,        \* the current draft: [id, version, items], id 0 without one
          drafts,      \* number of drafts so far
          tariff,      \* the terms in force
          accepted,    \* sequence of orders [shown, key, billed]
          bill,        \* sequence of checks [status, version, decision, charge]
          help,        \* sequence of staff requests [type, check, key]
          chatOpen,    \* the conversation is ACTIVE
          lastReply,   \* the waiter's last message, NoReply
          previewed,   \* the previews a reply has shown
          turn         \* Tap -> turn under way, NoTurn

dinerVars == <<tray, drafts, tariff, accepted, bill, help>>
dialogueVars == <<dinerVars, chatOpen, lastReply, previewed, turn>>

NoTray == [id |-> 0, version |-> 0, items |-> <<>>]
NoShown == [draft |-> 0, version |-> 0, tariff |-> 0]
Bare == [intent |-> "UNKNOWN", operation |-> "ADD", version |-> 0, shown |-> NoShown, item |-> 0, check |-> 0,
         checkVersion |-> 0, decision |-> "NONE", scope |-> "NONE", method |-> "NONE", payment |-> 0]
NoTurn == [stage |-> "none"]

\* pending_context: 0 is an absent value.
Nothing == [check |-> 0, checkVersion |-> 0, version |-> 0, shown |-> NoShown, item |-> 0, payment |-> 0]
NoReply == [code |-> "NONE", next |-> "NONE", pending |-> Nothing]

RestaurantIntentCode ==
    {"MENU_QUERY", "ORDER_EXPRESSION", "DRAFT_REVIEW", "ORDER_CONFIRMATION", "ORDER_STATUS_QUERY", "ACCOUNT_QUERY",
     "PAYMENT_REQUEST", "PAYMENT_STATUS_QUERY", "PAYMENT_RECOVERY", "INVOICE_REQUEST", "PAID_PRINT_REQUEST",
     "CHECK_QUERY", "SERVICE_CONTINUATION", "HUMAN_ASSISTANCE_REQUEST", "UNKNOWN"}

DialogueInit ==
    /\ tray = NoTray /\ drafts = 0 /\ tariff = Min(Tariffs)
    /\ accepted = <<>> /\ bill = <<>> /\ help = <<>>
    /\ chatOpen = TRUE /\ lastReply = NoReply /\ previewed = {}
    /\ turn = [t \in Taps |-> NoTurn]

(***************************************************************************)
(* What the words mean.                                                    *)
(***************************************************************************)
Intend(intent) == [Bare EXCEPT !.intent = intent]

Decision(words) == IF words = "si" THEN "YES" ELSE IF words = "no" THEN "NO" ELSE "NONE"

\* What a rule makes of the words, when it applies.
Told(when, command) == IF when THEN command ELSE Bare

Rules(words, reply) ==
    LET p == reply.pending IN
    << Told(Decision(words) # "NONE" /\ reply.next = "SERVICE_CONTINUATION" /\ p.check # 0 /\ p.checkVersion # 0,
            [Intend("SERVICE_CONTINUATION") EXCEPT !.check = p.check, !.checkVersion = p.checkVersion,
                                                   !.decision = Decision(words)]),
       Told(words = "si" /\ reply.next = "CONFIRM_ORDER" /\ p.version # 0 /\ p.shown # NoShown,
            [Intend("ORDER_CONFIRMATION") EXCEPT !.version = p.version, !.shown = p.shown]),
       Told(reply.next = "CONFIGURE_ITEM" /\ p.item # 0 /\ p.version # 0,
            [Intend("ORDER_EXPRESSION") EXCEPT !.operation = "CONFIGURE", !.item = p.item, !.version = p.version]),
       Told(reply.code = "PAYMENT_SCOPE_REQUIRED" /\ words = "mi consumo",
            [Intend("PAYMENT_REQUEST") EXCEPT !.scope = "INDIVIDUAL"]),
       Told(reply.code = "PAYMENT_SCOPE_REQUIRED" /\ words = "toda la mesa",
            [Intend("PAYMENT_REQUEST") EXCEPT !.scope = "GLOBAL_TABLE"]),
       Told(reply.code = "PAYMENT_METHOD_REQUIRED" /\ words \in {"efectivo", "pagar en efectivo"},
            [Intend("PAYMENT_REQUEST") EXCEPT !.check = p.check, !.method = "CASH"]),
       Told(reply.code = "PAYMENT_METHOD_REQUIRED" /\ words \in {"tarjeta", "pagar con tarjeta"},
            [Intend("PAYMENT_REQUEST") EXCEPT !.check = p.check, !.method = "CARD"]),
       Told(words = "factura", [Intend("INVOICE_REQUEST") EXCEPT !.check = p.check]),
       Told(words = "imprimir cuenta", [Intend("PAID_PRINT_REQUEST") EXCEPT !.check = p.check]),
       Told(words = "necesito ayuda", Intend("HUMAN_ASSISTANCE_REQUEST")),
       Told(words = "estado de mi pago", [Intend("PAYMENT_STATUS_QUERY") EXCEPT !.check = p.check]),
       Told(words = "verifica el pago", [Intend("PAYMENT_RECOVERY") EXCEPT !.check = p.check, !.payment = p.payment]),
       Told(words = "cuanto debo", Intend("ACCOUNT_QUERY")),
       Told(words = "estado de mi pedido", Intend("ORDER_STATUS_QUERY")),
       Told(words = "que llevo" /\ tray # NoTray, Intend("DRAFT_REVIEW")),
       Told(words = "menu", Intend("MENU_QUERY")),
       Told(words = "pagar en efectivo", [Intend("PAYMENT_REQUEST") EXCEPT !.check = p.check, !.method = "CASH"]),
       Told(words = "pagar con tarjeta", [Intend("PAYMENT_REQUEST") EXCEPT !.check = p.check, !.method = "CARD"]),
       Told(words = "quiero pagar", Intend("PAYMENT_REQUEST")) >>

\* The first rule that applies; words no rule knows stay UNKNOWN.
InterpretPendingOrText(words, reply) ==
    LET applying == {i \in DOMAIN Rules(words, reply) : Rules(words, reply)[i] # Bare}
    IN IF applying = {} THEN Bare ELSE Rules(words, reply)[Min(applying)]

\* The message is appended whether or not its action will succeed; a repeated request
\* appends it again.
Hear(t, command, key) ==
    /\ turn[t] = NoTurn
    /\ chatOpen
    /\ turn' = [turn EXCEPT ![t] = [stage |-> "meant", command |-> command, key |-> key]]
    /\ UNCHANGED <<dinerVars, chatOpen, lastReply, previewed>>

(***************************************************************************)
(* Replies.                                                                *)
(***************************************************************************)
\* response_pending_context takes the id of any result for a check's, and its version too.
OfDraft(d) ==
    LET missing == {i \in DOMAIN d.items : d.items[i]} IN
    [Nothing EXCEPT !.checkVersion = d.version,
                    !.item = IF Cardinality(missing) = 1 THEN CHOOSE i \in missing : TRUE ELSE 0,
                    !.version = IF Cardinality(missing) = 1 THEN d.version ELSE 0]
OfPreview(s) == [Nothing EXCEPT !.version = s.version, !.shown = s]
OfResult(id) == [Nothing EXCEPT !.check = id]
OfCheck(c) == [Nothing EXCEPT !.check = c, !.checkVersion = bill[c].version]
OfSettlement(c) == [Nothing EXCEPT !.check = c, !.payment = IF bill[c].charge = "UNCERTAIN" THEN c ELSE 0]

Say(t, code, next, pending) ==
    turn' = [turn EXCEPT ![t] = [stage |-> "done", reply |-> [code |-> code, next |-> next, pending |-> pending]]]

Clarification(t, code, next, pending) == Say(t, code, next, pending) /\ UNCHANGED dinerVars
SayBlocked(t) == Say(t, "BLOCKED", "REQUEST_ASSISTANCE", Nothing)
Blocked(t) == SayBlocked(t) /\ UNCHANGED dinerVars

Readiness(d) ==
    IF d.items = <<>> THEN "EMPTY" ELSE IF \E i \in DOMAIN d.items : d.items[i] THEN "INCOMPLETE" ELSE "READY"

DraftGuidance(d) == IF Readiness(d) = "INCOMPLETE" THEN "CONFIGURE_ITEM" ELSE "REVIEW_DRAFT"

Command(t) == turn[t].command
Meant(t, intent) == turn[t].stage = "meant" /\ Command(t).intent = intent
Rest == UNCHANGED <<chatOpen, lastReply, previewed>>

(***************************************************************************)
(* Ordering.                                                               *)
(***************************************************************************)
\* The diner of an unresolved check may not order.
OrderingBlocked == \E c \in DOMAIN bill : bill[c].status = "OPEN" \/ bill[c].decision \in {"PENDING", "NO"}

NewTray == [id |-> drafts + 1, version |-> 1, items |-> <<>>]
Preview == [draft |-> tray.id, version |-> tray.version, tariff |-> tariff]

\* Without an expected version the draft is only created, so that its version can be shown.
AskVersion(t) ==
    /\ Meant(t, "ORDER_EXPRESSION") /\ Command(t).version = 0
    /\ IF tray # NoTray THEN Clarification(t, "EXPECTED_DRAFT_VERSION_REQUIRED", "ADD_ITEM", OfDraft(tray))
       ELSE IF OrderingBlocked \/ drafts >= MaxDrafts THEN Clarification(t, "EXPECTED_DRAFT_VERSION_REQUIRED", "ADD_ITEM", Nothing)
       ELSE /\ tray' = NewTray /\ drafts' = drafts + 1
            /\ Say(t, "EXPECTED_DRAFT_VERSION_REQUIRED", "ADD_ITEM", OfDraft(NewTray))
            /\ UNCHANGED <<tariff, accepted, bill, help>>
    /\ Rest

\* An item is TRUE while one of its choice groups is missing.
EditedItems(items, command, incomplete) ==
    CASE command.operation = "ADD" -> Append(items, incomplete)
      [] command.operation = "CONFIGURE" -> [items EXCEPT ![command.item] = FALSE]
      [] command.operation = "MODIFY" -> items
      [] command.operation = "REMOVE" -> RemoveAt(items, command.item)

\* An addition first creates the draft, in a transaction of its own.  A choice is resolved
\* from its words, which may be ambiguous (unclear), before the version is compared.
OrderExpression(t, unclear) ==
    LET c == Command(t)
        creates == c.operation = "ADD" /\ tray = NoTray /\ ~OrderingBlocked /\ drafts < MaxDrafts
        current == IF creates THEN NewTray ELSE tray
        edited == [current EXCEPT !.version = @ + 1, !.items = EditedItems(current.items, c, unclear)]
    IN
    /\ Meant(t, "ORDER_EXPRESSION") /\ c.version # 0
    /\ drafts' = IF creates THEN drafts + 1 ELSE drafts
    /\ IF current = NoTray \/ (c.operation # "ADD" /\ c.item \notin DOMAIN current.items)
       THEN tray' = current /\ SayBlocked(t)
       ELSE IF c.operation = "CONFIGURE" /\ unclear
       THEN tray' = current /\ Say(t, "AMBIGUOUS_REFERENCE", "SELECT_CANDIDATE", Nothing)
       ELSE IF OrderingBlocked \/ current.version # c.version \/ current.version > MaxEditsOfDraft
       THEN tray' = current /\ SayBlocked(t)
       ELSE tray' = edited /\ Say(t, "DRAFT", DraftGuidance(edited), OfDraft(edited))
    /\ UNCHANGED <<tariff, accepted, bill, help>>
    /\ Rest

DraftReview(t) ==
    /\ Meant(t, "DRAFT_REVIEW")
    /\ IF tray = NoTray THEN Blocked(t)
       ELSE IF Readiness(tray) # "READY" THEN Clarification(t, "DRAFT", DraftGuidance(tray), OfDraft(tray))
       ELSE Clarification(t, "OK", "CONFIRM_ORDER", OfPreview(Preview))
    /\ Rest

\* Mutant: the terms are not compared, only the version.
VersionOnly(command) == command.version = tray.version

\* The fingerprint names the draft, its version and every term.
StillAsShown(command) == command.version = tray.version /\ command.shown = Preview

Replayed(t) == {o \in DOMAIN accepted : accepted[o].key = turn[t].key}

OrderConfirmation(t) ==
    LET c == Command(t) IN
    /\ Meant(t, "ORDER_CONFIRMATION")
    /\ IF c.version = 0 \/ c.shown = NoShown
       THEN Clarification(t, "CONFIRMATION_EVIDENCE_REQUIRED", "REVIEW_DRAFT",
                          IF tray # NoTray /\ Readiness(tray) = "READY" THEN OfPreview(Preview) ELSE Nothing)
       ELSE IF Replayed(t) # {}
       THEN IF tray # NoTray THEN Blocked(t) ELSE Clarification(t, "OK", "VIEW_ORDER", OfResult(Min(Replayed(t))))
       ELSE IF tray = NoTray \/ OrderingBlocked \/ Readiness(tray) # "READY" \/ ~StillAsShown(c) THEN Blocked(t)
       ELSE /\ accepted' = Append(accepted, [shown |-> Preview, key |-> turn[t].key, billed |-> FALSE])
            /\ tray' = NoTray
            /\ Say(t, "OK", "VIEW_ORDER", OfResult(Len(accepted) + 1))
            /\ UNCHANGED <<drafts, tariff, bill, help>>
    /\ Rest

(***************************************************************************)
(* Checks, payments and staff.                                             *)
(***************************************************************************)
Billable == \E o \in DOMAIN accepted : ~accepted[o].billed

CreateBill(t) ==
    LET c == Len(bill) + 1 IN
    IF Command(t).scope = "NONE" THEN Clarification(t, "PAYMENT_SCOPE_REQUIRED", "INDIVIDUAL", Nothing)
    ELSE IF OrderingBlocked \/ ~Billable \/ c > MaxBills \/ (tray # NoTray /\ tray.items # <<>>) THEN Blocked(t)
    ELSE /\ bill' = Append(bill, [status |-> "OPEN", version |-> 1, decision |-> "NONE", charge |-> "NONE"])
         /\ accepted' = [o \in DOMAIN accepted |-> [accepted[o] EXCEPT !.billed = TRUE]]
         /\ Say(t, "OK", "INITIATE_PAYMENT", [Nothing EXCEPT !.check = c, !.checkVersion = 1])
         /\ UNCHANGED <<tray, drafts, tariff, help>>

\* create_operational_request: a check of this diner, settled for a document; once per key.
Handoff(t, type) ==
    LET c == Command(t).check
        r == {i \in DOMAIN help : help[i].key = turn[t].key}
        asked == [type |-> type, check |-> IF type = "HUMAN_ASSISTANCE" THEN 0 ELSE c, key |-> turn[t].key]
    IN
    IF type # "HUMAN_ASSISTANCE" /\ (c \notin DOMAIN bill \/ (type \in {"INVOICE_ASSISTANCE", "PAID_CHECK_PRINT"} /\ bill[c].status # "SETTLED"))
       THEN Blocked(t)
    ELSE IF r # {} THEN IF help[Min(r)] = asked THEN Clarification(t, "STAFF", "WAIT_FOR_STAFF", OfResult(Min(r))) ELSE Blocked(t)
    ELSE IF Len(help) >= MaxHelp THEN Blocked(t)
    ELSE /\ help' = Append(help, asked)
         /\ Say(t, "STAFF", "WAIT_FOR_STAFF", OfResult(Len(help) + 1))
         /\ UNCHANGED <<tray, drafts, tariff, accepted, bill>>

CheckRequired(t, next) == Clarification(t, "RESTAURANT_CHECK_REQUIRED", next, Nothing)

PaymentRequest(t) ==
    LET c == Command(t) IN
    /\ Meant(t, "PAYMENT_REQUEST")
    /\ IF c.method = "CASH" THEN IF c.check = 0 THEN CheckRequired(t, "REQUEST_PAYMENT") ELSE Handoff(t, "CASH_PAYMENT_ASSISTANCE")
       ELSE IF c.check = 0 THEN CreateBill(t)
       ELSE IF c.check \notin DOMAIN bill THEN Blocked(t)
       ELSE IF c.method = "NONE" THEN Clarification(t, "PAYMENT_METHOD_REQUIRED", "CARD", OfSettlement(c.check))
       ELSE Clarification(t, "OK", "OPEN_SECURE_PAYMENT_SOURCE", OfSettlement(c.check))
    /\ Rest

DocumentRequest(t) ==
    /\ \/ Meant(t, "INVOICE_REQUEST") /\ (IF Command(t).check = 0 THEN CheckRequired(t, "REQUEST_INVOICE") ELSE Handoff(t, "INVOICE_ASSISTANCE"))
       \/ Meant(t, "PAID_PRINT_REQUEST") /\ (IF Command(t).check = 0 THEN CheckRequired(t, "REQUEST_PAID_PRINT") ELSE Handoff(t, "PAID_CHECK_PRINT"))
       \/ Meant(t, "HUMAN_ASSISTANCE_REQUEST") /\ Handoff(t, "HUMAN_ASSISTANCE")
    /\ Rest

PaymentStatus(t) ==
    LET c == Command(t).check IN
    /\ Meant(t, "PAYMENT_STATUS_QUERY")
    /\ IF c = 0 THEN CheckRequired(t, "PAYMENT_STATUS")
       ELSE IF c \notin DOMAIN bill THEN Blocked(t)
       ELSE Clarification(t, "OK", IF bill[c].charge = "UNCERTAIN" THEN "WAIT_FOR_PAYMENT_RESOLUTION" ELSE "NONE", OfSettlement(c))
    /\ Rest

\* The payment of check c is numbered c.  Recovery learns the outcome or stays uncertain.
PaymentRecovery(t, settled) ==
    LET c == Command(t).check IN
    /\ Meant(t, "PAYMENT_RECOVERY")
    /\ IF c = 0 \/ Command(t).payment = 0 THEN Clarification(t, "PAYMENT_REFERENCE_REQUIRED", "PAYMENT_STATUS", Nothing)
       ELSE IF c \notin DOMAIN bill \/ Command(t).payment # c THEN Blocked(t)
       ELSE /\ bill' = IF settled /\ bill[c].charge = "UNCERTAIN"
                       THEN [bill EXCEPT ![c].charge = "DONE", ![c].status = "SETTLED", ![c].decision = "PENDING"] ELSE bill
            /\ Say(t, "RECOVERY", IF settled THEN "NONE" ELSE "WAIT_FOR_PAYMENT_RESOLUTION", [OfResult(c) EXCEPT !.payment = c])
            /\ UNCHANGED <<tray, drafts, tariff, accepted, help>>
    /\ Rest

CheckQuery(t) ==
    LET c == Command(t).check IN
    /\ Meant(t, "CHECK_QUERY") \/ (Meant(t, "SERVICE_CONTINUATION") /\ Command(t).decision = "NONE")
    /\ IF c = 0 THEN CheckRequired(t, "VIEW_ACCOUNT")
       ELSE IF c \notin DOMAIN bill THEN Blocked(t)
       ELSE Clarification(t, "CHECK", IF bill[c].decision = "PENDING" THEN "SERVICE_CONTINUATION" ELSE "NONE", OfCheck(c))
    /\ Rest

ServiceContinuation(t) ==
    LET c == Command(t).check IN
    /\ Meant(t, "SERVICE_CONTINUATION") /\ Command(t).decision # "NONE"
    /\ IF c \notin DOMAIN bill \/ Command(t).checkVersion # bill[c].version \/ bill[c].decision # "PENDING" THEN Blocked(t)
       ELSE /\ bill' = [bill EXCEPT ![c].decision = Command(t).decision]
            /\ Say(t, "OK", "NONE", OfCheck(c))
            /\ UNCHANGED <<tray, drafts, tariff, accepted, help>>
    /\ Rest

\* Menus, accounts and order lists change nothing and leave nothing to refer to.
Query(t) ==
    /\ \E i \in {"MENU_QUERY", "ACCOUNT_QUERY", "ORDER_STATUS_QUERY", "UNKNOWN"} : Meant(t, i)
    /\ Clarification(t, "OK", "NONE", Nothing)
    /\ Rest

\* The reply is appended in its own transaction; in a conversation closed meanwhile it is lost.
Reply(t) ==
    /\ turn[t].stage = "done"
    /\ IF chatOpen THEN /\ lastReply' = turn[t].reply
                        /\ previewed' = previewed \cup {turn[t].reply.pending.shown}
       ELSE UNCHANGED <<lastReply, previewed>>
    /\ turn' = [turn EXCEPT ![t] = NoTurn]
    /\ UNCHANGED <<dinerVars, chatOpen>>

(***************************************************************************)
(* What happens outside the conversation.                                  *)
(***************************************************************************)
Outside == UNCHANGED <<chatOpen, lastReply, previewed, turn>>

TariffChanges(v) ==
    /\ v > tariff /\ tariff' = v
    /\ UNCHANGED <<tray, drafts, accepted, bill, help>> /\ Outside

\* The diner's screens edit the draft without a word to the waiter.
EditOnScreen ==
    /\ tray # NoTray /\ tray.version <= MaxEditsOfDraft /\ ~OrderingBlocked
    /\ tray' = [tray EXCEPT !.version = @ + 1, !.items = Append(@, FALSE)]
    /\ UNCHANGED <<drafts, tariff, accepted, bill, help>> /\ Outside

AbandonDraft ==
    /\ tray # NoTray /\ tray' = NoTray
    /\ UNCHANGED <<drafts, tariff, accepted, bill, help>> /\ Outside

PayBill(c, outcome) ==
    /\ bill[c].status = "OPEN" /\ bill[c].charge = "NONE"
    /\ bill' = [bill EXCEPT ![c] = IF outcome = "UNCERTAIN" THEN [@ EXCEPT !.charge = "UNCERTAIN"]
                                   ELSE [@ EXCEPT !.charge = "DONE", !.status = "SETTLED", !.decision = "PENDING"]]
    /\ UNCHANGED <<tray, drafts, tariff, accepted, help>> /\ Outside

CloseChat == chatOpen /\ chatOpen' = FALSE /\ UNCHANGED <<dinerVars, lastReply, previewed, turn>>

Act(t) ==
    \/ AskVersion(t) \/ DraftReview(t) \/ OrderConfirmation(t) \/ PaymentRequest(t) \/ DocumentRequest(t)
    \/ PaymentStatus(t) \/ CheckQuery(t) \/ ServiceContinuation(t) \/ Query(t)
    \/ \E b \in BOOLEAN : OrderExpression(t, b) \/ PaymentRecovery(t, b)

\* words: what the diner may say; commands: what its screens may send with an intent.
TurnsNext(taps, keys, words, commands) ==
    \E t \in taps : \/ \E w \in words, k \in keys : Hear(t, InterpretPendingOrText(w, lastReply), k)
                    \/ \E c \in commands, k \in keys : Hear(t, c, k)
                    \/ Act(t) \/ Reply(t)

ScreensNext ==
    \/ \E v \in Tariffs : TariffChanges(v)
    \/ EditOnScreen \/ AbandonDraft

PaymentsNext ==
    \/ CloseChat
    \/ \E c \in DOMAIN bill, o \in {"UNCERTAIN", "DONE"} : PayBill(c, o)

(***************************************************************************)
(* Properties.                                                             *)
(***************************************************************************)
DialogueTypeOK ==
    /\ tray.id \in 0 .. MaxDrafts /\ tray.version \in 0 .. MaxEditsOfDraft + 1 /\ tray.items \in Seq(BOOLEAN)
    /\ \A t \in Taps : turn[t].stage = "meant" => Command(t).intent \in RestaurantIntentCode

\* An order is accepted on the terms of a preview some reply has shown for that very
\* draft and version, and a draft becomes one order at most, whatever is said twice, edited
\* on a screen or repriced between the preview and the "si".
ConfirmedAsShown ==
    /\ DialogueTypeOK
    /\ \A o \in DOMAIN accepted : accepted[o].shown \in previewed
    /\ \A o, q \in DOMAIN accepted : accepted[o].shown.draft = accepted[q].shown.draft => o = q

(***************************************************************************)
(* The dialogue with any words and any command a screen can send: it names *)
(* a preview that was shown, or none.                                      *)
(***************************************************************************)
EditOperations == {"ADD", "CONFIGURE", "MODIFY", "REMOVE"}
ConversationActionCommand ==
    [intent : RestaurantIntentCode, operation : EditOperations, version : Nat, shown : previewed \cup {NoShown},
     item : Nat, check : Nat, checkVersion : Nat, decision : {"YES", "NO", "NONE"},
     scope : {"INDIVIDUAL", "GLOBAL_TABLE", "NONE"}, method : {"CASH", "CARD", "NONE"}, payment : Nat]

DialogueNext ==
    \/ TurnsNext(Taps, ActionKeys, STRING, ConversationActionCommand)
    \/ ScreensNext \/ PaymentsNext

DialogueSpec == DialogueInit /\ [][DialogueNext]_dialogueVars

(***************************************************************************)
(* The inductive invariant: a draft is newer than every accepted one, and  *)
(* what a turn carries refers to nothing that was not shown.               *)
(***************************************************************************)
Draft == [id : Nat, version : Nat, items : Seq(BOOLEAN)]
OrderPreview == [draft : Nat, version : Nat, tariff : Nat]
AcceptedOrder == [shown : OrderPreview, key : ActionKeys, billed : BOOLEAN]

DraftSound(d, n) ==
    /\ d \in Draft /\ n \in 0 .. MaxDrafts /\ d.version <= MaxEditsOfDraft + 1
    /\ d = NoTray \/ (d.id = n /\ n # 0)

CommandSound(c, seen) ==
    c.intent \in RestaurantIntentCode /\ c.operation \in EditOperations /\ c.shown \in seen \cup {NoShown}

TurnSound(u, seen) ==
    \/ u.stage = "none"
    \/ u.stage = "meant" /\ CommandSound(u.command, seen) /\ u.key \in ActionKeys
    \/ u.stage = "done" /\ u.reply.pending.shown \in OrderPreview

OrdersSound(a, d, n, seen) ==
    /\ a \in Seq(AcceptedOrder)
    /\ \A o \in DOMAIN a :
          /\ a[o].shown \in seen /\ a[o].shown.draft <= n
          /\ d # NoTray => a[o].shown.draft < n
    /\ \A o, q \in DOMAIN a : a[o].shown.draft = a[q].shown.draft => o = q

DialogueInv ==
    /\ DraftSound(tray, drafts) /\ tariff \in Nat
    /\ previewed \subseteq OrderPreview /\ lastReply.pending.shown \in previewed \cup {NoShown}
    /\ DOMAIN turn = Taps /\ \A t \in Taps : TurnSound(turn[t], previewed)
    /\ OrdersSound(accepted, tray, drafts, previewed)
=============================================================================
