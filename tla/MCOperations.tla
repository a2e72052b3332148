---------------------------- MODULE MCOperations ----------------------------
(* The operation of the dining room on small instances.  Kitchen, handoff,   *)
(* guests' requests, staff messages, cash and the dialogue with the digital  *)
(* waiter touch one another through the service session only, so a behaviour *)
(* follows one of these parts.                                               *)
EXTENDS ServiceRequests, InternalMessages, CashDrawer, DigitalWaiter

VARIABLE part

MCTicketOf == [d \in Dishes |-> "grill"]

\* One cook who works through the dishes, for the waiters' part.
OneCook(c) ==
    \/ \E d \in Dishes, k \in CommandKeys :
          /\ \A i \in DOMAIN moves[d] : moves[d][i].key # k
          /\ BeginTransition(c, d, dish[d].version, k)
    \/ TransitionWorkItem(c)

OrderingWords == {"si", "que llevo"}
PayingWords ==
    {"si", "no", "mi consumo", "toda la mesa", "efectivo", "tarjeta", "factura", "imprimir cuenta", "necesito ayuda",
     "estado de mi pago", "verifica el pago", "cuanto debo", "estado de mi pedido", "que llevo", "pagar en efectivo",
     "pagar con tarjeta", "quiero pagar"}
Additions == {[Intend("ORDER_EXPRESSION") EXCEPT !.version = v] : v \in 0 .. 1}
Edits == {[Intend("ORDER_EXPRESSION") EXCEPT !.operation = o, !.item = 1, !.version = 2] : o \in {"MODIFY", "REMOVE"}}
Confirmations == {[Intend("ORDER_CONFIRMATION") EXCEPT !.version = s.version, !.shown = s] : s \in previewed \cup {NoShown}}
CheckCommands == {[Intend(i) EXCEPT !.check = c] : i \in {"CHECK_QUERY", "PAYMENT_REQUEST", "SERVICE_CONTINUATION"}, c \in DOMAIN bill}

notKitchen == <<noteVars, cashVars, dialogueVars>>

MCInit ==
    /\ part \in {"kitchen", "handoff", "guests", "messages", "cash", "ordering", "paying"}
    /\ ServiceInit /\ NotesInit /\ CashInit /\ DialogueInit
    /\ part \notin {"kitchen", "handoff", "guests"} => house = [open |-> TRUE, initialized |-> TRUE, responsible |-> {"w1"}]
    /\ part # "messages" => eligible = {} /\ preparable = {}

MCNext ==
    /\ \/ part = "kitchen" /\ KitchenNext /\ UNCHANGED notKitchen
       \/ part = "handoff" /\ (OneCook("c1") \/ HandoffNext \/ RequestsNext) /\ UNCHANGED notKitchen
       \/ part = "guests" /\ (GuestsNext \/ HandoffNext \/ RequestsNext) /\ UNCHANGED notKitchen
       \/ part = "messages" /\ NotesNext /\ UNCHANGED <<serviceVars, cashVars, dialogueVars>>
       \/ part = "cash" /\ CashNext /\ UNCHANGED <<serviceVars, noteVars, dialogueVars>>
       \/ /\ part = "ordering" /\ UNCHANGED <<serviceVars, noteVars, cashVars>>
          /\ \/ TurnsNext({"t1"}, ActionKeys, OrderingWords, {a \in Additions : a.version = 1} \cup Confirmations)
             \/ TurnsNext({"t2"}, {"k1"}, {"si"}, {})
             \/ ScreensNext
       \/ /\ part = "paying" /\ UNCHANGED <<serviceVars, noteVars, cashVars>>
          /\ TurnsNext({"t1"}, {"k1"}, PayingWords, Additions \cup Edits \cup CheckCommands) \/ PaymentsNext
    /\ UNCHANGED part

MCSpec == MCInit /\ [][MCNext]_<<serviceVars, notKitchen, part>>
=============================================================================
