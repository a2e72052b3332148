-------------------------- MODULE InternalMessages --------------------------
(***************************************************************************)
(* Messages between members of the staff: restaurant/internal_messages.py. *)
(*                                                                         *)
(* A command begins with the plain reads of the permission check, which    *)
(* fix its snapshot; it then locks the message, whose row is current, and  *)
(* takes the numbers of its new rows, the replay of its key, the           *)
(* eligibility of the recipient and the state of the tables from the       *)
(* snapshot.                                                               *)
(***************************************************************************)
EXTENDS Integers, FiniteSets, Sequences, SequencesExt

CONSTANTS Staff,           \* memberships
          NoteKeys,        \* idempotency keys
          PreparedTables,  \* tables that a message may name
          MaxNotes, MaxResponses

VARIABLES note,          \* sequence of messages
          noteHistory,   \* message -> its events
          noteReplies,   \* message -> its responses
          noting,        \* Staff -> command under way, NoNote
          eligible,      \* waiters eligible at the location
          preparable     \* tables that are active and, in a group, represent it

noteVars == <<note, noteHistory, noteReplies, noting, eligible, preparable>>

NoNote == [on |-> 0]
NoTable == "no table"
NotYet == "not yet"

ASSUME NotesAssumption == NotYet \notin Staff /\ MaxNotes \in Nat /\ MaxResponses \in Nat

InternalOperationalMessage ==
    [creator : Staff, recipient : Staff, key : NoteKeys, status : {"REQUESTED", "READY"},
     entered : Staff \cup {NotYet}, ready : Staff \cup {NotYet}, table : PreparedTables \cup {NoTable}, version : 1 .. 3]
InternalOperationalMessageResponse == [author : Staff, key : NoteKeys, sequence : 1 .. MaxResponses]
InternalOperationalMessageHistory ==
    [event : {"MESSAGE_CREATED", "ENTERADO", "RESPONSE_ADDED", "READY"}, actor : Staff,
     sequence : 1 .. MaxResponses + 3, response : 0 .. MaxResponses]

NotesInit ==
    /\ note = <<>> /\ noteHistory = <<>> /\ noteReplies = <<>>
    /\ noting = [p \in Staff |-> NoNote]
    /\ eligible \in SUBSET Staff
    /\ preparable \in SUBSET PreparedTables

Event(kind, p, n, r) == [event |-> kind, actor |-> p, sequence |-> n, response |-> r]

\* A lost race on the key reads the winner: one message per creator and key.
CreateMessage(p, q, key) ==
    /\ Len(note) < MaxNotes
    /\ \A m \in Range(note) : ~(m.creator = p /\ m.key = key)
    /\ q \in eligible
    /\ note' = Append(note, [creator |-> p, recipient |-> q, key |-> key, status |-> "REQUESTED", entered |-> NotYet,
                             ready |-> NotYet, table |-> NoTable, version |-> 1])
    /\ noteHistory' = Append(noteHistory, <<Event("MESSAGE_CREATED", p, 1, 0)>>)
    /\ noteReplies' = Append(noteReplies, <<>>)
    /\ UNCHANGED <<noting, eligible, preparable>>

ParticipantMessage(p, m) == p \in {note[m].creator, note[m].recipient}

BeginNote(p, m) ==
    /\ noting[p] = NoNote
    /\ ParticipantMessage(p, m)
    /\ noting' = [noting EXCEPT ![p] = [on |-> m, events |-> Len(noteHistory[m]), replies |-> noteReplies[m],
                                        eligible |-> p \in eligible, preparable |-> preparable]]
    /\ UNCHANGED <<note, noteHistory, noteReplies, eligible, preparable>>

RequireCurrentRecipient(p) == p = note[noting[p].on].recipient /\ noting[p].eligible

\* Mutant: two events may take one sequence number.
AppendUnchecked(p, kind, r) ==
    noteHistory' = [noteHistory EXCEPT ![noting[p].on] = Append(@, Event(kind, p, noting[p].events + 1, r))]

\* The greatest number seen, plus one.  A number taken since breaks the uniqueness of the
\* sequence: the request fails and nothing of it is kept.
AppendHistory(p, kind, r) ==
    /\ \A h \in Range(noteHistory[noting[p].on]) : h.sequence # noting[p].events + 1
    /\ noteHistory' = [noteHistory EXCEPT ![noting[p].on] = Append(@, Event(kind, p, noting[p].events + 1, r))]

EndNote(p) ==
    /\ noting' = [noting EXCEPT ![p] = NoNote]
    /\ UNCHANGED <<eligible, preparable>>

EnterMessage(p) ==
    LET m == noting[p].on IN
    /\ noting[p] # NoNote
    /\ RequireCurrentRecipient(p)
    /\ note[m].entered = NotYet
    /\ note' = [note EXCEPT ![m] = [note[m] EXCEPT !.entered = p, !.version = note[m].version + 1]]
    /\ AppendHistory(p, "ENTERADO", 0)
    /\ EndNote(p) /\ UNCHANGED noteReplies

\* The creator may always respond; a recipient between Enterado and READY.
MayRespond(p, m) ==
    p = note[m].recipient => note[m].status # "READY" /\ note[m].entered # NotYet

AddResponse(p, key) ==
    LET m == noting[p].on
        n == Len(noting[p].replies) + 1
    IN
    /\ noting[p] # NoNote
    /\ p = note[m].recipient => noting[p].eligible
    /\ MayRespond(p, m)
    /\ n <= MaxResponses
    /\ \A r \in Range(noting[p].replies) \cup Range(noteReplies[m]) : ~(r.author = p /\ r.key = key)
    /\ \A r \in Range(noteReplies[m]) : r.sequence # n
    /\ noteReplies' = [noteReplies EXCEPT ![m] = Append(@, [author |-> p, key |-> key, sequence |-> n])]
    /\ AppendHistory(p, "RESPONSE_ADDED", n)
    /\ EndNote(p) /\ UNCHANGED note

MarkReady(p, t) ==
    LET m == noting[p].on IN
    /\ noting[p] # NoNote
    /\ RequireCurrentRecipient(p)
    /\ note[m].status # "READY" /\ note[m].entered # NotYet
    /\ t \in noting[p].preparable \cup {NoTable}
    /\ note' = [note EXCEPT ![m] = [note[m] EXCEPT !.status = "READY", !.ready = p, !.table = t,
                                                   !.version = note[m].version + 1]]
    /\ AppendHistory(p, "READY", 0)
    /\ EndNote(p) /\ UNCHANGED noteReplies

\* A refusal, a replay, or a collision of numbers.
FailNote(p) ==
    /\ noting[p] # NoNote
    /\ EndNote(p) /\ UNCHANGED <<note, noteHistory, noteReplies>>

\* Roles, tables and groups are administered meanwhile.
EligibilityChanges(p) ==
    /\ eligible' = IF p \in eligible THEN eligible \ {p} ELSE eligible \cup {p}
    /\ UNCHANGED <<note, noteHistory, noteReplies, noting, preparable>>

TablesChange(t) ==
    /\ preparable' = IF t \in preparable THEN preparable \ {t} ELSE preparable \cup {t}
    /\ UNCHANGED <<note, noteHistory, noteReplies, noting, eligible>>

\* The actions the detail of a message offers its reader.
AllowedActions(p, m) ==
    (IF p = note[m].creator THEN {"RESPOND"} ELSE {})
    \cup (IF p = note[m].recipient /\ note[m].status # "READY"
          THEN IF note[m].entered = NotYet THEN {"ENTERADO"} ELSE {"RESPOND", "READY"} ELSE {})

NotesNext ==
    \/ \E p, q \in Staff, k \in NoteKeys : CreateMessage(p, q, k)
    \/ \E p \in Staff : \/ \E m \in DOMAIN note : BeginNote(p, m)
                        \/ EnterMessage(p) \/ FailNote(p)
                        \/ \E k \in NoteKeys : AddResponse(p, k)
                        \/ \E t \in PreparedTables \cup {NoTable} : MarkReady(p, t)
                        \/ EligibilityChanges(p)
    \/ \E t \in PreparedTables : TablesChange(t)

NotesSpec == NotesInit /\ [][NotesNext]_noteVars

NotesTypeOK ==
    \A m \in DOMAIN note :
        /\ note[m] \in InternalOperationalMessage
        /\ \A i \in DOMAIN noteReplies[m] : noteReplies[m][i] \in InternalOperationalMessageResponse
        /\ \A i \in DOMAIN noteHistory[m] : noteHistory[m][i] \in InternalOperationalMessageHistory

EventsOf(h, kind) == {i \in DOMAIN h : h[i].event = kind}
Events(m, kind) == EventsOf(noteHistory[m], kind)

\* The history tells a message as it is: numbered without gap, one event per response, one
\* ENTERADO and one READY by the recipient, in this order, and no response of the recipient
\* outside them; the version counts what changed the row; and what the detail offers a
\* reader other than a message's sender to himself is what the handlers accept.
HistoryTellsTheMessage ==
    /\ NotesTypeOK
    /\ \A m \in DOMAIN note :
        /\ \A i \in DOMAIN noteHistory[m] : noteHistory[m][i].sequence = i
        /\ Events(m, "MESSAGE_CREATED") = {1}
        /\ Cardinality(Events(m, "ENTERADO")) = (IF note[m].entered = NotYet THEN 0 ELSE 1)
        /\ Cardinality(Events(m, "READY")) = (IF note[m].status = "READY" THEN 1 ELSE 0)
        /\ \A e \in Events(m, "ENTERADO"), r \in Events(m, "READY") : e < r
        /\ \A i \in Events(m, "RESPONSE_ADDED") :
              /\ noteReplies[m][noteHistory[m][i].response].author = noteHistory[m][i].actor
              /\ noteHistory[m][i].actor = note[m].recipient =>
                    /\ \E e \in Events(m, "ENTERADO") : e < i
                    /\ \A r \in Events(m, "READY") : i < r
        /\ Len(noteReplies[m]) = Cardinality(Events(m, "RESPONSE_ADDED"))
        /\ note[m].version = 1 + Cardinality(Events(m, "ENTERADO") \cup Events(m, "READY"))
        /\ note[m].creator # note[m].recipient =>
              \A p \in {note[m].creator, note[m].recipient} : ("RESPOND" \in AllowedActions(p, m)) <=> MayRespond(p, m)

(***************************************************************************)
(* The inductive invariant: a message with its history and responses, and  *)
(* what the commands under way have seen of them.                          *)
(***************************************************************************)
MessageNumbered(h, q) ==
    /\ h \in Seq(InternalOperationalMessageHistory) /\ \A i \in DOMAIN h : h[i].sequence = i
    /\ q \in Seq(InternalOperationalMessageResponse) /\ \A i \in DOMAIN q : q[i].sequence = i
    /\ EventsOf(h, "MESSAGE_CREATED") = {1}

MessageMarked(x, h) ==
    /\ x.entered = NotYet => EventsOf(h, "ENTERADO") = {} /\ x.status # "READY"
    /\ x.entered # NotYet => \E e \in DOMAIN h : EventsOf(h, "ENTERADO") = {e}
    /\ x.status # "READY" => EventsOf(h, "READY") = {}
    /\ x.status = "READY" => \E r \in DOMAIN h : EventsOf(h, "READY") = {r}
    /\ \A e \in EventsOf(h, "ENTERADO"), r \in EventsOf(h, "READY") : e < r

ResponseTold(x, h, q, i) ==
    /\ h[i].response \in DOMAIN q /\ q[h[i].response].author = h[i].actor
    /\ h[i].actor = x.recipient => /\ \E e \in EventsOf(h, "ENTERADO") : e < i
                                   /\ \A r \in EventsOf(h, "READY") : i < r

MessageCounted(x, h, q) ==
    /\ Cardinality(EventsOf(h, "RESPONSE_ADDED")) = Len(q)
    /\ Len(q) <= MaxResponses /\ Len(h) = x.version + Len(q)
    /\ x.entered = NotYet => x.version = 1
    /\ x.entered # NotYet /\ x.status # "READY" => x.version = 2
    /\ x.status = "READY" => x.version = 3

MessageTold(x, h, q) ==
    /\ x \in InternalOperationalMessage
    /\ MessageNumbered(h, q) /\ MessageMarked(x, h) /\ MessageCounted(x, h, q)
    /\ \A i \in EventsOf(h, "RESPONSE_ADDED") : ResponseTold(x, h, q, i)

NoteUnderWay ==
    [on : Nat, events : Nat, replies : Seq(InternalOperationalMessageResponse), eligible : BOOLEAN, preparable : SUBSET PreparedTables]

MessagesSound(n, h, q) ==
    /\ n \in Seq(InternalOperationalMessage) /\ Len(h) = Len(n) /\ Len(q) = Len(n)
    /\ h \in Seq(Seq(InternalOperationalMessageHistory)) /\ q \in Seq(Seq(InternalOperationalMessageResponse))
    /\ \A m \in DOMAIN n : MessageTold(n[m], h[m], q[m])

\* What a command has seen of its message is a beginning of what there is.
SnapshotsSound(w, h, q) ==
    /\ w \in [Staff -> {NoNote} \cup NoteUnderWay]
    /\ \A p \in Staff : w[p] # NoNote =>
          /\ w[p].on \in DOMAIN h
          /\ w[p].events <= Len(h[w[p].on])
          /\ Len(w[p].replies) <= Len(q[w[p].on])

NotesInv ==
    /\ MessagesSound(note, noteHistory, noteReplies)
    /\ SnapshotsSound(noting, noteHistory, noteReplies)
    /\ eligible \subseteq Staff /\ preparable \subseteq PreparedTables
=============================================================================
