------------------------------ MODULE TableFloor ------------------------------
(***************************************************************************)
(* Tables, dining sections, table groups, waiter assignments and service   *)
(* responsibility (restaurant/table_management.py,                         *)
(* restaurant/table_waiter_assignments.py, service_sessions).              *)
(*                                                                         *)
(* A handler takes the row lock of the Table first, and what it selects    *)
(* FOR UPDATE is current.  Its plain selects are not: authenticating the   *)
(* caller already read in the same REPEATABLE READ transaction, so they    *)
(* answer from a snapshot taken before the lock.  Handlers that decide on  *)
(* plain selects are therefore two steps, Authenticate and the handler;    *)
(* handlers that lock whatever they read are one.                          *)
(*                                                                         *)
(* A request with a stale expected_version is refused and a replayed       *)
(* idempotency key changes nothing: both are stuttering steps.             *)
(***************************************************************************)
EXTENDS Naturals, Sequences, FiniteSets

CONSTANTS Tables, Sections, Waiters, Hosts,
          MaxServices,  \* service sessions ever opened
          MaxChanges    \* changes of the floor's configuration

ASSUME FloorConstants == IsFiniteSet(Tables) /\ Sections # {} /\ MaxServices \in Nat /\ MaxChanges \in Nat

VARIABLES profile,    \* Table -> [status, section, movable]
          section,    \* Section -> [movable, status]
          group,      \* representative Table -> member Tables of its ACTIVE group
          groupWaiters, \* representative Table -> responsible waiters of that group
          assigned,   \* Table -> waiters assigned to it
          responsible, \* Table -> the responsible ones among them
          service,    \* sequence of [table, open, waiters, log]
          changes,    \* configuration changes made so far
          hostView    \* host -> the snapshot its request reads from

floorVars == <<profile, section, group, groupWaiters, assigned, responsible, service, changes, hostView>>

NoSnapshot == [taken |-> FALSE]

\* The rows behind the state.
Statuses == {"ACTIVE", "SUSPENDED", "OUT_OF_SERVICE", "RETIRED"}
TableProfile == [status : Statuses, section : Sections, movable : BOOLEAN]
DiningSection == [movable : BOOLEAN, status : {"ACTIVE", "INACTIVE"}]
TableGroupMembership == SUBSET Tables
TableWaiterAssignment == SUBSET Waiters
ServiceResponsibilityTransition == (SUBSET Waiters) \ {{}}
ServiceSession == [table : Tables, open : BOOLEAN, waiters : SUBSET Waiters, log : Seq(ServiceResponsibilityTransition)]

\* What a request has read when it takes its locks.
FloorSnapshot == [taken : {TRUE}, profile : [Tables -> TableProfile], section : [Sections -> DiningSection],
                  group : [Tables -> TableGroupMembership], served : SUBSET Tables,
                  assigned : [Tables -> TableWaiterAssignment], open : SUBSET Nat]

FloorInit ==
    /\ profile = [t \in Tables |-> [status |-> "ACTIVE", section |-> CHOOSE s \in Sections : TRUE, movable |-> TRUE]]
    /\ section = [s \in Sections |-> [movable |-> TRUE, status |-> "ACTIVE"]]
    /\ group = [t \in Tables |-> {}]
    /\ groupWaiters = [t \in Tables |-> {}]
    /\ assigned = [t \in Tables |-> {}]
    /\ responsible = [t \in Tables |-> {}]
    /\ service = <<>>
    /\ changes = 0
    /\ hostView = [h \in Hosts |-> NoSnapshot]

OpenOn(t) == {i \in DOMAIN service : service[i].table = t /\ service[i].open}
Served == {t \in Tables : OpenOn(t) # {}}
Grouped == UNION {group[t] : t \in Tables}

Counted == changes < MaxChanges /\ changes' = changes + 1

(***************************************************************************)
(* The snapshot of a request.                                              *)
(***************************************************************************)
Authenticate(h) ==
    /\ hostView[h] = NoSnapshot
    /\ hostView' = [hostView EXCEPT ![h] =
           [taken |-> TRUE, profile |-> profile, section |-> section, group |-> group, served |-> Served,
            assigned |-> assigned, open |-> {i \in DOMAIN service : service[i].open}]]
    /\ UNCHANGED <<profile, section, group, groupWaiters, assigned, responsible, service, changes>>

Reading(h) == hostView[h].taken
Answered(h) == hostView' = [hostView EXCEPT ![h] = NoSnapshot]
SeenGrouped(h) == UNION {hostView[h].group[t] : t \in Tables}
SeenIn(h, s) == {t \in Tables : hostView[h].profile[t].section = s}

(***************************************************************************)
(* Dining sections and table metadata.                                     *)
(***************************************************************************)
Transitions == [ACTIVE |-> {"SUSPENDED", "OUT_OF_SERVICE", "RETIRED"}, SUSPENDED |-> {"ACTIVE"},
                OUT_OF_SERVICE |-> {"ACTIVE"}, RETIRED |-> {}]

SectionChangeAllowed(h, s) == SeenIn(h, s) \cap (SeenGrouped(h) \cup hostView[h].served) = {}

ProvisionDiningSection(h, s, value) ==
    /\ Reading(h)
    /\ section[s] # value
    /\ SectionChangeAllowed(h, s)
    /\ section' = [section EXCEPT ![s] = value]
    /\ Counted /\ Answered(h)
    /\ UNCHANGED <<profile, group, groupWaiters, assigned, responsible, service>>

\* The profile is a plain select: the transition is checked against the snapshot's status, and
\* only the attributes that differ from the snapshot are written.
ProvisionTableProfile(h, t, value) ==
    /\ Reading(h)
    /\ LET seen == hostView[h].profile[t] IN
         /\ seen # value
         /\ seen.status # "RETIRED"
         /\ value.status = seen.status \/ value.status \in Transitions[seen.status]
         /\ t \notin Served /\ t \notin Grouped
         /\ profile' = [profile EXCEPT ![t] =
                [status |-> IF value.status = seen.status THEN @.status ELSE value.status,
                 section |-> IF value.section = seen.section THEN @.section ELSE value.section,
                 movable |-> IF value.movable = seen.movable THEN @.movable ELSE value.movable]]
    /\ Counted /\ Answered(h)
    /\ UNCHANGED <<section, group, groupWaiters, assigned, responsible, service>>

\* Only administratively ACTIVE, movable, unserved and ungrouped Tables are available.
Available(t, place) ==
    /\ profile[t].status = "ACTIVE"
    /\ profile[t].movable /\ place.movable /\ place.status = "ACTIVE"
    /\ t \notin Served /\ t \notin Grouped

MoveSection(h, t, destination) ==
    /\ Reading(h)
    /\ hostView[h].section[destination].status = "ACTIVE"
    /\ Available(t, hostView[h].section[profile[t].section])
    /\ profile' = [profile EXCEPT ![t].section = destination]
    /\ Counted /\ Answered(h)
    /\ UNCHANGED <<section, group, groupWaiters, assigned, responsible, service>>

TransitionAdministrativeStatus(t, target) ==
    /\ target \in Transitions[profile[t].status]
    /\ t \notin Served /\ t \notin Grouped
    /\ profile' = [profile EXCEPT ![t].status = target]
    /\ Counted
    /\ UNCHANGED <<section, group, groupWaiters, assigned, responsible, service, hostView>>

(***************************************************************************)
(* Table groups.                                                           *)
(***************************************************************************)
\* The waiters a group may name: its only waiter, or a nonempty choice among several.
Responsible(among, requested) ==
    IF Cardinality(among) = 1 THEN requested \in {{}, among} ELSE requested # {} /\ requested \subseteq among

CreateGroup(h, t, joined, requested) ==
    LET members == joined \cup {t}
        among == UNION {hostView[h].assigned[m] : m \in members}
    IN  /\ Reading(h)
        /\ joined # {} /\ t \notin joined
        /\ \A m \in members : Available(m, section[profile[m].section])
        /\ among # {} /\ Responsible(among, requested)
        /\ group' = [group EXCEPT ![t] = members]
        /\ groupWaiters' = [groupWaiters EXCEPT ![t] = IF Cardinality(among) = 1 THEN among ELSE requested]
        /\ Counted /\ Answered(h)
        /\ UNCHANGED <<profile, section, assigned, responsible, service>>

\* Mutant: a group in service may be changed.
LockedGroupAnyway(t) == group[t] # {}

LockedGroup(t) == group[t] # {} /\ t \notin Served

AddTable(t, added) ==
    /\ LockedGroup(t)
    /\ Available(added, section[profile[added].section])
    /\ group' = [group EXCEPT ![t] = @ \cup {added}]
    /\ Counted
    /\ UNCHANGED <<profile, section, groupWaiters, assigned, responsible, service, hostView>>

RemoveTable(t, removed) ==
    /\ LockedGroup(t)
    /\ removed \in group[t] \ {t}
    /\ Cardinality(group[t]) > 2
    /\ group' = [group EXCEPT ![t] = @ \ {removed}]
    /\ Counted
    /\ UNCHANGED <<profile, section, groupWaiters, assigned, responsible, service, hostView>>

Closed(t) == /\ group' = [group EXCEPT ![t] = {}]
             /\ groupWaiters' = [groupWaiters EXCEPT ![t] = {}]

DissolveGroup(t) ==
    /\ LockedGroup(t)
    /\ Closed(t)
    /\ Counted
    /\ UNCHANGED <<profile, section, assigned, responsible, service, hostView>>

(***************************************************************************)
(* Waiter assignments.                                                     *)
(***************************************************************************)
AssignWaiter(t, w) ==
    /\ w \notin assigned[t]
    /\ assigned' = [assigned EXCEPT ![t] = @ \cup {w}]
    /\ responsible' = [responsible EXCEPT ![t] = IF assigned[t] = {} THEN {w} ELSE @]
    /\ Counted
    /\ UNCHANGED <<profile, section, group, groupWaiters, service, hostView>>

\* _assert_invariants and the request's own choice.
UpdateResponsibleWaiters(t, chosen) ==
    /\ chosen # {} /\ chosen \subseteq assigned[t]
    /\ responsible' = [responsible EXCEPT ![t] = chosen]
    /\ Counted
    /\ UNCHANGED <<profile, section, group, groupWaiters, assigned, service, hostView>>

NotResponsibleForOpenService(t, w) == \A i \in OpenOn(t) : w \notin service[i].waiters

\* Who is responsible once w has left: those who remain, the only one left, or the replacements.
Successors(t, w, replacements) ==
    LET remaining == assigned[t] \ {w}
        kept == responsible[t] \ {w}
    IN  IF kept # {} THEN kept ELSE IF Cardinality(remaining) = 1 THEN remaining ELSE replacements

UnassignWaiter(t, w, replacements) ==
    LET remaining == assigned[t] \ {w} IN
    /\ w \in assigned[t] /\ remaining # {}
    /\ NotResponsibleForOpenService(t, w)
    /\ replacements \subseteq remaining
    /\ responsible[t] \ {w} # {} => replacements = {}
    /\ Successors(t, w, replacements) # {}
    /\ assigned' = [assigned EXCEPT ![t] = remaining]
    /\ responsible' = [responsible EXCEPT ![t] = Successors(t, w, replacements)]
    /\ Counted
    /\ UNCHANGED <<profile, section, group, groupWaiters, service, hostView>>

(***************************************************************************)
(* Service sessions and their responsible waiters.                         *)
(***************************************************************************)
\* The Table's status and its group membership come from the snapshot; that no session is open
\* is read from the snapshot too, and then enforced by the unique open slot.
CanOpenService(h, t) ==
    /\ hostView[h].profile[t].status = "ACTIVE"
    /\ t \in SeenGrouped(h) => hostView[h].group[t] # {}

\* Mutant: nothing but the snapshot keeps a second service out.
OpenSlotUnseen(t) == TRUE
OpenSlotFree(t) == t \notin Served
OpenSlot(h, t) == t \notin hostView[h].served /\ OpenSlotFree(t)

OpenServiceSession(h, t) ==
    /\ Reading(h)
    /\ Len(service) < MaxServices
    /\ OpenSlot(h, t)
    /\ CanOpenService(h, t)
    /\ responsible[t] # {}
    /\ service' = Append(service, [table |-> t, open |-> TRUE, waiters |-> responsible[t], log |-> <<responsible[t]>>])
    /\ Answered(h)
    /\ UNCHANGED <<profile, section, group, groupWaiters, assigned, responsible, changes>>

\* The route holds the session object it loaded before the lock, so the status it tests is the
\* snapshot's; assignment and current rows are locked.
ReplaceServiceResponsibility(h, i, chosen) ==
    /\ Reading(h)
    /\ i \in hostView[h].open
    /\ service[i].waiters = service[i].log[Len(service[i].log)]
    /\ chosen # {}
    /\ chosen \subseteq assigned[service[i].table]
    /\ service' = [service EXCEPT ![i] = [@ EXCEPT !.waiters = chosen, !.log = Append(service[i].log, chosen)]]
    /\ Counted /\ Answered(h)
    /\ UNCHANGED <<profile, section, group, groupWaiters, assigned, responsible>>

\* The financial conditions of a closure are those of module DinerChecks.
CloseServiceSession(i) ==
    /\ service[i].open
    /\ service' = [service EXCEPT ![i].open = FALSE]
    /\ Closed(service[i].table)
    /\ UNCHANGED <<profile, section, assigned, responsible, changes, hostView>>

\* A change of the floor is counted; opening and closing a service is not.
ConfigurationNext ==
    \/ \E t \in Tables, st \in Statuses : TransitionAdministrativeStatus(t, st)
    \/ \E t, u \in Tables : AddTable(t, u) \/ RemoveTable(t, u)
    \/ \E t \in Tables : DissolveGroup(t)
    \/ \E t \in Tables, w \in Waiters : AssignWaiter(t, w)
    \/ \E t \in Tables, ws \in SUBSET Waiters : UpdateResponsibleWaiters(t, ws)
    \/ \E t \in Tables, w \in Waiters, ws \in SUBSET Waiters : UnassignWaiter(t, w, ws)

RequestNext(h) ==
    \/ \E s \in Sections, m \in BOOLEAN, st \in {"ACTIVE", "INACTIVE"} :
          ProvisionDiningSection(h, s, [movable |-> m, status |-> st])
    \/ \E t \in Tables, s \in Sections :
          \/ MoveSection(h, t, s)
          \/ \E m \in BOOLEAN, st \in Statuses :
                ProvisionTableProfile(h, t, [status |-> st, section |-> s, movable |-> m])
    \/ \E ws \in SUBSET Waiters :
          \/ \E t \in Tables, joined \in SUBSET Tables : CreateGroup(h, t, joined, ws)
          \/ \E i \in DOMAIN service : ReplaceServiceResponsibility(h, i, ws)

FloorNext ==
    \/ \E h \in Hosts : Authenticate(h)
    \/ changes < MaxChanges /\ ConfigurationNext
    \/ \E h \in Hosts : changes < MaxChanges /\ Reading(h) /\ RequestNext(h)
    \/ \E h \in Hosts, t \in Tables : OpenServiceSession(h, t)
    \/ \E i \in DOMAIN service : CloseServiceSession(i)

-----------------------------------------------------------------------------
(***************************************************************************)
(* Properties.                                                             *)
(***************************************************************************)
\* The shape of the floor: every open slot is held once, and a configured Table keeps a
\* responsible waiter among those assigned to it (_assert_invariants).
FloorTypeOK ==
    /\ profile \in [Tables -> TableProfile] /\ section \in [Sections -> DiningSection]
    /\ group \in [Tables -> TableGroupMembership] /\ groupWaiters \in [Tables -> TableWaiterAssignment]
    /\ assigned \in [Tables -> TableWaiterAssignment] /\ responsible \in [Tables -> TableWaiterAssignment]
    /\ \A t \in Tables : responsible[t] \subseteq assigned[t] /\ (assigned[t] # {} => responsible[t] # {})
    /\ service \in Seq(ServiceSession)
    /\ changes \in 0 .. MaxChanges

\* However two hosts race, a Table has at most one OPEN service session: the second of two
\* requests that both saw it free is stopped by the unique open slot.
OneOpenServicePerTable == \A t \in Tables : Cardinality(OpenOn(t)) <= 1

\* ACTIVE groups are disjoint, have their representative and a second Table among their
\* members, and every member stays administratively ACTIVE while it is grouped.
GroupsAreSound ==
    \A t \in Tables : group[t] # {} =>
        /\ t \in group[t] /\ Cardinality(group[t]) >= 2
        /\ \A u \in Tables \ {t} : group[u] \cap group[t] = {}
        /\ \A m \in group[t] : profile[m].status = "ACTIVE"

\* A waiter responsible for an OPEN service stays assigned to its Table, and the responsible
\* rows of a service are those its latest transition recorded.
ServiceKeepsItsWaiters ==
    \A i \in DOMAIN service :
        /\ service[i].waiters = service[i].log[Len(service[i].log)]
        /\ service[i].open => service[i].waiters \subseteq assigned[service[i].table]

\* The floor as a whole, however requests race on what they saw: one open service per Table,
\* disjoint groups of active Tables, and services whose waiters stay assigned.
FloorIsSound == FloorTypeOK /\ OneOpenServicePerTable /\ GroupsAreSound /\ ServiceKeepsItsWaiters

\* While one service of its representative stays OPEN, a group keeps its Tables and waiters.
ServedGroupStands ==
    [][\A i \in DOMAIN service : service[i].open /\ service'[i].open =>
         LET t == service[i].table IN group[t] # {} => group'[t] = group[t] /\ groupWaiters'[t] = groupWaiters[t]]_floorVars

\* The inductive invariant: FloorIsSound, the snapshots of the requests, and the open slots
\* said of the services themselves.
SlotsHeldOnce ==
    \A i, j \in DOMAIN service :
        service[i].open /\ service[j].open /\ service[i].table = service[j].table => i = j

FloorInv ==
    /\ FloorTypeOK /\ hostView \in [Hosts -> FloorSnapshot \cup {NoSnapshot}]
    /\ SlotsHeldOnce /\ GroupsAreSound /\ ServiceKeepsItsWaiters

FloorSpec == FloorInit /\ [][FloorNext]_floorVars
=============================================================================
