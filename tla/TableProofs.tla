----------------------------- MODULE TableProofs -----------------------------
(***************************************************************************)
(* TableFloor and DinerChecks for any number of tables, waiters, diners,   *)
(* orders and checks, and of requests that decide on what they saw.        *)
(***************************************************************************)
EXTENDS TableFloor, DinerChecks, FiniteSetTheorems, TLAPS

-----------------------------------------------------------------------------
(* The floor: every step is one of these.                                  *)

LEMMA FloorCases ==
    ASSUME [FloorNext]_floorVars
    PROVE  \/ UNCHANGED floorVars
           \/ \E h \in Hosts : Authenticate(h)
           \/ \E t \in Tables, st \in Statuses : TransitionAdministrativeStatus(t, st)
           \/ \E t \in Tables, u \in Tables : AddTable(t, u) \/ RemoveTable(t, u)
           \/ \E t \in Tables : DissolveGroup(t)
           \/ \E t \in Tables, w \in Waiters : AssignWaiter(t, w)
           \/ \E t \in Tables, ws \in SUBSET Waiters : UpdateResponsibleWaiters(t, ws)
           \/ \E t \in Tables, w \in Waiters, ws \in SUBSET Waiters : UnassignWaiter(t, w, ws)
           \/ \E h \in Hosts, s \in Sections, v \in DiningSection : ProvisionDiningSection(h, s, v)
           \/ \E h \in Hosts, t \in Tables, s \in Sections : MoveSection(h, t, s)
           \/ \E h \in Hosts, t \in Tables, v \in TableProfile : ProvisionTableProfile(h, t, v)
           \/ \E h \in Hosts, t \in Tables, joined \in SUBSET Tables, ws \in SUBSET Waiters : CreateGroup(h, t, joined, ws)
           \/ \E h \in Hosts, i \in DOMAIN service, ws \in SUBSET Waiters : ReplaceServiceResponsibility(h, i, ws)
           \/ \E h \in Hosts, t \in Tables : OpenServiceSession(h, t)
           \/ \E i \in DOMAIN service : CloseServiceSession(i)
<1>1. \A m \in BOOLEAN, st \in {"ACTIVE", "INACTIVE"} : [movable |-> m, status |-> st] \in DiningSection
  BY DEF DiningSection
<1>2. \A st \in Statuses, s \in Sections, m \in BOOLEAN : [status |-> st, section |-> s, movable |-> m] \in TableProfile
  BY DEF TableProfile
<1>3. ASSUME NEW h \in Hosts, RequestNext(h)
      PROVE  \/ \E s \in Sections, v \in DiningSection : ProvisionDiningSection(h, s, v)
             \/ \E t \in Tables, s \in Sections : MoveSection(h, t, s)
             \/ \E t \in Tables, v \in TableProfile : ProvisionTableProfile(h, t, v)
             \/ \E t \in Tables, joined \in SUBSET Tables, ws \in SUBSET Waiters : CreateGroup(h, t, joined, ws)
             \/ \E i \in DOMAIN service, ws \in SUBSET Waiters : ReplaceServiceResponsibility(h, i, ws)
  BY <1>1, <1>2, <1>3, Zenon DEF RequestNext
<1>4. QED
  BY <1>3, Zenon DEF FloorNext, ConfigurationNext

\* The steps that leave the groups and the status of every table.
GroupsLeft ==
    /\ UNCHANGED group
    /\ \A t \in Grouped : profile'[t].status = profile[t].status

\* Groups stay sound as long as they and their tables' status stay.
LEMMA GroupsKept ==
    ASSUME FloorTypeOK, GroupsAreSound, GroupsLeft
    PROVE  GroupsAreSound'
<1>1. ASSUME NEW t \in Tables, NEW m \in group[t] PROVE m \in Grouped
  BY DEF Grouped
<1>2. QED
  BY <1>1 DEF GroupsAreSound, GroupsLeft

\* A representative belongs to its group.
LEMMA RepresentativeGrouped ==
    ASSUME GroupsAreSound, NEW t \in Tables, group[t] # {}
    PROVE  t \in Grouped
  BY DEF GroupsAreSound, Grouped

\* A group t whose members change to ms: its own tables, and tables of no group.
LEMMA GroupChanged ==
    ASSUME FloorTypeOK, GroupsAreSound, NEW t \in Tables, NEW ms \in SUBSET Tables,
           group' = [group EXCEPT ![t] = ms], UNCHANGED profile,
           t \in ms, Cardinality(ms) >= 2,
           \A m \in ms : m \in group[t] \/ (m \notin Grouped /\ profile[m].status = "ACTIVE")
    PROVE  GroupsAreSound'
<1>1. group \in [Tables -> SUBSET Tables] /\ group'[t] = ms /\ \A u \in Tables : u # t => group'[u] = group[u]
  BY DEF FloorTypeOK, TableGroupMembership
<1>2. ASSUME NEW u \in Tables, u # t PROVE group[u] \cap ms = {}
  <2>1. ASSUME NEW m \in ms, m \in group[u] PROVE FALSE
    <3>1. m \in Grouped
      BY <2>1 DEF Grouped
    <3>2. m \in group[t]
      BY <2>1, <3>1
    <3>3. QED
      BY <1>2, <2>1, <3>2 DEF GroupsAreSound
  <2>2. QED
    BY <2>1
<1>3. ASSUME NEW u \in Tables, group'[u] # {}
      PROVE  /\ u \in group'[u] /\ Cardinality(group'[u]) >= 2
             /\ \A v \in Tables \ {u} : group'[v] \cap group'[u] = {}
             /\ \A m \in group'[u] : profile'[m].status = "ACTIVE"
  <2>1. CASE u = t
    <3>1. \A m \in ms : profile[m].status = "ACTIVE"
      BY DEF GroupsAreSound
    <3>2. \A v \in Tables \ {t} : group'[v] \cap ms = {}
      BY <1>1, <1>2
    <3>3. QED
      BY <1>1, <2>1, <3>1, <3>2
  <2>2. CASE u # t
    <3>1. group'[u] = group[u]
      BY <1>1, <2>2
    <3>2. /\ u \in group[u] /\ Cardinality(group[u]) >= 2
          /\ \A v \in Tables \ {u} : group[v] \cap group[u] = {}
          /\ \A m \in group[u] : profile[m].status = "ACTIVE"
      BY <1>3, <3>1 DEF GroupsAreSound
    <3>3. ASSUME NEW v \in Tables \ {u} PROVE group'[v] \cap group[u] = {}
      BY <1>1, <1>2, <2>2, <3>2
    <3>4. QED
      BY <3>1, <3>2, <3>3
  <2>3. QED
    BY <2>1, <2>2
<1>4. QED
  BY <1>3 DEF GroupsAreSound

\* A group is closed, if there is one.
LEMMA GroupClosed ==
    ASSUME FloorTypeOK, GroupsAreSound, NEW t \in Tables, Closed(t), UNCHANGED profile
    PROVE  GroupsAreSound'
<1>1. group \in [Tables -> SUBSET Tables] /\ group'[t] = {} /\ \A u \in Tables : u # t => group'[u] = group[u]
  BY DEF FloorTypeOK, TableGroupMembership, Closed
<1>2. QED
  BY <1>1 DEF GroupsAreSound

\* However it is changed, the floor's groups stay sound, and the group of a served
\* representative changes only when that service closes.
LEMMA GroupsNext ==
    ASSUME FloorInv, [FloorNext]_floorVars
    PROVE  /\ GroupsAreSound'
           /\ \A t \in Tables : group[t] # {} =>
                 \/ group'[t] = group[t] /\ groupWaiters'[t] = groupWaiters[t]
                 \/ t \notin Served
                 \/ \E i \in OpenOn(t) : service'[i].open = FALSE
<1> DEFINE Stays(t) == \/ group'[t] = group[t] /\ groupWaiters'[t] = groupWaiters[t]
                       \/ t \notin Served
                       \/ \E i \in OpenOn(t) : service'[i].open = FALSE
           Target == GroupsAreSound' /\ \A t \in Tables : group[t] # {} => Stays(t)
<1>1. /\ FloorTypeOK /\ GroupsAreSound
      /\ group \in [Tables -> SUBSET Tables] /\ groupWaiters \in [Tables -> SUBSET Waiters]
      /\ profile \in [Tables -> TableProfile] /\ service \in Seq(ServiceSession)
  BY DEF FloorInv, FloorTypeOK, TableGroupMembership, TableWaiterAssignment
<1>2. CASE GroupsLeft /\ UNCHANGED groupWaiters
  BY <1>1, <1>2, GroupsKept DEF GroupsLeft
<1>3. CASE UNCHANGED <<profile, group, groupWaiters>>
  BY <1>2, <1>3 DEF GroupsLeft
<1>4. CASE \/ UNCHANGED floorVars \/ \E h \in Hosts : Authenticate(h)
           \/ \E t \in Tables, w \in Waiters : AssignWaiter(t, w)
           \/ \E t \in Tables, ws \in SUBSET Waiters : UpdateResponsibleWaiters(t, ws)
           \/ \E t \in Tables, w \in Waiters, ws \in SUBSET Waiters : UnassignWaiter(t, w, ws)
           \/ \E h \in Hosts, s \in Sections, v \in DiningSection : ProvisionDiningSection(h, s, v)
           \/ \E h \in Hosts, i \in DOMAIN service, ws \in SUBSET Waiters : ReplaceServiceResponsibility(h, i, ws)
           \/ \E h \in Hosts, t \in Tables : OpenServiceSession(h, t)
  <2>1. UNCHANGED <<profile, group, groupWaiters>>
    BY <1>4, Zenon DEF floorVars, Authenticate, AssignWaiter, UpdateResponsibleWaiters, UnassignWaiter,
                       ProvisionDiningSection, ReplaceServiceResponsibility, OpenServiceSession
  <2>2. QED
    BY <1>3, <2>1
<1>5. ASSUME NEW t \in Tables, t \notin Grouped, UNCHANGED <<group, groupWaiters>>,
             NEW v, profile' = [profile EXCEPT ![t] = v]
      PROVE  Target
  <2>1. \A u \in Tables : u # t => profile'[u] = profile[u]
    BY <1>1, <1>5
  <2>2. Grouped \subseteq Tables
    BY <1>1 DEF Grouped
  <2>3. QED
    BY <1>2, <1>5, <2>1, <2>2 DEF GroupsLeft
<1>6. ASSUME NEW t \in Tables, NEW st \in Statuses, TransitionAdministrativeStatus(t, st) PROVE Target
  BY <1>5, <1>6 DEF TransitionAdministrativeStatus
<1>7. ASSUME NEW h \in Hosts, NEW t \in Tables, NEW s \in Sections, MoveSection(h, t, s) PROVE Target
  BY <1>5, <1>7 DEF MoveSection, Available
<1>8. ASSUME NEW h \in Hosts, NEW t \in Tables, NEW v \in TableProfile, ProvisionTableProfile(h, t, v) PROVE Target
  BY <1>5, <1>8 DEF ProvisionTableProfile
<1>9. ASSUME NEW h \in Hosts, NEW t \in Tables, NEW joined \in SUBSET Tables, NEW ws \in SUBSET Waiters,
             CreateGroup(h, t, joined, ws)
      PROVE  Target
  <2> DEFINE ms == joined \cup {t}
  <2>1. /\ joined # {} /\ t \notin joined /\ UNCHANGED profile /\ group' = [group EXCEPT ![t] = ms]
        /\ \A m \in ms : m \notin Grouped /\ profile[m].status = "ACTIVE"
    BY <1>9 DEF CreateGroup, Available
  <2>2. groupWaiters'= [groupWaiters EXCEPT ![t] = groupWaiters'[t]]
    BY <1>1, <1>9 DEF CreateGroup
  <2>3. Cardinality(ms) >= 2
    <3>1. PICK j \in joined : TRUE
      BY <2>1
    <3>2. IsFiniteSet(joined) /\ Cardinality(ms) = Cardinality(joined) + 1
      BY <2>1, FS_Subset, FS_AddElement, FloorConstants
    <3>3. Cardinality(joined) \in Nat /\ Cardinality(joined) # 0
      BY <3>1, <3>2, FS_CardinalityType, FS_EmptySet
    <3>4. QED
      BY <3>2, <3>3
  <2>4. GroupsAreSound'
    <3>1. /\ ms \in SUBSET Tables /\ t \in ms /\ UNCHANGED profile /\ group' = [group EXCEPT ![t] = ms]
          /\ \A m \in ms : m \in group[t] \/ (m \notin Grouped /\ profile[m].status = "ACTIVE")
      BY <2>1
    <3> HIDE DEF ms
    <3>2. QED
      BY <1>1, <2>3, <3>1, GroupChanged
  <2>5. group[t] = {}
    BY <1>1, <2>1, RepresentativeGrouped
  <2>6. \A u \in Tables : u # t => group'[u] = group[u] /\ groupWaiters'[u] = groupWaiters[u]
    BY <1>1, <2>1, <2>2
  <2>7. QED
    BY <2>4, <2>5, <2>6
<1>10. ASSUME NEW t \in Tables, NEW u \in Tables, AddTable(t, u) PROVE Target
  <2> DEFINE ms == group[t] \cup {u}
  <2>1. /\ group[t] # {} /\ t \notin Served /\ UNCHANGED <<profile, groupWaiters>> /\ group' = [group EXCEPT ![t] = ms]
        /\ u \notin Grouped /\ profile[u].status = "ACTIVE"
    BY <1>10 DEF AddTable, LockedGroup, Available
  <2>2. t \in group[t] /\ Cardinality(group[t]) >= 2 /\ ms \in SUBSET Tables
    BY <1>1, <2>1 DEF GroupsAreSound
  <2>3. u \notin group[t]
    BY <2>1 DEF Grouped
  <2>4. Cardinality(ms) = Cardinality(group[t]) + 1 /\ Cardinality(group[t]) \in Nat
    BY <1>1, <2>3, FS_Subset, FS_AddElement, FS_CardinalityType, FloorConstants
  <2>5. GroupsAreSound'
    <3>1. /\ ms \in SUBSET Tables /\ t \in ms /\ UNCHANGED profile /\ group' = [group EXCEPT ![t] = ms]
          /\ \A m \in ms : m \in group[t] \/ (m \notin Grouped /\ profile[m].status = "ACTIVE")
          /\ Cardinality(ms) >= 2
      BY <2>1, <2>2, <2>4
    <3> HIDE DEF ms
    <3>2. QED
      BY <1>1, <3>1, GroupChanged
  <2>6. \A v \in Tables : v # t => group'[v] = group[v]
    BY <1>1, <2>1
  <2>7. QED
    BY <2>1, <2>5, <2>6
<1>11. ASSUME NEW t \in Tables, NEW u \in Tables, RemoveTable(t, u) PROVE Target
  <2> DEFINE ms == group[t] \ {u}
  <2>1. /\ group[t] # {} /\ t \notin Served /\ UNCHANGED <<profile, groupWaiters>> /\ group' = [group EXCEPT ![t] = ms]
        /\ u \in group[t] \ {t} /\ Cardinality(group[t]) > 2
    BY <1>11 DEF RemoveTable, LockedGroup
  <2>2. t \in ms /\ ms \in SUBSET Tables
    BY <1>1, <2>1 DEF GroupsAreSound
  <2>3. Cardinality(ms) = Cardinality(group[t]) - 1 /\ Cardinality(group[t]) \in Nat
    BY <1>1, <2>1, FS_Subset, FS_RemoveElement, FS_CardinalityType, FloorConstants
  <2>4. GroupsAreSound'
    <3>1. /\ ms \in SUBSET Tables /\ t \in ms /\ UNCHANGED profile /\ group' = [group EXCEPT ![t] = ms]
          /\ \A m \in ms : m \in group[t] \/ (m \notin Grouped /\ profile[m].status = "ACTIVE")
          /\ Cardinality(ms) >= 2
      BY <2>1, <2>2, <2>3
    <3> HIDE DEF ms
    <3>2. QED
      BY <1>1, <3>1, GroupChanged
  <2>5. \A v \in Tables : v # t => group'[v] = group[v]
    BY <1>1, <2>1
  <2>6. QED
    BY <2>1, <2>4, <2>5
<1>12. ASSUME NEW t \in Tables, Closed(t), UNCHANGED profile, Stays(t) PROVE Target
  <2>1. \A u \in Tables : u # t => group'[u] = group[u] /\ groupWaiters'[u] = groupWaiters[u]
    BY <1>1, <1>12 DEF Closed
  <2>2. GroupsAreSound'
    BY <1>1, <1>12, GroupClosed
  <2>3. QED
    BY <1>12, <2>1, <2>2
<1>13. ASSUME NEW t \in Tables, DissolveGroup(t) PROVE Target
  <2>1. Closed(t) /\ UNCHANGED profile /\ t \notin Served
    BY <1>13 DEF DissolveGroup, LockedGroup
  <2>2. QED
    BY <1>12, <2>1
<1>14. ASSUME NEW i \in DOMAIN service, CloseServiceSession(i) PROVE Target
  <2>1. /\ service[i].open /\ Closed(service[i].table) /\ UNCHANGED profile
        /\ service' = [service EXCEPT ![i].open = FALSE]
    BY <1>14 DEF CloseServiceSession
  <2>2. service[i] \in ServiceSession
    BY <1>1
  <2>3. service[i].table \in Tables
    BY <2>2 DEF ServiceSession
  <2>4. i \in OpenOn(service[i].table) /\ service'[i].open = FALSE
    BY <1>1, <2>1, <2>2 DEF OpenOn, ServiceSession
  <2>5. QED
    BY <1>12, <2>1, <2>3, <2>4
<1>15. Target
  BY <1>4, <1>6, <1>7, <1>8, <1>9, <1>10, <1>11, <1>13, <1>14, FloorCases
<1>16. QED
  BY <1>15

\* A service is open once per table, and its waiters stay assigned, whoever else leaves.
ServicesSound == service \in Seq(ServiceSession) /\ SlotsHeldOnce /\ ServiceKeepsItsWaiters

\* Waiters come and go, but none who is responsible for an open service.
LEMMA ServicesKept ==
    ASSUME FloorTypeOK, ServicesSound, UNCHANGED service,
           \A i \in DOMAIN service : service[i].open =>
               \A w \in service[i].waiters : w \in assigned[service[i].table] => w \in assigned'[service[i].table]
    PROVE  ServicesSound'
  BY DEF ServicesSound, SlotsHeldOnce, ServiceKeepsItsWaiters

\* Service i becomes x: its waiters as its last transition recorded them, assigned if it is open.
LEMMA ServiceChanged ==
    ASSUME FloorTypeOK, ServicesSound, UNCHANGED assigned,
           NEW i \in DOMAIN service, NEW x \in ServiceSession, service' = [service EXCEPT ![i] = x],
           x.table = service[i].table, x.open => service[i].open,
           x.waiters = x.log[Len(x.log)], x.waiters \subseteq assigned[x.table] \/ ~x.open
    PROVE  ServicesSound'
<1>1. service \in Seq(ServiceSession) /\ SlotsHeldOnce /\ ServiceKeepsItsWaiters
  BY DEF ServicesSound
<1>2. /\ service' \in Seq(ServiceSession) /\ DOMAIN service' = DOMAIN service /\ service'[i] = x
      /\ \A j \in DOMAIN service : j # i => service'[j] = service[j]
  BY <1>1
<1>3. SlotsHeldOnce'
  BY <1>1, <1>2 DEF SlotsHeldOnce
<1>4. ServiceKeepsItsWaiters'
  BY <1>1, <1>2 DEF ServiceKeepsItsWaiters
<1>5. QED
  BY <1>2, <1>3, <1>4 DEF ServicesSound

\* A service is opened in a free slot, for the waiters responsible for its table.
LEMMA ServiceOpened ==
    ASSUME FloorTypeOK, ServicesSound, UNCHANGED assigned, NEW x \in ServiceSession,
           service' = Append(service, x), x.table \notin Served,
           x.waiters = x.log[Len(x.log)], x.waiters \subseteq assigned[x.table]
    PROVE  ServicesSound'
<1> DEFINE k == Len(service) + 1
<1>1. service \in Seq(ServiceSession) /\ SlotsHeldOnce /\ ServiceKeepsItsWaiters
  BY DEF ServicesSound
<1>2. /\ service' \in Seq(ServiceSession) /\ DOMAIN service' = DOMAIN service \cup {k} /\ service'[k] = x
      /\ \A j \in DOMAIN service : service'[j] = service[j]
  BY <1>1
<1>3. \A j \in DOMAIN service : ~(service[j].open /\ service[j].table = x.table)
  BY DEF Served, OpenOn, ServiceSession
<1> HIDE DEF k
<1>4. SlotsHeldOnce'
  <2> SUFFICES ASSUME NEW i \in DOMAIN service', NEW j \in DOMAIN service',
                      service'[i].open, service'[j].open, service'[i].table = service'[j].table
               PROVE  i = j
    BY DEF SlotsHeldOnce
  <2>1. i \in DOMAIN service \/ i = k
    BY <1>2
  <2>2. j \in DOMAIN service \/ j = k
    BY <1>2
  <2>3. QED
    BY <1>1, <1>2, <1>3, <2>1, <2>2 DEF SlotsHeldOnce
<1>5. ServiceKeepsItsWaiters'
  BY <1>1, <1>2 DEF ServiceKeepsItsWaiters
<1>6. QED
  BY <1>2, <1>4, <1>5 DEF ServicesSound

\* Whoever races, the services stay sound.
LEMMA ServicesNext ==
    ASSUME FloorInv, [FloorNext]_floorVars
    PROVE  ServicesSound'
<1>1. /\ FloorTypeOK /\ ServicesSound /\ service \in Seq(ServiceSession)
      /\ assigned \in [Tables -> SUBSET Waiters] /\ responsible \in [Tables -> SUBSET Waiters]
      /\ \A t \in Tables : responsible[t] \subseteq assigned[t]
  BY DEF FloorInv, FloorTypeOK, ServicesSound, TableWaiterAssignment
<1>2. \A i \in DOMAIN service : service[i] \in ServiceSession /\ service[i].table \in Tables
  <2>1. \A i \in DOMAIN service : service[i] \in ServiceSession
    BY <1>1
  <2>2. QED
    BY <2>1 DEF ServiceSession
<1>3. CASE UNCHANGED <<service, assigned>>
  BY <1>1, <1>3, ServicesKept
<1>4. CASE \/ UNCHANGED floorVars \/ \E h \in Hosts : Authenticate(h)
           \/ \E t \in Tables, st \in Statuses : TransitionAdministrativeStatus(t, st)
           \/ \E t \in Tables, u \in Tables : AddTable(t, u) \/ RemoveTable(t, u)
           \/ \E t \in Tables : DissolveGroup(t)
           \/ \E t \in Tables, ws \in SUBSET Waiters : UpdateResponsibleWaiters(t, ws)
           \/ \E h \in Hosts, s \in Sections, v \in DiningSection : ProvisionDiningSection(h, s, v)
           \/ \E h \in Hosts, t \in Tables, s \in Sections : MoveSection(h, t, s)
           \/ \E h \in Hosts, t \in Tables, v \in TableProfile : ProvisionTableProfile(h, t, v)
           \/ \E h \in Hosts, t \in Tables, joined \in SUBSET Tables, ws \in SUBSET Waiters : CreateGroup(h, t, joined, ws)
  <2>1. UNCHANGED <<service, assigned>>
    BY <1>4, Zenon DEF floorVars, Authenticate, TransitionAdministrativeStatus, AddTable, RemoveTable, DissolveGroup,
                       UpdateResponsibleWaiters, ProvisionDiningSection, MoveSection, ProvisionTableProfile, CreateGroup
  <2>2. QED
    BY <1>3, <2>1
<1>5. ASSUME NEW t \in Tables, NEW w \in Waiters, AssignWaiter(t, w) PROVE ServicesSound'
  <2>1. UNCHANGED service /\ assigned' = [assigned EXCEPT ![t] = @ \cup {w}]
    BY <1>5 DEF AssignWaiter
  <2>2. \A u \in Tables : assigned[u] \subseteq assigned'[u]
    BY <1>1, <2>1
  <2>3. QED
    BY <1>1, <1>2, <2>1, <2>2, ServicesKept
<1>6. ASSUME NEW t \in Tables, NEW w \in Waiters, NEW ws \in SUBSET Waiters, UnassignWaiter(t, w, ws)
      PROVE  ServicesSound'
  <2>1. /\ UNCHANGED service /\ assigned' = [assigned EXCEPT ![t] = assigned[t] \ {w}]
        /\ \A i \in OpenOn(t) : w \notin service[i].waiters
    BY <1>6 DEF UnassignWaiter, NotResponsibleForOpenService
  <2>2. /\ \A u \in Tables : u # t => assigned'[u] = assigned[u]
        /\ assigned'[t] = assigned[t] \ {w}
    BY <1>1, <2>1
  <2>3. ASSUME NEW i \in DOMAIN service, service[i].open, NEW v \in service[i].waiters,
               v \in assigned[service[i].table]
        PROVE  v \in assigned'[service[i].table]
    <3>1. CASE service[i].table = t
      BY <2>1, <2>2, <2>3, <3>1 DEF OpenOn
    <3>2. CASE service[i].table # t
      BY <1>2, <2>2, <2>3, <3>2
    <3>3. QED
      BY <3>1, <3>2
  <2>4. QED
    BY <1>1, <2>1, <2>3, ServicesKept
<1>7. ASSUME NEW h \in Hosts, NEW i \in DOMAIN service, NEW ws \in SUBSET Waiters,
             ReplaceServiceResponsibility(h, i, ws)
      PROVE  ServicesSound'
  <2> DEFINE x == [service[i] EXCEPT !.waiters = ws, !.log = Append(service[i].log, ws)]
  <2>1. /\ UNCHANGED assigned /\ service' = [service EXCEPT ![i] = x]
        /\ ws # {} /\ ws \subseteq assigned[service[i].table]
    BY <1>7 DEF ReplaceServiceResponsibility
  <2>2. /\ service[i] \in ServiceSession /\ service[i].log \in Seq(ServiceResponsibilityTransition)
        /\ ws \in ServiceResponsibilityTransition
    <3>1. service[i] \in ServiceSession /\ service[i].log \in Seq(ServiceResponsibilityTransition)
      BY <1>2 DEF ServiceSession
    <3>2. ws \in ServiceResponsibilityTransition
      BY <2>1, Zenon DEF ServiceResponsibilityTransition
    <3>3. QED
      BY <3>1, <3>2
  <2>3. /\ Append(service[i].log, ws) \in Seq(ServiceResponsibilityTransition)
        /\ Append(service[i].log, ws)[Len(Append(service[i].log, ws))] = ws
    BY <2>2
  <2>4. /\ x \in ServiceSession /\ x.table = service[i].table /\ x.open = service[i].open /\ x.waiters = ws
        /\ x.log = Append(service[i].log, ws)
    BY <2>2, <2>3 DEF ServiceSession
  <2>5. x.waiters = x.log[Len(x.log)] /\ x.waiters \subseteq assigned[x.table]
    BY <2>1, <2>3, <2>4, Zenon
  <2> HIDE DEF x
  <2>6. QED
    BY <1>1, <2>1, <2>4, <2>5, ServiceChanged
<1>8. ASSUME NEW h \in Hosts, NEW t \in Tables, OpenServiceSession(h, t) PROVE ServicesSound'
  <2> DEFINE x == [table |-> t, open |-> TRUE, waiters |-> responsible[t], log |-> <<responsible[t]>>]
  <2>1. UNCHANGED assigned /\ service' = Append(service, x) /\ responsible[t] # {} /\ t \notin Served
    BY <1>8 DEF OpenServiceSession, OpenSlot, OpenSlotFree
  <2>2. /\ responsible[t] \in ServiceResponsibilityTransition /\ responsible[t] \in SUBSET Waiters
        /\ responsible[t] \subseteq assigned[t]
    <3>1. responsible[t] \in SUBSET Waiters /\ responsible[t] \subseteq assigned[t]
      BY <1>1
    <3>2. responsible[t] \in ServiceResponsibilityTransition
      BY <2>1, <3>1, Zenon DEF ServiceResponsibilityTransition
    <3>3. QED
      BY <3>1, <3>2
  <2>3. /\ <<responsible[t]>> \in Seq(ServiceResponsibilityTransition)
        /\ <<responsible[t]>>[Len(<<responsible[t]>>)] = responsible[t]
    BY <2>2
  <2>4. x \in ServiceSession /\ x.table = t /\ x.waiters = responsible[t] /\ x.log = <<responsible[t]>>
    BY <2>2, <2>3 DEF ServiceSession
  <2>5. x.waiters = x.log[Len(x.log)] /\ x.waiters \subseteq assigned[x.table] /\ x.table \notin Served
    BY <2>1, <2>2, <2>3, <2>4, Zenon
  <2> HIDE DEF x
  <2>6. QED
    BY <1>1, <2>1, <2>4, <2>5, ServiceOpened
<1>9. ASSUME NEW i \in DOMAIN service, CloseServiceSession(i) PROVE ServicesSound'
  <2> DEFINE x == [service[i] EXCEPT !.open = FALSE]
  <2>1. UNCHANGED assigned /\ service' = [service EXCEPT ![i] = x]
    BY <1>9 DEF CloseServiceSession
  <2>2. service[i] \in ServiceSession /\ service[i].waiters = service[i].log[Len(service[i].log)]
    BY <1>1, <1>2 DEF ServicesSound, ServiceKeepsItsWaiters
  <2>3. /\ x \in ServiceSession /\ x.table = service[i].table /\ x.open = FALSE
        /\ x.waiters = service[i].waiters /\ x.log = service[i].log
    BY <2>2 DEF ServiceSession
  <2> HIDE DEF x
  <2>4. QED
    BY <1>1, <2>1, <2>2, <2>3, ServiceChanged
<1>10. QED
  BY <1>4, <1>5, <1>6, <1>7, <1>8, <1>9, FloorCases

\* Who is assigned to a table, and who of them is responsible: never nobody of somebody.
Staffed ==
    /\ assigned \in [Tables -> SUBSET Waiters] /\ responsible \in [Tables -> SUBSET Waiters]
    /\ \A t \in Tables : responsible[t] \subseteq assigned[t] /\ (assigned[t] # {} => responsible[t] # {})

\* At table t the assigned are now as, and rs the responsible ones.
LEMMA StaffChanged ==
    ASSUME Staffed, NEW t \in Tables, NEW as \in SUBSET Waiters, NEW rs \in SUBSET Waiters,
           assigned' = [assigned EXCEPT ![t] = as], responsible' = [responsible EXCEPT ![t] = rs],
           rs \subseteq as, rs # {}
    PROVE  Staffed'
<1>1. /\ assigned' \in [Tables -> SUBSET Waiters] /\ responsible' \in [Tables -> SUBSET Waiters]
      /\ assigned'[t] = as /\ responsible'[t] = rs
      /\ \A u \in Tables : u # t => assigned'[u] = assigned[u] /\ responsible'[u] = responsible[u]
  BY DEF Staffed
<1>2. ASSUME NEW u \in Tables
      PROVE  responsible'[u] \subseteq assigned'[u] /\ (assigned'[u] # {} => responsible'[u] # {})
  <2>1. CASE u = t
    BY <1>1, <2>1
  <2>2. CASE u # t
    BY <1>1, <2>2 DEF Staffed
  <2>3. QED
    BY <2>1, <2>2
<1>3. QED
  BY <1>1, <1>2 DEF Staffed

\* A table once staffed keeps a responsible waiter.
LEMMA StaffedNext ==
    ASSUME FloorInv, [FloorNext]_floorVars
    PROVE  Staffed'
<1>1. Staffed
  BY DEF FloorInv, FloorTypeOK, Staffed, TableWaiterAssignment
<1>2. CASE UNCHANGED <<assigned, responsible>>
  BY <1>1, <1>2 DEF Staffed
<1>3. CASE \/ UNCHANGED floorVars \/ \E h \in Hosts : Authenticate(h)
           \/ \E t \in Tables, st \in Statuses : TransitionAdministrativeStatus(t, st)
           \/ \E t \in Tables, u \in Tables : AddTable(t, u) \/ RemoveTable(t, u)
           \/ \E t \in Tables : DissolveGroup(t)
           \/ \E h \in Hosts, s \in Sections, v \in DiningSection : ProvisionDiningSection(h, s, v)
           \/ \E h \in Hosts, t \in Tables, s \in Sections : MoveSection(h, t, s)
           \/ \E h \in Hosts, t \in Tables, v \in TableProfile : ProvisionTableProfile(h, t, v)
           \/ \E h \in Hosts, t \in Tables, joined \in SUBSET Tables, ws \in SUBSET Waiters : CreateGroup(h, t, joined, ws)
           \/ \E h \in Hosts, i \in DOMAIN service, ws \in SUBSET Waiters : ReplaceServiceResponsibility(h, i, ws)
           \/ \E h \in Hosts, t \in Tables : OpenServiceSession(h, t)
           \/ \E i \in DOMAIN service : CloseServiceSession(i)
  <2>1. UNCHANGED <<assigned, responsible>>
    BY <1>3, Zenon DEF floorVars, Authenticate, TransitionAdministrativeStatus, AddTable, RemoveTable, DissolveGroup,
                       ProvisionDiningSection, MoveSection, ProvisionTableProfile, CreateGroup,
                       ReplaceServiceResponsibility, OpenServiceSession, CloseServiceSession
  <2>2. QED
    BY <1>2, <2>1
<1>4. ASSUME NEW t \in Tables, NEW w \in Waiters, AssignWaiter(t, w) PROVE Staffed'
  <2> DEFINE as == assigned[t] \cup {w}
             rs == IF assigned[t] = {} THEN {w} ELSE responsible[t]
  <2>1. assigned' = [assigned EXCEPT ![t] = as] /\ responsible' = [responsible EXCEPT ![t] = rs]
    BY <1>4 DEF AssignWaiter
  <2>2. as \in SUBSET Waiters /\ rs \in SUBSET Waiters /\ rs \subseteq as /\ rs # {}
    BY <1>1 DEF Staffed
  <2> HIDE DEF as, rs
  <2>3. QED
    BY <1>1, <2>1, <2>2, StaffChanged
<1>5. ASSUME NEW t \in Tables, NEW ws \in SUBSET Waiters, UpdateResponsibleWaiters(t, ws) PROVE Staffed'
  <2>1. /\ ws # {} /\ ws \subseteq assigned[t] /\ assigned[t] \in SUBSET Waiters
        /\ assigned' = [assigned EXCEPT ![t] = assigned[t]] /\ responsible' = [responsible EXCEPT ![t] = ws]
    BY <1>1, <1>5 DEF UpdateResponsibleWaiters, Staffed
  <2>2. QED
    BY <1>1, <2>1, StaffChanged
<1>6. ASSUME NEW t \in Tables, NEW w \in Waiters, NEW ws \in SUBSET Waiters, UnassignWaiter(t, w, ws)
      PROVE  Staffed'
  <2> DEFINE as == assigned[t] \ {w}
             rs == Successors(t, w, ws)
  <2>1. /\ assigned' = [assigned EXCEPT ![t] = as] /\ responsible' = [responsible EXCEPT ![t] = rs]
        /\ rs # {} /\ ws \subseteq as
    BY <1>6 DEF UnassignWaiter
  <2>2. as \in SUBSET Waiters /\ rs \in SUBSET Waiters /\ rs \subseteq as
    BY <1>1, <2>1 DEF Staffed, Successors
  <2> HIDE DEF as, rs
  <2>3. QED
    BY <1>1, <2>1, <2>2, StaffChanged
<1>7. QED
  BY <1>3, <1>4, <1>5, <1>6, FloorCases

\* The tables, the sections, the groups and the requests.
FloorRows ==
    /\ profile \in [Tables -> TableProfile] /\ section \in [Sections -> DiningSection]
    /\ group \in [Tables -> SUBSET Tables] /\ groupWaiters \in [Tables -> SUBSET Waiters]
    /\ changes \in 0 .. MaxChanges /\ hostView \in [Hosts -> FloorSnapshot \cup {NoSnapshot}]

\* The rows keep their types, whatever a request has seen.
LEMMA FloorRowsNext ==
    ASSUME FloorInv, [FloorNext]_floorVars
    PROVE  FloorRows'
<1>1. FloorRows /\ Staffed /\ service \in Seq(ServiceSession)
  BY DEF FloorInv, FloorTypeOK, FloorRows, Staffed, TableWaiterAssignment, TableGroupMembership
<1>2. /\ \A h \in Hosts : Answered(h) => hostView' \in [Hosts -> FloorSnapshot \cup {NoSnapshot}]
      /\ UNCHANGED changes \/ Counted => changes' \in 0 .. MaxChanges
  BY <1>1, FloorConstants DEF FloorRows, Answered, Counted
<1>3. CASE UNCHANGED floorVars
  BY <1>1, <1>3 DEF FloorRows, floorVars
<1>4. ASSUME NEW h \in Hosts, Authenticate(h) PROVE FloorRows'
  <2> DEFINE x == [taken |-> TRUE, profile |-> profile, section |-> section, group |-> group, served |-> Served,
                   assigned |-> assigned, open |-> {i \in DOMAIN service : service[i].open}]
  <2>1. {i \in DOMAIN service : service[i].open} \in SUBSET Nat /\ Served \in SUBSET Tables
    BY <1>1 DEF Served
  <2>2. x \in FloorSnapshot
    BY <1>1, <2>1 DEF FloorSnapshot, FloorRows, Staffed, TableWaiterAssignment, TableGroupMembership
  <2>3. /\ hostView' = [hostView EXCEPT ![h] = x]
        /\ UNCHANGED <<profile, section, group, groupWaiters, assigned, responsible, service, changes>>
    BY <1>4 DEF Authenticate
  <2> HIDE DEF x
  <2>4. QED
    BY <1>1, <2>2, <2>3 DEF FloorRows
<1>5. ASSUME NEW t \in Tables, NEW st \in Statuses, TransitionAdministrativeStatus(t, st) PROVE FloorRows'
  BY <1>1, <1>2, <1>5 DEF TransitionAdministrativeStatus, FloorRows, TableProfile
<1>6. ASSUME NEW t \in Tables, NEW u \in Tables, AddTable(t, u) \/ RemoveTable(t, u) PROVE FloorRows'
  BY <1>1, <1>2, <1>6 DEF AddTable, RemoveTable, FloorRows
<1>7. ASSUME NEW t \in Tables, DissolveGroup(t) PROVE FloorRows'
  BY <1>1, <1>2, <1>7 DEF DissolveGroup, Closed, FloorRows
<1>8. CASE \/ \E t \in Tables, w \in Waiters : AssignWaiter(t, w)
           \/ \E t \in Tables, ws \in SUBSET Waiters : UpdateResponsibleWaiters(t, ws)
           \/ \E t \in Tables, w \in Waiters, ws \in SUBSET Waiters : UnassignWaiter(t, w, ws)
  <2>1. UNCHANGED <<profile, section, group, groupWaiters, hostView>> /\ Counted
    BY <1>8, Zenon DEF AssignWaiter, UpdateResponsibleWaiters, UnassignWaiter
  <2>2. QED
    BY <1>1, <1>2, <2>1 DEF FloorRows
<1>9. ASSUME NEW h \in Hosts, NEW s \in Sections, NEW v \in DiningSection, ProvisionDiningSection(h, s, v)
      PROVE  FloorRows'
  BY <1>1, <1>2, <1>9 DEF ProvisionDiningSection, FloorRows
<1>10. ASSUME NEW h \in Hosts, NEW t \in Tables, NEW s \in Sections, MoveSection(h, t, s) PROVE FloorRows'
  BY <1>1, <1>2, <1>10 DEF MoveSection, FloorRows, TableProfile
<1>11. ASSUME NEW h \in Hosts, NEW t \in Tables, NEW v \in TableProfile, ProvisionTableProfile(h, t, v)
       PROVE  FloorRows'
  BY <1>1, <1>2, <1>11 DEF ProvisionTableProfile, FloorRows, TableProfile
<1>12. ASSUME NEW h \in Hosts, NEW t \in Tables, NEW joined \in SUBSET Tables, NEW ws \in SUBSET Waiters,
              CreateGroup(h, t, joined, ws)
       PROVE  FloorRows'
  <2> DEFINE ms == joined \cup {t}
             among == UNION {hostView[h].assigned[m] : m \in ms}
             gs == IF Cardinality(among) = 1 THEN among ELSE ws
  <2>1. /\ Reading(h) /\ group' = [group EXCEPT ![t] = ms] /\ groupWaiters' = [groupWaiters EXCEPT ![t] = gs]
        /\ Counted /\ Answered(h) /\ UNCHANGED <<profile, section>>
    BY <1>12 DEF CreateGroup
  <2>2. hostView[h] \in FloorSnapshot
    BY <1>1, <2>1 DEF FloorRows, Reading, NoSnapshot
  <2>3. hostView[h].assigned \in [Tables -> SUBSET Waiters]
    BY <2>2 DEF FloorSnapshot, TableWaiterAssignment
  <2>4. among \in SUBSET Waiters /\ ms \in SUBSET Tables
    BY <2>3
  <2> HIDE DEF among, ms
  <2>5. gs \in SUBSET Waiters
    BY <2>4
  <2> HIDE DEF gs
  <2>6. QED
    BY <1>1, <1>2, <2>1, <2>4, <2>5 DEF FloorRows
<1>13. ASSUME NEW h \in Hosts, NEW i \in DOMAIN service, NEW ws \in SUBSET Waiters,
              ReplaceServiceResponsibility(h, i, ws)
       PROVE  FloorRows'
  BY <1>1, <1>2, <1>13 DEF ReplaceServiceResponsibility, FloorRows
<1>14. ASSUME NEW h \in Hosts, NEW t \in Tables, OpenServiceSession(h, t) PROVE FloorRows'
  BY <1>1, <1>2, <1>14 DEF OpenServiceSession, FloorRows
<1>15. ASSUME NEW i \in DOMAIN service, CloseServiceSession(i) PROVE FloorRows'
  <2>1. service[i].table \in Tables
    <3>1. service[i] \in ServiceSession
      BY <1>1
    <3>2. QED
      BY <3>1 DEF ServiceSession
  <2>2. QED
    BY <1>1, <1>2, <1>15, <2>1 DEF CloseServiceSession, Closed, FloorRows
<1>16. QED
  BY <1>3, <1>4, <1>5, <1>6, <1>7, <1>8, <1>9, <1>10, <1>11, <1>12, <1>13, <1>14, <1>15, FloorCases

\* The parts together are the invariant, before and after a step.
LEMMA FloorPartsNext ==
    ASSUME FloorRows', Staffed', ServicesSound', GroupsAreSound'
    PROVE  FloorInv'
  BY DEF FloorInv, FloorTypeOK, FloorRows, Staffed, ServicesSound, TableWaiterAssignment, TableGroupMembership

\* An empty floor.
LEMMA FloorStarts == FloorInit => FloorInv
<1> SUFFICES ASSUME FloorInit PROVE FloorInv
  OBVIOUS
<1>1. (CHOOSE s \in Sections : TRUE) \in Sections
  BY FloorConstants
<1>2. FloorRows
  BY <1>1, FloorConstants
  DEF FloorInit, FloorRows, TableProfile, DiningSection, Statuses
<1>3. Staffed /\ GroupsAreSound
  BY DEF FloorInit, Staffed, GroupsAreSound
<1>4. ServicesSound
  <2>1. service = <<>>
    BY DEF FloorInit
  <2>2. service \in Seq(ServiceSession) /\ DOMAIN service = {}
    BY <2>1
  <2>3. QED
    BY <2>2 DEF ServicesSound, SlotsHeldOnce, ServiceKeepsItsWaiters
<1>5. QED
  BY <1>2, <1>3, <1>4
  DEF FloorInv, FloorTypeOK, FloorRows, Staffed, ServicesSound, TableWaiterAssignment, TableGroupMembership

\* What the invariant means: a slot held once is a slot with at most one service.
LEMMA FloorMeans == FloorInv => FloorIsSound
<1> SUFFICES ASSUME FloorInv, NEW t \in Tables PROVE Cardinality(OpenOn(t)) <= 1
  BY DEF FloorInv, FloorIsSound, OneOpenServicePerTable
<1>1. \A i, j \in OpenOn(t) : i = j
  BY DEF FloorInv, SlotsHeldOnce, OpenOn
<1>2. CASE OpenOn(t) = {}
  <2>1. Cardinality({}) = 0
    BY FS_EmptySet
  <2>2. QED
    BY <1>2, <2>1
<1>3. CASE OpenOn(t) # {}
  <2>1. PICK i : i \in OpenOn(t)
    BY <1>3
  <2>2. OpenOn(t) = {i}
    BY <1>1, <2>1
  <2>3. Cardinality({i}) = 1
    BY FS_Singleton
  <2>4. QED
    BY <2>2, <2>3
<1>4. QED
  BY <1>2, <1>3

\* FloorInv is an invariant.
THEOREM FloorSafety == FloorSpec => []FloorInv
<1>1. FloorInv /\ [FloorNext]_floorVars => FloorInv'
  BY FloorRowsNext, StaffedNext, ServicesNext, GroupsNext, FloorPartsNext
<1>2. QED
  BY <1>1, FloorStarts, PTL DEF FloorSpec

\* However the requests of hosts race on what they saw: one open service per table, disjoint
\* groups of active tables, and services whose waiters stay assigned.
THEOREM FloorSound == FloorSpec => []FloorIsSound
  BY FloorSafety, FloorMeans, PTL

\* A group whose representative is being served keeps its tables and its waiters.
THEOREM ServedGroupKept == FloorSpec => ServedGroupStands
<1> DEFINE Kept == \A i \in DOMAIN service : service[i].open /\ service'[i].open =>
                     LET t == service[i].table IN
                     group[t] # {} => group'[t] = group[t] /\ groupWaiters'[t] = groupWaiters[t]
<1>1. ASSUME FloorInv, [FloorNext]_floorVars PROVE Kept
  <2> SUFFICES ASSUME NEW i \in DOMAIN service, service[i].open, service'[i].open, NEW t, t = service[i].table, group[t] # {}
               PROVE  group'[t] = group[t] /\ groupWaiters'[t] = groupWaiters[t]
    OBVIOUS
  <2>1. service[i] \in ServiceSession
    BY <1>1 DEF FloorInv, FloorTypeOK
  <2>2. t \in Tables /\ i \in OpenOn(t) /\ t \in Served
    BY <2>1 DEF ServiceSession, OpenOn, Served
  <2>3. \A j \in OpenOn(t) : j = i
    BY <1>1, <2>2 DEF FloorInv, SlotsHeldOnce, OpenOn
  <2>4. QED
    BY <1>1, <2>2, <2>3, GroupsNext
<1>2. FloorInv /\ [FloorNext]_floorVars => [Kept]_floorVars
  BY <1>1
<1>3. QED
  BY <1>2, FloorSafety, PTL DEF FloorSpec, ServedGroupStands

-----------------------------------------------------------------------------
(* The bills.  The invariant by what its parts depend on: who sits where,  *)
(* the orders with their checks, and the checks with who sits where.       *)

SeatsTyped ==
    /\ seating \in [Seatings -> ServiceSeating] /\ seat \in [Diners -> DinerSession]
    /\ draft \in [Diners -> OrderDraft] /\ view \in [Clients -> RequestView \cup {NoView}]

BooksBalance ==
    /\ order \in Seq(Allocation) /\ check \in Seq(Check)
    /\ \A o \in DOMAIN order : order[o].state = "FREE" <=> order[o].check = Free
    /\ \A c \in DOMAIN check : check[c].status # "SETTLED" <=> check[c].decision = "NONE"
    /\ OrdersTellTheirCheck /\ TotalIsOwned

\* The invariant has no other part.
LEMMA ChecksParts == ChecksInv <=> SeatsTyped /\ BooksBalance /\ EndedHavePaid /\ ChecksApart
  BY DEF ChecksInv, ChecksTypeOK, SeatsTyped, BooksBalance

\* The same of the next state.
LEMMA ChecksPartsNext ==
    ASSUME SeatsTyped', BooksBalance', EndedHavePaid', ChecksApart'
    PROVE  ChecksInv'
  BY DEF ChecksInv, ChecksTypeOK, SeatsTyped, BooksBalance

\* What a step may not do to a check that can still be paid, and to a settled order.
Stable ==
    /\ \A c \in DOMAIN check :
          /\ {check[c].status, check'[c].status} \subseteq {"OPEN", "FROZEN"}
          /\ check'[c].version = check[c].version
          => check'[c] = [check[c] EXCEPT !.status = check'[c].status]
    /\ \A o \in DOMAIN order : order[o].state = "SETTLED" => order'[o] = order[o]

\* The same, with the rows that change named: the checks cs, and the orders os.
LEMMA StableIf ==
    ASSUME NEW cs, NEW os,
           \A c \in DOMAIN check : c \notin cs => check'[c] = check[c],
           \A c \in DOMAIN check : check[c] \in Check,
           \A c \in cs : \/ check'[c].version # check[c].version
                         \/ ~({check[c].status, check'[c].status} \subseteq {"OPEN", "FROZEN"})
                         \/ check'[c] = [check[c] EXCEPT !.status = check'[c].status],
           \A o \in DOMAIN order : o \notin os => order'[o] = order[o],
           \A o \in os : order[o].state # "SETTLED"
    PROVE  Stable
<1>1. \A c \in DOMAIN check : c \notin cs => check'[c] = [check[c] EXCEPT !.status = check'[c].status]
  BY DEF Check
<1>2. QED
  BY <1>1 DEF Stable

\* Orders as they were, and checks that only change what no order depends on.
LEMMA BooksKept ==
    ASSUME BooksBalance, UNCHANGED order,
           check' \in Seq(Check), DOMAIN check' = DOMAIN check,
           \A c \in DOMAIN check :
              /\ check'[c].total = check[c].total
              /\ check'[c].status # "SETTLED" <=> check'[c].decision = "NONE"
              /\ \/ check'[c].status = check[c].status
                 \/ {check[c].status, check'[c].status} \subseteq {"OPEN", "FROZEN"}
    PROVE  BooksBalance'
<1>1. OrdersTellTheirCheck'
  BY DEF BooksBalance, OrdersTellTheirCheck
<1>2. TotalIsOwned'
  BY DEF BooksBalance, TotalIsOwned, OwnedBy, Consumption
<1>3. QED
  BY <1>1, <1>2 DEF BooksBalance

\* Check c becomes, or is created as, x; orders move between c and nobody.
LEMMA BooksChanged ==
    ASSUME BooksBalance, NEW c \in Nat \ {0}, NEW x \in Check,
           check' \in Seq(Check), DOMAIN check' = DOMAIN check \cup {c}, check'[c] = x,
           \A e \in DOMAIN check : e # c => check'[e] = check[e],
           x.status # "SETTLED" <=> x.decision = "NONE",
           order' \in Seq(Allocation), DOMAIN order' = DOMAIN order,
           \A o \in DOMAIN order :
              \/ order'[o] = order[o] /\ order[o].check # c
              \/ /\ order[o].check \in {Free, c} /\ order'[o].check \in {Free, c}
                 /\ order'[o].state = "FREE" <=> order'[o].check = Free
                 /\ order'[o].state = "CLAIMED" => x.status \in {"OPEN", "FROZEN"}
                 /\ order'[o].state = "SETTLED" => x.status = "SETTLED",
           x.total = Cardinality({o \in DOMAIN order' : order'[o].check = c})
    PROVE  BooksBalance'
<1>1. /\ \A o \in DOMAIN order : order[o].state = "FREE" <=> order[o].check = Free
      /\ \A e \in DOMAIN check : check[e].status # "SETTLED" <=> check[e].decision = "NONE"
      /\ OrdersTellTheirCheck /\ TotalIsOwned /\ order \in Seq(Allocation)
  BY DEF BooksBalance
<1>2. ASSUME NEW o \in DOMAIN order'
      PROVE  /\ order'[o].state = "FREE" <=> order'[o].check = Free
             /\ order'[o].state # "FREE" =>
                   /\ order'[o].check \in DOMAIN check'
                   /\ check'[order'[o].check].status \in
                         IF order'[o].state = "SETTLED" THEN {"SETTLED"} ELSE {"OPEN", "FROZEN"}
  <2>1. CASE order'[o] = order[o] /\ order[o].check # c
    BY <1>1, <2>1 DEF OrdersTellTheirCheck
  <2>2. CASE ~(order'[o] = order[o] /\ order[o].check # c)
    <3>1. order'[o].state \in {"FREE", "CLAIMED", "SETTLED"}
      <4>1. order'[o] \in Allocation
        OBVIOUS
      <4>2. QED
        BY <4>1 DEF Allocation
    <3>2. QED
      BY <2>2, <3>1
  <2>3. QED
    BY <2>1, <2>2
<1>3. ASSUME NEW e \in DOMAIN check' PROVE check'[e].total = Consumption({o \in DOMAIN order' : order'[o].check = e})
  <2>1. CASE e = c
    BY <2>1 DEF Consumption
  <2>2. CASE e # c
    <3>1. e \in DOMAIN check /\ check'[e] = check[e] /\ e # Free
      BY <2>2 DEF Free, BooksBalance
    <3>2. {o \in DOMAIN order' : order'[o].check = e} = {o \in DOMAIN order : order[o].check = e}
      BY <2>2, <3>1
    <3>3. check[e].total = Consumption({o \in DOMAIN order : order[o].check = e})
      BY <1>1, <3>1 DEF TotalIsOwned, OwnedBy
    <3>4. QED
      BY <3>1, <3>2, <3>3
  <2>3. QED
    BY <2>1, <2>2
<1>4. OrdersTellTheirCheck' /\ TotalIsOwned'
  BY <1>2, <1>3 DEF OrdersTellTheirCheck, TotalIsOwned, OwnedBy
<1>5. \A e \in DOMAIN check' : check'[e].status # "SETTLED" <=> check'[e].decision = "NONE"
  BY <1>1
<1>6. QED
  BY <1>2, <1>4, <1>5 DEF BooksBalance

\* Claims and scopes only given up, and nobody new at a table.
LEMMA ApartKept ==
    ASSUME ChecksApart, DOMAIN check' = DOMAIN check,
           \A c \in DOMAIN check : check'[c].members \subseteq check[c].members /\ check'[c].scopes \subseteq check[c].scopes,
           \A c \in DOMAIN check : \A d \in check'[c].members :
               seat'[d].status = "ACTIVE" => seat[d].status = "ACTIVE" /\ seat'[d].at = seat[d].at
    PROVE  ChecksApart'
  BY DEF ChecksApart

\* Whoever had left stays so: no order of theirs, nor a draft.
LEMMA EndedKept ==
    ASSUME EndedHavePaid, DOMAIN order' = DOMAIN order,
           \A o \in DOMAIN order : /\ order'[o].diner = order[o].diner
                                   /\ order[o].state = "SETTLED" => order'[o].state = "SETTLED",
           \A d \in Diners : seat'[d].status = "ENDED" => seat[d].status = "ENDED" /\ draft'[d] = draft[d]
    PROVE  EndedHavePaid'
  BY DEF EndedHavePaid

\* What a step of the diners and their bills keeps.
BillsGoal == ChecksInv' /\ Stable

\* Steps that touch no order and no check, and end nobody's session: who joins a table
\* joins one that no check covers.
LEMMA SeatingGoal ==
    ASSUME ChecksInv, UNCHANGED <<order, check>>, SeatsTyped',
           \A d \in Diners : seat'[d] # seat[d] => seat'[d].status = "ACTIVE" /\ ScopedBy(seat'[d].at) = {},
           \A d \in Diners : seat[d].status = "ENDED" => draft'[d] = draft[d]
    PROVE  BillsGoal
<1>1. SeatsTyped /\ BooksBalance /\ EndedHavePaid /\ ChecksApart
  BY ChecksParts
<1>2. BooksBalance'
  BY <1>1 DEF BooksBalance, OrdersTellTheirCheck, TotalIsOwned, OwnedBy, Consumption
<1>3. ChecksApart'
  <2> SUFFICES ASSUME NEW c \in DOMAIN check, NEW e \in DOMAIN check, c # e
               PROVE  /\ check[c].members \cap check[e].members = {}
                      /\ check[c].scopes \cap check[e].scopes = {}
                      /\ \A d \in check[c].members : seat'[d].status = "ACTIVE" => seat'[d].at \notin check[e].scopes
    BY DEF ChecksApart
  <2>1. check[c] \in Check
    BY <1>1 DEF BooksBalance
  <2>2. check[c].members \subseteq Diners
    BY <2>1 DEF Check, CheckMembers
  <2>3. ASSUME NEW d \in check[c].members, seat'[d].status = "ACTIVE" PROVE seat'[d].at \notin check[e].scopes
    <3>1. CASE seat'[d] = seat[d]
      BY <1>1, <2>3, <3>1 DEF ChecksApart
    <3>2. CASE seat'[d] # seat[d]
      BY <2>2, <2>3, <3>2 DEF ScopedBy
    <3>3. QED
      BY <3>1, <3>2
  <2>4. QED
    BY <1>1, <2>3 DEF ChecksApart
<1>4. EndedHavePaid'
  <2>1. \A d \in Diners : seat'[d].status = "ENDED" => seat[d].status = "ENDED" /\ draft'[d] = draft[d]
    OBVIOUS
  <2>2. QED
    BY <1>1, <2>1, EndedKept
<1>5. Stable
  <2>1. \A c \in DOMAIN check : check[c] \in Check
    BY <1>1 DEF BooksBalance
  <2>2. \A c \in DOMAIN check : check[c] = [check[c] EXCEPT !.status = check[c].status]
    BY <2>1 DEF Check
  <2>3. QED
    BY <2>2 DEF Stable
<1>6. QED
  BY <1>2, <1>3, <1>4, <1>5, ChecksPartsNext DEF BillsGoal

\* A request's view is of the right type, and ends with its answer.
LEMMA ViewFacts ==
    ASSUME ChecksInv
    PROVE  /\ \A r \in Clients : Finish(r) => view' \in [Clients -> RequestView \cup {NoView}]
           /\ \A r \in Clients : Serving(r) =>
                 /\ view[r].active \in [Seatings -> SUBSET Diners]
                 /\ view[r].filled \subseteq Diners /\ view[r].blocked \subseteq Diners
<1>1. view \in [Clients -> RequestView \cup {NoView}]
  BY DEF ChecksInv
<1>2. \A r \in Clients : Serving(r) => view[r] \in RequestView
  BY <1>1 DEF Serving, NoView
<1>3. QED
  BY <1>1, <1>2 DEF Finish, RequestView

\* Requests, joining, party sizes and drafts.
LEMMA SeatingSteps ==
    ASSUME ChecksInv,
           \/ \E r \in Clients : BeginRequest(r)
           \/ \E d \in Diners, s \in Seatings : JoinDiner(d, s)
           \/ \E s \in Seatings : RecordFailure(s)
           \/ \E s \in Seatings : FailureWindowPasses(s)
           \/ \E r \in Clients, s \in Seatings, n \in PartySizes : UpdatePartySize(r, s, n)
           \/ \E r \in Clients, d \in Diners : GetOrCreateDraft(r, d)
           \/ \E r \in Clients, d \in Diners : AddItem(r, d)
           \/ \E r \in Clients, d \in Diners : RemoveItem(r, d)
           \/ \E r \in Clients, d \in Diners : AbandonCurrentDraft(r, d)
    PROVE  BillsGoal
<1>1. /\ seating \in [Seatings -> ServiceSeating] /\ seat \in [Diners -> DinerSession]
      /\ draft \in [Diners -> OrderDraft] /\ view \in [Clients -> RequestView \cup {NoView}]
  BY ChecksParts DEF SeatsTyped
<1>2. /\ JoinLimit \in Nat /\ JoinLimit > 0 /\ MaxItems \in Nat /\ 0 \in 0 .. JoinLimit
      /\ NoDraft \in OrderDraft /\ 0 \in OrderDraft
  BY ChecksConstants DEF OrderDraft, NoDraft
<1>3. ASSUME NEW r \in Clients, BeginRequest(r) PROVE BillsGoal
  <2> DEFINE x == [taken |-> TRUE, active |-> [s \in Seatings |-> ActiveAt(s)],
                   filled |-> {d \in Diners : draft[d] \in 1 .. MaxItems},
                   blocked |-> {d \in Diners : OrderingBlocked(d)}]
  <2>1. \A s \in Seatings : ActiveAt(s) \in SUBSET Diners
    BY DEF ActiveAt
  <2>2. x \in RequestView
    BY <2>1 DEF RequestView
  <2>3. view' = [view EXCEPT ![r] = x] /\ UNCHANGED <<seating, seat, draft, order, check>>
    BY <1>3 DEF BeginRequest
  <2> HIDE DEF x
  <2>4. SeatsTyped'
    BY <1>1, <2>2, <2>3 DEF SeatsTyped
  <2>5. QED
    BY <2>3, <2>4, SeatingGoal
<1>4. ASSUME NEW d \in Diners, NEW s \in Seatings, JoinDiner(d, s) PROVE BillsGoal
  <2> DEFINE x == [status |-> "ACTIVE", at |-> s]
  <2>1. /\ seating' = [seating EXCEPT ![s].failures = 0] /\ UNCHANGED <<draft, order, check, view>>
        /\ ScopedBy(s) = {} /\ (UNCHANGED seat \/ seat' = [seat EXCEPT ![d] = x])
    BY <1>4 DEF JoinDiner
  <2>2. x \in DinerSession /\ x.status = "ACTIVE" /\ x.at = s
    BY DEF DinerSession
  <2> HIDE DEF x
  <2>3. SeatsTyped'
    BY <1>1, <1>2, <2>1, <2>2 DEF SeatsTyped, ServiceSeating
  <2>4. \A e \in Diners : seat'[e] # seat[e] => seat'[e] = x
    BY <1>1, <2>1
  <2>5. QED
    BY <2>1, <2>2, <2>3, <2>4, SeatingGoal
<1>5. ASSUME NEW s \in Seatings, RecordFailure(s) \/ FailureWindowPasses(s) PROVE BillsGoal
  <2>1. UNCHANGED <<seat, draft, order, check, view>>
    BY <1>5 DEF RecordFailure, FailureWindowPasses
  <2>2. seating' \in [Seatings -> ServiceSeating]
    <3>1. CASE RecordFailure(s)
      <4>1. seating[s].failures \in 0 .. JoinLimit /\ seating[s].failures # JoinLimit
        BY <1>1, <3>1 DEF RecordFailure, JoinLocked, ServiceSeating
      <4>2. seating[s].failures + 1 \in 0 .. JoinLimit
        BY <1>2, <4>1
      <4>3. QED
        BY <1>1, <3>1, <4>2 DEF RecordFailure, ServiceSeating
    <3>2. CASE FailureWindowPasses(s)
      BY <1>1, <1>2, <3>2 DEF FailureWindowPasses, ServiceSeating
    <3>3. QED
      BY <1>5, <3>1, <3>2
  <2>3. SeatsTyped'
    BY <1>1, <2>1, <2>2 DEF SeatsTyped
  <2>4. QED
    BY <2>1, <2>3, SeatingGoal
<1>6. ASSUME NEW r \in Clients, NEW s \in Seatings, NEW n \in PartySizes, UpdatePartySize(r, s, n) PROVE BillsGoal
  <2>1. UNCHANGED <<seat, draft, order, check>> /\ Finish(r) /\ seating' = [seating EXCEPT ![s].party = n]
    BY <1>6 DEF UpdatePartySize
  <2>2. seating' \in [Seatings -> ServiceSeating]
    BY <1>1, <2>1 DEF ServiceSeating
  <2>3. SeatsTyped'
    BY <1>1, <2>1, <2>2, ViewFacts DEF SeatsTyped
  <2>4. QED
    BY <2>1, <2>3, SeatingGoal
<1>7. ASSUME NEW r \in Clients, NEW d \in Diners, NEW n \in OrderDraft, MayOrder(r, d),
             draft' = [draft EXCEPT ![d] = n], Finish(r), UNCHANGED <<seating, seat, order, check>>
      PROVE  BillsGoal
  <2>1. SeatsTyped'
    BY <1>1, <1>7, ViewFacts DEF SeatsTyped
  <2>2. \A e \in Diners : seat[e].status = "ENDED" => draft'[e] = draft[e]
    BY <1>1, <1>7 DEF MayOrder
  <2>3. QED
    BY <1>7, <2>1, <2>2, SeatingGoal
<1>8. ASSUME NEW r \in Clients, NEW d \in Diners, GetOrCreateDraft(r, d) PROVE BillsGoal
  <2>1. (IF draft[d] = NoDraft THEN 0 ELSE draft[d]) \in OrderDraft
    BY <1>1, <1>2
  <2>2. QED
    BY <1>7, <1>8, <2>1 DEF GetOrCreateDraft
<1>9. ASSUME NEW r \in Clients, NEW d \in Diners, AddItem(r, d) PROVE BillsGoal
  <2>1. draft[d] + 1 \in OrderDraft
    BY <1>1, <1>2, <1>9 DEF AddItem, OrderDraft, NoDraft
  <2>2. QED
    BY <1>7, <1>9, <2>1 DEF AddItem
<1>10. ASSUME NEW r \in Clients, NEW d \in Diners, RemoveItem(r, d) PROVE BillsGoal
  <2>1. draft[d] - 1 \in OrderDraft
    BY <1>1, <1>2, <1>10 DEF RemoveItem, OrderDraft, NoDraft
  <2>2. QED
    BY <1>7, <1>10, <2>1 DEF RemoveItem
<1>11. ASSUME NEW r \in Clients, NEW d \in Diners, AbandonCurrentDraft(r, d) PROVE BillsGoal
  BY <1>2, <1>7, <1>11 DEF AbandonCurrentDraft
<1>12. QED
  BY <1>3, <1>4, <1>5, <1>6, <1>8, <1>9, <1>10, <1>11

\* An order is accepted: free, and of a diner who is there.
LEMMA ConfirmGoal ==
    ASSUME ChecksInv, NEW r \in Clients, NEW d \in Diners, ConfirmCurrentOrder(r, d)
    PROVE  BillsGoal
<1> DEFINE x == [diner |-> d, state |-> "FREE", check |-> Free]
           k == Len(order) + 1
<1>1. SeatsTyped /\ BooksBalance /\ EndedHavePaid /\ ChecksApart
  BY ChecksParts
<1>2. /\ order' = Append(order, x) /\ draft' = [draft EXCEPT ![d] = NoDraft] /\ Finish(r)
      /\ UNCHANGED <<seating, seat, check>> /\ seat[d].status = "ACTIVE"
  BY DEF ConfirmCurrentOrder, MayOrder
<1>3. order \in Seq(Allocation) /\ check \in Seq(Check)
  BY <1>1 DEF BooksBalance
<1>4. x \in Allocation /\ x.diner = d /\ x.state = "FREE" /\ x.check = Free
  BY ChecksConstants DEF Allocation, Free
<1> HIDE DEF x
<1>5. /\ order' \in Seq(Allocation) /\ DOMAIN order' = DOMAIN order \cup {k} /\ order'[k] = x /\ k \notin DOMAIN order
      /\ \A o \in DOMAIN order : order'[o] = order[o]
  BY <1>2, <1>3, <1>4
<1> HIDE DEF k
<1>6. SeatsTyped'
  <2>1. NoDraft \in OrderDraft
    BY ChecksConstants DEF OrderDraft, NoDraft
  <2>2. QED
    BY <1>1, <1>2, <2>1, ViewFacts DEF SeatsTyped
<1>7. BooksBalance'
  <2>1. OrdersTellTheirCheck'
    BY <1>1, <1>2, <1>4, <1>5 DEF BooksBalance, OrdersTellTheirCheck
  <2>2. \A c \in DOMAIN check : {o \in DOMAIN order' : order'[o].check = c} = {o \in DOMAIN order : order[o].check = c}
    <3>1. \A c \in DOMAIN check : c # Free
      BY <1>3 DEF Free
    <3>2. QED
      BY <1>4, <1>5, <3>1
  <2>3. TotalIsOwned'
    BY <1>1, <1>2, <2>2 DEF BooksBalance, TotalIsOwned, OwnedBy
  <2>4. QED
    BY <1>1, <1>2, <1>4, <1>5, <2>1, <2>3 DEF BooksBalance
<1>8. EndedHavePaid'
  <2> SUFFICES ASSUME NEW e \in Diners, seat[e].status = "ENDED"
               PROVE  draft'[e] = NoDraft /\ \A o \in DOMAIN order' : order'[o].diner = e => order'[o].state = "SETTLED"
    BY <1>2 DEF EndedHavePaid
  <2>1. e # d /\ draft'[e] = draft[e]
    BY <1>1, <1>2 DEF SeatsTyped
  <2>2. QED
    BY <1>1, <1>4, <1>5, <2>1 DEF EndedHavePaid
<1>9. ChecksApart'
  BY <1>1, <1>2 DEF ChecksApart
<1>10. Stable
  <2>1. \A c \in DOMAIN check : check[c] \in Check
    BY <1>3
  <2>2. \A c \in DOMAIN check : check[c] = [check[c] EXCEPT !.status = check[c].status]
    BY <2>1 DEF Check
  <2>3. QED
    BY <1>2, <1>5, <2>2 DEF Stable
<1>11. QED
  BY <1>6, <1>7, <1>8, <1>9, <1>10, ChecksPartsNext DEF BillsGoal

\* A check of which members and scopes were given up, and nothing else.
Given(k, x) ==
    /\ x \in Check /\ x.status = k.status /\ x.decision = k.decision /\ x.total = k.total
    /\ x.members \subseteq k.members /\ x.scopes \subseteq k.scopes

\* The checks cs, all of them settled, are given up in part.
GivenUp(cs) ==
    /\ check' \in Seq(Check) /\ DOMAIN check' = DOMAIN check
    /\ \A c \in DOMAIN check : c \notin cs => check'[c] = check[c]
    /\ \A c \in cs : check[c].status = "SETTLED" /\ Given(check[c], check'[c])

\* The diners ds leave, and owe nothing.
Left(ds) ==
    /\ \A d \in ds : \A o \in DOMAIN order : order[o].diner = d => order[o].state = "SETTLED"
    /\ \A d \in Diners : d \notin ds => seat'[d] = seat[d] /\ draft'[d] = draft[d]
    /\ \A d \in ds : seat'[d].status = "ENDED" /\ draft'[d] = NoDraft

\* Such an update of one check.
LEMMA GivenUpdate ==
    ASSUME NEW k \in Check, NEW ms, ms \subseteq k.members, NEW ss, ss \subseteq k.scopes
    PROVE  Given(k, [k EXCEPT !.members = ms]) /\ Given(k, [k EXCEPT !.scopes = ss, !.members = ms])
<1>1. k.members \subseteq Diners /\ k.scopes \subseteq Seatings
  BY DEF Check, CheckMembers, CheckScopes
<1>2. ms \in CheckMembers /\ ss \in CheckScopes
  BY <1>1 DEF CheckMembers, CheckScopes
<1>3. [k EXCEPT !.members = ms] \in Check /\ [k EXCEPT !.scopes = ss, !.members = ms] \in Check
  BY <1>2 DEF Check
<1>4. QED
  BY <1>3 DEF Given, Check

\* Such an update of the checks cs.
LEMMA GivenUpdates ==
    ASSUME check \in Seq(Check), NEW cs \in SUBSET DOMAIN check, NEW f,
           check' = [c \in DOMAIN check |-> IF c \in cs THEN f[c] ELSE check[c]],
           \A c \in cs : check[c].status = "SETTLED" /\ Given(check[c], f[c])
    PROVE  GivenUp(cs)
<1>1. DOMAIN check = 1 .. Len(check) /\ Len(check) \in Nat /\ \A c \in DOMAIN check : check[c] \in Check
  OBVIOUS
<1>2. /\ \A c \in DOMAIN check : c \notin cs => check'[c] = check[c]
      /\ \A c \in cs : check'[c] = f[c] /\ f[c] \in Check
      /\ DOMAIN check' = DOMAIN check
  BY DEF Given
<1>3. check' \in [1 .. Len(check) -> Check]
  BY <1>1, <1>2
<1>4. check' \in Seq(Check)
  BY <1>1, <1>3
<1>5. QED
  BY <1>2, <1>4 DEF GivenUp

\* One diner, or all who sit at table s, leave: paid for, and with them their claims on
\* checks that are settled.
LEMMA LeaveGoal ==
    ASSUME ChecksInv, NEW ds \in SUBSET Diners, Left(ds), NEW cs \in SUBSET DOMAIN check, GivenUp(cs),
           UNCHANGED <<order, view>>, SeatsTyped'
    PROVE  BillsGoal
<1>1. SeatsTyped /\ BooksBalance /\ EndedHavePaid /\ ChecksApart
  BY ChecksParts
<1>2. \A c \in DOMAIN check : check[c] \in Check
  BY <1>1 DEF BooksBalance
<1>3. BooksBalance'
  <2>1. \A c \in DOMAIN check : check[c].status # "SETTLED" <=> check[c].decision = "NONE"
    BY <1>1 DEF BooksBalance
  <2>2. QED
    BY <1>1, <2>1, BooksKept DEF GivenUp, Given
<1>4. \A d \in ds : seat'[d].status = "ENDED"
  BY DEF Left
<1>5. ChecksApart'
  <2>1. ASSUME NEW c \in DOMAIN check, NEW d \in check'[c].members, seat'[d].status = "ACTIVE"
        PROVE  seat[d].status = "ACTIVE" /\ seat'[d].at = seat[d].at
    <3>1. d \in Diners
      <4>1. check'[c] \in Check
        BY DEF GivenUp
      <4>2. QED
        BY <2>1, <4>1 DEF Check, CheckMembers
    <3>2. d \notin ds
      BY <1>4, <2>1
    <3>3. QED
      BY <2>1, <3>1, <3>2 DEF Left
  <2>2. QED
    BY <1>1, <2>1, ApartKept DEF GivenUp, Given
<1>6. EndedHavePaid'
  <2> SUFFICES ASSUME NEW d \in Diners, seat'[d].status = "ENDED"
               PROVE  draft'[d] = NoDraft /\ \A o \in DOMAIN order : order[o].diner = d => order[o].state = "SETTLED"
    BY DEF EndedHavePaid
  <2>1. CASE d \in ds
    BY <2>1 DEF Left
  <2>2. CASE d \notin ds
    BY <1>1, <2>2 DEF EndedHavePaid, Left
  <2>3. QED
    BY <2>1, <2>2
<1>7. Stable
  <2>1. \A c \in DOMAIN check : check[c] = [check[c] EXCEPT !.status = check[c].status]
    BY <1>2 DEF Check
  <2>2. QED
    BY <2>1 DEF Stable, GivenUp, Given
<1>8. QED
  BY <1>3, <1>5, <1>6, <1>7, ChecksPartsNext DEF BillsGoal

\* Orders that are settled are in state SETTLED.
LEMMA EndSteps ==
    ASSUME ChecksInv, (\E d \in Diners : EndDinerSession(d)) \/ (\E s \in Seatings : CloseSeating(s))
    PROVE  BillsGoal
<1>1. /\ SeatsTyped /\ check \in Seq(Check)
      /\ seating \in [Seatings -> ServiceSeating] /\ seat \in [Diners -> DinerSession]
      /\ draft \in [Diners -> OrderDraft]
  BY ChecksParts DEF SeatsTyped, BooksBalance
<1>2. /\ \A c \in DOMAIN check : check[c] \in Check
      /\ NoDraft \in OrderDraft /\ 0 \in 0 .. JoinLimit
  BY <1>1, ChecksConstants DEF OrderDraft, NoDraft
<1>3. ASSUME NEW d \in Diners, EndDinerSession(d) PROVE BillsGoal
  <2> DEFINE cs == LeaveAuthorities(d)
  <2>1. /\ check' = [c \in DOMAIN check |-> IF c \in cs THEN [check[c] EXCEPT !.members = @ \ {d}] ELSE check[c]]
        /\ draft' = [draft EXCEPT ![d] = NoDraft] /\ seat' = [seat EXCEPT ![d].status = "ENDED"]
        /\ UNCHANGED <<seating, order, view>> /\ DinerCanEnd(d)
    BY <1>3 DEF EndDinerSession
  <2>2. cs \in SUBSET DOMAIN check /\ \A c \in cs : check[c].status = "SETTLED"
    BY DEF LeaveAuthorities, MemberOf
  <2> HIDE DEF cs
  <2>3. GivenUp(cs)
    <3> DEFINE f == [c \in cs |-> [check[c] EXCEPT !.members = @ \ {d}]]
    <3>1. check' = [c \in DOMAIN check |-> IF c \in cs THEN f[c] ELSE check[c]]
      BY <2>1
    <3>2. ASSUME NEW c \in cs PROVE Given(check[c], f[c])
      <4>1. Given(check[c], [check[c] EXCEPT !.members = check[c].members \ {d}])
        BY <1>2, <2>2, GivenUpdate
      <4>2. QED
        BY <4>1
    <3> HIDE DEF f
    <3>3. QED
      BY <1>1, <2>2, <3>1, <3>2, GivenUpdates
  <2>4. ASSUME NEW o \in DOMAIN order, order[o].diner = d PROVE order[o].state = "SETTLED"
    BY <2>1, <2>4 DEF DinerCanEnd, OrdersOf, Settled
  <2>5. Left({d})
    <3>1. seat'[d].status = "ENDED" /\ draft'[d] = NoDraft
      BY <1>1, <2>1 DEF DinerSession
    <3>2. \A e \in Diners : e # d => seat'[e] = seat[e] /\ draft'[e] = draft[e]
      BY <1>1, <2>1
    <3>3. QED
      BY <2>4, <3>1, <3>2 DEF Left
  <2>6. SeatsTyped'
    BY <1>1, <1>2, <2>1 DEF SeatsTyped, DinerSession
  <2>7. {d} \in SUBSET Diners /\ UNCHANGED <<order, view>>
    BY <2>1
  <2>8. QED
    BY <2>2, <2>3, <2>5, <2>6, <2>7, LeaveGoal
<1>4. ASSUME NEW s \in Seatings, CloseSeating(s) PROVE BillsGoal
  <2> DEFINE cs == ScopedBy(s)
             ds == ActiveAt(s)
  <2>1. /\ check' = [c \in DOMAIN check |->
                 IF c \in cs THEN [check[c] EXCEPT !.scopes = @ \ {s}, !.members = {d \in check[c].members : seat[d].at # s}]
                 ELSE check[c]]
        /\ draft' = [d \in Diners |-> IF d \in ds THEN NoDraft ELSE draft[d]]
        /\ seat' = [d \in Diners |-> IF d \in ds THEN [seat[d] EXCEPT !.status = "ENDED"] ELSE seat[d]]
        /\ seating' = [seating EXCEPT ![s] = [@ EXCEPT !.open = FALSE, !.failures = 0]]
        /\ UNCHANGED <<order, view>> /\ ClosureEligible(s)
    BY <1>4 DEF CloseSeating
  <2>2. cs \in SUBSET DOMAIN check /\ \A c \in cs : check[c].status = "SETTLED"
    BY <2>1 DEF ScopedBy, ClosureEligible
  <2>3. ds \in SUBSET Diners /\ \A d \in ds : seat[d].at = s
    BY DEF ActiveAt
  <2> HIDE DEF cs, ds
  <2>4. GivenUp(cs)
    <3> DEFINE f == [c \in cs |-> [check[c] EXCEPT !.scopes = @ \ {s},
                                                   !.members = {d \in check[c].members : seat[d].at # s}]]
    <3>1. check' = [c \in DOMAIN check |-> IF c \in cs THEN f[c] ELSE check[c]]
      BY <2>1
    <3>2. ASSUME NEW c \in cs PROVE Given(check[c], f[c])
      <4>1. Given(check[c], [check[c] EXCEPT !.scopes = check[c].scopes \ {s},
                                             !.members = {d \in check[c].members : seat[d].at # s}])
        BY <1>2, <2>2, GivenUpdate
      <4>2. QED
        BY <4>1
    <3> HIDE DEF f
    <3>3. QED
      BY <1>1, <2>2, <3>1, <3>2, GivenUpdates
  <2>5. ASSUME NEW d \in ds, NEW o \in DOMAIN order, order[o].diner = d PROVE order[o].state = "SETTLED"
    <3>1. o \in OrdersAt(s)
      BY <2>3, <2>5 DEF OrdersAt
    <3>2. QED
      BY <2>1, <3>1 DEF ClosureEligible, FinanciallyClosed, Settled
  <2>6. \A d \in Diners : [seat[d] EXCEPT !.status = "ENDED"] \in DinerSession
                          /\ [seat[d] EXCEPT !.status = "ENDED"].status = "ENDED"
    BY <1>1 DEF DinerSession
  <2>7. Left(ds)
    <3>1. \A d \in Diners : d \notin ds => seat'[d] = seat[d] /\ draft'[d] = draft[d]
      BY <2>1
    <3>2. \A d \in ds : seat'[d].status = "ENDED" /\ draft'[d] = NoDraft
      BY <2>1, <2>3, <2>6
    <3>3. QED
      BY <2>5, <3>1, <3>2 DEF Left
  <2>8. SeatsTyped'
    <3>1. [seating[s] EXCEPT !.open = FALSE, !.failures = 0] \in ServiceSeating
      BY <1>1, <1>2 DEF ServiceSeating
    <3>2. seat' \in [Diners -> DinerSession] /\ draft' \in [Diners -> OrderDraft]
      BY <1>1, <1>2, <2>1, <2>6
    <3>3. QED
      BY <1>1, <2>1, <3>1, <3>2 DEF SeatsTyped
  <2>9. UNCHANGED <<order, view>>
    BY <2>1
  <2>10. QED
    BY <2>2, <2>3, <2>4, <2>7, <2>8, <2>9, LeaveGoal
<1>5. QED
  BY <1>3, <1>4

\* A step that concerns check c and its orders, and nobody's seat.
LEMMA BillGoal ==
    ASSUME ChecksInv, UNCHANGED <<seating, seat, draft>>, view' \in [Clients -> RequestView \cup {NoView}],
           BooksBalance', ChecksApart', NEW c,
           \A e \in DOMAIN check : e # c => check'[e] = check[e],
           c \in DOMAIN check => \/ check'[c].version # check[c].version
                                 \/ check[c].status = "SETTLED" \/ check'[c].status = "SETTLED"
                                 \/ check'[c] = [check[c] EXCEPT !.status = check'[c].status],
           DOMAIN order' = DOMAIN order,
           \A o \in DOMAIN order : /\ order'[o].diner = order[o].diner
                                   /\ order[o].state = "SETTLED" => order'[o] = order[o]
    PROVE  BillsGoal
<1>1. SeatsTyped /\ BooksBalance /\ EndedHavePaid /\ ChecksApart
  BY ChecksParts
<1>2. SeatsTyped'
  BY <1>1 DEF SeatsTyped
<1>3. EndedHavePaid'
  BY <1>1, EndedKept
<1>4. \A e \in DOMAIN check : check[e] = [check[e] EXCEPT !.status = check[e].status]
  <2>1. \A e \in DOMAIN check : check[e] \in Check
    BY <1>1 DEF BooksBalance
  <2>2. QED
    BY <2>1 DEF Check
<1>5. ASSUME NEW e \in DOMAIN check, {check[e].status, check'[e].status} \subseteq {"OPEN", "FROZEN"},
             check'[e].version = check[e].version
      PROVE  check'[e] = [check[e] EXCEPT !.status = check'[e].status]
  <2>1. CASE e = c
    BY <1>5, <2>1
  <2>2. CASE e # c
    BY <1>4, <2>2
  <2>3. QED
    BY <2>1, <2>2
<1>6. Stable
  BY <1>5 DEF Stable
<1>7. QED
  BY <1>2, <1>3, <1>6, ChecksPartsNext DEF BillsGoal

\* Row c of the checks is replaced by x.
LEMMA CheckPut ==
    ASSUME check \in Seq(Check), NEW c \in DOMAIN check, NEW x \in Check, check' = [check EXCEPT ![c] = x]
    PROVE  /\ check' \in Seq(Check) /\ DOMAIN check' = DOMAIN check /\ check'[c] = x
           /\ c \in Nat \ {0}
           /\ \A e \in DOMAIN check : e # c => check'[e] = check[e]
  OBVIOUS

\* A check with its next version.
LEMMA NextVersionFacts ==
    ASSUME NEW c \in DOMAIN check, check[c] \in Check
    PROVE  /\ NextVersion(c) \in Check /\ NextVersion(c).version # check[c].version
           /\ NextVersion(c).total = check[c].total /\ NextVersion(c).status = check[c].status
           /\ NextVersion(c).decision = check[c].decision
           /\ NextVersion(c).members = check[c].members /\ NextVersion(c).scopes = check[c].scopes
<1>1. check[c].version \in Nat
  BY DEF Check
<1>2. QED
  BY <1>1 DEF NextVersion, Check

\* Steps that leave every order on its check: another controller, a tip, freezing, and what
\* the table does after paying.
LEMMA NoteSteps ==
    ASSUME ChecksInv,
           \/ \E c \in DOMAIN check, d \in Diners : TransferController(c, d)
           \/ \E c \in DOMAIN check, p \in BOOLEAN : ElectGratuity(c, p)
           \/ \E r \in Clients, c \in DOMAIN check : FreezeOpenCheck(r, c)
           \/ \E c \in DOMAIN check, answer \in {"YES", "NO"} : DecideContinuation(c, answer)
    PROVE  BillsGoal
<1>1. /\ BooksBalance /\ ChecksApart /\ check \in Seq(Check)
      /\ view \in [Clients -> RequestView \cup {NoView}]
  BY ChecksParts DEF SeatsTyped, BooksBalance
<1>2. \A c \in DOMAIN check : /\ check[c] \in Check
                              /\ check[c].status # "SETTLED" <=> check[c].decision = "NONE"
  BY <1>1 DEF BooksBalance
<1>3. ASSUME NEW c \in DOMAIN check, NEW x \in Check, check' = [check EXCEPT ![c] = x],
             UNCHANGED <<seating, seat, draft, order>>, view' \in [Clients -> RequestView \cup {NoView}],
             x.total = check[c].total, x.status # "SETTLED" <=> x.decision = "NONE",
             x.status = check[c].status \/ {check[c].status, x.status} \subseteq {"OPEN", "FROZEN"},
             x.members \subseteq check[c].members, x.scopes \subseteq check[c].scopes,
             \/ x.version # check[c].version \/ check[c].status = "SETTLED"
             \/ x = [check[c] EXCEPT !.status = x.status]
      PROVE  BillsGoal
  <2>1. /\ check' \in Seq(Check) /\ DOMAIN check' = DOMAIN check /\ check'[c] = x
        /\ \A e \in DOMAIN check : e # c => check'[e] = check[e]
    BY <1>1, <1>3, CheckPut
  <2>2. BooksBalance'
    <3>1. \A e \in DOMAIN check :
              /\ check'[e].total = check[e].total
              /\ check'[e].status # "SETTLED" <=> check'[e].decision = "NONE"
              /\ \/ check'[e].status = check[e].status
                 \/ {check[e].status, check'[e].status} \subseteq {"OPEN", "FROZEN"}
      BY <1>2, <1>3, <2>1
    <3>2. QED
      BY <1>1, <1>3, <2>1, <3>1, BooksKept
  <2>3. ChecksApart'
    <3>1. \A e \in DOMAIN check : check'[e].members \subseteq check[e].members /\ check'[e].scopes \subseteq check[e].scopes
      BY <1>3, <2>1
    <3>2. QED
      BY <1>1, <1>3, <2>1, <3>1, ApartKept
  <2>4. QED
    BY <1>3, <2>1, <2>2, <2>3, BillGoal
<1>4. ASSUME NEW c \in DOMAIN check, NEW d \in Diners, TransferController(c, d) PROVE BillsGoal
  <2> DEFINE x == [NextVersion(c) EXCEPT !.controller = d]
  <2>1. check' = [check EXCEPT ![c] = x] /\ UNCHANGED <<seating, seat, draft, order, view>>
    BY <1>4 DEF TransferController
  <2>2. /\ x \in Check /\ x.total = check[c].total /\ x.status = check[c].status /\ x.decision = check[c].decision
        /\ x.members = check[c].members /\ x.scopes = check[c].scopes /\ x.version # check[c].version
    BY <1>2, NextVersionFacts DEF Check
  <2> HIDE DEF x
  <2>3. x.status # "SETTLED" <=> x.decision = "NONE"
    BY <1>2, <2>2
  <2>4. QED
    BY <1>1, <1>3, <2>1, <2>2, <2>3
<1>5. ASSUME NEW c \in DOMAIN check, NEW p \in BOOLEAN, ElectGratuity(c, p) PROVE BillsGoal
  <2> DEFINE t == IF p THEN check[c].total ELSE 1
             x == [NextVersion(c) EXCEPT !.tip = t]
  <2>1. check' = [check EXCEPT ![c] = x] /\ UNCHANGED <<seating, seat, draft, order, view>>
    BY <1>5 DEF ElectGratuity
  <2>2. t \in Nat
    BY <1>2 DEF Check
  <2> HIDE DEF t
  <2>3. /\ x \in Check /\ x.total = check[c].total /\ x.status = check[c].status /\ x.decision = check[c].decision
        /\ x.members = check[c].members /\ x.scopes = check[c].scopes /\ x.version # check[c].version
    BY <1>2, <2>2, NextVersionFacts DEF Check
  <2> HIDE DEF x
  <2>4. x.status # "SETTLED" <=> x.decision = "NONE"
    BY <1>2, <2>3
  <2>5. QED
    BY <1>1, <1>3, <2>1, <2>3, <2>4
<1>6. ASSUME NEW r \in Clients, NEW c \in DOMAIN check, FreezeOpenCheck(r, c) PROVE BillsGoal
  <2> DEFINE x == [check[c] EXCEPT !.status = "FROZEN"]
  <2>1. /\ check' = [check EXCEPT ![c] = x] /\ UNCHANGED <<seating, seat, draft, order>> /\ Finish(r)
        /\ check[c].status = "OPEN"
    BY <1>6 DEF FreezeOpenCheck
  <2>2. /\ x \in Check /\ x.total = check[c].total /\ x.status = "FROZEN" /\ x.decision = check[c].decision
        /\ x.members = check[c].members /\ x.scopes = check[c].scopes /\ x = [check[c] EXCEPT !.status = x.status]
    BY <1>2 DEF Check, CheckStatuses
  <2> HIDE DEF x
  <2>3. view' \in [Clients -> RequestView \cup {NoView}]
    BY <2>1, ViewFacts
  <2>4. QED
    BY <1>2, <1>3, <2>1, <2>2, <2>3
<1>7. ASSUME NEW c \in DOMAIN check, NEW answer \in {"YES", "NO"}, DecideContinuation(c, answer) PROVE BillsGoal
  <2> DEFINE x == Decided(c, answer)
  <2>1. /\ check' = [check EXCEPT ![c] = x] /\ UNCHANGED <<seating, seat, draft, order, view>>
        /\ check[c].status = "SETTLED"
    BY <1>7 DEF DecideContinuation
  <2>2. {} \in CheckMembers /\ {} \in CheckScopes
    BY DEF CheckMembers, CheckScopes
  <2>3. /\ x \in Check /\ x.total = check[c].total /\ x.status = check[c].status /\ x.decision # "NONE"
        /\ x.members \subseteq check[c].members /\ x.scopes \subseteq check[c].scopes
    BY <1>2, <2>2 DEF Check, Decisions, Decided
  <2> HIDE DEF x
  <2>4. x.status # "SETTLED" <=> x.decision = "NONE"
    BY <2>1, <2>3
  <2>5. view' \in [Clients -> RequestView \cup {NoView}]
    BY <1>1, <2>1
  <2>6. QED
    BY <1>3, <2>1, <2>3, <2>4, <2>5
<1>8. QED
  BY <1>4, <1>5, <1>6, <1>7

\* Check c is created as x, or becomes x.
CheckIs(c, x) ==
    /\ check' \in Seq(Check) /\ DOMAIN check' = DOMAIN check \cup {c} /\ check'[c] = x
    /\ \A e \in DOMAIN check : e # c => check'[e] = check[e]

\* No order changes hands, and none that is settled changes.
OrdersKept ==
    /\ DOMAIN order' = DOMAIN order
    /\ \A o \in DOMAIN order : /\ order'[o].diner = order[o].diner
                               /\ order[o].state = "SETTLED" => order'[o] = order[o]

\* Orders os move to state st and check k.
Moved(os, st, k) ==
    /\ order' \in Seq(Allocation) /\ DOMAIN order' = DOMAIN order
    /\ \A o \in DOMAIN order : o \notin os => order'[o] = order[o]
    /\ \A o \in os : order'[o].diner = order[o].diner /\ order'[o].state = st /\ order'[o].check = k

\* Moving them row by row.
LEMMA OrdersMoved ==
    ASSUME order \in Seq(Allocation), NEW os \in SUBSET DOMAIN order, NEW k, NEW st, NEW f,
           order' = [o \in DOMAIN order |-> IF o \in os THEN f[o] ELSE order[o]],
           \A o \in os : f[o] \in Allocation /\ f[o].diner = order[o].diner /\ f[o].state = st /\ f[o].check = k
    PROVE  Moved(os, st, k)
<1>1. DOMAIN order = 1 .. Len(order) /\ Len(order) \in Nat /\ \A o \in DOMAIN order : order[o] \in Allocation
  OBVIOUS
<1>2. DOMAIN order' = DOMAIN order /\ \A o \in DOMAIN order : order'[o] = IF o \in os THEN f[o] ELSE order[o]
  OBVIOUS
<1>3. order' \in [1 .. Len(order) -> Allocation]
  BY <1>1
<1>4. order' \in Seq(Allocation)
  BY <1>1, <1>3
<1>5. QED
  BY <1>2, <1>4 DEF Moved

\* Orders are claimed by a check, or released.
LEMMA OrdersClaimed ==
    ASSUME order \in Seq(Allocation), NEW os \in SUBSET DOMAIN order, NEW c \in Nat
    PROVE  (Claim(os, c) => Moved(os, "CLAIMED", c)) /\ (Release(os) => Moved(os, "FREE", Free))
<1>1. \A o \in os : order[o] \in Allocation
  OBVIOUS
<1>2. ASSUME Claim(os, c) PROVE Moved(os, "CLAIMED", c)
  <2> DEFINE f == [o \in os |-> [order[o] EXCEPT !.state = "CLAIMED", !.check = c]]
  <2>0. order' = [o \in DOMAIN order |-> IF o \in os THEN [order[o] EXCEPT !.state = "CLAIMED", !.check = c] ELSE order[o]]
    BY <1>2 DEF Claim
  <2>1. order' = [o \in DOMAIN order |-> IF o \in os THEN f[o] ELSE order[o]]
    BY <2>0
  <2>2. \A o \in os : f[o] \in Allocation /\ f[o].diner = order[o].diner /\ f[o].state = "CLAIMED" /\ f[o].check = c
    BY <1>1 DEF Allocation
  <2> HIDE DEF f
  <2>3. QED
    BY <2>1, <2>2, OrdersMoved
<1>3. ASSUME Release(os) PROVE Moved(os, "FREE", Free)
  <2> DEFINE f == [o \in os |-> [order[o] EXCEPT !.state = "FREE", !.check = Free]]
  <2>0. order' = [o \in DOMAIN order |-> IF o \in os THEN [order[o] EXCEPT !.state = "FREE", !.check = Free] ELSE order[o]]
    BY <1>3 DEF Release
  <2>1. order' = [o \in DOMAIN order |-> IF o \in os THEN f[o] ELSE order[o]]
    BY <2>0
  <2>2. \A o \in os : f[o] \in Allocation /\ f[o].diner = order[o].diner /\ f[o].state = "FREE" /\ f[o].check = Free
    BY <1>1 DEF Allocation, Free
  <2> HIDE DEF f
  <2>3. QED
    BY <2>1, <2>2, OrdersMoved
<1>4. QED
  BY <1>2, <1>3

\* Sets of orders are finite.
LEMMA OrdersFinite ==
    ASSUME order \in Seq(Allocation), NEW os \in SUBSET DOMAIN order
    PROVE  IsFiniteSet(os) /\ Cardinality(os) \in Nat
<1>1. DOMAIN order = 1 .. Len(order) /\ 1 \in Int /\ Len(order) \in Int
  OBVIOUS
<1>2. IsFiniteSet(DOMAIN order)
  BY <1>1, FS_Interval
<1>3. IsFiniteSet(os)
  BY <1>2, FS_Subset
<1>4. QED
  BY <1>3, FS_CardinalityType

\* Free orders os are claimed by check c, which is open: its total grows by what they cost.
LEMMA ClaimBooks ==
    ASSUME BooksBalance, NEW c \in Nat \ {0}, NEW x \in Check, CheckIs(c, x), x.status = "OPEN", x.decision = "NONE",
           c \in DOMAIN check => check[c].status = "OPEN",
           NEW os \in SUBSET DOMAIN order, \A o \in os : order[o].state = "FREE", Claim(os, c),
           x.total = Cardinality(OwnedBy(c)) + Cardinality(os)
    PROVE  BooksBalance' /\ OrdersKept
<1>1. /\ order \in Seq(Allocation) /\ OrdersTellTheirCheck
      /\ \A o \in DOMAIN order : order[o].state = "FREE" <=> order[o].check = Free
  BY DEF BooksBalance
<1>2. /\ order' \in Seq(Allocation) /\ DOMAIN order' = DOMAIN order
      /\ \A o \in DOMAIN order : o \notin os => order'[o] = order[o]
      /\ \A o \in os : order'[o].diner = order[o].diner /\ order'[o].state = "CLAIMED" /\ order'[o].check = c
  <2>1. c \in Nat
    OBVIOUS
  <2>2. Moved(os, "CLAIMED", c)
    BY <1>1, <2>1, OrdersClaimed
  <2>3. QED
    BY <2>2 DEF Moved
<1>3. OrdersKept
  BY <1>2 DEF OrdersKept
<1>4. ASSUME NEW o \in DOMAIN order
      PROVE  \/ order'[o] = order[o] /\ order[o].check # c
             \/ /\ order[o].check \in {Free, c} /\ order'[o].check \in {Free, c}
                /\ order'[o].state = "FREE" <=> order'[o].check = Free
                /\ order'[o].state = "CLAIMED" => x.status \in {"OPEN", "FROZEN"}
                /\ order'[o].state = "SETTLED" => x.status = "SETTLED"
  <2>1. CASE o \in os
    BY <1>1, <1>2, <2>1 DEF Free
  <2>2. CASE o \notin os /\ order[o].check # c
    BY <1>2, <2>2
  <2>3. CASE o \notin os /\ order[o].check = c
    <3>1. order[o].state # "FREE"
      BY <1>1, <2>3 DEF Free
    <3>2. order[o].state # "SETTLED"
      BY <1>1, <2>3, <3>1 DEF OrdersTellTheirCheck
    <3>3. QED
      BY <1>1, <1>2, <2>3, <3>1, <3>2 DEF Free
  <2>4. QED
    BY <2>1, <2>2, <2>3
<1>5. x.total = Cardinality({o \in DOMAIN order' : order'[o].check = c})
  <2>1. {o \in DOMAIN order' : order'[o].check = c} = OwnedBy(c) \cup os
    BY <1>2 DEF OwnedBy
  <2>2. OwnedBy(c) \cap os = {}
    BY <1>1 DEF OwnedBy, Free
  <2>3. OwnedBy(c) \in SUBSET DOMAIN order
    BY DEF OwnedBy
  <2>4. /\ IsFiniteSet(os) /\ IsFiniteSet(OwnedBy(c))
        /\ Cardinality(os) \in Nat /\ Cardinality(OwnedBy(c)) \in Nat
    BY <1>1, <2>3, OrdersFinite
  <2>5. Cardinality(OwnedBy(c) \cup os) = Cardinality(OwnedBy(c)) + Cardinality(os) - Cardinality(OwnedBy(c) \cap os)
    BY <2>4, FS_Union
  <2>6. Cardinality(OwnedBy(c) \cup os) = Cardinality(OwnedBy(c)) + Cardinality(os)
    <3>1. Cardinality(OwnedBy(c) \cap os) = 0
      BY <2>2, FS_EmptySet
    <3>2. QED
      BY <2>4, <2>5, <3>1
  <2>7. QED
    BY <2>1, <2>6
<1>6. BooksBalance'
  BY <1>2, <1>4, <1>5, BooksChanged DEF CheckIs
<1>7. QED
  BY <1>3, <1>6

\* Orders os of the open check c are released, all of them when it is cancelled.
LEMMA ReleaseBooks ==
    ASSUME BooksBalance, NEW c \in DOMAIN check, check[c].status = "OPEN", NEW x \in Check, CheckIs(c, x),
           NEW os \in SUBSET OwnedBy(c), Release(os), x.decision = "NONE",
           x.status = "OPEN" \/ (x.status = "CANCELLED" /\ os = OwnedBy(c)),
           x.total = Cardinality(OwnedBy(c)) - Cardinality(os)
    PROVE  BooksBalance' /\ OrdersKept
<1>1. /\ order \in Seq(Allocation) /\ OrdersTellTheirCheck /\ check \in Seq(Check)
      /\ \A o \in DOMAIN order : order[o].state = "FREE" <=> order[o].check = Free
  BY DEF BooksBalance
<1>2. c \in Nat \ {0} /\ os \in SUBSET DOMAIN order /\ OwnedBy(c) \in SUBSET DOMAIN order
  BY <1>1 DEF OwnedBy
<1>3. /\ order' \in Seq(Allocation) /\ DOMAIN order' = DOMAIN order
      /\ \A o \in DOMAIN order : o \notin os => order'[o] = order[o]
      /\ \A o \in os : order'[o].diner = order[o].diner /\ order'[o].state = "FREE" /\ order'[o].check = Free
  BY <1>1, <1>2, OrdersClaimed DEF Moved
<1>4. \A o \in OwnedBy(c) : o \in DOMAIN order /\ order[o].check = c /\ order[o].state # "FREE" /\ order[o].state # "SETTLED"
  <2>1. \A o \in OwnedBy(c) : o \in DOMAIN order /\ order[o].check = c /\ order[o].state # "FREE"
    BY <1>1, <1>2 DEF OwnedBy, Free
  <2>2. QED
    BY <1>1, <2>1 DEF OrdersTellTheirCheck
<1>5. OrdersKept
  BY <1>3, <1>4 DEF OrdersKept
<1>6. ASSUME NEW o \in DOMAIN order
      PROVE  \/ order'[o] = order[o] /\ order[o].check # c
             \/ /\ order[o].check \in {Free, c} /\ order'[o].check \in {Free, c}
                /\ order'[o].state = "FREE" <=> order'[o].check = Free
                /\ order'[o].state = "CLAIMED" => x.status \in {"OPEN", "FROZEN"}
                /\ order'[o].state = "SETTLED" => x.status = "SETTLED"
  <2>1. CASE o \in os
    BY <1>3, <1>4, <2>1
  <2>2. CASE o \notin os /\ order[o].check # c
    BY <1>3, <2>2
  <2>3. CASE o \notin os /\ order[o].check = c
    <3>1. o \in OwnedBy(c) /\ x.status = "OPEN"
      BY <2>3 DEF OwnedBy
    <3>2. QED
      BY <1>1, <1>3, <1>4, <2>3, <3>1
  <2>4. QED
    BY <2>1, <2>2, <2>3
<1>7. x.total = Cardinality({o \in DOMAIN order' : order'[o].check = c})
  <2>1. {o \in DOMAIN order' : order'[o].check = c} = OwnedBy(c) \ os
    BY <1>2, <1>3 DEF OwnedBy, Free
  <2>2. OwnedBy(c) \cap os = os
    OBVIOUS
  <2>3. IsFiniteSet(OwnedBy(c))
    BY <1>1, <1>2, OrdersFinite
  <2>4. Cardinality(OwnedBy(c) \ os) = Cardinality(OwnedBy(c)) - Cardinality(OwnedBy(c) \cap os)
    BY <2>3, FS_Difference
  <2>5. QED
    BY <2>1, <2>2, <2>4
<1>8. BooksBalance'
  <2>1. x.status # "SETTLED"
    OBVIOUS
  <2>2. QED
    BY <1>2, <1>3, <1>6, <1>7, <2>1, BooksChanged DEF CheckIs
<1>9. QED
  BY <1>5, <1>8

\* Check c, created or changed, is apart from the others.
LEMMA ApartChanged ==
    ASSUME ChecksApart, UNCHANGED seat, NEW c, NEW x, CheckIs(c, x),
           \A e \in DOMAIN check : e # c =>
              /\ x.members \cap check[e].members = {} /\ x.scopes \cap check[e].scopes = {}
              /\ \A d \in x.members : seat[d].status = "ACTIVE" => seat[d].at \notin check[e].scopes
              /\ \A d \in check[e].members : seat[d].status = "ACTIVE" => seat[d].at \notin x.scopes
    PROVE  ChecksApart'
<1> SUFFICES ASSUME NEW a \in DOMAIN check', NEW b \in DOMAIN check', a # b
             PROVE  /\ check'[a].members \cap check'[b].members = {}
                    /\ check'[a].scopes \cap check'[b].scopes = {}
                    /\ \A d \in check'[a].members : seat[d].status = "ACTIVE" => seat[d].at \notin check'[b].scopes
  BY DEF ChecksApart
<1>1. CASE a = c
  BY <1>1 DEF CheckIs
<1>2. CASE b = c
  BY <1>2 DEF CheckIs
<1>3. CASE a # c /\ b # c
  BY <1>3 DEF CheckIs, ChecksApart
<1>4. QED
  BY <1>1, <1>2, <1>3

\* A new check, or one with a new version, with the orders it claims or releases.
LEMMA ClaimGoal ==
    ASSUME ChecksInv, UNCHANGED <<seating, seat, draft>>, view' \in [Clients -> RequestView \cup {NoView}],
           NEW c, NEW x, CheckIs(c, x), BooksBalance', OrdersKept, ChecksApart',
           c \in DOMAIN check => x.version # check[c].version \/ x.status = "SETTLED"
    PROVE  BillsGoal
  BY BillGoal DEF CheckIs, OrdersKept

\* A member is added with its free orders.
LEMMA AddMemberGoal ==
    ASSUME ChecksInv, NEW r \in Clients, NEW c \in DOMAIN check, NEW d \in Diners, AddMember(r, c, d)
    PROVE  BillsGoal
<1> DEFINE os == EligibleOrders({d})
           x == [NextVersion(c) EXCEPT !.members = @ \cup {d}, !.total = @ + Consumption(os)]
<1>1. /\ BooksBalance /\ ChecksApart /\ check \in Seq(Check) /\ order \in Seq(Allocation)
      /\ check[c].status # "SETTLED" <=> check[c].decision = "NONE"
      /\ check[c].total = Cardinality(OwnedBy(c))
  BY ChecksParts DEF BooksBalance, TotalIsOwned, Consumption
<1>2. /\ check[c].status = "OPEN" /\ NoActiveMembership({d}) /\ Claim(os, c) /\ Finish(r)
      /\ check' = [check EXCEPT ![c] = x] /\ UNCHANGED <<seating, seat, draft>>
  BY DEF AddMember, Modifiable
<1>3. os \in SUBSET DOMAIN order /\ \A o \in os : order[o].state = "FREE"
  BY DEF EligibleOrders, OrdersOf
<1> HIDE DEF os
<1>4. check[c] \in Check /\ Consumption(os) \in Nat /\ Consumption(os) = Cardinality(os)
  BY <1>1, <1>3, OrdersFinite DEF Consumption
<1>5. /\ x \in Check /\ x.total = check[c].total + Cardinality(os) /\ x.status = "OPEN" /\ x.decision = check[c].decision
      /\ x.members = check[c].members \cup {d} /\ x.scopes = check[c].scopes /\ x.version # check[c].version
  <2> DEFINE k == NextVersion(c)
  <2>1. /\ k \in Check /\ k.version # check[c].version /\ k.total = check[c].total /\ k.status = "OPEN"
        /\ k.decision = check[c].decision /\ k.members = check[c].members /\ k.scopes = check[c].scopes
    BY <1>2, <1>4, NextVersionFacts
  <2> HIDE DEF k
  <2>2. k.members \cup {d} \in CheckMembers /\ k.total + Consumption(os) \in Nat
    BY <1>4, <2>1 DEF Check, CheckMembers
  <2>3. x = [k EXCEPT !.members = k.members \cup {d}, !.total = k.total + Consumption(os)]
    BY DEF k
  <2> HIDE DEF x
  <2>4. QED
    BY <1>4, <2>1, <2>2, <2>3 DEF Check
<1> HIDE DEF x
<1>6. CheckIs(c, x) /\ c \in Nat \ {0}
  BY <1>1, <1>2, <1>5, CheckPut DEF CheckIs
<1>7. BooksBalance' /\ OrdersKept
  <2>1. x.total = Cardinality(OwnedBy(c)) + Cardinality(os) /\ x.decision = "NONE"
    BY <1>1, <1>2, <1>5
  <2>2. QED
    BY <1>1, <1>2, <1>3, <1>5, <1>6, <2>1, ClaimBooks
<1>8. ChecksApart'
  <2>1. \A e \in DOMAIN check : d \notin check[e].members /\ seat[d].at \notin check[e].scopes
    BY <1>2 DEF NoActiveMembership, OrderingBlocked, MemberOf, ScopedBy
  <2>2. ASSUME NEW e \in DOMAIN check, e # c
        PROVE  /\ x.members \cap check[e].members = {} /\ x.scopes \cap check[e].scopes = {}
               /\ \A m \in x.members : seat[m].status = "ACTIVE" => seat[m].at \notin check[e].scopes
               /\ \A m \in check[e].members : seat[m].status = "ACTIVE" => seat[m].at \notin x.scopes
    BY <1>1, <1>5, <2>1, <2>2 DEF ChecksApart
  <2>3. QED
    BY <1>1, <1>2, <1>6, <2>2, ApartChanged
<1>9. view' \in [Clients -> RequestView \cup {NoView}]
  BY <1>2, ViewFacts
<1>10. QED
  BY <1>2, <1>5, <1>6, <1>7, <1>8, <1>9, ClaimGoal

\* A member is removed with its orders, or the check is cancelled.
LEMMA ReleaseSteps ==
    ASSUME ChecksInv, NEW c \in DOMAIN check, (\E d \in Diners : RemoveMember(c, d)) \/ CancelOpenCheck(c)
    PROVE  BillsGoal
<1>1. /\ BooksBalance /\ ChecksApart /\ check \in Seq(Check) /\ order \in Seq(Allocation)
      /\ check[c].status # "SETTLED" <=> check[c].decision = "NONE"
      /\ check[c].total = Cardinality(OwnedBy(c)) /\ view \in [Clients -> RequestView \cup {NoView}]
  BY ChecksParts DEF BooksBalance, TotalIsOwned, Consumption, SeatsTyped
<1>2. OwnedBy(c) \in SUBSET DOMAIN order /\ check[c] \in Check
  BY <1>1 DEF OwnedBy
<1>3. IsFiniteSet(OwnedBy(c)) /\ Cardinality(OwnedBy(c)) \in Nat
  BY <1>1, <1>2, OrdersFinite
<1> DEFINE k == NextVersion(c)
<1>4. /\ k \in Check /\ k.version # check[c].version /\ k.total = check[c].total /\ k.status = check[c].status
      /\ k.decision = check[c].decision /\ k.members = check[c].members /\ k.scopes = check[c].scopes
  BY <1>2, NextVersionFacts
<1>5. ASSUME NEW x \in Check, NEW os \in SUBSET OwnedBy(c), check' = [check EXCEPT ![c] = x], Release(os),
             UNCHANGED <<seating, seat, draft, view>>, check[c].status = "OPEN",
             x.version # check[c].version, x.decision = "NONE",
             x.status = "OPEN" \/ (x.status = "CANCELLED" /\ os = OwnedBy(c)),
             x.total = Cardinality(OwnedBy(c)) - Cardinality(os),
             x.members \subseteq check[c].members, x.scopes \subseteq check[c].scopes
      PROVE  BillsGoal
  <2>1. CheckIs(c, x)
    BY <1>1, <1>5, CheckPut DEF CheckIs
  <2>2. BooksBalance' /\ OrdersKept
    BY <1>1, <1>5, <2>1, ReleaseBooks
  <2>3. ChecksApart'
    <3>1. /\ DOMAIN check' = DOMAIN check
          /\ \A e \in DOMAIN check : check'[e].members \subseteq check[e].members /\ check'[e].scopes \subseteq check[e].scopes
      BY <1>5, <2>1 DEF CheckIs
    <3>2. QED
      BY <1>1, <1>5, <3>1, ApartKept
  <2>4. view' \in [Clients -> RequestView \cup {NoView}]
    BY <1>1, <1>5
  <2>5. QED
    BY <1>5, <2>1, <2>2, <2>3, <2>4, ClaimGoal
<1>6. ASSUME NEW d \in Diners, RemoveMember(c, d) PROVE BillsGoal
  <2> DEFINE os == OwnedBy(c) \cap OrdersOf({d})
             x == [k EXCEPT !.members = @ \ {d}, !.total = @ - Consumption(os)]
  <2>1. /\ check[c].status = "OPEN" /\ check' = [check EXCEPT ![c] = x] /\ Release(os)
        /\ UNCHANGED <<seating, seat, draft, view>>
    BY <1>6 DEF RemoveMember, Modifiable
  <2>2. os \in SUBSET OwnedBy(c)
    OBVIOUS
  <2>3. Consumption(os) \in Nat /\ Consumption(os) = Cardinality(os) /\ Cardinality(os) <= Cardinality(OwnedBy(c))
    <3>1. os \in SUBSET DOMAIN order
      BY <1>2, <2>2
    <3> HIDE DEF os
    <3>2. QED
      BY <1>1, <1>3, <2>2, <3>1, FS_Subset, OrdersFinite DEF Consumption
  <2> HIDE DEF os, k
  <2>4. k.members \ {d} \in CheckMembers /\ k.total - Consumption(os) \in Nat
    <3>1. k.total - Consumption(os) \in Nat
      BY <1>1, <1>3, <1>4, <2>3
    <3>2. QED
      BY <1>4, <3>1 DEF Check, CheckMembers
  <2>5. /\ x \in Check /\ x.total = k.total - Consumption(os) /\ x.status = k.status /\ x.decision = k.decision
        /\ x.members = k.members \ {d} /\ x.scopes = k.scopes /\ x.version = k.version
    BY <1>4, <2>4 DEF Check
  <2> HIDE DEF x
  <2>6. /\ x.total = Cardinality(OwnedBy(c)) - Cardinality(os) /\ x.decision = "NONE" /\ x.status = "OPEN"
        /\ x.version # check[c].version
        /\ x.members \subseteq check[c].members /\ x.scopes \subseteq check[c].scopes
    BY <1>1, <1>4, <2>1, <2>3, <2>5
  <2>7. QED
    BY <1>5, <2>1, <2>2, <2>5, <2>6
<1>7. ASSUME CancelOpenCheck(c) PROVE BillsGoal
  <2> DEFINE x == [k EXCEPT !.status = "CANCELLED", !.members = {}, !.scopes = {}, !.total = 0, !.tip = 0]
  <2>1. /\ check[c].status = "OPEN" /\ check' = [check EXCEPT ![c] = x] /\ Release(OwnedBy(c))
        /\ UNCHANGED <<seating, seat, draft, view>>
    BY <1>7 DEF CancelOpenCheck, Modifiable
  <2> HIDE DEF k
  <2>2. {} \in CheckMembers /\ {} \in CheckScopes
    BY DEF CheckMembers, CheckScopes
  <2>3. /\ x \in Check /\ x.total = 0 /\ x.status = "CANCELLED" /\ x.decision = k.decision
        /\ x.members = {} /\ x.scopes = {} /\ x.version = k.version
    BY <1>4, <2>2 DEF Check, CheckStatuses
  <2> HIDE DEF x
  <2>4. /\ x.total = Cardinality(OwnedBy(c)) - Cardinality(OwnedBy(c)) /\ x.decision = "NONE"
        /\ x.version # check[c].version
        /\ x.members \subseteq check[c].members /\ x.scopes \subseteq check[c].scopes
    BY <1>1, <1>3, <1>4, <2>1, <2>3
  <2>5. OwnedBy(c) \in SUBSET OwnedBy(c)
    OBVIOUS
  <2>6. QED
    BY <1>5, <2>1, <2>3, <2>4, <2>5
<1>8. QED
  BY <1>6, <1>7

\* The check is paid: its orders are settled with it.
LEMMA SettleGoal ==
    ASSUME ChecksInv, NEW c \in DOMAIN check, SettleFrozenCheck(c)
    PROVE  BillsGoal
<1> DEFINE x == [check[c] EXCEPT !.status = "SETTLED", !.decision = "PENDING"]
           os == OwnedBy(c)
           f == [o \in os |-> [order[o] EXCEPT !.state = "SETTLED"]]
<1>1. /\ BooksBalance /\ ChecksApart /\ check \in Seq(Check) /\ order \in Seq(Allocation)
      /\ check[c].total = Cardinality(os) /\ view \in [Clients -> RequestView \cup {NoView}]
      /\ OrdersTellTheirCheck /\ \A o \in DOMAIN order : order[o].state = "FREE" <=> order[o].check = Free
  BY ChecksParts DEF BooksBalance, TotalIsOwned, Consumption, SeatsTyped
<1>2. /\ check[c].status = "FROZEN" /\ check' = [check EXCEPT ![c] = x]
      /\ order' = [o \in DOMAIN order |-> IF o \in os THEN [order[o] EXCEPT !.state = "SETTLED"] ELSE order[o]]
      /\ UNCHANGED <<seating, seat, draft, view>>
  BY DEF SettleFrozenCheck
<1>3. os \in SUBSET DOMAIN order /\ check[c] \in Check
  BY <1>1 DEF OwnedBy
<1>4. /\ x \in Check /\ x.total = check[c].total /\ x.status = "SETTLED" /\ x.decision = "PENDING"
      /\ x.members = check[c].members /\ x.scopes = check[c].scopes
  BY <1>3 DEF Check, CheckStatuses, Decisions
<1> HIDE DEF x
<1>5. \A o \in os : order[o] \in Allocation /\ order[o].check = c
  BY <1>1 DEF OwnedBy
<1>6. Moved(os, "SETTLED", c)
  <2>1. order' = [o \in DOMAIN order |-> IF o \in os THEN f[o] ELSE order[o]]
    BY <1>2
  <2>2. \A o \in os : f[o] \in Allocation /\ f[o].diner = order[o].diner /\ f[o].state = "SETTLED" /\ f[o].check = c
    BY <1>5 DEF Allocation
  <2> HIDE DEF os, f
  <2>3. QED
    BY <1>1, <1>3, <2>1, <2>2, OrdersMoved
<1>7. CheckIs(c, x) /\ c \in Nat \ {0}
  BY <1>1, <1>2, <1>4, CheckPut DEF CheckIs
<1>8. \A o \in DOMAIN order : o \in os <=> order[o].check = c
  BY DEF OwnedBy
<1> HIDE DEF os, f
<1>9. \A o \in os : order[o].state # "FREE" /\ order[o].state # "SETTLED"
  <2>1. \A o \in os : o \in DOMAIN order /\ order[o].state # "FREE"
    BY <1>1, <1>3, <1>5, <1>7 DEF Free
  <2>2. QED
    BY <1>1, <1>2, <1>5, <2>1 DEF OrdersTellTheirCheck
<1>10. OrdersKept
  BY <1>6, <1>9 DEF OrdersKept, Moved
<1>11. BooksBalance'
  <2>1. \A o \in DOMAIN order :
            \/ order'[o] = order[o] /\ order[o].check # c
            \/ /\ order[o].check \in {Free, c} /\ order'[o].check \in {Free, c}
               /\ order'[o].state = "FREE" <=> order'[o].check = Free
               /\ order'[o].state = "CLAIMED" => x.status \in {"OPEN", "FROZEN"}
               /\ order'[o].state = "SETTLED" => x.status = "SETTLED"
    BY <1>4, <1>5, <1>6, <1>7, <1>8 DEF Moved, Free
  <2>2. {o \in DOMAIN order' : order'[o].check = c} = os
    BY <1>3, <1>6, <1>8 DEF Moved
  <2>3. x.total = Cardinality({o \in DOMAIN order' : order'[o].check = c})
    BY <1>1, <1>4, <2>2
  <2>4. x.status # "SETTLED" <=> x.decision = "NONE"
    BY <1>4
  <2>5. QED
    BY <1>1, <1>4, <1>6, <1>7, <2>1, <2>3, <2>4, BooksChanged DEF Moved, CheckIs
<1>12. ChecksApart'
  <2>1. /\ DOMAIN check' = DOMAIN check
        /\ \A e \in DOMAIN check : check'[e].members \subseteq check[e].members /\ check'[e].scopes \subseteq check[e].scopes
    BY <1>4, <1>7 DEF CheckIs
  <2>2. QED
    BY <1>1, <1>2, <2>1, ApartKept
<1>13. view' \in [Clients -> RequestView \cup {NoView}]
  BY <1>1, <1>2
<1>14. QED
  BY <1>2, <1>4, <1>7, <1>10, <1>11, <1>12, <1>13, ClaimGoal

\* A check is created for the diners selected, with their free orders.
LEMMA CreateGoal ==
    ASSUME ChecksInv, NEW r \in Clients, NEW selected \in SUBSET Diners, NEW controller, NEW scopes \in SUBSET Seatings,
           CreateCheck(r, selected, controller, scopes)
    PROVE  BillsGoal
<1> DEFINE os == EligibleOrders(selected)
           ms == IF scopes = {} THEN selected
                 ELSE {order[o].diner : o \in os} \cup (selected \cap {controller})
           x == [status |-> "OPEN", version |-> 1, members |-> ms, scopes |-> scopes,
                 controller |-> controller, total |-> Consumption(os), tip |-> 0, decision |-> "NONE"]
           n == Len(check) + 1
<1>1. /\ BooksBalance /\ ChecksApart /\ check \in Seq(Check) /\ order \in Seq(Allocation)
      /\ OrdersTellTheirCheck /\ \A o \in DOMAIN order : order[o].state = "FREE" <=> order[o].check = Free
  BY ChecksParts DEF BooksBalance
<1>2. /\ controller \in selected \cup {Nobody} /\ NoActiveMembership(ms) /\ ScopesFree(scopes)
      /\ check' = Append(check, x) /\ Claim(os, n) /\ Finish(r) /\ UNCHANGED <<seating, seat, draft>>
  BY DEF CreateCheck
<1>3. /\ os \in SUBSET DOMAIN order /\ \A o \in os : order[o].state = "FREE" /\ order[o].diner \in selected
  BY DEF EligibleOrders, OrdersOf
<1> HIDE DEF os
<1>4. ms \in CheckMembers /\ scopes \in CheckScopes /\ controller \in Diners \cup {Nobody}
  BY <1>2, <1>3 DEF CheckMembers, CheckScopes
<1> HIDE DEF ms
<1>5. Consumption(os) \in Nat /\ Consumption(os) = Cardinality(os)
  BY <1>1, <1>3, OrdersFinite DEF Consumption
<1>6. /\ x \in Check /\ x.total = Cardinality(os) /\ x.status = "OPEN" /\ x.decision = "NONE"
      /\ x.members = ms /\ x.scopes = scopes
  BY <1>4, <1>5 DEF Check, CheckStatuses, Decisions
<1> HIDE DEF x
<1>7. CheckIs(n, x) /\ n \in Nat \ {0} /\ n \notin DOMAIN check
  BY <1>1, <1>2, <1>6 DEF CheckIs
<1> HIDE DEF n
<1>8. BooksBalance' /\ OrdersKept
  <2>1. OwnedBy(n) = {}
    BY <1>1, <1>7 DEF OwnedBy, OrdersTellTheirCheck, Free
  <2>2. Cardinality(OwnedBy(n)) = 0
    BY <2>1, FS_EmptySet
  <2>3. x.total = Cardinality(OwnedBy(n)) + Cardinality(os)
    BY <1>5, <1>6, <2>2
  <2>4. QED
    BY <1>1, <1>2, <1>3, <1>6, <1>7, <2>3, ClaimBooks
<1>9. ChecksApart'
  <2>1. \A e \in DOMAIN check : \A d \in ms : d \notin check[e].members /\ seat[d].at \notin check[e].scopes
    BY <1>2 DEF NoActiveMembership, OrderingBlocked, MemberOf, ScopedBy
  <2>2. \A e \in DOMAIN check : \A s \in scopes : s \notin check[e].scopes /\ \A d \in check[e].members : seat[d].at # s
    BY <1>2 DEF ScopesFree, ScopedBy
  <2>3. ASSUME NEW e \in DOMAIN check, e # n
        PROVE  /\ x.members \cap check[e].members = {} /\ x.scopes \cap check[e].scopes = {}
               /\ \A m \in x.members : seat[m].status = "ACTIVE" => seat[m].at \notin check[e].scopes
               /\ \A m \in check[e].members : seat[m].status = "ACTIVE" => seat[m].at \notin x.scopes
    BY <1>6, <2>1, <2>2
  <2>4. QED
    BY <1>1, <1>2, <1>7, <2>3, ApartChanged
<1>10. view' \in [Clients -> RequestView \cup {NoView}]
  BY <1>2, ViewFacts
<1>11. QED
  BY <1>2, <1>7, <1>8, <1>9, <1>10, ClaimGoal

\* The three ways to create one.
LEMMA CreateSteps ==
    ASSUME ChecksInv, NEW r \in Clients,
           \/ \E d \in Diners : CreateIndividualCheck(r, d)
           \/ \E s \in Seatings, d \in Diners \cup {Nobody} : CreateGlobalTableCheck(r, s, d)
           \/ \E ds \in SUBSET Diners, ss \in SUBSET Seatings : CreateScopedCheck(r, ds, ss)
    PROVE  BillsGoal
<1>1. ASSUME NEW d \in Diners, CreateIndividualCheck(r, d) PROVE BillsGoal
  <2>1. {d} \in SUBSET Diners /\ {} \in SUBSET Seatings
    OBVIOUS
  <2>2. QED
    BY <1>1, <2>1, CreateGoal DEF CreateIndividualCheck
<1>2. ASSUME NEW s \in Seatings, NEW d, CreateGlobalTableCheck(r, s, d) PROVE BillsGoal
  <2>1. Serving(r) /\ CreateCheck(r, view[r].active[s], d, {s})
    BY <1>2 DEF CreateGlobalTableCheck
  <2>2. view[r].active[s] \in SUBSET Diners /\ {s} \in SUBSET Seatings
    BY <2>1, ViewFacts
  <2>3. QED
    BY <2>1, <2>2, CreateGoal
<1>3. ASSUME NEW ds \in SUBSET Diners, NEW ss \in SUBSET Seatings, CreateScopedCheck(r, ds, ss) PROVE BillsGoal
  <2>1. Serving(r) /\ CreateCheck(r, ds \cup UNION {view[r].active[s] : s \in ss}, Nobody, ss)
    BY <1>3 DEF CreateScopedCheck
  <2>2. \A s \in ss : view[r].active[s] \subseteq Diners
    BY <2>1, ViewFacts
  <2>3. ds \cup UNION {view[r].active[s] : s \in ss} \in SUBSET Diners
    BY <2>2
  <2>4. QED
    BY <2>1, <2>3, CreateGoal
<1>4. QED
  BY <1>1, <1>2, <1>3

\* Nobody has sat down yet.
LEMMA ChecksStarts == ChecksInit => ChecksInv
<1> SUFFICES ASSUME ChecksInit PROVE ChecksInv
  OBVIOUS
<1>1. order = <<>> /\ check = <<>> /\ DOMAIN order = {} /\ DOMAIN check = {}
  BY DEF ChecksInit
<1>2. SeatsTyped
  <2>1. Max(PartySizes) \in PartySizes
    BY ChecksConstants DEF Max
  <2>2. (CHOOSE s \in Seatings : TRUE) \in Seatings
    BY ChecksConstants
  <2>3. NoDraft \in OrderDraft /\ 0 \in 0 .. JoinLimit
    BY ChecksConstants DEF OrderDraft, NoDraft
  <2>4. seating \in [Seatings -> ServiceSeating]
    BY <2>1, <2>3 DEF ChecksInit, ServiceSeating
  <2>5. seat \in [Diners -> DinerSession]
    BY <2>2 DEF ChecksInit, DinerSession
  <2>6. QED
    BY <2>3, <2>4, <2>5 DEF ChecksInit, SeatsTyped
<1>3. order \in Seq(Allocation) /\ check \in Seq(Check)
  BY <1>1
<1>4. BooksBalance /\ ChecksApart
  BY <1>1, <1>3 DEF BooksBalance, ChecksApart, OrdersTellTheirCheck, TotalIsOwned
<1>5. EndedHavePaid
  BY DEF ChecksInit, EndedHavePaid
<1>6. QED
  BY <1>2, <1>4, <1>5, ChecksParts

\* The invariant says what the property does: whoever left has paid, totals are owned, and
\* claims are exclusive.
LEMMA ChecksMeans == ChecksInv => BillsAreOwned
<1> SUFFICES ASSUME ChecksInv PROVE BillsAreOwned
  OBVIOUS
<1>1. ChecksTypeOK /\ TotalIsOwned /\ OrdersTellTheirCheck /\ EndedHavePaid /\ ChecksApart /\ check \in Seq(Check)
  BY DEF ChecksInv, ChecksTypeOK
<1>2. EndedDinersAreClear
  BY <1>1 DEF EndedDinersAreClear, EndedHavePaid, OrdersTellTheirCheck, Settled, OrdersOf
<1>3. ASSUME NEW d \in Diners PROVE Cardinality(MemberOf(d)) <= 1
  <2>1. CASE MemberOf(d) = {}
    BY <2>1, FS_EmptySet
  <2>2. CASE MemberOf(d) # {}
    <3>1. PICK c \in MemberOf(d) : TRUE
      BY <2>2
    <3>2. \A e \in MemberOf(d) : e = c
      BY <1>1, <3>1 DEF MemberOf, ChecksApart
    <3>3. MemberOf(d) = {c}
      BY <3>1, <3>2
    <3>4. Cardinality({c}) = 1
      BY FS_Singleton
    <3>5. QED
      BY <3>3, <3>4
  <2>3. QED
    BY <2>1, <2>2
<1>4. ASSUME NEW s \in Seatings, NEW c \in ScopedBy(s)
      PROVE  ScopedBy(s) = {c} /\ \A d \in Diners : seat[d].at = s /\ seat[d].status = "ACTIVE" => MemberOf(d) \subseteq {c}
  <2>1. \A e \in ScopedBy(s) : e = c
    BY <1>1, <1>4 DEF ScopedBy, ChecksApart
  <2>2. ASSUME NEW d \in Diners, seat[d].at = s, seat[d].status = "ACTIVE", NEW e \in MemberOf(d) PROVE e = c
    BY <1>1, <1>4, <2>2 DEF ScopedBy, MemberOf, ChecksApart
  <2>3. QED
    BY <2>1, <2>2
<1>5. QED
  BY <1>1, <1>2, <1>3, <1>4 DEF BillsAreOwned, ClaimsAreExclusive

\* Every step keeps the invariant, the checks that can be paid and the settled orders.
LEMMA ChecksStep == ChecksInv /\ ChecksNext => BillsGoal
<1> SUFFICES ASSUME ChecksInv, ChecksNext PROVE BillsGoal
  OBVIOUS
<1>1. CASE \/ \E r \in Clients : BeginRequest(r)
           \/ \E d \in Diners, s \in Seatings : JoinDiner(d, s)
           \/ \E s \in Seatings : RecordFailure(s)
           \/ \E s \in Seatings : FailureWindowPasses(s)
           \/ \E r \in Clients, s \in Seatings, n \in PartySizes : UpdatePartySize(r, s, n)
           \/ \E r \in Clients, d \in Diners : GetOrCreateDraft(r, d)
           \/ \E r \in Clients, d \in Diners : AddItem(r, d)
           \/ \E r \in Clients, d \in Diners : RemoveItem(r, d)
           \/ \E r \in Clients, d \in Diners : AbandonCurrentDraft(r, d)
  BY <1>1, SeatingSteps
<1>2. CASE (\E d \in Diners : EndDinerSession(d)) \/ (\E s \in Seatings : CloseSeating(s))
  BY <1>2, EndSteps
<1>3. CASE \E r \in Clients, d \in Diners : ConfirmCurrentOrder(r, d)
  BY <1>3, ConfirmGoal
<1>4. CASE \/ \E r \in Clients, d \in Diners : CreateIndividualCheck(r, d)
           \/ \E r \in Clients, s \in Seatings, d \in Diners \cup {Nobody} : CreateGlobalTableCheck(r, s, d)
           \/ \E r \in Clients, ds \in SUBSET Diners, ss \in SUBSET Seatings : CreateScopedCheck(r, ds, ss)
  BY <1>4, CreateSteps
<1>5. CASE \E r \in Clients, c \in DOMAIN check, d \in Diners : AddMember(r, c, d)
  BY <1>5, AddMemberGoal
<1>6. CASE \/ \E c \in DOMAIN check, d \in Diners : RemoveMember(c, d)
           \/ \E c \in DOMAIN check : CancelOpenCheck(c)
  BY <1>6, ReleaseSteps
<1>7. CASE \E c \in DOMAIN check : SettleFrozenCheck(c)
  BY <1>7, SettleGoal
<1>8. CASE \/ \E c \in DOMAIN check, d \in Diners : TransferController(c, d)
           \/ \E c \in DOMAIN check, p \in BOOLEAN : ElectGratuity(c, p)
           \/ \E r \in Clients, c \in DOMAIN check : FreezeOpenCheck(r, c)
           \/ \E c \in DOMAIN check, answer \in {"YES", "NO"} : DecideContinuation(c, answer)
  BY <1>8, NoteSteps
<1>9. QED
  BY <1>1, <1>2, <1>3, <1>4, <1>5, <1>6, <1>7, <1>8, Zenon DEF ChecksNext

\* A step that changes nothing keeps it too.
LEMMA ChecksStutter == ChecksInv /\ UNCHANGED checkVars => ChecksInv'
<1> SUFFICES ASSUME ChecksInv, UNCHANGED checkVars PROVE ChecksInv'
  OBVIOUS
<1>1. SeatsTyped /\ BooksBalance /\ EndedHavePaid /\ ChecksApart
  BY ChecksParts
<1>2. UNCHANGED <<order, check>> /\ seat' = seat /\ SeatsTyped'
  BY <1>1 DEF checkVars, SeatsTyped
<1>3. \A d \in Diners : seat[d].status = "ENDED" => draft'[d] = draft[d]
  BY DEF checkVars
<1>4. QED
  BY <1>2, <1>3, SeatingGoal DEF BillsGoal

\* ChecksInv is an invariant.
THEOREM ChecksSafety == ChecksSpec => []ChecksInv
<1>1. ChecksInv /\ [ChecksNext]_checkVars => ChecksInv'
  BY ChecksStep, ChecksStutter DEF BillsGoal
<1>2. QED
  BY <1>1, ChecksStarts, PTL DEF ChecksSpec

\* Whatever the requests of a table saw when they began: the total of every check is what its
\* orders cost, nobody is on two checks, and whoever left has paid for every order.
THEOREM BillsOwned == ChecksSpec => []BillsAreOwned
  BY ChecksSafety, ChecksMeans, PTL

\* One version of a check that can still be paid has one content, and no settled order is
\* ever released, claimed or settled again.
THEOREM VersionsName == ChecksSpec => VersionNamesContent
<1>1. ChecksInv /\ [ChecksNext]_checkVars => [Stable]_checkVars
  BY ChecksStep DEF BillsGoal
<1>2. ChecksSpec => [][Stable]_checkVars
  BY <1>1, ChecksSafety, PTL DEF ChecksSpec
<1>3. QED
  BY <1>2 DEF VersionNamesContent, Stable
=============================================================================
