--------------------------- MODULE BackOfficeProofs ---------------------------
(***************************************************************************)
(* Staff sessions, organizations with their headquarters, staff access,    *)
(* fiscal issuance, product structure and checkout, for any number of      *)
(* clients, locations, people, rows, documents, attempts, products and     *)
(* orders.                                                                 *)
(***************************************************************************)
EXTENDS StaffAccess, StaffSessions, SiteLifecycle, Sales, SumProofs, FiniteSetTheorems, TLAPS

-----------------------------------------------------------------------------
(* Staff sessions.                                                         *)

\* Before the first login.
LEMMA SessionInvInit == SessionInit => SessionInv
<1> SUFFICES ASSUME SessionInit PROVE SessionInv
  OBVIOUS
<1>1. Fresh \in ClientState /\ Fresh.token = 0 /\ Fresh.at = "out" /\ 0 \in 0 .. MaxPasswords
  BY SessionBounds DEF Fresh, ClientState
<1>2. session \in [1 .. 0 -> SessionRow] /\ 0 \in 0 .. MaxSessions /\ DOMAIN session = {}
  BY SessionBounds DEF SessionInit
<1>3. client \in [Clients -> ClientState] /\ \A c \in Clients : client[c] = Fresh
  BY <1>1 DEF SessionInit
<1>4. QED
  BY <1>1, <1>2, <1>3 DEF SessionInit, SessionInv, ActiveSessions, OldPasswordServesNobody

\* A step that touches one client only, and leaves it out or with the token it had.
LEMMA ClientKeepsSessions ==
    ASSUME SessionInv, NEW c \in Clients, NEW x \in ClientState,
           client' = [client EXCEPT ![c] = x], UNCHANGED <<password, session, served>>,
           x.at # "in", x.token \in {0, client[c].token}
    PROVE  SessionInv'
<1>1. client'[c] = x /\ \A d \in Clients \ {c} : client'[d] = client[d]
  BY DEF SessionInv
<1>2. client' \in [Clients -> ClientState] /\ ActiveSessions' = ActiveSessions
  BY DEF SessionInv, ActiveSessions
<1>3. QED
  BY <1>1, <1>2 DEF SessionInv, OldPasswordServesNobody

\* One step of a user's sessions.
LEMMA SessionInvNext == SessionInv /\ [SessionNext]_sessionVars => SessionInv'
<1> SUFFICES ASSUME SessionInv, [SessionNext]_sessionVars PROVE SessionInv'
  OBVIOUS
<1>n. PICK n \in 0 .. MaxSessions : session \in [1 .. n -> SessionRow]
  BY DEF SessionInv
<1>0. /\ n \in Nat /\ DOMAIN session = 1 .. n /\ Cardinality(DOMAIN session) = n
      /\ \A c \in Clients : client[c] \in ClientState
      /\ Fresh \in ClientState /\ Fresh.token = 0 /\ Fresh.at = "out"
  <2>1. n \in Nat /\ DOMAIN session = 1 .. n
    BY <1>n, SessionBounds
  <2>2. Cardinality(1 .. n) = n
    BY <2>1, FS_Interval
  <2>3. QED
    BY <2>1, <2>2, SessionBounds DEF SessionInv, Fresh, ClientState
<1>1. CASE UNCHANGED sessionVars
  BY <1>1 DEF sessionVars, SessionInv, ActiveSessions, OldPasswordServesNobody
<1>2. ASSUME NEW c \in Clients, NEW t \in 0 .. MaxPasswords, VerifyPassword(c, t)
      PROVE  SessionInv'
  <2> DEFINE x == [client[c] EXCEPT !.at = "verified", !.read = password, !.knows = t]
  <2>1. x \in ClientState /\ x.at = "verified" /\ x.token = client[c].token
    BY <1>0 DEF ClientState, SessionInv
  <2>2. client' = [client EXCEPT ![c] = x] /\ UNCHANGED <<password, session, served>>
    BY <1>2 DEF VerifyPassword
  <2> HIDE DEF x
  <2>3. QED
    BY <2>1, <2>2, ClientKeepsSessions
<1>3. ASSUME NEW c \in Clients, RefuseLogin(c) \/ ForgetToken(c) PROVE SessionInv'
  BY <1>0, <1>3, ClientKeepsSessions DEF RefuseLogin, ForgetToken
<1>4. ASSUME NEW c \in Clients, CreateStaffAuthSession(c) PROVE SessionInv'
  <2> DEFINE x   == [client[c] EXCEPT !.at = "in", !.token = n + 1]
             row == [status |-> "ACTIVE", password |-> password]
  <2>1. /\ n + 1 \in 0 .. MaxSessions /\ ActiveSessions = {} /\ password = client[c].read
        /\ session' = [m \in (1 .. n) \cup {n + 1} |-> IF m = n + 1 THEN row ELSE session[m]]
        /\ client' = [client EXCEPT ![c] = x] /\ UNCHANGED <<password, served>>
    <3>1. client[c].read = password /\ DOMAIN session = 1 .. n /\ Cardinality(DOMAIN session) = n
      BY <1>0, <1>4 DEF CreateStaffAuthSession, HashUnchanged
    <3>2. /\ n + 1 <= MaxSessions /\ ActiveSessions = {}
          /\ session' = [m \in (1 .. n) \cup {n + 1} |-> IF m = n + 1
                THEN [status |-> "ACTIVE", password |-> password] ELSE session[m]]
          /\ client' = [client EXCEPT ![c].at = "in", ![c].token = n + 1]
          /\ UNCHANGED <<password, served>>
      BY <1>4, <3>1, Zenon DEF CreateStaffAuthSession
    <3>3. n + 1 \in 0 .. MaxSessions
      BY <1>0, <3>2, SessionBounds
    <3>4. client' = [client EXCEPT ![c] = x]
      BY <3>2
    <3>5. QED
      BY <3>1, <3>2, <3>3, <3>4
  <2>2. x \in ClientState /\ x.token = n + 1
    <3>1. client[c] \in ClientState /\ n + 1 \in Nat
      BY <1>0
    <3>2. QED
      BY <3>1 DEF ClientState
  <2>3. row \in SessionRow /\ row.password = password /\ row.status = "ACTIVE"
    BY DEF SessionRow, SessionInv
  <2> HIDE DEF x, row
  <2>4. (1 .. n) \cup {n + 1} = 1 .. (n + 1) /\ n + 1 \notin 1 .. n
    BY <1>0
  <2>5. /\ session' \in [1 .. (n + 1) -> SessionRow] /\ DOMAIN session' = 1 .. (n + 1)
        /\ session'[n + 1] = row /\ \A m \in 1 .. n : session'[m] = session[m]
    BY <1>n, <2>1, <2>3, <2>4
  <2>6. ActiveSessions' = {n + 1}
    BY <1>0, <2>1, <2>3, <2>4, <2>5 DEF ActiveSessions
  <2>7. client'[c] = x /\ \A d \in Clients \ {c} : client'[d] = client[d]
    BY <2>1 DEF SessionInv
  <2>8. client' \in [Clients -> ClientState]
    BY <2>1, <2>2 DEF SessionInv
  <2>9. DOMAIN session \subseteq DOMAIN session' /\ n + 1 \in DOMAIN session'
    BY <1>0, <2>5
  <2>10. OldPasswordServesNobody'
    <3>1. SUFFICES ASSUME NEW u \in served PROVE session'[u[1]].password = u[2]
      BY <2>1 DEF OldPasswordServesNobody
    <3>2. u[1] \in 1 .. n /\ session[u[1]].password = u[2]
      BY <1>0 DEF SessionInv, OldPasswordServesNobody
    <3>3. QED
      BY <2>5, <3>2
  <2>11. served' \subseteq (DOMAIN session') \X (0 .. MaxPasswords)
    BY <2>1, <2>9 DEF SessionInv
  <2>12. \A d \in Clients : /\ client'[d].token \in DOMAIN session' \cup {0}
                            /\ client'[d].at = "in" => client'[d].token \in DOMAIN session'
    BY <2>2, <2>7, <2>9 DEF SessionInv
  <2>13. \A m \in ActiveSessions' : session'[m].password = password'
    BY <2>1, <2>3, <2>5, <2>6
  <2>14. \E k \in 0 .. MaxSessions : session' \in [1 .. k -> SessionRow]
    BY <2>1, <2>5
  <2>15. QED
    BY <2>1, <2>6, <2>8, <2>10, <2>11, <2>12, <2>13, <2>14 DEF SessionInv
<1>5. ASSUME NEW c \in Clients, ServeRequest(c) PROVE SessionInv'
  <2>1. /\ client[c].token \in ActiveSessions /\ client[c].token \in DOMAIN session
        /\ served' = served \cup {<<client[c].token, password>>}
        /\ UNCHANGED <<password, session, client>>
    BY <1>5 DEF ServeRequest, Authenticated, ActiveSessions, SessionInv
  <2>2. session[client[c].token].password = password
    BY <2>1 DEF SessionInv
  <2>3. OldPasswordServesNobody'
    BY <2>1, <2>2 DEF SessionInv, OldPasswordServesNobody
  <2>4. served' \subseteq (DOMAIN session) \X (0 .. MaxPasswords)
    BY <2>1 DEF SessionInv
  <2>5. QED
    BY <2>1, <2>3, <2>4 DEF SessionInv, ActiveSessions
<1>6. ASSUME /\ UNCHANGED <<client, served>>
             /\ DOMAIN session' = DOMAIN session
             /\ session' \in [1 .. n -> SessionRow]
             /\ \A m \in DOMAIN session : session'[m].password = session[m].password
             /\ ActiveSessions' \subseteq ActiveSessions
             /\ password' \in 0 .. MaxPasswords
             /\ ActiveSessions' = {} \/ password' = password
      PROVE  SessionInv'
  <2>1. OldPasswordServesNobody'
    <3>1. SUFFICES ASSUME NEW u \in served PROVE session'[u[1]].password = u[2]
      BY <1>6 DEF OldPasswordServesNobody
    <3>2. QED
      BY <1>6 DEF SessionInv, OldPasswordServesNobody
  <2>2. \A m \in ActiveSessions' : m \in DOMAIN session
    BY <1>6 DEF ActiveSessions
  <2>3. QED
    BY <1>6, <2>1, <2>2 DEF SessionInv
<1>7. ASSUME NEW c \in Clients, CloseStaffAuthSession(c) PROVE SessionInv'
  <2>t. PICK k : k = client[c].token
    OBVIOUS
  <2> DEFINE row == [session[k] EXCEPT !.status = "CLOSED"]
  <2>1. /\ k \in 1 .. n /\ session[k] \in SessionRow
        /\ UNCHANGED <<password, client, served>> /\ session' = [session EXCEPT ![k] = row]
    BY <1>n, <1>0, <1>7, <2>t DEF CloseStaffAuthSession, Authenticated, SessionInv
  <2>2. row \in SessionRow /\ row.status = "CLOSED" /\ row.password = session[k].password
    BY <2>1 DEF SessionRow
  <2> HIDE DEF row
  <2>3. /\ session' \in [1 .. n -> SessionRow] /\ DOMAIN session' = DOMAIN session
        /\ session'[k] = row /\ \A m \in DOMAIN session : m # k => session'[m] = session[m]
    BY <1>n, <2>1, <2>2
  <2>4. ActiveSessions' \subseteq ActiveSessions
    BY <2>2, <2>3 DEF ActiveSessions
  <2>5. password' \in 0 .. MaxPasswords
    BY <2>1 DEF SessionInv
  <2>6. QED
    BY <1>6, <2>1, <2>2, <2>3, <2>4, <2>5
<1>8. ASSUME ChangeStaffPassword PROVE SessionInv'
  <2>1. /\ UNCHANGED <<client, served>> /\ password' \in 0 .. MaxPasswords
        /\ session' = [m \in 1 .. n |-> IF m \in ActiveSessions
                          THEN [session[m] EXCEPT !.status = "REPLACED"] ELSE session[m]]
    BY <1>0, <1>8, SessionBounds DEF ChangeStaffPassword, ReplaceSessions, SessionInv
  <2>2. ASSUME NEW m \in 1 .. n
        PROVE  LET row == [session[m] EXCEPT !.status = "REPLACED"] IN
               /\ session[m] \in SessionRow /\ row \in SessionRow
               /\ row.status = "REPLACED" /\ row.password = session[m].password
    <3>1. session[m] \in SessionRow
      BY <1>n
    <3>2. QED
      BY <3>1 DEF SessionRow
  <2>3. ASSUME NEW m \in 1 .. n
        PROVE  /\ session'[m] \in SessionRow /\ session'[m].password = session[m].password
               /\ session'[m].status # "ACTIVE"
    BY <1>0, <2>1, <2>2 DEF ActiveSessions
  <2>4. session' \in [1 .. n -> SessionRow] /\ DOMAIN session' = DOMAIN session
    <3>1. DOMAIN session' = 1 .. n /\ session' = [m \in 1 .. n |-> session'[m]]
      BY <2>1, Zenon
    <3>2. QED
      BY <1>0, <2>3, <3>1
  <2>5. ActiveSessions' = {}
    BY <1>0, <2>3, <2>4 DEF ActiveSessions
  <2>6. QED
    BY <1>0, <1>6, <2>1, <2>3, <2>4, <2>5
<1>9. QED
  BY <1>1, <1>2, <1>3, <1>4, <1>5, <1>7, <1>8 DEF SessionNext

\* auth_sessions: a user never has two active sessions, and nobody is served on
\* the strength of a password that has been changed, whatever logins, logouts
\* and password changes overlap.
THEOREM SessionsOwned == SessionSpec => []SessionsServeTheirOwner
<1>1. SessionInv => SessionsServeTheirOwner
  <2> SUFFICES ASSUME SessionInv PROVE SessionsServeTheirOwner
    OBVIOUS
  <2>n. PICK n \in 0 .. MaxSessions : session \in [1 .. n -> SessionRow]
    BY DEF SessionInv
  <2>1. n \in Nat /\ DOMAIN session = 1 .. n /\ Cardinality(DOMAIN session) = n
    <3>1. n \in Nat /\ DOMAIN session = 1 .. n
      BY <2>n, SessionBounds
    <3>2. Cardinality(1 .. n) = n
      BY <3>1, FS_Interval
    <3>3. QED
      BY <3>1, <3>2
  <2>2. SessionTypeOK
    <3>1. \A m \in DOMAIN session : session[m].status \in {"ACTIVE", "CLOSED", "REPLACED"}
      BY <2>n, <2>1 DEF SessionRow
    <3>2. QED
      BY <2>1, <3>1 DEF SessionInv, SessionTypeOK
  <2>3. OneActiveSession
    <3>1. CASE ActiveSessions = {}
      BY <3>1, FS_EmptySet DEF OneActiveSession
    <3>2. CASE ActiveSessions # {}
      <4>1. PICK m \in ActiveSessions : ActiveSessions = {m}
        BY <3>2 DEF SessionInv
      <4>2. QED
        <5>1. Cardinality({m}) = 1
          BY FS_Singleton
        <5>2. QED
          BY <4>1, <5>1 DEF OneActiveSession
    <3>3. QED
      BY <3>1, <3>2
  <2>4. QED
    BY <2>2, <2>3 DEF SessionsServeTheirOwner, SessionInv
<1>2. QED
  BY <1>1, SessionInvInit, SessionInvNext, PTL DEF SessionSpec

-----------------------------------------------------------------------------
(* Organizations, locations and headquarters.                              *)

\* What is asked of an organization's row, and of a location's.
OrgSound(o) ==
    /\ org[o].hq # "none" => place[org[o].hq].org = o
    /\ org[o].status = "NONE" => org[o] = NoOrg
    /\ org[o].status = "ACTIVE" =>
          org[o].hq # "none" /\ place[org[o].hq] = [org |-> o, status |-> "ACTIVE"]
PlaceSound(l) == place[l].status = "NONE" => place[l] = NoPlace

\* The invariant, row by row.
LEMMA SiteInvParts ==
    SiteInv <=> /\ SiteTypeOK /\ HeadquartersLogIsAChain
                /\ \A o \in Orgs : OrgSound(o)
                /\ \A l \in Sites : PlaceSound(l)
  BY DEF SiteInv, HeadquartersAreKnown, ActiveOrganizationHasHeadquarters, OrgSound, PlaceSound

\* The same of the next state.
LEMMA SiteInvPartsNext ==
    ASSUME SiteTypeOK', HeadquartersLogIsAChain', \A o \in Orgs : OrgSound(o)',
           \A l \in Sites : PlaceSound(l)'
    PROVE  SiteInv'
  BY DEF SiteInv, HeadquartersAreKnown, ActiveOrganizationHasHeadquarters, OrgSound, PlaceSound

\* A recorded change extends its organization's chain and no other.
LEMMA LoggedExtendsChain ==
    ASSUME SiteTypeOK, HeadquartersLogIsAChain, NEW o \in Orgs, NEW l \in Sites, Logged(o, l),
           org'[o].hq = l, \A q \in Orgs \ {o} : org'[q].hq = org[q].hq
    PROVE  HeadquartersLogIsAChain' /\ hqLog' \in Seq(HqChange)
<1>n. PICK n : n = Len(hqLog)
  OBVIOUS
<1> DEFINE e == [org |-> o, from |-> org[o].hq, to |-> l]
<1>1. /\ hqLog \in Seq(HqChange) /\ n \in Nat /\ DOMAIN hqLog = 1 .. n
      /\ org[o].hq \in Sites \cup {"none"}
  BY <1>n DEF SiteTypeOK, OrgRow
<1>2. e \in HqChange /\ e.org = o /\ e.from = org[o].hq /\ e.to = l
  BY <1>1 DEF HqChange
<1>3. hqLog' = Append(hqLog, e)
  BY DEF Logged
<1> HIDE DEF e
<1>4. /\ hqLog' \in Seq(HqChange) /\ DOMAIN hqLog' = 1 .. (n + 1)
      /\ hqLog'[n + 1] = e /\ \A i \in 1 .. n : hqLog'[i] = hqLog[i]
  BY <1>n, <1>1, <1>2, <1>3
<1>5. ASSUME NEW q \in Orgs \ {o}
      PROVE  OfOrg(q)' = OfOrg(q) /\ OfOrg(q) \subseteq 1 .. n
  BY <1>1, <1>2, <1>4 DEF OfOrg
<1>6. OfOrg(o)' = OfOrg(o) \cup {n + 1} /\ OfOrg(o) \subseteq 1 .. n
  BY <1>1, <1>2, <1>4 DEF OfOrg
<1>7. HeadquartersLogIsAChain'
  <2>1. SUFFICES ASSUME NEW q \in Orgs
                 PROVE  /\ OfOrg(q)' = {} => org'[q].hq = "none"
                        /\ \A i \in OfOrg(q)' :
                              /\ (\A m \in OfOrg(q)' : i <= m) => hqLog'[i].from = "none"
                              /\ \A m \in OfOrg(q)' : m < i /\ (\A k \in OfOrg(q)' : k <= m \/ i <= k)
                                    => hqLog'[i].from = hqLog'[m].to
                              /\ (\A m \in OfOrg(q)' : m <= i) => org'[q].hq = hqLog'[i].to
    BY DEF HeadquartersLogIsAChain
  <2>2. CASE q # o
    BY <1>4, <1>5, <2>2 DEF HeadquartersLogIsAChain
  <2>3. CASE q = o
    <3>1. ASSUME NEW i \in OfOrg(o)'
          PROVE  /\ (\A m \in OfOrg(o)' : i <= m) => hqLog'[i].from = "none"
                 /\ \A m \in OfOrg(o)' : m < i /\ (\A k \in OfOrg(o)' : k <= m \/ i <= k)
                       => hqLog'[i].from = hqLog'[m].to
                 /\ (\A m \in OfOrg(o)' : m <= i) => org'[o].hq = hqLog'[i].to
      <4>1. CASE i = n + 1
        <5>1. (\A m \in OfOrg(o)' : i <= m) => OfOrg(o) = {}
          BY <1>1, <1>6, <4>1
        <5>2. OfOrg(o) = {} => org[o].hq = "none"
          BY DEF HeadquartersLogIsAChain
        <5>3. ASSUME NEW m \in OfOrg(o)', m < i, \A k \in OfOrg(o)' : k <= m \/ i <= k
              PROVE  hqLog'[i].from = hqLog'[m].to
          <6>1. m \in OfOrg(o) /\ m \in 1 .. n
            BY <1>1, <1>6, <4>1, <5>3
          <6>2. \A k \in OfOrg(o) : k <= m
            BY <1>1, <1>6, <4>1, <5>3, <6>1
          <6>3. org[o].hq = hqLog[m].to
            BY <6>1, <6>2 DEF HeadquartersLogIsAChain
          <6>4. QED
            BY <1>2, <1>4, <4>1, <6>1, <6>3
        <5>4. QED
          BY <1>2, <1>4, <4>1, <5>1, <5>2, <5>3
      <4>2. CASE i \in OfOrg(o)
        <5>1. i \in 1 .. n /\ hqLog'[i] = hqLog[i] /\ ~(n + 1 <= i)
          BY <1>1, <1>4, <1>6, <4>2
        <5>2. ASSUME NEW m \in OfOrg(o)', m < i, \A k \in OfOrg(o)' : k <= m \/ i <= k
              PROVE  hqLog'[i].from = hqLog'[m].to
          <6>1. m \in OfOrg(o) /\ m \in 1 .. n
            BY <1>1, <1>6, <5>1, <5>2
          <6>2. \A k \in OfOrg(o) : k <= m \/ i <= k
            BY <1>6, <5>2
          <6>3. QED
            BY <1>4, <4>2, <5>1, <5>2, <6>1, <6>2 DEF HeadquartersLogIsAChain
        <5>3. (\A m \in OfOrg(o)' : i <= m) => hqLog[i].from = "none"
          BY <1>6, <4>2 DEF HeadquartersLogIsAChain
        <5>4. ~ \A m \in OfOrg(o)' : m <= i
          BY <1>6, <5>1
        <5>5. QED
          BY <5>1, <5>2, <5>3, <5>4
      <4>3. QED
        BY <1>6, <4>1, <4>2
    <3>2. OfOrg(o)' # {}
      BY <1>6
    <3>3. QED
      BY <2>3, <3>1, <3>2
  <2>4. QED
    BY <2>2, <2>3
<1>8. QED
  BY <1>4, <1>7

\* Steps that change no headquarters leave the chains alone.
LEMMA UnloggedKeepsChain ==
    ASSUME HeadquartersLogIsAChain, hqLog' = hqLog, \A q \in Orgs : org'[q].hq = org[q].hq
    PROVE  HeadquartersLogIsAChain'
<1>1. \A q \in Orgs : OfOrg(q)' = OfOrg(q)
  BY DEF OfOrg
<1>2. QED
  BY <1>1 DEF HeadquartersLogIsAChain

\* Nothing provisioned yet.
LEMMA SiteInvInit == SiteInit => SiteInv
<1> SUFFICES ASSUME SiteInit PROVE SiteInv
  OBVIOUS
<1>1. NoOrg \in OrgRow /\ NoOrg.hq = "none" /\ NoOrg.status = "NONE"
  BY DEF NoOrg, OrgRow
<1>2. NoPlace \in PlaceRow
  BY DEF NoPlace, PlaceRow
<1>3. SiteTypeOK
  BY <1>1, <1>2 DEF SiteInit, SiteTypeOK
<1>4. HeadquartersLogIsAChain
  BY <1>1 DEF SiteInit, HeadquartersLogIsAChain, OfOrg
<1>5. (\A o \in Orgs : OrgSound(o)) /\ \A l \in Sites : PlaceSound(l)
  BY <1>1 DEF SiteInit, OrgSound, PlaceSound
<1>6. QED
  BY <1>3, <1>4, <1>5, SiteInvParts

\* A location that does not exist is nobody's headquarters.
LEMMA HeadquartersExist ==
    ASSUME SiteInv, NEW l \in Sites, place[l] = NoPlace, NEW o \in Orgs
    PROVE  org[o].hq # l
<1>1. OrgSound(o) /\ NoPlace.org = "none"
  BY SiteInvParts DEF NoPlace
<1>2. QED
  BY <1>1, SiteConstants DEF OrgSound

\* One step of organizations and locations.
LEMMA SiteInvNext == SiteInv /\ [SiteNext]_siteVars => SiteInv'
<1> SUFFICES ASSUME SiteInv, [SiteNext]_siteVars PROVE SiteInv'
  OBVIOUS
<1>0. /\ SiteTypeOK /\ HeadquartersLogIsAChain /\ org \in [Orgs -> OrgRow]
      /\ place \in [Sites -> PlaceRow] /\ hqLog \in Seq(HqChange)
      /\ \A o \in Orgs : OrgSound(o)
      /\ \A l \in Sites : PlaceSound(l)
  BY SiteInvParts DEF SiteTypeOK
<1>1. CASE UNCHANGED siteVars
  <2>1. SiteTypeOK' /\ (\A o \in Orgs : OrgSound(o)') /\ (\A l \in Sites : PlaceSound(l)')
    BY <1>0, <1>1 DEF siteVars, SiteTypeOK, OrgSound, PlaceSound
  <2>2. HeadquartersLogIsAChain'
    BY <1>0, <1>1, UnloggedKeepsChain DEF siteVars
  <2>3. QED
    BY <2>1, <2>2, SiteInvPartsNext
<1>2. ASSUME NEW o \in Orgs, CreateOrganization(o) PROVE SiteInv'
  <2> DEFINE x == [status |-> "INACTIVE", hq |-> "none"]
  <2>1. x \in OrgRow /\ x.status = "INACTIVE" /\ x.hq = "none" /\ org[o].hq = "none"
    BY <1>2 DEF OrgRow, CreateOrganization, NoOrg
  <2>2. org' = [org EXCEPT ![o] = x] /\ UNCHANGED <<place, hqLog>>
    BY <1>2 DEF CreateOrganization
  <2> HIDE DEF x
  <2>3. org'[o] = x /\ (\A q \in Orgs \ {o} : org'[q] = org[q]) /\ org' \in [Orgs -> OrgRow]
    BY <1>0, <2>1, <2>2
  <2>4. HeadquartersLogIsAChain'
    BY <1>0, <2>1, <2>2, <2>3, UnloggedKeepsChain
  <2>5. SiteTypeOK' /\ (\A q \in Orgs : OrgSound(q)') /\ (\A l \in Sites : PlaceSound(l)')
    BY <1>0, <2>1, <2>2, <2>3 DEF SiteTypeOK, OrgSound, PlaceSound
  <2>6. QED
    BY <2>4, <2>5, SiteInvPartsNext
<1>3. ASSUME NEW o \in Orgs, NEW s \in {"ACTIVE", "INACTIVE"}, UpdateOrganization(o, s)
      PROVE  SiteInv'
  <2> DEFINE x == [org[o] EXCEPT !.status = s]
  <2>1. x \in OrgRow /\ x.status = s /\ x.hq = org[o].hq
    BY <1>0 DEF OrgRow
  <2>2. org' = [org EXCEPT ![o] = x] /\ UNCHANGED <<place, hqLog>>
    BY <1>3 DEF UpdateOrganization
  <2> HIDE DEF x
  <2>3. org'[o] = x /\ (\A q \in Orgs \ {o} : org'[q] = org[q]) /\ org' \in [Orgs -> OrgRow]
    BY <1>0, <2>1, <2>2
  <2>4. HeadquartersLogIsAChain'
    BY <1>0, <2>1, <2>2, <2>3, UnloggedKeepsChain
  <2>5. OrgSound(o)'
    <3>1. ASSUME s = "ACTIVE"
          PROVE  org[o].hq # "none" /\ place[org[o].hq] = [org |-> o, status |-> "ACTIVE"]
      <4>1. org[o].hq \in Sites /\ place[org[o].hq].status = "ACTIVE" /\ place[org[o].hq].org = o
        BY <1>0, <1>3, <3>1 DEF UpdateOrganization, HeadquartersActive, OrgSound, OrgRow
      <4>2. place[org[o].hq] \in PlaceRow
        BY <1>0, <4>1
      <4>3. QED
        BY <4>1, <4>2, SiteConstants DEF PlaceRow
    <3>2. QED
      BY <1>0, <2>1, <2>2, <2>3, <3>1 DEF OrgSound
  <2>6. SiteTypeOK' /\ (\A q \in Orgs \ {o} : OrgSound(q)') /\ (\A l \in Sites : PlaceSound(l)')
    BY <1>0, <2>2, <2>3 DEF SiteTypeOK, OrgSound, PlaceSound
  <2>7. QED
    BY <2>4, <2>5, <2>6, SiteInvPartsNext
<1>4. ASSUME NEW l \in Sites, NEW s \in {"ACTIVE", "INACTIVE"}, UpdateLocation(l, s)
      PROVE  SiteInv'
  <2> DEFINE x == [place[l] EXCEPT !.status = s]
  <2>1. x \in PlaceRow /\ x.status = s /\ x.org = place[l].org
    BY <1>0 DEF PlaceRow
  <2>2. place' = [place EXCEPT ![l] = x] /\ UNCHANGED <<org, hqLog>>
    BY <1>4 DEF UpdateLocation
  <2>3. s = "ACTIVE" => x = [org |-> place[l].org, status |-> "ACTIVE"]
    BY <1>0, <2>1 DEF PlaceRow
  <2> HIDE DEF x
  <2>4. place'[l] = x /\ (\A m \in Sites \ {l} : place'[m] = place[m]) /\ place' \in [Sites -> PlaceRow]
    BY <1>0, <2>1, <2>2
  <2>5. HeadquartersLogIsAChain'
    BY <1>0, <2>2, UnloggedKeepsChain
  <2>6. ASSUME NEW q \in Orgs PROVE OrgSound(q)'
    <3>1. CASE org[q].hq = l
      <4>1. place[l].org = q
        BY <1>0, <3>1, SiteConstants DEF OrgSound
      <4>2. org[q].status = "ACTIVE" => s = "ACTIVE"
        BY <1>4, <3>1, <4>1 DEF UpdateLocation, MayDeactivate
      <4>3. QED
        BY <1>0, <2>1, <2>2, <2>3, <2>4, <3>1, <4>1, <4>2 DEF OrgSound
    <3>2. CASE org[q].hq # l
      <4>1. org[q].hq # "none" => place'[org[q].hq] = place[org[q].hq]
        BY <1>0, <2>4, <3>2 DEF OrgRow
      <4>2. QED
        BY <1>0, <2>2, <4>1 DEF OrgSound
    <3>3. QED
      BY <3>1, <3>2
  <2>7. SiteTypeOK' /\ (\A m \in Sites : PlaceSound(m)')
    BY <1>0, <2>1, <2>2, <2>4 DEF SiteTypeOK, PlaceSound
  <2>8. QED
    BY <2>5, <2>6, <2>7, SiteInvPartsNext
<1>5. ASSUME NEW o \in Orgs, NEW l \in Sites, place[l] = NoPlace, NEW x \in OrgRow,
             org' = [org EXCEPT ![o] = x],
             place' = [place EXCEPT ![l] = [org |-> o, status |-> "ACTIVE"]],
             x.status # "NONE",
             \/ x = org[o] /\ hqLog' = hqLog
             \/ /\ x.hq = l /\ Logged(o, l)
      PROVE  SiteInv'
  <2> DEFINE y == [org |-> o, status |-> "ACTIVE"]
  <2>1. y \in PlaceRow /\ y.org = o /\ y.status = "ACTIVE"
    BY DEF PlaceRow
  <2>2. y = [org |-> o, status |-> "ACTIVE"] /\ place' = [place EXCEPT ![l] = y]
    BY <1>5
  <2> HIDE DEF y
  <2>3. /\ place'[l] = y /\ (\A m \in Sites \ {l} : place'[m] = place[m]) /\ place' \in [Sites -> PlaceRow]
        /\ org'[o] = x /\ (\A q \in Orgs \ {o} : org'[q] = org[q]) /\ org' \in [Orgs -> OrgRow]
    <3>1. place'[l] = y /\ (\A m \in Sites \ {l} : place'[m] = place[m]) /\ place' \in [Sites -> PlaceRow]
      BY <1>0, <2>1, <2>2
    <3>2. org'[o] = x /\ (\A q \in Orgs \ {o} : org'[q] = org[q]) /\ org' \in [Orgs -> OrgRow]
      BY <1>0, <1>5
    <3>3. QED
      BY <3>1, <3>2
  <2>4. \A q \in Orgs : org[q].hq # l
    BY <1>5, HeadquartersExist
  <2>5. \A q \in Orgs : org[q].hq # "none" => place'[org[q].hq] = place[org[q].hq]
    BY <1>0, <2>3, <2>4 DEF OrgRow
  <2>6. HeadquartersLogIsAChain' /\ hqLog' \in Seq(HqChange)
    <3>1. CASE x = org[o] /\ hqLog' = hqLog
      BY <1>0, <2>3, <3>1, UnloggedKeepsChain
    <3>2. CASE x.hq = l /\ Logged(o, l)
      BY <1>0, <2>3, <3>2, LoggedExtendsChain
    <3>3. QED
      BY <1>5, <3>1, <3>2
  <2>7. ASSUME NEW q \in Orgs \ {o} PROVE OrgSound(q)'
    <3>1. org'[q] = org[q] /\ (org[q].hq # "none" => place'[org[q].hq] = place[org[q].hq])
      BY <2>3, <2>5
    <3>2. QED
      BY <1>0, <3>1 DEF OrgSound
  <2>8. OrgSound(o)'
    <3>1. CASE x = org[o]
      BY <1>0, <1>5, <2>3, <2>5, <3>1 DEF OrgSound
    <3>2. CASE x.hq = l
      BY <1>5, <2>1, <2>2, <2>3, <3>2, SiteConstants DEF OrgSound
    <3>3. QED
      BY <1>5, <3>1, <3>2
  <2>9. SiteTypeOK' /\ (\A m \in Sites : PlaceSound(m)')
    BY <1>0, <2>1, <2>3, <2>6 DEF SiteTypeOK, PlaceSound
  <2>10. QED
    BY <2>6, <2>7, <2>8, <2>9, SiteInvPartsNext
<1>6. ASSUME NEW o \in Orgs, NEW l \in Sites, CreateLocation(o, l) PROVE SiteInv'
  <2> DEFINE x == [org[o] EXCEPT !.hq = l]
  <2>1. /\ org[o] \in OrgRow /\ org[o].status # "NONE" /\ place[l] = NoPlace
        /\ place' = [place EXCEPT ![l] = [org |-> o, status |-> "ACTIVE"]]
    BY <1>0, <1>6 DEF CreateLocation, OrgSound
  <2>2. x \in OrgRow /\ x.hq = l /\ x.status # "NONE"
    BY <2>1 DEF OrgRow
  <2>3. \/ org' = [org EXCEPT ![o] = x] /\ Logged(o, l)
        \/ org' = org /\ hqLog' = hqLog
    BY <1>6 DEF CreateLocation
  <2> HIDE DEF x
  <2>4. org = [org EXCEPT ![o] = org[o]]
    BY <1>0
  <2>5. QED
    BY <1>5, <2>1, <2>2, <2>3, <2>4
<1>7. ASSUME NEW o \in Orgs, NEW l \in Sites, NEW k \in Operations, NEW m \in Manifests,
             ProvisionMinimalCore(k, m, o, l)
      PROVE  SiteInv'
  <2> DEFINE x == [status |-> "ACTIVE", hq |-> l]
  <2>1. x \in OrgRow /\ x.hq = l /\ x.status # "NONE"
    BY DEF OrgRow
  <2>2. /\ place[l] = NoPlace /\ Logged(o, l) /\ org' = [org EXCEPT ![o] = x]
        /\ place' = [place EXCEPT ![l] = [org |-> o, status |-> "ACTIVE"]]
    BY <1>7 DEF ProvisionMinimalCore
  <2> HIDE DEF x
  <2>3. QED
    BY <1>5, <2>1, <2>2
<1>8. ASSUME NEW o \in Orgs, NEW l \in Sites, NEW d \in BOOLEAN, UpdateHeadquarters(o, l, d)
      PROVE  SiteInv'
  <2>p. PICK p : p = org[o].hq
    OBVIOUS
  <2> DEFINE x == [org[o] EXCEPT !.hq = l]
             y == [place[p] EXCEPT !.status = "INACTIVE"]
  <2>1. /\ org[o] \in OrgRow /\ org[o].status # "NONE" /\ p # l /\ p \in Sites \cup {"none"}
        /\ place[l].org = o /\ place[l].status = "ACTIVE" /\ place[l] \in PlaceRow
    BY <1>0, <1>8, <2>p DEF UpdateHeadquarters, OrgSound, OrgRow
  <2>2. x \in OrgRow /\ x.hq = l /\ x.status = org[o].status
    BY <2>1 DEF OrgRow
  <2>3. place[l] = [org |-> o, status |-> "ACTIVE"]
    BY <2>1 DEF PlaceRow
  <2>4. p # "none" => y \in PlaceRow /\ y.status = "INACTIVE" /\ y.org = o
    <3>1. p # "none" => place[p] \in PlaceRow /\ place[p].org = o
      BY <1>0, <2>p, <2>1 DEF OrgSound
    <3>2. QED
      BY <3>1 DEF PlaceRow
  <2>5. /\ org' = [org EXCEPT ![o] = x] /\ Logged(o, l)
        /\ \/ place' = place
           \/ p # "none" /\ place' = [place EXCEPT ![p] = y]
    BY <1>8, <2>p DEF UpdateHeadquarters
  <2> HIDE DEF x, y
  <2>6. /\ org'[o] = x /\ (\A q \in Orgs \ {o} : org'[q] = org[q]) /\ org' \in [Orgs -> OrgRow]
    BY <1>0, <2>2, <2>5
  <2>7. /\ place' \in [Sites -> PlaceRow] /\ \A m \in Sites \ {p} : place'[m] = place[m]
        /\ \A m \in Sites : PlaceSound(m)'
    <3>1. CASE place' = place
      BY <1>0, <3>1 DEF PlaceSound
    <3>2. CASE p # "none" /\ place' = [place EXCEPT ![p] = y]
      BY <1>0, <2>1, <2>4, <3>2 DEF PlaceSound
    <3>3. QED
      BY <2>5, <3>1, <3>2
  <2>8. HeadquartersLogIsAChain' /\ hqLog' \in Seq(HqChange)
    BY <1>0, <2>2, <2>5, <2>6, LoggedExtendsChain
  <2>9. ASSUME NEW q \in Orgs \ {o} PROVE OrgSound(q)'
    <3>1. org[q].hq # "none" => org[q].hq # p
      BY <1>0, <2>p, <2>1 DEF OrgSound
    <3>2. org[q].hq # "none" => place'[org[q].hq] = place[org[q].hq]
      BY <1>0, <2>7, <3>1 DEF OrgRow
    <3>3. QED
      BY <1>0, <2>6, <3>2 DEF OrgSound
  <2>10. OrgSound(o)'
    <3>1. place'[l] = [org |-> o, status |-> "ACTIVE"]
      BY <2>1, <2>3, <2>7
    <3>2. QED
      BY <2>1, <2>2, <2>6, <3>1, SiteConstants DEF OrgSound
  <2>11. SiteTypeOK'
    BY <2>6, <2>7, <2>8 DEF SiteTypeOK
  <2>12. QED
    BY <2>7, <2>8, <2>9, <2>10, <2>11, SiteInvPartsNext
<1>9. QED
  BY <1>1, <1>2, <1>3, <1>4, <1>6, <1>7, <1>8 DEF SiteNext

\* organizations and locations: an active organization always has a headquarters
\* that is one of its own active locations, and the recorded changes form a chain
\* that ends at the present headquarters.
THEOREM HeadquartersKnownAlways == SiteSpec => []HeadquartersAreKnown
<1>1. SiteInv => HeadquartersAreKnown
  BY DEF SiteInv
<1>2. QED
  BY <1>1, SiteInvInit, SiteInvNext, PTL DEF SiteSpec

-----------------------------------------------------------------------------
(* Staff access.                                                           *)

\* What a row asks for.
LEMMA AsksTyped ==
    ASSUME NEW i \in Rows
    PROVE  /\ Asks[i].who \in People /\ Asks[i].role \in Roles /\ Asks[i].loc \in Locs
           /\ Asks[i].actor \in People /\ Key(i) \in ContKeys
           /\ Key(i)[1] = Asks[i].who /\ Key(i)[2] = Asks[i].role /\ Key(i)[3] = Asks[i].loc
  BY AccessConstants DEF Key, ContKeys

\* No continuation.
LEMMA NoContTyped == NoCont \in Continuation /\ NoCont.status = "NONE" /\ NoCont.inv = 0
  BY AccessConstants DEF NoCont, Continuation, Statuses

\* Accounts and access only grow, and whoever says so has given access first.
LEMMA AccessKept ==
    ASSUME AccessFollowsAccount, account \subseteq account',
           \A p \in People : located[p] \subseteq located'[p],
           \A p \in People : p \in account' \/ located'[p] = {},
           \A i \in Rows : step'[i] \in {"COMPLETE", "GRANTED"} =>
              \/ step[i] \in {"COMPLETE", "GRANTED"}
              \/ HasAccess(Asks[i].who, Asks[i].role, Asks[i].loc)',
           \A k \in ContKeys : cont'[k].status = "COMPLETE" =>
              cont[k].status = "COMPLETE" \/ HasAccess(k[1], k[2], k[3])
    PROVE  AccessFollowsAccount'
<1>1. ASSUME NEW p \in People, NEW r, NEW l, HasAccess(p, r, l) PROVE HasAccess(p, r, l)'
  BY <1>1 DEF HasAccess
<1>2. \A i \in Rows : step'[i] \in {"COMPLETE", "GRANTED"} =>
         HasAccess(Asks[i].who, Asks[i].role, Asks[i].loc)'
  BY <1>1, AsksTyped DEF AccessFollowsAccount
<1>3. CompleteMeansAccess'
  <2>1. SUFFICES ASSUME NEW k \in ContKeys, cont'[k].status = "COMPLETE"
                 PROVE  HasAccess(k[1], k[2], k[3])'
    BY DEF CompleteMeansAccess
  <2>2. k[1] \in People /\ HasAccess(k[1], k[2], k[3])
    BY <2>1 DEF AccessFollowsAccount, CompleteMeansAccess, ContKeys
  <2>3. QED
    BY <1>1, <2>2
<1>4. QED
  BY <1>2, <1>3 DEF AccessFollowsAccount

\* Steps that leave accounts and access alone.
LEMMA AccessLeft ==
    ASSUME AccessFollowsAccount, UNCHANGED <<account, located>>,
           \A i \in Rows : step'[i] \in {"COMPLETE", "GRANTED"} => step[i] \in {"COMPLETE", "GRANTED"},
           \A k \in ContKeys : cont'[k].status = "COMPLETE" =>
              cont[k].status = "COMPLETE" \/ HasAccess(k[1], k[2], k[3])
    PROVE  AccessFollowsAccount'
  BY AccessKept DEF AccessFollowsAccount

\* Steps that keep what people wait for, and keep what may be accepted within
\* reach.
LEMMA InvitationsKept ==
    ASSUME InvitationsFollowPeople,
           \A n \in DOMAIN inv : n \in DOMAIN inv' /\ inv'[n].who = inv[n].who,
           \A p \in People : \A m, n \in Slots(p)' : m = n,
           \A k \in ContKeys : cont'[k].status = "PENDING_ACCEPTANCE" =>
              \/ cont[k].status = "PENDING_ACCEPTANCE" /\ cont'[k].inv = cont[k].inv
              \/ cont'[k].inv \in DOMAIN inv /\ inv[cont'[k].inv].who = k[1],
           \A i \in Rows : step'[i] \in {"PENDING_ACCEPTANCE", "PENDING_REUSED"} =>
              \/ step[i] \in {"PENDING_ACCEPTANCE", "PENDING_REUSED"} /\ held'[i] = held[i]
              \/ held'[i] \in DOMAIN inv' /\ inv'[held'[i]].who = Asks[i].who,
           NothingLost' => NothingLost,
           \A n \in DOMAIN inv' : Usable(n)' => (n \in DOMAIN inv /\ Usable(n)) \/ Reachable(n)',
           NothingLost' => \A n \in DOMAIN inv :
              Reachable(n) => Reachable(n)' \/ ~AllNameOne(inv[n].who, n)',
           \A k \in ContKeys : cont[k] # NoCont => cont'[k] # NoCont /\ cont'[k].inv = cont[k].inv
    PROVE  InvitationsFollowPeople'
<1>1. \A k \in ContKeys : cont'[k].status = "PENDING_ACCEPTANCE" =>
         cont'[k].inv \in DOMAIN inv' /\ inv'[cont'[k].inv].who = k[1]
  BY DEF InvitationsFollowPeople
<1>2. \A i \in Rows : step'[i] \in {"PENDING_ACCEPTANCE", "PENDING_REUSED"} =>
         held'[i] \in DOMAIN inv' /\ inv'[held'[i]].who = Asks[i].who
  BY DEF InvitationsFollowPeople
<1>3. ASSUME NothingLost', NEW n \in DOMAIN inv', Usable(n)'
      PROVE  Reachable(n)' \/ ~AllNameOne(inv[n].who, n)'
  <2>1. CASE Reachable(n)'
    BY <2>1
  <2>2. CASE n \in DOMAIN inv /\ Usable(n)
    <3>1. Reachable(n) \/ ~AllNameOne(inv[n].who, n)
      BY <1>3, <2>2 DEF InvitationsFollowPeople
    <3>2. ~AllNameOne(inv[n].who, n) => ~AllNameOne(inv[n].who, n)'
      BY <2>2 DEF AllNameOne
    <3>3. QED
      BY <1>3, <2>2, <3>1, <3>2
  <2>3. QED
    BY <1>3, <2>1, <2>2
<1>4. QED
  BY <1>1, <1>2, <1>3 DEF InvitationsFollowPeople

\* A row moves on; nothing else that invitations depend on changes.
LEMMA RowMoves ==
    ASSUME AccessTyped, NEW i \in Rows, NEW s \in Steps, GoTo(i, s)
    PROVE  /\ step' \in [Rows -> Steps] /\ step'[i] = s
           /\ \A j \in Rows \ {i} : step'[j] = step[j]
  BY DEF AccessTyped, GoTo

\* The same, as far as invitations go.
LEMMA RowKeepsInvitations ==
    ASSUME AccessTyped, InvitationsFollowPeople, NEW i \in Rows, NEW s \in Steps, GoTo(i, s),
           UNCHANGED <<inv, told, held, accessCrashes>>,
           step[i] \notin {"PENDING_ACCEPTANCE", "PENDING_REUSED", "failed"},
           s \notin {"PENDING_ACCEPTANCE", "PENDING_REUSED"},
           \A k \in ContKeys : cont'[k].status = "PENDING_ACCEPTANCE" =>
              cont[k].status = "PENDING_ACCEPTANCE" /\ cont'[k].inv = cont[k].inv,
           \A k \in ContKeys : cont[k] # NoCont => cont'[k] # NoCont /\ cont'[k].inv = cont[k].inv
    PROVE  InvitationsFollowPeople'
<1>1. step'[i] = s /\ \A j \in Rows \ {i} : step'[j] = step[j]
  BY RowMoves
<1>2. NothingLost' => NothingLost
  BY <1>1 DEF NothingLost
<1>3. \A n : Reachable(n) => Reachable(n)'
  BY <1>1 DEF Reachable
<1>4. \A n : Usable(n)' <=> Usable(n)
  BY DEF Usable
<1>5. \A p \in People : \A m, n \in Slots(p)' : m = n
  BY DEF Slots, InvitationsFollowPeople
<1>6. \A j \in Rows : step'[j] \in {"PENDING_ACCEPTANCE", "PENDING_REUSED"} =>
         step[j] \in {"PENDING_ACCEPTANCE", "PENDING_REUSED"} /\ held'[j] = held[j]
  BY <1>1
<1>7. QED
  BY <1>2, <1>3, <1>4, <1>5, <1>6, InvitationsKept

\* Steps that touch neither rows nor invitations.
LEMMA QuietKeepsInvitations ==
    ASSUME InvitationsFollowPeople, UNCHANGED <<inv, told, held, step, cont, accessCrashes>>
    PROVE  InvitationsFollowPeople'
  BY DEF InvitationsFollowPeople, Slots, NothingLost, Usable, Reachable, AllNameOne

\* What invite_identity leaves: one more invitation, and no other of the same
\* person with the slot.
Invited(p, k) ==
    /\ inv' \in Seq(InvitationRow) /\ Len(inv') = k /\ DOMAIN inv' = (DOMAIN inv) \cup {k}
    /\ k \in Nat /\ inv'[k].who = p
    /\ \A m \in DOMAIN inv : inv'[m].who = inv[m].who /\ (Usable(m)' => Usable(m))
    /\ \A q \in People : \A l, m \in Slots(q)' : l = m

\* invite_identity leaves this.
LEMMA InviteFacts ==
    ASSUME AccessTyped, InvitationsFollowPeople, NEW a, NEW p \in People, InviteIdentity(a, p),
           NEW k, k = Len(inv) + 1
    PROVE  Invited(p, k)
<1>n. PICK n : n = Len(inv)
  OBVIOUS
<1> DEFINE rows == Released(p)
           new  == Invitation(p)
<1>1. inv \in Seq(InvitationRow) /\ n \in Nat /\ DOMAIN inv = 1 .. n
      /\ \A m \in 1 .. n : inv[m] \in InvitationRow
  BY <1>n DEF AccessTyped
<1>2. ASSUME NEW m \in 1 .. n
      PROVE  LET x == [inv[m] EXCEPT !.slot = FALSE] IN
             x \in InvitationRow /\ x.who = inv[m].who /\ x.status = inv[m].status
             /\ x.expired = inv[m].expired /\ x.slot = FALSE
  BY <1>1, <1>2 DEF InvitationRow
<1>3. rows = [m \in 1 .. n |-> IF m \in Slots(p) THEN [inv[m] EXCEPT !.slot = FALSE] ELSE inv[m]]
  BY <1>1 DEF Released
<1>4. ASSUME NEW m \in 1 .. n
      PROVE  /\ rows[m] \in InvitationRow /\ rows[m].who = inv[m].who
             /\ rows[m].status = inv[m].status /\ rows[m].expired = inv[m].expired
             /\ rows[m].slot => inv[m].slot /\ m \notin Slots(p)
  <2>1. CASE m \in Slots(p)
    BY <1>2, <1>3, <2>1
  <2>2. CASE m \notin Slots(p)
    BY <1>1, <1>3, <2>2
  <2>3. QED
    BY <2>1, <2>2
<1>5. rows \in Seq(InvitationRow) /\ Len(rows) = n
  <2>1. rows \in [1 .. n -> InvitationRow]
    <3>1. DOMAIN rows = 1 .. n /\ rows = [m \in 1 .. n |-> rows[m]]
      BY <1>3, Zenon
    <3> HIDE DEF rows
    <3>2. QED
      BY <1>4, <3>1
  <2> HIDE DEF rows
  <2>2. QED
    BY <1>1, <2>1
<1>6. new \in InvitationRow /\ new.who = p
  BY DEF Invitation, InvitationRow
<1>7. inv' = Append(rows, new)
  BY DEF InviteIdentity
<1> HIDE DEF rows, new
<1>8. /\ inv' \in Seq(InvitationRow) /\ Len(inv') = n + 1 /\ DOMAIN inv' = 1 .. (n + 1)
      /\ inv'[n + 1] = new /\ \A m \in 1 .. n : inv'[m] = rows[m]
  BY <1>1, <1>5, <1>6, <1>7
<1>9. DOMAIN inv' = (DOMAIN inv) \cup {n + 1} /\ n + 1 \notin DOMAIN inv /\ n + 1 \in Nat
  BY <1>1, <1>8
<1>10. \A m \in DOMAIN inv : inv'[m].who = inv[m].who /\ (Usable(m)' => Usable(m))
  BY <1>1, <1>4, <1>8 DEF Usable
<1>11. ASSUME NEW q \in People, NEW l \in Slots(q)', NEW m \in Slots(q)' PROVE l = m
  <2>1. \A u \in Slots(q)' : u = n + 1 \/ u \in Slots(q)
    BY <1>1, <1>4, <1>8, <1>9 DEF Slots
  <2>2. n + 1 \in Slots(q)' => q = p
    BY <1>6, <1>8 DEF Slots
  <2>3. q = p => Slots(q)' \subseteq {n + 1}
    BY <1>1, <1>4, <1>8, <1>9, <2>1 DEF Slots
  <2>4. QED
    BY <2>1, <2>2, <2>3 DEF InvitationsFollowPeople
<1>12. QED
  BY <1>n, <1>6, <1>8, <1>9, <1>10, <1>11 DEF Invited

\* A change of one invitation that can only close it.
LEMMA ClosingFacts ==
    ASSUME AccessTyped, InvitationsFollowPeople, NEW n \in DOMAIN inv, NEW x \in InvitationRow,
           inv' = [inv EXCEPT ![n] = x], x.who = inv[n].who,
           x.status = "ACTIVE" => inv[n].status = "ACTIVE", x.slot => inv[n].slot,
           inv[n].expired => x.expired
    PROVE  /\ inv' \in Seq(InvitationRow) /\ Len(inv') = Len(inv) /\ DOMAIN inv' = DOMAIN inv
           /\ \A m \in DOMAIN inv : inv'[m].who = inv[m].who /\ (Usable(m)' => Usable(m))
           /\ \A q \in People : \A l, m \in Slots(q)' : l = m
<1>1. inv \in Seq(InvitationRow)
  BY DEF AccessTyped
<1>2. /\ inv' \in Seq(InvitationRow) /\ Len(inv') = Len(inv) /\ DOMAIN inv' = DOMAIN inv
      /\ inv'[n] = x /\ \A m \in DOMAIN inv : m # n => inv'[m] = inv[m]
  BY <1>1
<1>3. \A m \in DOMAIN inv : inv'[m].who = inv[m].who /\ (Usable(m)' => Usable(m))
  BY <1>2 DEF Usable
<1>4. \A q \in People : Slots(q)' \subseteq Slots(q)
  BY <1>2 DEF Slots
<1>5. QED
  BY <1>2, <1>3, <1>4 DEF InvitationsFollowPeople

\* Grants and the identity API.
LEMMA GrantFacts ==
    ASSUME AccessTyped, NEW p \in People, NEW r \in Roles, NEW l \in Locs, Grant(p, r, l)
    PROVE  /\ located' \in [People -> SUBSET (Locs \X Roles)]
           /\ located'[p] = located[p] \cup {<<l, r>>}
           /\ \A q \in People \ {p} : located'[q] = located[q]
  BY DEF AccessTyped, Grant

\* Granting access to someone with an account.
LEMMA GrantKeepsAccess ==
    ASSUME AccessTyped, AccessFollowsAccount, NEW p \in People, NEW r \in Roles, NEW l \in Locs,
           Grant(p, r, l), account \subseteq account', account' \subseteq account \cup {p}, p \in account',
           UNCHANGED cont,
           \A i \in Rows : step'[i] \in {"COMPLETE", "GRANTED"} =>
              \/ step[i] \in {"COMPLETE", "GRANTED"}
              \/ Asks[i].who = p /\ Asks[i].role = r /\ Asks[i].loc = l
    PROVE  AccessFollowsAccount' /\ HasAccess(p, r, l)'
<1>1. HasAccess(p, r, l)'
  BY GrantFacts DEF HasAccess
<1>2. /\ \A q \in People : located[q] \subseteq located'[q]
      /\ \A q \in People : q \in account' \/ located'[q] = {}
  BY GrantFacts DEF AccessFollowsAccount
<1>3. \A i \in Rows : step'[i] \in {"COMPLETE", "GRANTED"} =>
              \/ step[i] \in {"COMPLETE", "GRANTED"}
              \/ HasAccess(Asks[i].who, Asks[i].role, Asks[i].loc)'
  BY <1>1
<1>4. \A k \in ContKeys : cont'[k].status = "COMPLETE" =>
              cont[k].status = "COMPLETE" \/ HasAccess(k[1], k[2], k[3])
  OBVIOUS
<1>5. QED
  BY <1>1, <1>2, <1>3, <1>4, AccessKept

\* One step of staff access, but for the rows of an import.
LEMMA ApiKeepsAccess ==
    ASSUME AccessInv,
           \/ UNCHANGED accessVars
           \/ \E a, p \in People, r \in Roles, l \in Locs :
                 ProvisionStaffAccount(a, p, r, l) \/ ProvisionAccess(a, p, r, l)
           \/ \E r \in Roles : ReconcileOperationalProfiles(r)
           \/ \E a, p \in People : InviteThroughApi(a, p)
           \/ \E n \in DOMAIN inv : \/ AcceptInvitation(n) \/ InvitationExpires(n)
                                    \/ \E a \in People : RevokeInvitation(a, n)
    PROVE  AccessInv'
<1>0. AccessTyped /\ AccessFollowsAccount /\ InvitationsFollowPeople
  BY DEF AccessInv
<1>1. CASE UNCHANGED accessVars
  <2>1. AccessTyped'
    BY <1>0, <1>1 DEF AccessTyped, accessVars
  <2>2. AccessFollowsAccount'
    BY <1>0, <1>1, AccessLeft DEF accessVars
  <2>3. InvitationsFollowPeople'
    BY <1>0, <1>1, QuietKeepsInvitations DEF accessVars
  <2>4. QED
    BY <2>1, <2>2, <2>3 DEF AccessInv
<1>2. ASSUME NEW a \in People, NEW p \in People, NEW r \in Roles, NEW l \in Locs,
             ProvisionStaffAccount(a, p, r, l) \/ ProvisionAccess(a, p, r, l)
      PROVE  AccessInv'
  <2>1. /\ Grant(p, r, l) /\ account' = account \cup {p}
        /\ UNCHANGED <<grants, inv, told, cont, step, codes, held, replays, accessCrashes>>
    BY <1>2 DEF ProvisionStaffAccount, ProvisionAccess, MayProvision
  <2>2. AccessTyped'
    BY <1>0, <2>1, GrantFacts DEF AccessTyped
  <2>3. AccessFollowsAccount'
    BY <1>0, <2>1, GrantKeepsAccess
  <2>4. InvitationsFollowPeople'
    BY <1>0, <2>1, QuietKeepsInvitations
  <2>5. QED
    BY <2>2, <2>3, <2>4 DEF AccessInv
<1>3. ASSUME NEW r \in Roles, ReconcileOperationalProfiles(r) PROVE AccessInv'
  <2>1. PICK m \in Meaning[r] : grants' = [grants EXCEPT ![r] = m]
    BY <1>3 DEF ReconcileOperationalProfiles
  <2>2. UNCHANGED <<account, located, inv, told, cont, step, codes, held, replays, accessCrashes>>
    BY <1>3 DEF ReconcileOperationalProfiles
  <2>3. m \subseteq Permissions
    BY DEF Permissions
  <2>4. AccessTyped'
    BY <1>0, <2>1, <2>2, <2>3 DEF AccessTyped
  <2>5. AccessFollowsAccount' /\ InvitationsFollowPeople'
    BY <1>0, <2>2, AccessLeft, QuietKeepsInvitations
  <2>6. QED
    BY <2>4, <2>5 DEF AccessInv
<1>4. ASSUME NEW a \in People, NEW p \in People, InviteThroughApi(a, p) PROVE AccessInv'
  <2>n. PICK n : n = Len(inv) + 1
    OBVIOUS
  <2>1. /\ InviteIdentity(a, p) /\ told' = told \cup {n}
        /\ UNCHANGED <<account, located, grants, cont, step, codes, held, replays, accessCrashes>>
    BY <1>4, <2>n DEF InviteThroughApi
  <2>2. /\ inv' \in Seq(InvitationRow) /\ Len(inv') = n /\ DOMAIN inv' = (DOMAIN inv) \cup {n}
        /\ n \in Nat /\ \A m \in DOMAIN inv : inv'[m].who = inv[m].who /\ (Usable(m)' => Usable(m))
        /\ \A q \in People : \A l, m \in Slots(q)' : l = m
    <3>1. Invited(p, n)
      BY <1>0, <2>n, <2>1, InviteFacts
    <3>2. QED
      BY <3>1 DEF Invited
  <2>3. AccessTyped'
    <3>1. Len(inv) \in Nat /\ 0 .. Len(inv) \subseteq 0 .. n
      BY <1>0, <2>n DEF AccessTyped
    <3>2. QED
      BY <1>0, <2>1, <2>2, <3>1 DEF AccessTyped
  <2>4. AccessFollowsAccount'
    BY <1>0, <2>1, AccessLeft
  <2>5. InvitationsFollowPeople'
    <3>1. \A m : Reachable(m) => Reachable(m)'
      BY <2>1 DEF Reachable
    <3>2. Reachable(n)' /\ (NothingLost' => NothingLost)
      BY <2>1 DEF Reachable, NothingLost
    <3>3. QED
      BY <1>0, <2>1, <2>2, <3>1, <3>2, InvitationsKept
  <2>6. QED
    BY <2>3, <2>4, <2>5 DEF AccessInv
<1>5. ASSUME NEW n \in DOMAIN inv, NEW x \in InvitationRow, inv' = [inv EXCEPT ![n] = x],
             x.who = inv[n].who, x.status = "ACTIVE" => inv[n].status = "ACTIVE",
             x.slot => inv[n].slot, inv[n].expired => x.expired,
             account \subseteq account', account' \subseteq People,
             UNCHANGED <<located, grants, told, cont, step, codes, held, replays, accessCrashes>>
      PROVE  AccessInv'
  <2>1. /\ inv' \in Seq(InvitationRow) /\ Len(inv') = Len(inv) /\ DOMAIN inv' = DOMAIN inv
        /\ \A m \in DOMAIN inv : inv'[m].who = inv[m].who /\ (Usable(m)' => Usable(m))
        /\ \A q \in People : \A l, m \in Slots(q)' : l = m
    BY <1>0, <1>5, ClosingFacts
  <2>2. AccessTyped'
    BY <1>0, <1>5, <2>1 DEF AccessTyped
  <2>3. AccessFollowsAccount'
    <3>1. \A p \in People : located[p] \subseteq located'[p] /\ (p \in account' \/ located'[p] = {})
      BY <1>0, <1>5 DEF AccessFollowsAccount
    <3>2. QED
      BY <1>0, <1>5, <3>1, AccessKept
  <2>4. InvitationsFollowPeople'
    <3>1. (NothingLost' => NothingLost) /\ \A m : Reachable(m) => Reachable(m)'
      BY <1>5 DEF Reachable, NothingLost
    <3>2. QED
      BY <1>0, <1>5, <2>1, <3>1, InvitationsKept
  <2>5. QED
    BY <2>2, <2>3, <2>4 DEF AccessInv
<1>6. ASSUME NEW n \in DOMAIN inv, \/ AcceptInvitation(n) \/ InvitationExpires(n)
                                   \/ \E a \in People : RevokeInvitation(a, n)
      PROVE  AccessInv'
  <2>0. inv[n] \in InvitationRow
    BY <1>0 DEF AccessTyped
  <2>1. CASE AcceptInvitation(n)
    <3> DEFINE x == [inv[n] EXCEPT !.status = "CONSUMED", !.slot = FALSE]
    <3>1. x \in InvitationRow /\ x.who = inv[n].who /\ x.status = "CONSUMED" /\ ~x.slot
          /\ x.expired = inv[n].expired /\ inv[n].who \in People
      BY <2>0 DEF InvitationRow
    <3>2. /\ inv' = [inv EXCEPT ![n] = x] /\ account' = account \cup {inv[n].who}
          /\ UNCHANGED <<located, grants, told, cont, step, codes, held, replays, accessCrashes>>
      BY <2>1 DEF AcceptInvitation
    <3> HIDE DEF x
    <3>3. account \subseteq account' /\ account' \subseteq People
      BY <1>0, <3>1, <3>2 DEF AccessTyped
    <3>4. QED
      BY <1>5, <3>1, <3>2, <3>3
  <2>2. CASE InvitationExpires(n)
    <3> DEFINE x == [inv[n] EXCEPT !.expired = TRUE]
    <3>1. x \in InvitationRow /\ x.who = inv[n].who /\ x.status = inv[n].status
          /\ x.slot = inv[n].slot /\ x.expired
      BY <2>0 DEF InvitationRow
    <3>2. /\ inv' = [inv EXCEPT ![n] = x]
          /\ UNCHANGED <<account, located, grants, told, cont, step, codes, held, replays, accessCrashes>>
      BY <2>2 DEF InvitationExpires
    <3> HIDE DEF x
    <3>3. QED
      BY <1>0, <1>5, <3>1, <3>2 DEF AccessTyped
  <2>3. ASSUME NEW a \in People, RevokeInvitation(a, n) PROVE AccessInv'
    <3> DEFINE x == [inv[n] EXCEPT !.status = "REVOKED", !.slot = FALSE]
    <3>1. x \in InvitationRow /\ x.who = inv[n].who /\ x.status = "REVOKED" /\ ~x.slot
          /\ x.expired = inv[n].expired
      BY <2>0 DEF InvitationRow
    <3>2. /\ inv' = [inv EXCEPT ![n] = x]
          /\ UNCHANGED <<account, located, grants, told, cont, step, codes, held, replays, accessCrashes>>
      BY <2>3 DEF RevokeInvitation
    <3> HIDE DEF x
    <3>3. QED
      BY <1>0, <1>5, <3>1, <3>2 DEF AccessTyped
  <2>4. QED
    BY <1>6, <2>1, <2>2, <2>3
<1>7. QED
  BY <1>1, <1>2, <1>3, <1>4, <1>6

\* A row that moves on without touching accounts, invitations or continuations,
\* except that it may have granted access.
LEMMA QuietRow ==
    ASSUME AccessInv, NEW i \in Rows, NEW s \in Steps, GoTo(i, s),
           UNCHANGED <<account, grants, inv, told, cont, held, accessCrashes>>,
           codes' \in [Rows -> SUBSET Permissions], replays' \in Nat,
           step[i] \notin {"PENDING_ACCEPTANCE", "PENDING_REUSED", "failed"},
           s \notin {"PENDING_ACCEPTANCE", "PENDING_REUSED"},
           \/ located' = located /\ s \notin {"COMPLETE", "GRANTED"}
           \/ Grant(Asks[i].who, Asks[i].role, Asks[i].loc) /\ Asks[i].who \in account
    PROVE  AccessInv'
<1>0. AccessTyped /\ AccessFollowsAccount /\ InvitationsFollowPeople
  BY DEF AccessInv
<1>1. step' \in [Rows -> Steps] /\ step'[i] = s /\ \A j \in Rows \ {i} : step'[j] = step[j]
  BY <1>0, RowMoves
<1>2. InvitationsFollowPeople'
  BY <1>0, RowKeepsInvitations
<1>3. CASE located' = located /\ s \notin {"COMPLETE", "GRANTED"}
  <2>1. AccessTyped'
    BY <1>0, <1>1, <1>3 DEF AccessTyped
  <2>2. AccessFollowsAccount'
    BY <1>0, <1>1, <1>3, AccessLeft
  <2>3. QED
    BY <1>2, <2>1, <2>2 DEF AccessInv
<1>4. CASE Grant(Asks[i].who, Asks[i].role, Asks[i].loc) /\ Asks[i].who \in account
  <2>1. Asks[i].who \in People /\ Asks[i].role \in Roles /\ Asks[i].loc \in Locs
    BY AsksTyped
  <2>2. located' \in [People -> SUBSET (Locs \X Roles)]
    BY <1>0, <1>4, <2>1, GrantFacts
  <2>3. AccessTyped'
    BY <1>0, <1>1, <2>2 DEF AccessTyped
  <2>4. AccessFollowsAccount'
    BY <1>0, <1>1, <1>4, <2>1, GrantKeepsAccess
  <2>5. QED
    BY <1>2, <2>3, <2>4 DEF AccessInv
<1>5. QED
  BY <1>3, <1>4

\* The outcome of a resumption is written, unless the continuation is complete.
LEMMA MarkKeepsAccess ==
    ASSUME AccessInv, NEW i \in Rows, NEW s \in {"COMPLETE", "SECURITY_CONFLICT", "TERMINAL_FAILURE"},
           Mark(i, s), GoTo(i, "done"), step[i] \in {"CONFLICT", "TERMINAL", "GRANTED"},
           s = "COMPLETE" => step[i] = "GRANTED",
           UNCHANGED <<account, located, grants, inv, told, codes, held, replays, accessCrashes>>
    PROVE  AccessInv'
<1>0. AccessTyped /\ AccessFollowsAccount /\ InvitationsFollowPeople
  BY DEF AccessInv
<1>k. PICK k \in ContKeys : k = Key(i)
  BY AsksTyped
<1> DEFINE c == IF cont[k].status = "COMPLETE" THEN cont[k] ELSE [cont[k] EXCEPT !.status = s]
<1>1. cont[k] \in Continuation /\ cont' = [cont EXCEPT ![k] = c]
  BY <1>0, <1>k DEF AccessTyped, Mark
<1>2. /\ c \in Continuation /\ c.inv = cont[k].inv
      /\ c.status \in {"COMPLETE", "SECURITY_CONFLICT", "TERMINAL_FAILURE"}
      /\ c.status = "COMPLETE" => cont[k].status = "COMPLETE" \/ s = "COMPLETE"
  BY <1>1 DEF Continuation, Statuses
<1> HIDE DEF c
<1>3. /\ cont' \in [ContKeys -> Continuation] /\ cont'[k] = c
      /\ \A q \in ContKeys \ {k} : cont'[q] = cont[q]
  BY <1>0, <1>1, <1>2 DEF AccessTyped
<1>4. "done" \in Steps
  BY DEF Steps
<1>5. step' \in [Rows -> Steps] /\ step'[i] = "done" /\ \A j \in Rows \ {i} : step'[j] = step[j]
  BY <1>0, <1>4, RowMoves
<1>6. AccessTyped'
  BY <1>0, <1>2, <1>3, <1>5 DEF AccessTyped
<1>7. AccessFollowsAccount'
  <2>1. s = "COMPLETE" => HasAccess(k[1], k[2], k[3])
    BY <1>0, <1>k, AsksTyped DEF AccessFollowsAccount
  <2>2. \A q \in ContKeys : cont'[q].status = "COMPLETE" =>
           cont[q].status = "COMPLETE" \/ HasAccess(q[1], q[2], q[3])
    BY <1>2, <1>3, <2>1
  <2>3. QED
    BY <1>0, <1>5, <2>2, AccessLeft
<1>8. InvitationsFollowPeople'
  <2>1. c # NoCont
    BY <1>2, NoContTyped
  <2>2. /\ \A q \in ContKeys : cont'[q].status = "PENDING_ACCEPTANCE" =>
              cont[q].status = "PENDING_ACCEPTANCE" /\ cont'[q].inv = cont[q].inv
        /\ \A q \in ContKeys : cont[q] # NoCont => cont'[q] # NoCont /\ cont'[q].inv = cont[q].inv
    BY <1>2, <1>3, <2>1
  <2>3. QED
    BY <1>0, <1>4, <2>2, RowKeepsInvitations
<1>9. QED
  BY <1>6, <1>7, <1>8 DEF AccessInv

\* A row takes hold of an invitation, its own or one that is there.
LEMMA HoldKeepsAccess ==
    ASSUME AccessInv, NEW i \in Rows, step[i] = "planned", cont[Key(i)] = NoCont,
           InviteNewUser(i) \/ ReuseInvitation(i)
    PROVE  AccessInv'
<1>0. AccessTyped /\ AccessFollowsAccount /\ InvitationsFollowPeople
  BY DEF AccessInv
<1>a. /\ {"PENDING_ACCEPTANCE", "PENDING_REUSED"} \subseteq Steps /\ Asks[i].who \in People
      /\ Len(inv) \in Nat /\ DOMAIN inv = 1 .. Len(inv)
  BY <1>0, AsksTyped DEF Steps, Outcomes, AccessTyped
<1>1. CASE InviteNewUser(i)
  <2>n. PICK n : n = Len(inv) + 1
    OBVIOUS
  <2>1. /\ InviteIdentity(Asks[i].actor, Asks[i].who) /\ held' = [held EXCEPT ![i] = n]
        /\ GoTo(i, "PENDING_ACCEPTANCE")
        /\ UNCHANGED <<account, located, grants, told, cont, codes, replays, accessCrashes>>
    BY <1>1, <2>n DEF InviteNewUser
  <2>2. /\ inv' \in Seq(InvitationRow) /\ Len(inv') = n /\ DOMAIN inv' = (DOMAIN inv) \cup {n}
        /\ n \in Nat /\ inv'[n].who = Asks[i].who
        /\ \A m \in DOMAIN inv : inv'[m].who = inv[m].who /\ (Usable(m)' => Usable(m))
        /\ \A q \in People : \A l, m \in Slots(q)' : l = m
    <3>1. Invited(Asks[i].who, n)
      BY <1>0, <1>a, <2>n, <2>1, InviteFacts
    <3>2. QED
      BY <3>1 DEF Invited
  <2>3. step' \in [Rows -> Steps] /\ step'[i] = "PENDING_ACCEPTANCE" /\ \A j \in Rows \ {i} : step'[j] = step[j]
    BY <1>0, <1>a, <2>1, RowMoves
  <2>4. held' \in [Rows -> Nat] /\ held'[i] = n /\ \A j \in Rows \ {i} : held'[j] = held[j]
    BY <1>0, <2>1, <2>2 DEF AccessTyped
  <2>5. AccessTyped'
    <3>1. 0 .. Len(inv) \subseteq 0 .. n /\ n \in 0 .. n
      BY <1>a, <2>n
    <3>2. QED
      BY <1>0, <2>1, <2>2, <2>3, <2>4, <3>1 DEF AccessTyped
  <2>6. AccessFollowsAccount'
    BY <1>0, <2>1, <2>3, AccessLeft
  <2>7. InvitationsFollowPeople'
    <3>1. \A m : Reachable(m) => Reachable(m)'
      BY <2>1, <2>3, <2>4 DEF Reachable
    <3>2. Reachable(n)' /\ (NothingLost' => NothingLost)
      BY <2>1, <2>3, <2>4 DEF Reachable, NothingLost
    <3>3. \A j \in Rows : step'[j] \in {"PENDING_ACCEPTANCE", "PENDING_REUSED"} =>
              \/ step[j] \in {"PENDING_ACCEPTANCE", "PENDING_REUSED"} /\ held'[j] = held[j]
              \/ held'[j] \in DOMAIN inv' /\ inv'[held'[j]].who = Asks[j].who
      BY <2>2, <2>3, <2>4
    <3>4. QED
      BY <1>0, <2>1, <2>2, <3>1, <3>2, <3>3, InvitationsKept
  <2>8. QED
    BY <2>5, <2>6, <2>7 DEF AccessInv
<1>2. CASE ReuseInvitation(i)
  <2>1. PICK n \in Slots(Asks[i].who) : held' = [held EXCEPT ![i] = n]
    BY <1>2 DEF ReuseInvitation
  <2>2. /\ GoTo(i, "PENDING_REUSED")
        /\ UNCHANGED <<account, located, grants, inv, told, cont, codes, replays, accessCrashes>>
    BY <1>2 DEF ReuseInvitation
  <2>3. n \in DOMAIN inv /\ inv[n].who = Asks[i].who /\ n \in Nat /\ n \in 0 .. Len(inv)
    BY <1>a DEF Slots
  <2>4. step' \in [Rows -> Steps] /\ step'[i] = "PENDING_REUSED" /\ \A j \in Rows \ {i} : step'[j] = step[j]
    BY <1>0, <1>a, <2>2, RowMoves
  <2>5. held' \in [Rows -> Nat] /\ held'[i] = n /\ \A j \in Rows \ {i} : held'[j] = held[j]
    BY <1>0, <2>1, <2>3 DEF AccessTyped
  <2>6. AccessTyped'
    BY <1>0, <2>2, <2>3, <2>4, <2>5 DEF AccessTyped
  <2>7. AccessFollowsAccount'
    BY <1>0, <2>2, <2>4, AccessLeft
  <2>8. InvitationsFollowPeople'
    <3>1. (\A m : Reachable(m) => Reachable(m)') /\ (NothingLost' => NothingLost)
      BY <2>2, <2>4, <2>5 DEF Reachable, NothingLost
    <3>2. \A m : Usable(m)' <=> Usable(m)
      BY <2>2 DEF Usable
    <3>3. \A p \in People : \A l, m \in Slots(p)' : l = m
      BY <1>0, <2>2 DEF Slots, InvitationsFollowPeople
    <3>4. \A j \in Rows : step'[j] \in {"PENDING_ACCEPTANCE", "PENDING_REUSED"} =>
              \/ step[j] \in {"PENDING_ACCEPTANCE", "PENDING_REUSED"} /\ held'[j] = held[j]
              \/ held'[j] \in DOMAIN inv' /\ inv'[held'[j]].who = Asks[j].who
      BY <2>2, <2>3, <2>4, <2>5
    <3>5. QED
      BY <1>0, <2>2, <3>1, <3>2, <3>3, <3>4, InvitationsKept
  <2>9. QED
    BY <2>6, <2>7, <2>8 DEF AccessInv
<1>3. QED
  BY <1>1, <1>2

\* The continuation is saved, unless the row finds one there: then the row is
\* refused, or its token is answered only if that one names its invitation.
LEMMA SaveKeepsAccess ==
    ASSUME AccessInv, NEW i \in Rows, SaveNewContinuation(i)
    PROVE  AccessInv'
<1>0. AccessTyped /\ AccessFollowsAccount /\ InvitationsFollowPeople
  BY DEF AccessInv
<1>k. PICK k \in ContKeys : k = Key(i)
  BY AsksTyped
<1> DEFINE kept == cont[k]
           c    == [status |-> StatusOf(step[i]), inv |-> held[i], actor |-> Asks[i].actor,
                    codes |-> codes[i]]
<1>1. /\ step[i] \in Outcomes /\ held[i] \in 0 .. Len(inv) /\ held[i] \in Nat
      /\ codes[i] \in SUBSET Permissions /\ Asks[i].actor \in People
      /\ k[1] = Asks[i].who /\ k[2] = Asks[i].role /\ k[3] = Asks[i].loc
  BY <1>0, <1>k, AsksTyped DEF SaveNewContinuation, AccessTyped
<1>2. /\ c \in Continuation /\ c.inv = held[i] /\ c.status \in Statuses \ {"NONE"}
      /\ c.status = "COMPLETE" => step[i] = "COMPLETE"
      /\ c.status = "PENDING_ACCEPTANCE" => step[i] \in {"PENDING_ACCEPTANCE", "PENDING_REUSED"}
  BY <1>1 DEF Outcomes, StatusOf, Statuses, Continuation
<1>3. /\ kept # NoCont => cont' = cont
      /\ kept = NoCont => cont' = [cont EXCEPT ![k] = c]
      /\ held' = [held EXCEPT ![i] = 0]
      /\ UNCHANGED <<account, located, grants, inv, codes, replays, accessCrashes>>
  BY <1>k DEF SaveNewContinuation
<1>s. PICK s \in {"failed", "done"} :
         /\ GoTo(i, s) /\ told \subseteq told' /\ told' \subseteq told \cup {held[i]}
         /\ told' # told => step[i] = "PENDING_ACCEPTANCE"
         /\ s = "done" /\ step[i] = "PENDING_ACCEPTANCE" /\ (kept = NoCont \/ kept.inv = held[i])
               => held[i] \in told'
  <2>1. CASE kept # NoCont /\ ~Equivalent(i)
    BY <1>k, <2>1 DEF SaveNewContinuation
  <2>2. CASE ~(kept # NoCont /\ ~Equivalent(i))
    <3>1. GoTo(i, "done") /\ Deliver(i, kept)
      BY <1>k, <2>2 DEF SaveNewContinuation
    <3>2. QED
      BY <3>1 DEF Deliver
  <2>3. QED
    BY <2>1, <2>2
<1> HIDE DEF c
<1>4. c # NoCont
  BY <1>2, NoContTyped
<1>5. /\ cont' \in [ContKeys -> Continuation] /\ cont'[k] # NoCont
      /\ cont'[k] = c \/ cont'[k] = cont[k]
      /\ \A q \in ContKeys : cont[q] # NoCont \/ q # k => cont'[q] = cont[q]
      /\ kept = NoCont => cont'[k] = c
      /\ kept # NoCont => cont'[k] = kept
  BY <1>0, <1>2, <1>3, <1>4 DEF AccessTyped
<1>6. s \in Steps
  BY DEF Steps
<1>7. step' \in [Rows -> Steps] /\ step'[i] = s /\ \A j \in Rows \ {i} : step'[j] = step[j]
  BY <1>0, <1>s, <1>6, RowMoves
<1>8. held' \in [Rows -> Nat] /\ held'[i] = 0 /\ \A j \in Rows \ {i} : held'[j] = held[j]
  BY <1>0, <1>3 DEF AccessTyped
<1>9. step[i] = "PENDING_ACCEPTANCE" => held[i] \in DOMAIN inv /\ inv[held[i]].who = k[1]
  BY <1>0, <1>1 DEF InvitationsFollowPeople
<1>10. AccessTyped'
  <2>1. told' \subseteq DOMAIN inv
    BY <1>0, <1>s, <1>9 DEF AccessTyped
  <2>2. (\A q \in ContKeys : cont'[q].inv \in 0 .. Len(inv)) /\ 0 \in 0 .. Len(inv)
    <3>1. Len(inv) \in Nat
      BY <1>0 DEF AccessTyped
    <3>2. QED
      BY <1>0, <1>1, <1>2, <1>5, <3>1 DEF AccessTyped
  <2>3. QED
    BY <1>0, <1>3, <1>5, <1>7, <1>8, <2>1, <2>2 DEF AccessTyped
<1>11. AccessFollowsAccount'
  <2>1. c.status = "COMPLETE" => HasAccess(k[1], k[2], k[3])
    BY <1>0, <1>1, <1>2 DEF AccessFollowsAccount
  <2>2. \A q \in ContKeys : cont'[q].status = "COMPLETE" =>
           cont[q].status = "COMPLETE" \/ HasAccess(q[1], q[2], q[3])
    BY <1>5, <2>1
  <2>3. QED
    BY <1>0, <1>3, <1>7, <2>2, AccessLeft
<1>12. InvitationsFollowPeople'
  <2>1. NothingLost' => NothingLost /\ s = "done"
    BY <1>1, <1>3, <1>7 DEF NothingLost, Outcomes
  <2>2. \A q \in ContKeys : cont'[q].status = "PENDING_ACCEPTANCE" =>
           \/ cont[q].status = "PENDING_ACCEPTANCE" /\ cont'[q].inv = cont[q].inv
           \/ cont'[q].inv \in DOMAIN inv /\ inv[cont'[q].inv].who = q[1]
    <3>1. c.status = "PENDING_ACCEPTANCE" => c.inv \in DOMAIN inv /\ inv[c.inv].who = k[1]
      BY <1>0, <1>1, <1>2 DEF InvitationsFollowPeople
    <3>2. QED
      BY <1>5, <3>1
  <2>3. \A q \in ContKeys : cont[q] # NoCont => cont'[q] # NoCont /\ cont'[q].inv = cont[q].inv
    BY <1>5
  <2>4. \A j \in Rows : step'[j] \in {"PENDING_ACCEPTANCE", "PENDING_REUSED"} =>
           step[j] \in {"PENDING_ACCEPTANCE", "PENDING_REUSED"} /\ held'[j] = held[j]
    BY <1>7, <1>8
  <2>5. ASSUME NothingLost', NEW n \in DOMAIN inv, Reachable(n)
        PROVE  Reachable(n)' \/ ~AllNameOne(inv[n].who, n)'
    <3>1. CASE n \in told
      BY <1>s, <3>1 DEF Reachable
    <3>2. ASSUME NEW j \in Rows \ {i}, step[j] = "PENDING_ACCEPTANCE", held[j] = n PROVE Reachable(n)'
      BY <1>7, <1>8, <3>2 DEF Reachable
    <3>3. CASE step[i] = "PENDING_ACCEPTANCE" /\ held[i] = n
      <4>1. CASE kept = NoCont \/ kept.inv = n
        <5>1. n \in told'
          BY <1>s, <2>1, <2>5, <3>3, <4>1
        <5>2. QED
          BY <5>1 DEF Reachable
      <4>2. CASE kept # NoCont /\ kept.inv # n
        <5>1. cont'[k] # NoCont /\ cont'[k].inv # n /\ k[1] = inv'[n].who
          BY <1>3, <1>5, <1>9, <3>3, <4>2
        <5>2. QED
          BY <5>1 DEF AllNameOne
      <4>3. QED
        BY <4>1, <4>2
    <3>4. QED
      BY <2>5, <3>1, <3>2, <3>3 DEF Reachable
  <2>6. \A n : Usable(n)' <=> Usable(n)
    BY <1>3 DEF Usable
  <2>7. \A p \in People : \A l, m \in Slots(p)' : l = m
    BY <1>0, <1>3 DEF Slots, InvitationsFollowPeople
  <2>8. QED
    BY <1>0, <1>3, <2>1, <2>2, <2>3, <2>4, <2>5, <2>6, <2>7, InvitationsKept
<1>13. QED
  BY <1>10, <1>11, <1>12 DEF AccessInv

\* A request that dies takes what it held with it.
LEMMA CrashKeepsAccess ==
    ASSUME AccessInv, NEW i \in Rows, CrashStaffRow(i)
    PROVE  AccessInv'
<1>0. AccessTyped /\ AccessFollowsAccount /\ InvitationsFollowPeople
  BY DEF AccessInv
<1>1. /\ GoTo(i, "failed") /\ held' = [held EXCEPT ![i] = 0] /\ accessCrashes' = accessCrashes + 1
      /\ UNCHANGED <<account, located, grants, inv, told, cont, codes, replays>>
  BY DEF CrashStaffRow
<1>2. "failed" \in Steps
  BY DEF Steps
<1>3. step' \in [Rows -> Steps] /\ step'[i] = "failed" /\ \A j \in Rows \ {i} : step'[j] = step[j]
  BY <1>0, <1>1, <1>2, RowMoves
<1>4. held' \in [Rows -> Nat] /\ held'[i] = 0 /\ \A j \in Rows \ {i} : held'[j] = held[j]
  BY <1>0, <1>1 DEF AccessTyped
<1>5. AccessTyped'
  <2>1. accessCrashes' \in Nat /\ Len(inv) \in Nat
    BY <1>0, <1>1 DEF AccessTyped
  <2>2. 0 \in 0 .. Len(inv)
    BY <2>1
  <2>3. QED
    BY <1>0, <1>1, <1>3, <1>4, <2>1, <2>2 DEF AccessTyped
<1>6. AccessFollowsAccount'
  BY <1>0, <1>1, <1>3, AccessLeft
<1>7. InvitationsFollowPeople'
  <2>1. ~NothingLost'
    BY <1>3 DEF NothingLost
  <2>2. \A p \in People : \A l, m \in Slots(p)' : l = m
    BY <1>0, <1>1 DEF Slots, InvitationsFollowPeople
  <2>3. QED
    BY <1>0, <1>1, <1>3, <1>4, <2>1, <2>2 DEF InvitationsFollowPeople
<1>8. QED
  BY <1>5, <1>6, <1>7 DEF AccessInv

\* One step of a row of an import.
LEMMA StaffRowKeepsAccess ==
    ASSUME AccessInv, NEW i \in Rows, StaffRow(i)
    PROVE  AccessInv'
<1>0. /\ AccessTyped /\ codes \in [Rows -> SUBSET Permissions] /\ replays \in Nat
      /\ grants \in [Roles -> SUBSET Permissions] /\ Asks[i].role \in Roles
      /\ {"planned", "blocked", "resume", "failed", "COMPLETE", "SECURITY_CONFLICT", "done",
          "TERMINAL", "CONFLICT", "regrant", "GRANTED"} \subseteq Steps
  BY AsksTyped DEF AccessInv, AccessTyped, Steps, Outcomes
<1>1. CASE PlanStaffRequest(i)
  <2>1. PICK s \in {"planned", "blocked"} : GoTo(i, s)
    BY <1>1 DEF PlanStaffRequest
  <2>2. codes' \in [Rows -> SUBSET Permissions]
    BY <1>0, <1>1 DEF PlanStaffRequest
  <2>3. /\ step[i] = "idle"
        /\ UNCHANGED <<account, located, grants, inv, told, cont, held, replays, accessCrashes>>
    BY <1>1 DEF PlanStaffRequest
  <2>4. QED
    BY <1>0, <2>1, <2>2, <2>3, QuietRow
<1>2. CASE FindContinuation(i) \/ GiveUp(i) \/ ResumeContinuation(i)
  <2>1. PICK s \in {"resume", "failed", "done", "TERMINAL", "CONFLICT", "regrant"} : GoTo(i, s)
    BY <1>2 DEF FindContinuation, GiveUp, ResumeContinuation
  <2>2. /\ step[i] \in {"planned", "resume"}
        /\ UNCHANGED <<account, located, grants, inv, told, cont, codes, held, replays, accessCrashes>>
    BY <1>2 DEF FindContinuation, GiveUp, ResumeContinuation
  <2>3. QED
    BY <1>0, <2>1, <2>2, QuietRow
<1>3. CASE ProvisionKnownUser(i) \/ RegrantAccess(i)
  <2>1. PICK s \in {"COMPLETE", "SECURITY_CONFLICT", "GRANTED", "CONFLICT"} :
           /\ GoTo(i, s)
           /\ \/ located' = located /\ s \in {"SECURITY_CONFLICT", "CONFLICT"}
              \/ Grant(Asks[i].who, Asks[i].role, Asks[i].loc) /\ Asks[i].who \in account
    BY <1>3 DEF ProvisionKnownUser, RegrantAccess, MayProvision
  <2>2. /\ step[i] \in {"planned", "regrant"}
        /\ UNCHANGED <<account, grants, inv, told, cont, codes, held, replays, accessCrashes>>
    BY <1>3 DEF ProvisionKnownUser, RegrantAccess
  <2>3. QED
    BY <1>0, <2>1, <2>2, QuietRow
<1>4. CASE ResumeStaffReplay(i)
  BY <1>0, <1>4, QuietRow DEF ResumeStaffReplay
<1>5. CASE InviteNewUser(i) \/ ReuseInvitation(i)
  BY <1>5, HoldKeepsAccess DEF InviteNewUser, ReuseInvitation
<1>6. CASE MarkSecurityConflict(i) \/ MarkTerminalFailure(i) \/ MarkComplete(i)
  BY <1>6, MarkKeepsAccess DEF MarkSecurityConflict, MarkTerminalFailure, MarkComplete
<1>7. QED
  BY <1>1, <1>2, <1>3, <1>4, <1>5, <1>6, SaveKeepsAccess, CrashKeepsAccess DEF StaffRow

\* The founder alone has an account.
LEMMA AccessInvInit == AccessInit => AccessInv
<1> SUFFICES ASSUME AccessInit PROVE AccessInv
  OBVIOUS
<1>1. AccessTyped
  <2>1. located \in [People -> SUBSET (Locs \X Roles)]
    <3>1. (CHOOSE l \in Locs : TRUE) \in Locs
      BY AccessConstants
    <3>2. QED
      BY <3>1, AccessConstants DEF AccessInit
  <2>2. grants \in [Roles -> SUBSET Permissions]
    <3>1. ASSUME NEW r \in Roles
          PROVE  (CHOOSE m \in Meaning[r] : \A n \in Meaning[r] : n \subseteq m) \in SUBSET Permissions
      <4>1. (CHOOSE m \in Meaning[r] : \A n \in Meaning[r] : n \subseteq m) \in Meaning[r]
        <5>1. \E m \in Meaning[r] : \A n \in Meaning[r] : n \subseteq m
          BY AccessConstants
        <5>2. QED
          BY <5>1, Zenon
      <4>2. ASSUME NEW m \in Meaning[r] PROVE m \in SUBSET Permissions
        BY DEF Permissions
      <4>3. QED
        BY <4>1, <4>2, Zenon
    <3>2. QED
      BY <3>1 DEF AccessInit
  <2>3. /\ inv \in Seq(InvitationRow) /\ Len(inv) = 0 /\ 0 \in 0 .. 0 /\ 0 \in Nat
        /\ told \subseteq DOMAIN inv /\ account \subseteq People
    BY AccessConstants DEF AccessInit
  <2>4. cont \in [ContKeys -> Continuation] /\ \A k \in ContKeys : cont[k].inv = 0
    BY NoContTyped DEF AccessInit
  <2>5. step \in [Rows -> Steps] /\ codes \in [Rows -> SUBSET Permissions]
    BY DEF AccessInit, Steps
  <2>6. held \in [Rows -> Nat] /\ \A i \in Rows : held[i] = 0
    BY DEF AccessInit
  <2>7. replays \in Nat /\ accessCrashes \in Nat
    BY DEF AccessInit
  <2>8. QED
    BY <2>1, <2>2, <2>3, <2>4, <2>5, <2>6, <2>7 DEF AccessTyped
<1>2. AccessFollowsAccount
  BY NoContTyped DEF AccessInit, AccessFollowsAccount, CompleteMeansAccess
<1>3. InvitationsFollowPeople
  BY NoContTyped DEF AccessInit, InvitationsFollowPeople, Slots
<1>4. QED
  BY <1>1, <1>2, <1>3 DEF AccessInv

\* One step of staff access.
LEMMA AccessInvNext == AccessInv /\ [AccessNext]_accessVars => AccessInv'
  BY ApiKeepsAccess, StaffRowKeepsAccess DEF AccessNext

\* provision_staff: a continuation that says COMPLETE is true, one email never has
\* two invitations that could both be accepted, and someone holds the token of
\* one that continuations wait for.
THEOREM AccessEarned == AccessSpec => []AccessIsEarned
<1>1. AccessInv => AccessIsEarned
  <2> SUFFICES ASSUME AccessInv PROVE AccessIsEarned
    OBVIOUS
  <2>0. AccessTyped /\ AccessFollowsAccount /\ InvitationsFollowPeople
    BY DEF AccessInv
  <2>1. AccessTypeOK
    BY <2>0 DEF AccessTyped, AccessTypeOK, Continuation
  <2>2. CompleteMeansAccess
    BY <2>0 DEF AccessFollowsAccount
  <2>3. OneAcceptableInvitation
    <3>1. SUFFICES ASSUME NEW p \in People
                   PROVE  Cardinality({n \in DOMAIN inv : inv[n].who = p /\ Usable(n) /\ inv[n].slot}) <= 1
      BY DEF OneAcceptableInvitation
    <3> DEFINE S == {n \in DOMAIN inv : inv[n].who = p /\ Usable(n) /\ inv[n].slot}
    <3>2. \A m, n \in S : m = n
      BY <2>0 DEF InvitationsFollowPeople, Slots, Usable
    <3> HIDE DEF S
    <3>3. CASE S = {}
      BY <3>3, FS_EmptySet DEF S
    <3>4. CASE S # {}
      <4>1. PICK m \in S : S = {m}
        BY <3>2, <3>4
      <4>2. Cardinality({m}) = 1
        BY FS_Singleton
      <4>3. Cardinality(S) <= 1
        BY <4>1, <4>2
      <4>4. QED
        BY <4>3 DEF S
    <3>5. QED
      BY <3>3, <3>4
  <2>4. PendingCanBeAccepted
    BY <2>0 DEF PendingCanBeAccepted, InvitationsFollowPeople
  <2>5. QED
    BY <2>1, <2>2, <2>3, <2>4 DEF AccessIsEarned
<1>2. QED
  BY <1>1, AccessInvInit, AccessInvNext, PTL DEF AccessSpec

\* How a step may change who has which role where: not at all, or by a grant of
\* someone who may make it.
LEMMA GrantsAreAllowed ==
    ASSUME AccessInv, [AccessNext]_accessVars
    PROVE  \/ located' = located /\ account' \subseteq People
           \/ \E p \in People, r \in Roles, l \in Locs :
                 /\ Grant(p, r, l) /\ account' = account \cup {p}
                 /\ \E a : CanAssignRole(a, r, l)
<1>0. AccessTyped /\ account \subseteq People
  BY DEF AccessInv, AccessTyped
<1>1. CASE UNCHANGED accessVars
  BY <1>0, <1>1 DEF accessVars
<1>2. ASSUME NEW a \in People, NEW p \in People, NEW r \in Roles, NEW l \in Locs,
             ProvisionStaffAccount(a, p, r, l) \/ ProvisionAccess(a, p, r, l)
      PROVE  /\ Grant(p, r, l) /\ account' = account \cup {p} /\ CanAssignRole(a, r, l)
  BY <1>2 DEF ProvisionStaffAccount, ProvisionAccess, MayProvision
<1>3. ASSUME NEW r \in Roles, ReconcileOperationalProfiles(r)
      PROVE  located' = located /\ account' \subseteq People
  BY <1>0, <1>3 DEF ReconcileOperationalProfiles
<1>4. ASSUME NEW a \in People, NEW p \in People, InviteThroughApi(a, p)
      PROVE  located' = located /\ account' \subseteq People
  BY <1>0, <1>4 DEF InviteThroughApi
<1>5. ASSUME NEW n \in DOMAIN inv, \/ AcceptInvitation(n) \/ InvitationExpires(n)
                                   \/ \E a \in People : RevokeInvitation(a, n)
      PROVE  located' = located /\ account' \subseteq People
  <2>1. inv[n] \in InvitationRow
    BY <1>0 DEF AccessTyped
  <2>2. inv[n].who \in People
    BY <2>1 DEF InvitationRow
  <2>3. QED
    BY <1>0, <1>5, <2>2 DEF AcceptInvitation, InvitationExpires, RevokeInvitation
<1>6. ASSUME NEW i \in Rows, ProvisionKnownUser(i) \/ RegrantAccess(i)
      PROVE  \/ located' = located /\ account' \subseteq People
             \/ \E p \in People, r \in Roles, l \in Locs :
                   /\ Grant(p, r, l) /\ account' = account \cup {p}
                   /\ \E a : CanAssignRole(a, r, l)
  <2>1. \/ located' = located
        \/ /\ Grant(Asks[i].who, Asks[i].role, Asks[i].loc) /\ Asks[i].who \in account
           /\ \E a : CanAssignRole(a, Asks[i].role, Asks[i].loc)
    BY <1>6 DEF ProvisionKnownUser, RegrantAccess, MayProvision
  <2>2. account' = account
    BY <1>6 DEF ProvisionKnownUser, RegrantAccess
  <2>3. QED
    BY <1>0, <2>1, <2>2, AsksTyped
<1>7. ASSUME NEW i \in Rows, StaffRow(i), ~ProvisionKnownUser(i), ~RegrantAccess(i)
      PROVE  located' = located /\ account' \subseteq People
  <2>1. UNCHANGED <<located, account>>
    BY <1>7 DEF StaffRow, PlanStaffRequest, FindContinuation, InviteNewUser, ReuseInvitation, GiveUp,
                SaveNewContinuation, ResumeContinuation, MarkSecurityConflict, MarkTerminalFailure,
                MarkComplete, ResumeStaffReplay, CrashStaffRow
  <2>2. QED
    BY <1>0, <2>1
<1>8. QED
  BY <1>1, <1>2, <1>3, <1>4, <1>5, <1>6, <1>7 DEF AccessNext

\* access_provisioning and provision_staff: unless the meaning of a role changes,
\* no step makes a permission available at a location where nobody had it.
THEOREM DelegationAdds == AccessSpec => DelegationAddsNothing
<1> DEFINE Kept == grants' = grants => \A l \in Locs : PermsAt(l)' \subseteq PermsAt(l)
<1>1. AccessInv /\ [AccessNext]_accessVars => Kept
  <2> SUFFICES ASSUME AccessInv, [AccessNext]_accessVars, grants' = grants, NEW l \in Locs,
                      NEW x, x \in PermsAt(l)'
               PROVE  x \in PermsAt(l)
    OBVIOUS
  <2>1. PICK p \in account', r \in Roles : <<l, r>> \in located'[p] /\ x \in grants[r]
    BY DEF PermsAt, PermsOf
  <2>2. ASSUME NEW a \in account, NEW q \in Roles, <<l, q>> \in located[a], x \in grants[q]
        PROVE  x \in PermsAt(l)
    BY <2>2 DEF PermsAt, PermsOf
  <2>3. CASE located' = located /\ account' \subseteq People
    <3>1. p \in account
      BY <2>1, <2>3 DEF AccessInv, AccessFollowsAccount
    <3>2. QED
      BY <2>1, <2>2, <2>3, <3>1
  <2>4. ASSUME NEW b \in People, NEW s \in Roles, NEW m \in Locs, Grant(b, s, m),
               account' = account \cup {b}, NEW a, CanAssignRole(a, s, m)
        PROVE  x \in PermsAt(l)
    <3>0. AccessTyped
      BY DEF AccessInv
    <3>1. located'[b] = located[b] \cup {<<m, s>>} /\ \A q \in People \ {b} : located'[q] = located[q]
      BY <2>4, <3>0, GrantFacts
    <3>2. p \in People
      BY <2>1, <2>4, <3>0 DEF AccessTyped
    <3>3. CASE <<l, r>> \in located[p]
      <4>1. p \in account
        BY <3>2, <3>3 DEF AccessInv, AccessFollowsAccount
      <4>2. QED
        BY <2>1, <2>2, <3>3, <4>1
    <3>4. CASE l = m /\ r = s
      <4>1. a \in account /\ x \in PermsOf(a, l)
        BY <2>1, <2>4, <3>4 DEF CanAssignRole
      <4>2. QED
        BY <4>1 DEF PermsAt
    <3>5. QED
      BY <2>1, <3>1, <3>2, <3>3, <3>4
  <2>5. QED
    BY <2>3, <2>4, GrantsAreAllowed
<1>2. AccessInv /\ [AccessNext]_accessVars => [Kept]_accessVars
  BY <1>1
<1>3. QED
  BY <1>2, AccessInvInit, AccessInvNext, PTL DEF AccessSpec, DelegationAddsNothing

-----------------------------------------------------------------------------
(***************************************************************************)
(* Fiscal issuance.  What happens to a document is a matter of its own     *)
(* rows: the first lemmas are about the rows of one document, the later    *)
(* ones put them back in place.                                            *)
(***************************************************************************)
\* A row of its own, different from every issuance.
LEMMA NoIssuanceApart == NoIssuance \notin BillingIssuance /\ NoIssuance.state = "NONE"
  BY DEF NoIssuance, BillingIssuance, States

\* A document just created: no issuance, no attempt, no stamp.
LEMMA NewDocumentSound == DocumentSound(NoIssuance, <<>>, <<>>, NoEvidence, 0)
  BY FiscalBounds, NoIssuanceApart DEF DocumentSound, NoEvidence

\* The answer or the wire of call n changes to x, and the stamps to t.
LEMMA CallSound ==
    ASSUME NEW i, NEW a, NEW c, NEW e, NEW s, DocumentSound(i, a, c, e, s),
           NEW n \in DOMAIN c, NEW x \in ProviderCall, NEW t \in {s, 1},
           x.wire = "STAMPED" \/ x.answer = "SUCCEEDED" => t = 1,
           i.request.binding # "KEYED" =>
              /\ a[n].type = "RETRY" => x.wire = "UNSENT"
              /\ n = 1 /\ t = 1 => x.wire = "STAMPED"
              /\ n # 1 => t = s
    PROVE  DocumentSound(i, a, [c EXCEPT ![n] = x], e, t)
<1> DEFINE d == [c EXCEPT ![n] = x]
<1>1. /\ a \in Seq(BillingIssuanceAttempt) /\ c \in Seq(ProviderCall) /\ Len(a) = Len(c) /\ Len(a) <= MaxAttempts
      /\ i \in BillingIssuance \cup {NoIssuance}
      /\ s \in 0 .. 1 /\ e \in [stamp : 0 .. s, artifact : BOOLEAN]
      /\ \A m \in 1 .. Len(a) : AttemptSound(i, a, c, s, m)
      /\ i.state = "SUCCEEDED" => e.stamp = 1 /\ e.artifact
  BY DEF DocumentSound
<1>2. d \in Seq(ProviderCall) /\ Len(d) = Len(c) /\ d[n] = x /\ \A m \in 1 .. Len(c) : m # n => d[m] = c[m]
  BY <1>1
<1>3. t \in 0 .. 1 /\ e \in [stamp : 0 .. t, artifact : BOOLEAN] /\ s <= t
  BY <1>1
<1>4. n \in 1 .. Len(a) /\ a # <<>>
  BY <1>1
<1>5. /\ i # NoIssuance
      /\ IF i.state = "IN_PROGRESS" THEN i.token = Len(a) ELSE i.state = a[Len(a)].result
  BY <1>4 DEF DocumentSound
<1> HIDE DEF d
<1>6. ASSUME NEW m \in 1 .. Len(a) PROVE AttemptSound(i, a, d, t, m)
  <2>1. AttemptSound(i, a, c, s, m)
    BY <1>1
  <2>2. CASE m = n
    BY <1>1, <1>2, <1>3, <2>1, <2>2 DEF AttemptSound
  <2>3. CASE m # n
    <3>1. d[m] = c[m]
      BY <1>1, <1>2, <2>3
    <3>2. c[m].wire = "STAMPED" \/ c[m].answer = "SUCCEEDED" => t = 1
      BY <1>1, <1>3, <2>1 DEF AttemptSound
    <3>3. i.request.binding # "KEYED" /\ m = 1 /\ t = 1 => c[m].wire = "STAMPED"
      BY <2>1, <2>3 DEF AttemptSound
    <3>4. QED
      BY <2>1, <3>1, <3>2, <3>3 DEF AttemptSound
  <2>4. QED
    BY <2>2, <2>3
<1>7. DocumentSound(i, a, d, e, t)
  BY <1>1, <1>2, <1>3, <1>4, <1>5, <1>6 DEF DocumentSound
<1>8. QED
  BY <1>7 DEF d

\* The provider with keys that proves absence: x is call n answered, and other calls
\* may be refused for good.
LEMMA AbsenceSound ==
    ASSUME NEW i, NEW a, NEW c, NEW e, NEW s, DocumentSound(i, a, c, e, s),
           NEW d \in Seq(ProviderCall), Len(d) = Len(c), i.request.binding = "KEYED",
           \A m \in 1 .. Len(c) : d[m].wire # "STAMPED" \/ c[m].wire = "STAMPED",
           \A m \in 1 .. Len(c) : d[m].answer # "SUCCEEDED" \/ c[m].answer = "SUCCEEDED"
    PROVE  DocumentSound(i, a, d, e, s)
<1>1. ASSUME NEW m \in 1 .. Len(a) PROVE AttemptSound(i, a, d, s, m)
  BY DEF DocumentSound, AttemptSound
<1>2. QED
  BY <1>1 DEF DocumentSound

\* A claim opens the next attempt, y, after what b says of the earlier ones: as before,
\* but an expired claim is uncertain.
LEMMA ClaimSound ==
    ASSUME NEW i, NEW a, NEW c, NEW e, NEW s, DocumentSound(i, a, c, e, s), i # NoIssuance,
           NEW b \in Seq(BillingIssuanceAttempt), Len(b) = Len(a), Len(a) < MaxAttempts,
           \A m \in 1 .. Len(a) : /\ b[m].type = a[m].type /\ b[m].result # "NONE"
                                  /\ b[m].absent => b[m].result = "FAILED",
           NEW y \in BillingIssuanceAttempt, y.result = "NONE", y.absent = FALSE,
           y.type = "ISSUE" <=> a = <<>>,
           NEW j \in BillingIssuance, j.state = "IN_PROGRESS", j.token = Len(a) + 1, j.request = i.request,
           NEW x \in ProviderCall, x.wire = "UNSENT", x.answer = "NONE"
    PROVE  DocumentSound(j, Append(b, y), Append(c, x), e, s)
<1> DEFINE f == Append(b, y)
           d == Append(c, x)
<1>1. /\ a \in Seq(BillingIssuanceAttempt) /\ c \in Seq(ProviderCall) /\ Len(a) = Len(c)
      /\ s \in 0 .. 1 /\ e \in [stamp : 0 .. s, artifact : BOOLEAN]
      /\ \A m \in 1 .. Len(a) : AttemptSound(i, a, c, s, m)
      /\ a = <<>> => s = 0
  BY DEF DocumentSound
<1>2. /\ f \in Seq(BillingIssuanceAttempt) /\ Len(f) = Len(a) + 1 /\ f[Len(a) + 1] = y /\ f # <<>>
      /\ \A m \in 1 .. Len(a) : f[m] = b[m]
  <2>1. /\ Len(b) \in Nat /\ f \in Seq(BillingIssuanceAttempt) /\ Len(f) = Len(b) + 1
        /\ f[Len(b) + 1] = y
    OBVIOUS
  <2>2. \A m \in 1 .. Len(b) : f[m] = b[m]
    OBVIOUS
  <2>3. f # <<>>
    BY <2>1
  <2>4. QED
    BY <2>1, <2>2, <2>3, Zenon
<1>3. /\ d \in Seq(ProviderCall) /\ Len(d) = Len(a) + 1 /\ d[Len(a) + 1] = x
      /\ \A m \in 1 .. Len(a) : d[m] = c[m]
  BY <1>1
<1>4. Len(a) \in Nat /\ (a = <<>> <=> Len(a) = 0)
  BY <1>1
<1> HIDE DEF f, d
<1>5. ASSUME NEW m \in 1 .. Len(f) PROVE AttemptSound(j, f, d, s, m)
  <2>1. CASE m = Len(a) + 1
    BY <1>1, <1>2, <1>3, <1>4, <2>1 DEF AttemptSound
  <2>2. CASE m # Len(a) + 1
    <3>1. m \in 1 .. Len(a) /\ f[m] = b[m] /\ d[m] = c[m]
      BY <1>2, <1>3, <1>4, <2>2
    <3>2. AttemptSound(i, a, c, s, m)
      BY <1>1, <3>1
    <3>3. QED
      BY <1>2, <2>2, <3>1, <3>2 DEF AttemptSound
  <2>3. QED
    BY <2>1, <2>2
<1>6. j # NoIssuance /\ Len(f) <= MaxAttempts
  BY <1>2, <1>4, NoIssuanceApart, FiscalBounds
<1>7. DocumentSound(j, f, d, e, s)
  BY <1>1, <1>2, <1>3, <1>5, <1>6 DEF DocumentSound
<1>8. QED
  BY <1>7 DEF f, d

\* The finish of the open attempt n with z as its row and j as the issuance's; x the
\* call, whose answer was applied, and g the evidence.
LEMMA FinishSound ==
    ASSUME NEW i, NEW a, NEW c, NEW e, NEW s, DocumentSound(i, a, c, e, s),
           NEW n \in DOMAIN c, i.state = "IN_PROGRESS", i.token = n,
           NEW z \in BillingIssuanceAttempt, z.type = a[n].type, z.absent => z.result = "FAILED",
           z.result # "NONE",
           NEW j \in BillingIssuance, j.state = z.result, j.request = i.request, j.state # "IN_PROGRESS",
           NEW x \in ProviderCall, x.wire = c[n].wire, x.answer = "APPLIED",
           NEW g \in [stamp : 0 .. s, artifact : BOOLEAN],
           z.result = "SUCCEEDED" => g.stamp = 1 /\ g.artifact
    PROVE  DocumentSound(j, [a EXCEPT ![n] = z], [c EXCEPT ![n] = x], g, s)
<1> DEFINE f == [a EXCEPT ![n] = z]
           d == [c EXCEPT ![n] = x]
<1>1. /\ a \in Seq(BillingIssuanceAttempt) /\ c \in Seq(ProviderCall) /\ Len(a) = Len(c) /\ Len(a) <= MaxAttempts
      /\ s \in 0 .. 1
      /\ \A m \in 1 .. Len(a) : AttemptSound(i, a, c, s, m)
  BY DEF DocumentSound
<1>2. n \in 1 .. Len(a) /\ a # <<>>
  BY <1>1
<1>3. n = Len(a)
  BY <1>2 DEF DocumentSound
<1>4. /\ f \in Seq(BillingIssuanceAttempt) /\ Len(f) = Len(a) /\ f[n] = z /\ f # <<>>
      /\ \A m \in 1 .. Len(a) : m # n => f[m] = a[m]
  BY <1>1, <1>2
<1>5. d \in Seq(ProviderCall) /\ Len(d) = Len(a) /\ d[n] = x /\ \A m \in 1 .. Len(a) : m # n => d[m] = c[m]
  BY <1>1, <1>2
<1> HIDE DEF f, d
<1>6. ASSUME NEW m \in 1 .. Len(f) PROVE AttemptSound(j, f, d, s, m)
  <2>1. AttemptSound(i, a, c, s, m)
    BY <1>1, <1>4
  <2>2. CASE m = n
    BY <1>4, <1>5, <2>1, <2>2 DEF AttemptSound
  <2>3. CASE m # n
    <3>1. f[m] = a[m] /\ d[m] = c[m]
      BY <1>4, <1>5, <2>3
    <3>2. QED
      BY <1>3, <1>4, <2>1, <2>3, <3>1 DEF AttemptSound
  <2>4. QED
    BY <2>2, <2>3
<1>7. j # NoIssuance
  BY NoIssuanceApart
<1>8. DocumentSound(j, f, d, g, s)
  BY <1>1, <1>3, <1>4, <1>5, <1>6, <1>7 DEF DocumentSound
<1>9. QED
  BY <1>8 DEF f, d

-----------------------------------------------------------------------------
(* The documents.                                                          *)

\* What no step undoes, of one document: its outcome and its evidence.
Stands(i, e, j, g) ==
    /\ i.state \in {"SUCCEEDED", "REJECTED"} => j.state = i.state
    /\ e.stamp > 0 => g.stamp = e.stamp
    /\ e.artifact => g.artifact

\* A step of a document: what it keeps.
Goal == FiscalInv' /\ FiscalOutcomeIsFinal

\* To leave an entry as it is, is to put it back.
LEMMA PutBack ==
    ASSUME NEW T, NEW f \in Seq(T), NEW d \in DOMAIN f
    PROVE  f = [f EXCEPT ![d] = f[d]]
  OBVIOUS

\* A step that changes the rows of one document only, and leaves them sound.
LEMMA OneDocument ==
    ASSUME FiscalInv, UNCHANGED billing, NEW d \in Documents, NEW i, NEW a, NEW c, NEW e, NEW s,
           DocumentSound(i, a, c, e, s), Stands(issuance[d], evidence[d], i, e),
           issuance' = [issuance EXCEPT ![d] = i], attempt' = [attempt EXCEPT ![d] = a],
           call' = [call EXCEPT ![d] = c], evidence' = [evidence EXCEPT ![d] = e],
           stamped' = [stamped EXCEPT ![d] = s]
    PROVE  Goal
<1>1. d \in 1 .. Len(document) /\ Documents' = Documents /\ Documents = 1 .. Len(document)
  BY DEF FiscalInv, Documents, billing
<1>2. /\ i \in BillingIssuance \cup {NoIssuance} /\ a \in Seq(BillingIssuanceAttempt) /\ c \in Seq(ProviderCall)
      /\ e \in [stamp : 0 .. 1, artifact : BOOLEAN] /\ s \in 0 .. 1
  BY DEF DocumentSound
<1>3. /\ issuance \in Seq(BillingIssuance \cup {NoIssuance}) /\ Len(issuance) = Len(document)
      /\ attempt \in Seq(Seq(BillingIssuanceAttempt)) /\ Len(attempt) = Len(document)
      /\ call \in Seq(Seq(ProviderCall)) /\ Len(call) = Len(document)
      /\ evidence \in Seq([stamp : 0 .. 1, artifact : BOOLEAN]) /\ Len(evidence) = Len(document)
      /\ stamped \in Seq(0 .. 1) /\ Len(stamped) = Len(document)
  BY DEF FiscalInv
<1>4. /\ issuance' \in Seq(BillingIssuance \cup {NoIssuance}) /\ Len(issuance') = Len(document)
      /\ issuance'[d] = i /\ \A m \in 1 .. Len(document) : m # d => issuance'[m] = issuance[m]
  BY <1>1, <1>2, <1>3
<1>5. /\ attempt' \in Seq(Seq(BillingIssuanceAttempt)) /\ Len(attempt') = Len(document)
      /\ attempt'[d] = a /\ \A m \in 1 .. Len(document) : m # d => attempt'[m] = attempt[m]
  BY <1>1, <1>2, <1>3
<1>6. /\ call' \in Seq(Seq(ProviderCall)) /\ Len(call') = Len(document)
      /\ call'[d] = c /\ \A m \in 1 .. Len(document) : m # d => call'[m] = call[m]
  BY <1>1, <1>2, <1>3
<1>7. /\ evidence' \in Seq([stamp : 0 .. 1, artifact : BOOLEAN]) /\ Len(evidence') = Len(document)
      /\ evidence'[d] = e /\ \A m \in 1 .. Len(document) : m # d => evidence'[m] = evidence[m]
  BY <1>1, <1>2, <1>3
<1>8. /\ stamped' \in Seq(0 .. 1) /\ Len(stamped') = Len(document)
      /\ stamped'[d] = s /\ \A m \in 1 .. Len(document) : m # d => stamped'[m] = stamped[m]
  BY <1>1, <1>2, <1>3
<1>9. ASSUME NEW m \in Documents
      PROVE  /\ DocumentSound(issuance'[m], attempt'[m], call'[m], evidence'[m], stamped'[m])
             /\ Stands(issuance[m], evidence[m], issuance'[m], evidence'[m])
  <2>1. CASE m = d
    BY <2>1, <1>4, <1>5, <1>6, <1>7, <1>8
  <2>2. CASE m # d
    <3>1. DocumentSound(issuance[m], attempt[m], call[m], evidence[m], stamped[m])
      BY DEF FiscalInv
    <3>2. Stands(issuance[m], evidence[m], issuance[m], evidence[m])
      BY DEF Stands
    <3>3. QED
      BY <1>1, <2>2, <3>1, <3>2, <1>4, <1>5, <1>6, <1>7, <1>8
  <2>3. QED
    BY <2>1, <2>2
<1>10. FiscalInv'
  <2>1. \A m \in Documents' : DocumentSound(issuance'[m], attempt'[m], call'[m], evidence'[m], stamped'[m])
    BY <1>1, <1>9
  <2>2. /\ issuer' \in Parties \cup {NoParty} /\ recipient' \in Parties \cup {NoParty}
        /\ settled' \in [CheckIds -> Bills \cup {NoBill}] /\ document' \in Seq(BillingDocument)
        /\ document' = document
    BY DEF FiscalInv, billing
  <2>3. QED
    BY <1>4, <1>5, <1>6, <1>7, <1>8, <2>1, <2>2 DEF FiscalInv
<1>11. FiscalOutcomeIsFinal
  BY <1>9 DEF FiscalOutcomeIsFinal, Stands
<1>12. QED
  BY <1>10, <1>11 DEF Goal

\* What the invariant says of a document.
LEMMA DocumentFacts ==
    ASSUME FiscalInv, NEW d \in Documents
    PROVE  /\ DocumentSound(issuance[d], attempt[d], call[d], evidence[d], stamped[d])
           /\ issuance = [issuance EXCEPT ![d] = issuance[d]]
           /\ attempt = [attempt EXCEPT ![d] = attempt[d]]
           /\ call = [call EXCEPT ![d] = call[d]]
           /\ evidence = [evidence EXCEPT ![d] = evidence[d]]
           /\ stamped = [stamped EXCEPT ![d] = stamped[d]]
           /\ attempt[d] \in Seq(BillingIssuanceAttempt) /\ call[d] \in Seq(ProviderCall)
           /\ Len(attempt[d]) = Len(call[d])
           /\ issuance[d] \in BillingIssuance \cup {NoIssuance}
           /\ evidence[d] \in [stamp : 0 .. stamped[d], artifact : BOOLEAN] /\ stamped[d] \in 0 .. 1
<1>1. DocumentSound(issuance[d], attempt[d], call[d], evidence[d], stamped[d])
  BY DEF FiscalInv
<1>2. /\ d \in DOMAIN issuance /\ d \in DOMAIN attempt /\ d \in DOMAIN call
      /\ d \in DOMAIN evidence /\ d \in DOMAIN stamped
  BY DEF FiscalInv, Documents
<1>3. /\ issuance \in Seq(BillingIssuance \cup {NoIssuance}) /\ attempt \in Seq(Seq(BillingIssuanceAttempt))
      /\ call \in Seq(Seq(ProviderCall)) /\ evidence \in Seq([stamp : 0 .. 1, artifact : BOOLEAN])
      /\ stamped \in Seq(0 .. 1)
  BY DEF FiscalInv
<1>4. /\ issuance = [issuance EXCEPT ![d] = issuance[d]]
      /\ attempt = [attempt EXCEPT ![d] = attempt[d]]
      /\ call = [call EXCEPT ![d] = call[d]]
      /\ evidence = [evidence EXCEPT ![d] = evidence[d]]
      /\ stamped = [stamped EXCEPT ![d] = stamped[d]]
  BY <1>2, <1>3, PutBack
<1>5. QED
  BY <1>1, <1>4 DEF DocumentSound

\* A step that only changes call n of a document, to x, and its stamps, to t.
LEMMA OneCall ==
    ASSUME FiscalInv, UNCHANGED calling, NEW d \in Documents, NEW n \in DOMAIN call[d],
           NEW x \in ProviderCall, NEW t \in {stamped[d], 1},
           call' = [call EXCEPT ![d] = [call[d] EXCEPT ![n] = x]],
           stamped' = [stamped EXCEPT ![d] = t],
           x.wire = "STAMPED" \/ x.answer = "SUCCEEDED" => t = 1,
           Provider(d) # "KEYED" =>
              /\ Type(d, n) = "RETRY" => x.wire = "UNSENT"
              /\ n = 1 /\ t = 1 => x.wire = "STAMPED"
              /\ n # 1 => t = stamped[d]
    PROVE  Goal
<1>1. DocumentSound(issuance[d], attempt[d], call[d], evidence[d], stamped[d])
  BY DocumentFacts
<1>2. DocumentSound(issuance[d], attempt[d], [call[d] EXCEPT ![n] = x], evidence[d], t)
  BY <1>1, CallSound DEF Provider, Type
<1>3. /\ issuance' = [issuance EXCEPT ![d] = issuance[d]]
      /\ attempt' = [attempt EXCEPT ![d] = attempt[d]]
      /\ evidence' = [evidence EXCEPT ![d] = evidence[d]]
      /\ UNCHANGED billing
  BY DocumentFacts DEF calling
<1>4. Stands(issuance[d], evidence[d], issuance[d], evidence[d])
  BY DEF Stands
<1>5. QED
  BY <1>2, <1>3, <1>4, OneDocument

\* What the invariant says of a call.
LEMMA CallFacts ==
    ASSUME FiscalInv, NEW d \in Documents, NEW n \in DOMAIN call[d]
    PROVE  /\ n \in 1 .. Len(attempt[d])
           /\ AttemptSound(issuance[d], attempt[d], call[d], stamped[d], n)
           /\ call[d][n] \in ProviderCall /\ attempt[d][n] \in BillingIssuanceAttempt
           /\ issuance[d] \in BillingIssuance
<1>1. DocumentSound(issuance[d], attempt[d], call[d], evidence[d], stamped[d])
  BY DocumentFacts
<1>2. /\ attempt[d] \in Seq(BillingIssuanceAttempt) /\ call[d] \in Seq(ProviderCall)
      /\ Len(attempt[d]) = Len(call[d])
  BY DocumentFacts
<1>3. n \in 1 .. Len(attempt[d]) /\ attempt[d] # <<>>
  BY <1>2
<1>4. AttemptSound(issuance[d], attempt[d], call[d], stamped[d], n) /\ issuance[d] \in BillingIssuance
  BY <1>1, <1>3 DEF DocumentSound
<1>5. QED
  BY <1>2, <1>3, <1>4

\* A call is answered; only a stamp that exists is reported.
LEMMA AnswerGoal ==
    ASSUME FiscalInv, NEW d \in Documents, NEW n \in DOMAIN call[d],
           NEW w \in Answers \cup {"APPLIED"}, Answered(d, n, w), UNCHANGED <<calling, stamped>>,
           w = "SUCCEEDED" => stamped[d] = 1
    PROVE  Goal
<1> DEFINE x == [call[d][n] EXCEPT !.answer = w]
<1>1. /\ AttemptSound(issuance[d], attempt[d], call[d], stamped[d], n)
      /\ call[d][n] \in ProviderCall
  BY CallFacts
<1>2. x \in ProviderCall /\ x.wire = call[d][n].wire /\ x.answer = w
  BY <1>1 DEF ProviderCall
<1>3. call' = [call EXCEPT ![d] = [call[d] EXCEPT ![n] = x]]
  BY DEF Answered
<1>4. stamped' = [stamped EXCEPT ![d] = stamped[d]] /\ UNCHANGED calling
  BY DocumentFacts
<1>5. /\ x.wire = "STAMPED" \/ x.answer = "SUCCEEDED" => stamped[d] = 1
      /\ Provider(d) # "KEYED" =>
            /\ Type(d, n) = "RETRY" => x.wire = "UNSENT"
            /\ n = 1 /\ stamped[d] = 1 => x.wire = "STAMPED"
  BY <1>1, <1>2 DEF AttemptSound, Provider, Type
<1> HIDE DEF x
<1>6. QED
  BY <1>2, <1>3, <1>4, <1>5, OneCall

\* A call goes out, unless the provider must not be asked twice, or is refused.
LEMMA WireGoal ==
    ASSUME FiscalInv, NEW d \in Documents, NEW n \in DOMAIN call[d], NEW x \in ProviderCall,
           call' = [call EXCEPT ![d] = [call[d] EXCEPT ![n] = x]], UNCHANGED <<calling, stamped>>,
           x.wire \in {"SENT", "REFUSED"}, call[d][n].wire \in {"UNSENT", "SENT"},
           call[d][n].wire = "UNSENT" => Sends(d, n), x.answer # "SUCCEEDED"
    PROVE  Goal
<1>1. AttemptSound(issuance[d], attempt[d], call[d], stamped[d], n)
  BY CallFacts
<1>2. stamped' = [stamped EXCEPT ![d] = stamped[d]] /\ UNCHANGED calling
  BY DocumentFacts
<1>3. /\ x.wire = "STAMPED" \/ x.answer = "SUCCEEDED" => stamped[d] = 1
      /\ Provider(d) # "KEYED" =>
            /\ Type(d, n) = "RETRY" => x.wire = "UNSENT"
            /\ n = 1 /\ stamped[d] = 1 => x.wire = "STAMPED"
  BY <1>1 DEF AttemptSound, Provider, Type, Sends
<1>4. QED
  BY <1>2, <1>3, OneCall

\* The steps of a worker and of the provider before the finish, and the answer that
\* comes too late.
LEMMA CallsGoal ==
    ASSUME FiscalInv, NEW d \in Documents, NEW n \in DOMAIN call[d],
           \/ ResolutionFails(d, n) \/ CallProvider(d, n) \/ DefiniteTransportError(d, n)
           \/ AmbiguousTransportError(d, n) \/ ProviderRefuses(d, n) \/ IssuanceResult(d, n)
           \/ RecoveryResult(d, n) \/ LostOwnership(d, n)
    PROVE  Goal
<1>1. /\ AttemptSound(issuance[d], attempt[d], call[d], stamped[d], n)
      /\ call[d][n] \in ProviderCall /\ stamped[d] \in 0 .. 1
  BY CallFacts, DocumentFacts
<1>2. CASE UNCHANGED <<calling, stamped>> /\ \E w \in {"FAILED", "UNCERTAIN", "REJECTED", "APPLIED"} : Answered(d, n, w)
  BY <1>2, AnswerGoal DEF Answers
<1>3. CASE UNCHANGED <<calling, stamped>> /\ Answered(d, n, "SUCCEEDED") /\ stamped[d] = 1
  BY <1>3, AnswerGoal DEF Answers
<1>4. CASE ResolutionFails(d, n) \/ AmbiguousTransportError(d, n) \/ LostOwnership(d, n)
  BY <1>4, <1>2 DEF ResolutionFails, AmbiguousTransportError, LostOwnership, Answered
<1>5. CASE CallProvider(d, n)
  <2>1. CASE Sends(d, n) /\ Sent(d, n)
    <3> DEFINE x == [call[d][n] EXCEPT !.wire = "SENT"]
    <3>1. x \in ProviderCall /\ x.wire = "SENT" /\ x.answer = call[d][n].answer
      BY <1>1 DEF ProviderCall
    <3>2. call' = [call EXCEPT ![d] = [call[d] EXCEPT ![n] = x]]
      BY <2>1 DEF Sent
    <3>3. UNCHANGED <<calling, stamped>> /\ call[d][n].wire = "UNSENT" /\ call[d][n].answer = "NONE"
      BY <1>5 DEF CallProvider, Waiting
    <3> HIDE DEF x
    <3>4. QED
      BY <2>1, <3>1, <3>2, <3>3, WireGoal
  <2>2. QED
    BY <1>2, <1>5, <2>1 DEF CallProvider
<1>6. CASE DefiniteTransportError(d, n)
  <2> DEFINE x == [wire |-> "REFUSED", answer |-> IF Type(d, n) = "RECOVER" THEN "UNCERTAIN" ELSE "FAILED"]
  <2>1. x \in ProviderCall /\ x.wire = "REFUSED" /\ x.answer # "SUCCEEDED"
    BY DEF ProviderCall, Answers
  <2>2. call' = [call EXCEPT ![d] = [call[d] EXCEPT ![n] = x]]
    BY <1>6 DEF DefiniteTransportError
  <2>3. UNCHANGED <<calling, stamped>> /\ call[d][n].wire = "SENT"
    BY <1>6 DEF DefiniteTransportError
  <2> HIDE DEF x
  <2>4. QED
    BY <2>1, <2>2, <2>3, WireGoal
<1>7. CASE ProviderRefuses(d, n)
  <2> DEFINE x == [call[d][n] EXCEPT !.wire = "REFUSED"]
  <2>1. x \in ProviderCall /\ x.wire = "REFUSED" /\ x.answer = call[d][n].answer
    BY <1>1 DEF ProviderCall
  <2>2. call' = [call EXCEPT ![d] = [call[d] EXCEPT ![n] = x]]
    BY <1>7 DEF ProviderRefuses
  <2>3. UNCHANGED <<calling, stamped>> /\ call[d][n].wire = "SENT"
    BY <1>7 DEF ProviderRefuses
  <2> HIDE DEF x
  <2>4. CASE x.answer # "SUCCEEDED"
    BY <2>1, <2>2, <2>3, <2>4, WireGoal
  <2>5. CASE x.answer = "SUCCEEDED"
    <3>1. /\ stamped[d] = 1 /\ stamped' = [stamped EXCEPT ![d] = stamped[d]] /\ UNCHANGED calling
      BY <1>1, <2>1, <2>3, <2>5, DocumentFacts DEF AttemptSound
    <3>2. Provider(d) # "KEYED" => Type(d, n) # "RETRY" /\ n # 1
      BY <1>1, <2>3, <3>1 DEF AttemptSound, Provider, Type
    <3>3. QED
      BY <2>1, <2>2, <2>5, <3>1, <3>2, OneCall
  <2>6. QED
    BY <2>4, <2>5
<1>8. CASE IssuanceResult(d, n)
  BY <1>1, <1>2, <1>3, <1>8 DEF IssuanceResult, AttemptSound
<1>9. CASE RecoveryResult(d, n)
  BY <1>1, <1>2, <1>3, <1>9 DEF RecoveryResult
<1>10. QED
  BY <1>4, <1>5, <1>6, <1>7, <1>8, <1>9

\* The provider stamps: with its key at most once, and FINKOK for the first attempt only.
LEMMA StampGoal ==
    ASSUME FiscalInv, NEW d \in Documents, NEW n \in DOMAIN call[d], ProviderStamps(d, n)
    PROVE  Goal
<1> DEFINE x == [call[d][n] EXCEPT !.wire = "STAMPED"]
<1>1. /\ AttemptSound(issuance[d], attempt[d], call[d], stamped[d], n)
      /\ call[d][n] \in ProviderCall /\ attempt[d][n] \in BillingIssuanceAttempt /\ stamped[d] \in 0 .. 1
  BY CallFacts, DocumentFacts
<1>2. x \in ProviderCall /\ x.wire = "STAMPED"
  BY <1>1 DEF ProviderCall
<1>3. call' = [call EXCEPT ![d] = [call[d] EXCEPT ![n] = x]] /\ UNCHANGED calling
  BY DEF ProviderStamps
<1>4. Provider(d) # "KEYED" => Type(d, n) = "ISSUE" /\ n = 1 /\ stamped[d] = 0
  BY <1>1 DEF ProviderStamps, AttemptSound, Provider, Type, BillingIssuanceAttempt
<1>5. stamped' = [stamped EXCEPT ![d] = 1]
  <2>1. stamped' = [stamped EXCEPT ![d] = IF Provider(d) = "KEYED" THEN 1 ELSE stamped[d] + 1]
    BY DEF ProviderStamps
  <2>2. (IF Provider(d) = "KEYED" THEN 1 ELSE stamped[d] + 1) = 1
    BY <1>4
  <2>3. QED
    BY <2>1, <2>2, Zenon
<1> HIDE DEF x
<1>6. QED
  BY <1>2, <1>3, <1>4, <1>5, OneCall

\* The provider with keys proves that there is no stamp.
LEMMA AbsenceGoal ==
    ASSUME FiscalInv, NEW d \in Documents, NEW n \in DOMAIN call[d], ProvesAbsence(d, n)
    PROVE  Goal
<1> DEFINE c == [m \in DOMAIN call[d] |->
                    IF m = n THEN [call[d][m] EXCEPT !.answer = "ABSENT"]
                    ELSE IF call[d][m].wire = "SENT" THEN [call[d][m] EXCEPT !.wire = "REFUSED"] ELSE call[d][m]]
<1>1. DocumentSound(issuance[d], attempt[d], call[d], evidence[d], stamped[d]) /\ call[d] \in Seq(ProviderCall)
  BY DocumentFacts
<1>2. ASSUME NEW m \in 1 .. Len(call[d])
      PROVE  /\ c[m] \in ProviderCall
             /\ c[m].wire # "STAMPED" \/ call[d][m].wire = "STAMPED"
             /\ c[m].answer # "SUCCEEDED" \/ call[d][m].answer = "SUCCEEDED"
  <2>1. call[d][m] \in ProviderCall
    BY <1>1
  <2>2. QED
    BY <1>1, <2>1 DEF ProviderCall, Answers
<1>3. c \in Seq(ProviderCall) /\ Len(c) = Len(call[d])
  <2>1. DOMAIN call[d] = 1 .. Len(call[d]) /\ Len(call[d]) \in Nat
    BY <1>1
  <2>2. DOMAIN c = 1 .. Len(call[d])
    BY <2>1
  <2>3. c \in [1 .. Len(call[d]) -> ProviderCall]
    <3> HIDE DEF c
    <3>1. c = [m \in DOMAIN c |-> c[m]]
      BY DEF c
    <3>2. QED
      BY <1>2, <2>2, <3>1
  <2> HIDE DEF c
  <2>4. QED
    BY <2>1, <2>3
<1>4. call' = [call EXCEPT ![d] = c] /\ UNCHANGED <<calling, stamped>> /\ issuance[d].request.binding = "KEYED"
  BY DEF ProvesAbsence, Provider
<1> HIDE DEF c
<1>5. DocumentSound(issuance[d], attempt[d], c, evidence[d], stamped[d])
  BY <1>1, <1>2, <1>3, <1>4, AbsenceSound
<1>6. /\ issuance' = [issuance EXCEPT ![d] = issuance[d]]
      /\ attempt' = [attempt EXCEPT ![d] = attempt[d]]
      /\ evidence' = [evidence EXCEPT ![d] = evidence[d]]
      /\ stamped' = [stamped EXCEPT ![d] = stamped[d]]
      /\ UNCHANGED billing
  BY <1>4, DocumentFacts DEF calling
<1>7. Stands(issuance[d], evidence[d], issuance[d], evidence[d])
  BY DEF Stands
<1>8. QED
  BY <1>4, <1>5, <1>6, <1>7, OneDocument

\* The reservation, and the end of a lease.
LEMMA ReserveGoal ==
    ASSUME FiscalInv, NEW d \in Documents, NEW b \in Bindings, Reserve(d, b)
    PROVE  Goal
<1> DEFINE i == [state |-> "PENDING", token |-> 0, live |-> FALSE, request |-> CanonicalRequest(d, b)]
<1>1. document[d] \in BillingDocument /\ settled \in [CheckIds -> Bills \cup {NoBill}]
  BY DEF FiscalInv, Documents
<1>2. CanonicalRequest(d, b) \in FiscalRequest
  BY <1>1 DEF CanonicalRequest, BillOf, FiscalRequest, BillingDocument
<1>3. 0 \in 0 .. MaxAttempts
  BY FiscalBounds
<1>4. i \in BillingIssuance /\ i.state = "PENDING"
  BY <1>2, <1>3 DEF BillingIssuance, States
<1>5. /\ issuance[d] = NoIssuance /\ issuance' = [issuance EXCEPT ![d] = i]
      /\ UNCHANGED <<billing, attempt, evidence, call, stamped>>
  BY DEF Reserve
<1> HIDE DEF i
<1>6. DocumentSound(NoIssuance, attempt[d], call[d], evidence[d], stamped[d])
  BY <1>5, DocumentFacts
<1>7. attempt[d] = <<>> /\ stamped[d] = 0 /\ Len(attempt[d]) = 0
  BY <1>6 DEF DocumentSound
<1>8. DocumentSound(i, attempt[d], call[d], evidence[d], stamped[d])
  BY <1>4, <1>6, <1>7 DEF DocumentSound
<1>9. Stands(issuance[d], evidence[d], i, evidence[d])
  BY <1>5, NoIssuanceApart DEF Stands
<1>10. /\ attempt' = [attempt EXCEPT ![d] = attempt[d]]
       /\ call' = [call EXCEPT ![d] = call[d]]
       /\ evidence' = [evidence EXCEPT ![d] = evidence[d]]
       /\ stamped' = [stamped EXCEPT ![d] = stamped[d]]
       /\ UNCHANGED billing
       /\ issuance' = [issuance EXCEPT ![d] = i]
  BY <1>5, DocumentFacts
<1>11. QED
  BY <1>8, <1>9, <1>10, OneDocument

LEMMA LeaseGoal ==
    ASSUME FiscalInv, NEW d \in Documents, LeaseExpires(d)
    PROVE  Goal
<1> DEFINE i == [issuance[d] EXCEPT !.live = FALSE]
<1>1. /\ issuance[d] \in BillingIssuance \cup {NoIssuance} /\ issuance[d].state = "IN_PROGRESS"
      /\ UNCHANGED <<billing, attempt, evidence, call, stamped>>
      /\ issuance' = [issuance EXCEPT ![d] = i]
  BY DocumentFacts DEF LeaseExpires
<1>2. issuance[d] \in BillingIssuance
  BY <1>1, NoIssuanceApart
<1>3. /\ i \in BillingIssuance /\ i.state = issuance[d].state /\ i.token = issuance[d].token
      /\ i.request = issuance[d].request
  BY <1>2 DEF BillingIssuance
<1> HIDE DEF i
<1>4. DocumentSound(issuance[d], attempt[d], call[d], evidence[d], stamped[d])
  BY DocumentFacts
<1>5. \A n \in 1 .. Len(attempt[d]) : AttemptSound(i, attempt[d], call[d], stamped[d], n)
  BY <1>3, <1>4 DEF DocumentSound, AttemptSound
<1>6. DocumentSound(i, attempt[d], call[d], evidence[d], stamped[d])
  BY <1>1, <1>3, <1>4, <1>5, NoIssuanceApart DEF DocumentSound
<1>7. Stands(issuance[d], evidence[d], i, evidence[d])
  BY <1>3 DEF Stands
<1>8. /\ attempt' = [attempt EXCEPT ![d] = attempt[d]]
      /\ call' = [call EXCEPT ![d] = call[d]]
      /\ evidence' = [evidence EXCEPT ![d] = evidence[d]]
      /\ stamped' = [stamped EXCEPT ![d] = stamped[d]]
      /\ UNCHANGED billing
      /\ issuance' = [issuance EXCEPT ![d] = i]
  BY <1>1, DocumentFacts
<1>9. QED
  BY <1>6, <1>7, <1>8, OneDocument

\* The attempts b are the attempts a, all of them concluded.
Closed(a, b) ==
    /\ b \in Seq(BillingIssuanceAttempt) /\ Len(b) = Len(a)
    /\ \A m \in 1 .. Len(a) : /\ b[m].type = a[m].type /\ b[m].result # "NONE"
                              /\ b[m].absent => b[m].result = "FAILED"

\* A claim of any kind, of an issuance that is open to it, after b.
LEMMA ClaimGoal ==
    ASSUME FiscalInv, NEW d \in Documents, Claim(d), issuance[d] # NoIssuance,
           issuance[d].state \notin {"SUCCEEDED", "REJECTED"},
           NEW b, Closed(attempt[d], b),
           NEW type \in {"ISSUE", "RECOVER", "RETRY"},
           IF attempt[d] = <<>> THEN type = "ISSUE" ELSE type # "ISSUE",
           attempt' = [attempt EXCEPT ![d] = Append(b, Opened(type))]
    PROVE  Goal
<1> DEFINE j == [issuance[d] EXCEPT !.state = "IN_PROGRESS", !.token = Len(attempt[d]) + 1, !.live = TRUE]
           x == [wire |-> "UNSENT", answer |-> "NONE"]
           y == Opened(type)
<1>1. /\ issuance[d] \in BillingIssuance /\ attempt[d] \in Seq(BillingIssuanceAttempt)
      /\ DocumentSound(issuance[d], attempt[d], call[d], evidence[d], stamped[d])
  BY DocumentFacts
<1>2. Len(attempt[d]) < MaxAttempts /\ Len(attempt[d]) + 1 \in 0 .. MaxAttempts
  BY <1>1, FiscalBounds DEF Claim
<1>3. /\ j \in BillingIssuance /\ j.state = "IN_PROGRESS" /\ j.token = Len(attempt[d]) + 1
      /\ j.request = issuance[d].request
  BY <1>1, <1>2 DEF BillingIssuance, States
<1>4. x \in ProviderCall /\ x.wire = "UNSENT" /\ x.answer = "NONE"
  BY DEF ProviderCall
<1>5. y \in BillingIssuanceAttempt /\ y.result = "NONE" /\ y.absent = FALSE /\ y.type = type
  BY DEF Opened, BillingIssuanceAttempt
<1>6. /\ issuance' = [issuance EXCEPT ![d] = j]
      /\ call' = [call EXCEPT ![d] = Append(call[d], x)]
      /\ UNCHANGED <<billing, evidence, stamped>>
  BY DEF Claim
<1>7. attempt' = [attempt EXCEPT ![d] = Append(b, y)]
  OBVIOUS
<1> HIDE DEF j, x, y
<1>8. DocumentSound(j, Append(b, y), Append(call[d], x), evidence[d], stamped[d])
  BY <1>1, <1>2, <1>3, <1>4, <1>5, ClaimSound DEF Closed
<1>9. Stands(issuance[d], evidence[d], j, evidence[d])
  BY DEF Stands
<1>10. /\ evidence' = [evidence EXCEPT ![d] = evidence[d]]
       /\ stamped' = [stamped EXCEPT ![d] = stamped[d]]
       /\ UNCHANGED billing
       /\ issuance' = [issuance EXCEPT ![d] = j]
       /\ attempt' = [attempt EXCEPT ![d] = Append(b, y)]
       /\ call' = [call EXCEPT ![d] = Append(call[d], x)]
  BY <1>6, <1>7, DocumentFacts
<1>11. QED
  BY <1>8, <1>9, <1>10, OneDocument

\* Nothing is claimed that a claim holds, that succeeded or that was rejected.
LEMMA ClaimsGoal ==
    ASSUME FiscalInv, NEW d \in Documents, ClaimInitial(d) \/ ClaimRecovery(d) \/ ClaimRetry(d)
    PROVE  Goal
<1>1. /\ DocumentSound(issuance[d], attempt[d], call[d], evidence[d], stamped[d])
      /\ attempt[d] \in Seq(BillingIssuanceAttempt)
  BY DocumentFacts
<1>2. \A m \in 1 .. Len(attempt[d]) : AttemptSound(issuance[d], attempt[d], call[d], stamped[d], m)
  BY <1>1 DEF DocumentSound
<1>3. CASE ClaimInitial(d)
  <2>1. issuance[d] # NoIssuance /\ issuance[d].state = "PENDING" /\ attempt[d] = <<>> /\ Len(attempt[d]) = 0
    BY <1>3, NoIssuanceApart DEF ClaimInitial
  <2>2. Claim(d) /\ attempt' = [attempt EXCEPT ![d] = Append(attempt[d], Opened("ISSUE"))]
    BY <1>3 DEF ClaimInitial
  <2>3. Closed(attempt[d], attempt[d])
    BY <1>1, <2>1 DEF Closed
  <2>4. QED
    BY <2>1, <2>2, <2>3, ClaimGoal
<1>4. CASE ClaimRecovery(d)
  <2>1. /\ Claim(d) /\ attempt' = [attempt EXCEPT ![d] = Append(Completed(d), Opened("RECOVER"))]
        /\ issuance[d] # NoIssuance /\ (issuance[d].state = "UNCERTAIN" \/ Expired(d))
    BY <1>4 DEF ClaimRecovery, RecoverAllowed
  <2>2. attempt[d] # <<>> /\ Len(attempt[d]) \in 1 .. Len(attempt[d]) /\ issuance[d].state \in {"UNCERTAIN", "IN_PROGRESS"}
    BY <1>1, <2>1 DEF DocumentSound, Expired
  <2>3. Closed(attempt[d], Completed(d))
    <3>1. CASE Expired(d)
      <4> DEFINE k == Len(attempt[d])
                 z == [attempt[d][k] EXCEPT !.result = "UNCERTAIN"]
      <4>1. attempt[d][k] \in BillingIssuanceAttempt /\ k \in 1 .. Len(attempt[d])
        BY <1>1, <2>2
      <4>2. /\ z \in BillingIssuanceAttempt /\ z.type = attempt[d][k].type /\ z.result = "UNCERTAIN"
            /\ z.absent = attempt[d][k].absent
        BY <4>1 DEF BillingIssuanceAttempt, States
      <4>3. Completed(d) = [attempt[d] EXCEPT ![k] = z]
        BY <3>1 DEF Completed
      <4>4. /\ attempt[d][k].result = "NONE" /\ ~attempt[d][k].absent
            /\ \A m \in 1 .. Len(attempt[d]) : /\ m # k => attempt[d][m].result # "NONE"
                                               /\ attempt[d][m].absent => attempt[d][m].result = "FAILED"
        BY <1>2, <3>1, <4>1 DEF Expired, AttemptSound
      <4> HIDE DEF z
      <4>5. /\ Completed(d) \in Seq(BillingIssuanceAttempt) /\ Len(Completed(d)) = Len(attempt[d])
            /\ Completed(d)[k] = z
            /\ \A m \in 1 .. Len(attempt[d]) : m # k => Completed(d)[m] = attempt[d][m]
        BY <1>1, <4>1, <4>2, <4>3
      <4>6. ASSUME NEW m \in 1 .. Len(attempt[d])
            PROVE  /\ Completed(d)[m].type = attempt[d][m].type /\ Completed(d)[m].result # "NONE"
                   /\ Completed(d)[m].absent => Completed(d)[m].result = "FAILED"
        <5>1. CASE m = k
          BY <4>2, <4>4, <4>5, <5>1
        <5>2. CASE m # k
          <6>1. Completed(d)[m] = attempt[d][m]
            BY <4>5, <5>2
          <6>2. attempt[d][m].result # "NONE" /\ (attempt[d][m].absent => attempt[d][m].result = "FAILED")
            BY <4>4, <5>2, Zenon
          <6>3. QED
            BY <6>1, <6>2, Zenon
        <5>3. QED
          BY <5>1, <5>2
      <4>7. QED
        BY <4>5, <4>6 DEF Closed
    <3>2. CASE ~Expired(d)
      <4>1. Completed(d) = attempt[d] /\ issuance[d].state = "UNCERTAIN"
        BY <2>1, <3>2 DEF Completed
      <4>2. QED
        BY <1>1, <1>2, <4>1 DEF AttemptSound, Closed
    <3>3. QED
      BY <3>1, <3>2
  <2>4. QED
    BY <2>1, <2>2, <2>3, ClaimGoal
<1>5. CASE ClaimRetry(d)
  <2>1. /\ Claim(d) /\ attempt' = [attempt EXCEPT ![d] = Append(attempt[d], Opened("RETRY"))]
        /\ issuance[d] # NoIssuance /\ RetryAllowed(d)
    BY <1>5 DEF ClaimRetry
  <2>2. attempt[d] # <<>> => Last(attempt[d]) = attempt[d][Len(attempt[d])] /\ Len(attempt[d]) \in 1 .. Len(attempt[d])
    BY <1>1 DEF Last
  <2>3. attempt[d] # <<>> /\ issuance[d].state = "FAILED"
    <3>1. CASE issuance[d].state = "FAILED"
      BY <1>1, <3>1 DEF DocumentSound
    <3>2. CASE issuance[d].state # "FAILED"
      <4>1. issuance[d].state # "IN_PROGRESS" /\ attempt[d] # <<>> /\ Last(attempt[d]).absent
        BY <2>1, <3>2 DEF RetryAllowed
      <4>2. attempt[d][Len(attempt[d])].result = "FAILED"
        BY <1>2, <2>2, <4>1 DEF AttemptSound
      <4>3. QED
        BY <1>1, <4>1, <4>2 DEF DocumentSound
    <3>3. QED
      BY <3>1, <3>2
  <2>4. Closed(attempt[d], attempt[d])
    BY <1>1, <1>2, <2>3 DEF AttemptSound, Closed
  <2>5. QED
    BY <2>1, <2>3, <2>4, ClaimGoal
<1>6. QED
  BY <1>3, <1>4, <1>5

\* Every finish, with the result r: the open attempt is concluded once, by the claim
\* that holds it.
LEMMA FinishGoal ==
    ASSUME FiscalInv, NEW d \in Documents, NEW n \in DOMAIN call[d], MayFinish(d, n),
           NEW r \in {"SUCCEEDED", "FAILED", "REJECTED", "UNCERTAIN"}, Conclude(d, n, r),
           call[d][n].answer = "ABSENT" => r = "FAILED",
           NEW g \in [stamp : 0 .. stamped[d], artifact : BOOLEAN],
           evidence' = [evidence EXCEPT ![d] = g],
           evidence[d].stamp > 0 => g.stamp = evidence[d].stamp,
           evidence[d].artifact => g.artifact,
           r = "SUCCEEDED" => g.stamp = 1 /\ g.artifact,
           Answered(d, n, "APPLIED"), UNCHANGED billing, stamped' = [stamped EXCEPT ![d] = stamped[d]]
    PROVE  Goal
<1> DEFINE b == (call[d][n].answer = "ABSENT")
           j == [issuance[d] EXCEPT !.state = r, !.token = 0, !.live = FALSE]
           z == [attempt[d][n] EXCEPT !.result = r, !.absent = b]
           x == [call[d][n] EXCEPT !.answer = "APPLIED"]
<1>1. /\ issuance[d] \in BillingIssuance /\ call[d][n] \in ProviderCall
      /\ attempt[d][n] \in BillingIssuanceAttempt
      /\ DocumentSound(issuance[d], attempt[d], call[d], evidence[d], stamped[d])
  BY CallFacts, DocumentFacts
<1>2. 0 \in 0 .. MaxAttempts
  BY FiscalBounds
<1>3. j \in BillingIssuance /\ j.state = r /\ j.request = issuance[d].request
  BY <1>1, <1>2 DEF BillingIssuance, States
<1>4. z \in BillingIssuanceAttempt /\ z.type = attempt[d][n].type /\ z.result = r /\ (z.absent => r = "FAILED")
  BY <1>1 DEF BillingIssuanceAttempt, States
<1>5. x \in ProviderCall /\ x.wire = call[d][n].wire /\ x.answer = "APPLIED"
  BY <1>1 DEF ProviderCall
<1>6. issuance[d].state = "IN_PROGRESS" /\ issuance[d].token = n
  BY DEF MayFinish
<1>7. issuance' = [issuance EXCEPT ![d] = j] /\ attempt' = [attempt EXCEPT ![d] = [attempt[d] EXCEPT ![n] = z]]
  BY DEF Conclude
<1>8. call' = [call EXCEPT ![d] = [call[d] EXCEPT ![n] = x]]
  BY DEF Answered
<1> HIDE DEF b, j, z, x
<1>9. DocumentSound(j, [attempt[d] EXCEPT ![n] = z], [call[d] EXCEPT ![n] = x], g, stamped[d])
  BY <1>1, <1>3, <1>4, <1>5, <1>6, FinishSound
<1>10. Stands(issuance[d], evidence[d], j, g)
  BY <1>6 DEF Stands
<1>11. QED
  BY <1>7, <1>8, <1>9, <1>10, OneDocument

\* A success finds the stamp; any other answer leaves the evidence.
LEMMA FinishesGoal ==
    ASSUME FiscalInv, NEW d \in Documents, NEW n \in DOMAIN call[d], FinishSuccess(d, n) \/ FinishOther(d, n)
    PROVE  Goal
<1>1. /\ AttemptSound(issuance[d], attempt[d], call[d], stamped[d], n)
      /\ evidence[d] \in [stamp : 0 .. stamped[d], artifact : BOOLEAN] /\ stamped[d] \in 0 .. 1
      /\ evidence = [evidence EXCEPT ![d] = evidence[d]] /\ stamped = [stamped EXCEPT ![d] = stamped[d]]
  BY CallFacts, DocumentFacts
<1>2. CASE FinishSuccess(d, n)
  <2>1. MayFinish(d, n) /\ call[d][n].answer = "SUCCEEDED" /\ stamped[d] = 1
    BY <1>1, <1>2 DEF FinishSuccess, AttemptSound
  <2>2. ~Conflicting(d) /\ (evidence[d].stamp > 0 => evidence[d].stamp = 1)
    BY <1>1, <2>1 DEF Conflicting
  <2>3. PICK stored \in BOOLEAN :
           /\ Conclude(d, n, IF stored THEN "SUCCEEDED" ELSE "UNCERTAIN")
           /\ evidence' = [evidence EXCEPT ![d] = [stamp |-> stamped[d], artifact |-> stored \/ evidence[d].artifact]]
    BY <1>2, <2>2 DEF FinishSuccess
  <2> DEFINE r == IF stored THEN "SUCCEEDED" ELSE "UNCERTAIN"
             g == [stamp |-> stamped[d], artifact |-> stored \/ evidence[d].artifact]
  <2>4. /\ g \in [stamp : 0 .. stamped[d], artifact : BOOLEAN] /\ g.stamp = 1
        /\ evidence[d].artifact => g.artifact
        /\ stored => g.artifact
    BY <1>1, <2>1
  <2>5. r \in {"SUCCEEDED", "UNCERTAIN"} /\ (r = "SUCCEEDED" => stored)
    OBVIOUS
  <2>6. Conclude(d, n, r) /\ evidence' = [evidence EXCEPT ![d] = g]
    BY <2>3
  <2>7. Answered(d, n, "APPLIED") /\ UNCHANGED billing /\ stamped' = [stamped EXCEPT ![d] = stamped[d]]
    BY <1>1, <1>2 DEF FinishSuccess, Answered
  <2> HIDE DEF r, g
  <2>8. QED
    BY <2>1, <2>2, <2>4, <2>5, <2>6, <2>7, FinishGoal
<1>3. CASE FinishOther(d, n)
  <2> DEFINE r == Outcome(call[d][n].answer)
  <2>1. MayFinish(d, n) /\ call[d][n].answer \in Answers \ {"SUCCEEDED"} /\ Conclude(d, n, r)
    BY <1>3 DEF FinishOther
  <2>2. r \in {"FAILED", "REJECTED", "UNCERTAIN"} /\ (call[d][n].answer = "ABSENT" => r = "FAILED")
    BY <2>1 DEF Outcome, Answers
  <2>3. /\ Answered(d, n, "APPLIED") /\ UNCHANGED billing /\ stamped' = [stamped EXCEPT ![d] = stamped[d]]
        /\ evidence' = [evidence EXCEPT ![d] = evidence[d]]
    BY <1>1, <1>3 DEF FinishOther, Answered
  <2> HIDE DEF r
  <2>4. QED
    BY <1>1, <2>1, <2>2, <2>3, FinishGoal
<1>4. QED
  BY <1>2, <1>3

\* A document is created sound, and no other is touched.
LEMMA CreateGoal ==
    ASSUME FiscalInv, NEW c \in CheckIds, CreateBillingDocument(c)
    PROVE  Goal
<1> DEFINE x == [check |-> c, issuer |-> issuer, recipient |-> recipient]
           k == Len(document) + 1
           T == [stamp : 0 .. 1, artifact : BOOLEAN]
<1>1. /\ document \in Seq(BillingDocument)
      /\ issuance \in Seq(BillingIssuance \cup {NoIssuance}) /\ Len(issuance) = Len(document)
      /\ attempt \in Seq(Seq(BillingIssuanceAttempt)) /\ Len(attempt) = Len(document)
      /\ call \in Seq(Seq(ProviderCall)) /\ Len(call) = Len(document)
      /\ evidence \in Seq(T) /\ Len(evidence) = Len(document)
      /\ stamped \in Seq(0 .. 1) /\ Len(stamped) = Len(document)
  BY DEF FiscalInv
<1>2. x \in BillingDocument
  BY DEF FiscalInv, CreateBillingDocument, BillingDocument
<1>3. /\ document' = Append(document, x) /\ issuance' = Append(issuance, NoIssuance)
      /\ attempt' = Append(attempt, <<>>) /\ call' = Append(call, <<>>)
      /\ evidence' = Append(evidence, NoEvidence) /\ stamped' = Append(stamped, 0)
      /\ UNCHANGED <<issuer, recipient, settled>>
  BY DEF CreateBillingDocument
<1>4. Len(document) \in Nat /\ Documents = 1 .. Len(document)
  BY <1>1 DEF Documents
<1> HIDE DEF x, k
<1>5. document' \in Seq(BillingDocument) /\ Len(document') = Len(document) + 1
  BY <1>1, <1>2, <1>3
<1>6. Documents' = 1 .. Len(document) + 1
  BY <1>5 DEF Documents
<1>7. /\ issuance' \in Seq(BillingIssuance \cup {NoIssuance}) /\ Len(issuance') = Len(document')
      /\ issuance'[Len(document) + 1] = NoIssuance /\ \A m \in 1 .. Len(document) : issuance'[m] = issuance[m]
  BY <1>1, <1>3, <1>5
<1>8. /\ attempt' \in Seq(Seq(BillingIssuanceAttempt)) /\ Len(attempt') = Len(document')
      /\ attempt'[Len(document) + 1] = <<>> /\ \A m \in 1 .. Len(document) : attempt'[m] = attempt[m]
  <2>1. <<>> \in Seq(BillingIssuanceAttempt)
    OBVIOUS
  <2>2. QED
    BY <1>1, <1>3, <1>5, <2>1
<1>9. /\ call' \in Seq(Seq(ProviderCall)) /\ Len(call') = Len(document')
      /\ call'[Len(document) + 1] = <<>> /\ \A m \in 1 .. Len(document) : call'[m] = call[m]
  <2>1. <<>> \in Seq(ProviderCall)
    OBVIOUS
  <2>2. QED
    BY <1>1, <1>3, <1>5, <2>1
<1>10. /\ evidence' \in Seq(T) /\ Len(evidence') = Len(document')
       /\ evidence'[Len(document) + 1] = NoEvidence /\ \A m \in 1 .. Len(document) : evidence'[m] = evidence[m]
  <2>1. NoEvidence \in T
    BY DEF NoEvidence
  <2> HIDE DEF T
  <2>2. QED
    BY <1>1, <1>3, <1>5, <2>1
<1>11. /\ stamped' \in Seq(0 .. 1) /\ Len(stamped') = Len(document')
       /\ stamped'[Len(document) + 1] = 0 /\ \A m \in 1 .. Len(document) : stamped'[m] = stamped[m]
  BY <1>1, <1>3, <1>5
<1>12. ASSUME NEW m \in Documents'
       PROVE  DocumentSound(issuance'[m], attempt'[m], call'[m], evidence'[m], stamped'[m])
  <2>1. CASE m = Len(document) + 1
    BY <2>1, <1>7, <1>8, <1>9, <1>10, <1>11, NewDocumentSound
  <2>2. CASE m # Len(document) + 1
    <3>1. m \in 1 .. Len(document)
      BY <1>4, <1>6, <2>2
    <3>2. DocumentSound(issuance[m], attempt[m], call[m], evidence[m], stamped[m])
      BY <1>4, <3>1 DEF FiscalInv
    <3>3. QED
      BY <3>1, <3>2, <1>7, <1>8, <1>9, <1>10, <1>11
  <2>3. QED
    BY <2>1, <2>2
<1>13. FiscalInv'
  <2>1. /\ issuer' \in Parties \cup {NoParty} /\ recipient' \in Parties \cup {NoParty}
        /\ settled' \in [CheckIds -> Bills \cup {NoBill}]
    BY <1>3 DEF FiscalInv
  <2>2. QED
    BY <1>5, <1>7, <1>8, <1>9, <1>10, <1>11, <1>12, <2>1 DEF FiscalInv
<1>14. FiscalOutcomeIsFinal
  BY <1>4, <1>7, <1>10 DEF FiscalOutcomeIsFinal
<1>15. QED
  BY <1>13, <1>14 DEF Goal

\* Every step keeps the invariant and what was decided.
LEMMA FiscalStep ==
    ASSUME FiscalInv, [FiscalNext]_fiscalVars
    PROVE  Goal
<1>1. CASE UNCHANGED <<document, issuance, attempt, evidence, call, stamped>>
           /\ issuer' \in Parties \cup {NoParty} /\ recipient' \in Parties \cup {NoParty}
           /\ settled' \in [CheckIds -> Bills \cup {NoBill}]
  BY <1>1 DEF Goal, FiscalInv, FiscalOutcomeIsFinal, Documents
<1>2. CASE UNCHANGED fiscalVars
  BY <1>1, <1>2 DEF fiscalVars, FiscalInv
<1>3. ASSUME NEW v \in Parties, PutIssuerFiscalProfile(v) \/ PutRecipientFiscalProfile(v)
      PROVE  Goal
  BY <1>1, <1>3 DEF PutIssuerFiscalProfile, PutRecipientFiscalProfile, FiscalInv
<1>4. ASSUME NEW c \in CheckIds, NEW b \in Bills, SettleCheck(c, b) PROVE Goal
  BY <1>1, <1>4 DEF SettleCheck, FiscalInv
<1>5. ASSUME NEW c \in CheckIds, CreateBillingDocument(c) PROVE Goal
  BY <1>5, CreateGoal
<1>6. ASSUME NEW d \in Documents, Operate(d) PROVE Goal
  BY <1>6, ReserveGoal, LeaseGoal, ClaimsGoal DEF Operate
<1>7. ASSUME NEW d \in Documents, NEW n \in DOMAIN call[d], Work(d, n) PROVE Goal
  BY <1>7, CallsGoal, StampGoal, AbsenceGoal, FinishesGoal DEF Work
<1>8. QED
  BY <1>2, <1>3, <1>4, <1>5, <1>6, <1>7 DEF FiscalNext

\* The invariant holds to begin with.
LEMMA FiscalStarts == FiscalInit => FiscalInv
<1> SUFFICES ASSUME FiscalInit PROVE FiscalInv
  OBVIOUS
<1>1. /\ issuer = NoParty /\ recipient = NoParty /\ settled = [c \in CheckIds |-> NoBill]
      /\ document = <<>> /\ issuance = <<>> /\ attempt = <<>> /\ evidence = <<>> /\ call = <<>> /\ stamped = <<>>
  BY DEF FiscalInit
<1>2. Documents = {}
  BY <1>1 DEF Documents
<1>3. QED
  BY <1>1, <1>2 DEF FiscalInv

\* What the invariant says of the run's properties.
LEMMA FiscalMeans == FiscalInv => AttemptsTellTheState /\ IssuedOnceAndBacked
<1> SUFFICES ASSUME FiscalInv PROVE AttemptsTellTheState /\ IssuedOnceAndBacked
  OBVIOUS
<1>1. ASSUME NEW d \in Documents
      PROVE  LET open == {n \in DOMAIN attempt[d] : attempt[d][n].result = "NONE"} IN
             IF issuance[d].state = "IN_PROGRESS"
             THEN open = {Len(attempt[d])} /\ issuance[d].token = Len(attempt[d])
             ELSE open = {} /\ (attempt[d] # <<>> => issuance[d].state = Last(attempt[d]).result)
  <2> DEFINE a == attempt[d]
             open == {n \in DOMAIN a : a[n].result = "NONE"}
  <2>1. /\ DocumentSound(issuance[d], a, call[d], evidence[d], stamped[d])
        /\ a \in Seq(BillingIssuanceAttempt)
    BY DocumentFacts
  <2>2. DOMAIN a = 1 .. Len(a) /\ Len(a) \in Nat
    BY <2>1
  <2>3. \A n \in 1 .. Len(a) : a[n].result = "NONE" <=> issuance[d].state = "IN_PROGRESS" /\ n = Len(a)
    BY <2>1 DEF DocumentSound, AttemptSound
  <2>4. CASE issuance[d].state = "IN_PROGRESS"
    <3>1. a # <<>> /\ issuance[d].token = Len(a)
      BY <2>1, <2>4 DEF DocumentSound
    <3>2. Len(a) \in 1 .. Len(a)
      BY <2>1, <3>1
    <3>3. open = {Len(a)}
      BY <2>2, <2>3, <2>4, <3>2
    <3>4. QED
      BY <2>4, <3>1, <3>3
  <2>5. CASE issuance[d].state # "IN_PROGRESS"
    <3>1. open = {}
      BY <2>2, <2>3, <2>5
    <3>2. a # <<>> => issuance[d].state = a[Len(a)].result
      BY <2>1, <2>5 DEF DocumentSound
    <3>3. QED
      BY <2>5, <3>1, <3>2 DEF Last
  <2>6. QED
    BY <2>4, <2>5
<1>2. ASSUME NEW d \in Documents
      PROVE  /\ stamped[d] <= 1 /\ document[d] \in BillingDocument
             /\ issuance[d] \in BillingIssuance \cup {NoIssuance}
             /\ \A n \in DOMAIN attempt[d] : attempt[d][n] \in BillingIssuanceAttempt /\ call[d][n] \in ProviderCall
             /\ evidence[d] \in BillingFiscalResult
             /\ issuance[d].state = "SUCCEEDED" => evidence[d].stamp = 1 /\ evidence[d].artifact
             /\ evidence[d].stamp > 0 => stamped[d] > 0
  <2>1. /\ DocumentSound(issuance[d], attempt[d], call[d], evidence[d], stamped[d])
        /\ attempt[d] \in Seq(BillingIssuanceAttempt) /\ call[d] \in Seq(ProviderCall)
        /\ Len(attempt[d]) = Len(call[d])
        /\ evidence[d] \in [stamp : 0 .. stamped[d], artifact : BOOLEAN] /\ stamped[d] \in 0 .. 1
    BY DocumentFacts
  <2>2. stamped[d] <= MaxAttempts
    <3>1. CASE attempt[d] = <<>>
      BY <2>1, <3>1, FiscalBounds DEF DocumentSound
    <3>2. CASE attempt[d] # <<>>
      BY <2>1, <3>2, FiscalBounds DEF DocumentSound
    <3>3. QED
      BY <3>1, <3>2
  <2>3. evidence[d] \in BillingFiscalResult
    BY <2>1, <2>2, FiscalBounds DEF BillingFiscalResult
  <2>4. document[d] \in BillingDocument
    BY DEF FiscalInv, Documents
  <2>5. \A n \in DOMAIN attempt[d] : attempt[d][n] \in BillingIssuanceAttempt /\ call[d][n] \in ProviderCall
    BY <2>1
  <2>6. QED
    BY <2>1, <2>3, <2>4, <2>5 DEF DocumentSound
<1>3. AttemptsTellTheState
  BY <1>1 DEF AttemptsTellTheState
<1>4. IssuedOnceAndBacked
  BY <1>2 DEF IssuedOnceAndBacked, FiscalTypeOK, StampedAtMostOnce, SuccessIsBacked, FiscalInv
<1>5. QED
  BY <1>3, <1>4

\* FiscalInv is an invariant, and every step leaves what was decided.
THEOREM FiscalSafety == FiscalSpec => []FiscalInv
<1>1. FiscalInv /\ [FiscalNext]_fiscalVars => FiscalInv'
  BY FiscalStep DEF Goal
<1>2. QED
  BY <1>1, FiscalStarts, PTL DEF FiscalSpec

\* Whatever is lost, late, recovered or retried: a document is stamped at most once,
\* and SUCCEEDED has its stamp, its fiscal result and its stored file.
THEOREM IssuedOnce == FiscalSpec => []IssuedOnceAndBacked
<1>1. FiscalInv => IssuedOnceAndBacked
  BY FiscalMeans
<1>2. QED
  BY <1>1, FiscalSafety, PTL

\* The attempts of an issuance tell its state, at every moment.
THEOREM AttemptsTell == FiscalSpec => []AttemptsTellTheState
<1>1. FiscalInv => AttemptsTellTheState
  BY FiscalMeans
<1>2. QED
  BY <1>1, FiscalSafety, PTL

\* A success, a rejection and a recorded fiscal result are final.
THEOREM OutcomesFinal == FiscalSpec => [][FiscalOutcomeIsFinal]_fiscalVars
<1>1. FiscalInv /\ [FiscalNext]_fiscalVars => [FiscalOutcomeIsFinal]_fiscalVars
  BY FiscalStep DEF Goal
<1>2. QED
  BY <1>1, FiscalSafety, PTL DEF FiscalSpec

-----------------------------------------------------------------------------
(* Products made of products.                                              *)

\* Nothing becomes a composition and nothing a part.
LEMMA FlatSame ==
    ASSUME NEW c, NEW d, Flat(c), DOMAIN d.component = DOMAIN c.component, DOMAIN d.option = DOMAIN c.option,
           \A p \in Products : d.composition[p] # "NONE" => c.composition[p] # "NONE"
    PROVE  Flat(d)
BY DEF Flat, IsReferencedChild

\* A product that is no part becomes a composition.
LEMMA FlatComposed ==
    ASSUME NEW c, NEW d, Flat(c), NEW q, ~IsReferencedChild(c, q),
           DOMAIN d.component = DOMAIN c.component, DOMAIN d.option = DOMAIN c.option,
           \A p \in Products \ {q} : d.composition[p] # "NONE" => c.composition[p] # "NONE"
    PROVE  Flat(d)
BY DEF Flat, IsReferencedChild

\* A product without a composition becomes a part.
LEMMA FlatPart ==
    ASSUME NEW c, NEW d, Flat(c), NEW x, NEW q, c.composition[q] = "NONE",
           \/ DOMAIN d.component = DOMAIN c.component \cup {<<x, q>>} /\ DOMAIN d.option = DOMAIN c.option
           \/ DOMAIN d.component = DOMAIN c.component /\ DOMAIN d.option = DOMAIN c.option \cup {<<x, q>>},
           d.composition = c.composition
    PROVE  Flat(d)
BY DEF Flat, IsReferencedChild

\* A catalogue of rows, nested one level deep.
WellNested(c) == Catalogue(c) /\ Flat(c)

LEMMA CompositionWritten ==
    ASSUME NEW c, WellNested(c), NEW p \in Products, NEW s \in ProductComposition,
           ~IsReferencedChild(c, p) \/ c.composition[p] # "NONE"
    PROVE  WellNested([c EXCEPT !.composition[p] = s])
<1>1. PICK d : d = [c EXCEPT !.composition[p] = s]
  OBVIOUS
<1>2. /\ d.component = c.component /\ d.option = c.option /\ d.group = c.group
      /\ d.composition = [c.composition EXCEPT ![p] = s]
      /\ d = [sale |-> d.sale, listed |-> d.listed, composition |-> d.composition,
              component |-> d.component, group |-> d.group, option |-> d.option]
  BY <1>1 DEF WellNested, Catalogue
<1>3. c.composition \in [Products -> ProductComposition] /\ Flat(c)
  BY DEF WellNested, Catalogue
<1>4. Catalogue(d)
  BY <1>2, <1>3 DEF WellNested, Catalogue
<1>5. \A q \in Products \ {p} : d.composition[q] = c.composition[q]
  BY <1>2, <1>3
<1>6. DOMAIN d.component = DOMAIN c.component /\ DOMAIN d.option = DOMAIN c.option
  BY <1>2
<1>9. Flat(d)
  <2>1. CASE ~IsReferencedChild(c, p)
    BY <1>3, <1>5, <1>6, <2>1, FlatComposed
  <2>2. CASE c.composition[p] # "NONE"
    BY <1>3, <1>5, <1>6, <2>2, FlatSame
  <2>3. QED
    BY <2>1, <2>2
<1>10. QED
  BY <1>1, <1>4, <1>9 DEF WellNested

\* A step that touches only what may be sold.
LEMMA SaleWritten ==
    ASSUME NEW c, WellNested(c), NEW s
    PROVE  WellNested([c EXCEPT !.sale = s]) /\ WellNested([c EXCEPT !.listed = s])
<1>1. PICK d : d = [c EXCEPT !.sale = s]
  OBVIOUS
<1>2. PICK e : e = [c EXCEPT !.listed = s]
  OBVIOUS
<1>3. ASSUME NEW x \in {d, e} PROVE WellNested(x)
  <2>1. /\ x.component = c.component /\ x.option = c.option /\ x.group = c.group /\ x.composition = c.composition
        /\ x = [sale |-> x.sale, listed |-> x.listed, composition |-> x.composition,
                component |-> x.component, group |-> x.group, option |-> x.option]
    BY <1>1, <1>2 DEF WellNested, Catalogue
  <2>2. Catalogue(x)
    BY <2>1 DEF WellNested, Catalogue
  <2>3. Flat(x)
    BY <2>1, FlatSame DEF WellNested
  <2>4. QED
    BY <2>2, <2>3 DEF WellNested
<1>4. QED
  BY <1>1, <1>2, <1>3

LEMMA ComponentWritten ==
    ASSUME NEW c, WellNested(c), NEW k \in Products \X Products, NEW r \in ProductComponent, NEW f,
           \/ f = [c.component EXCEPT ![k] = r]
           \/ f = Inserted(c.component, k, r) /\ c.composition[k[2]] = "NONE"
    PROVE  WellNested([c EXCEPT !.component = f])
<1>1. PICK d : d = [c EXCEPT !.component = f]
  OBVIOUS
<1>2. /\ d.component = f /\ d.option = c.option /\ d.group = c.group /\ d.composition = c.composition
      /\ d = [sale |-> d.sale, listed |-> d.listed, composition |-> d.composition,
              component |-> d.component, group |-> d.group, option |-> d.option]
  BY <1>1 DEF WellNested, Catalogue
<1>3. DOMAIN c.component \subseteq Products \X Products /\ \A x \in DOMAIN c.component : c.component[x] \in ProductComponent
  BY DEF WellNested, Catalogue
<1>4. \A x \in DOMAIN f : x \in Products \X Products /\ f[x] \in ProductComponent
  <2>1. CASE f = [c.component EXCEPT ![k] = r]
    BY <1>3, <2>1
  <2>2. CASE f = Inserted(c.component, k, r)
    BY <1>3, <2>2 DEF Inserted
  <2>3. QED
    BY <2>1, <2>2
<1>5. Catalogue(d)
  BY <1>2, <1>4 DEF WellNested, Catalogue
<1>6. Flat(d)
  <2>1. CASE f = [c.component EXCEPT ![k] = r]
    <3>1. DOMAIN f = DOMAIN c.component
      BY <2>1
    <3>2. QED
      BY <1>2, <3>1, FlatSame DEF WellNested
  <2>2. CASE f = Inserted(c.component, k, r) /\ c.composition[k[2]] = "NONE"
    <3>1. DOMAIN f = DOMAIN c.component \cup {<<k[1], k[2]>>}
      BY <2>2 DEF Inserted
    <3>2. QED
      BY <1>2, <2>2, <3>1, FlatPart DEF WellNested
  <2>3. QED
    BY <2>1, <2>2
<1>7. QED
  BY <1>1, <1>5, <1>6 DEF WellNested

LEMMA OptionWritten ==
    ASSUME NEW c, WellNested(c), NEW k \in Groups \X Products, NEW r \in ProductChoiceOption, NEW f,
           \/ f = [c.option EXCEPT ![k] = r]
           \/ f = Inserted(c.option, k, r) /\ c.composition[k[2]] = "NONE"
    PROVE  WellNested([c EXCEPT !.option = f])
<1>1. PICK d : d = [c EXCEPT !.option = f]
  OBVIOUS
<1>2. /\ d.component = c.component /\ d.option = f /\ d.group = c.group /\ d.composition = c.composition
      /\ d = [sale |-> d.sale, listed |-> d.listed, composition |-> d.composition,
              component |-> d.component, group |-> d.group, option |-> d.option]
  BY <1>1 DEF WellNested, Catalogue
<1>3. DOMAIN c.option \subseteq Groups \X Products /\ \A x \in DOMAIN c.option : c.option[x] \in ProductChoiceOption
  BY DEF WellNested, Catalogue
<1>4. \A x \in DOMAIN f : x \in Groups \X Products /\ f[x] \in ProductChoiceOption
  <2>1. CASE f = [c.option EXCEPT ![k] = r]
    BY <1>3, <2>1
  <2>2. CASE f = Inserted(c.option, k, r)
    BY <1>3, <2>2 DEF Inserted
  <2>3. QED
    BY <2>1, <2>2
<1>5. Catalogue(d)
  BY <1>2, <1>4 DEF WellNested, Catalogue
<1>6. Flat(d)
  <2>1. CASE f = [c.option EXCEPT ![k] = r]
    <3>1. DOMAIN f = DOMAIN c.option
      BY <2>1
    <3>2. QED
      BY <1>2, <3>1, FlatSame DEF WellNested
  <2>2. CASE f = Inserted(c.option, k, r) /\ c.composition[k[2]] = "NONE"
    <3>1. DOMAIN f = DOMAIN c.option \cup {<<k[1], k[2]>>}
      BY <2>2 DEF Inserted
    <3>2. QED
      BY <1>2, <2>2, <3>1, FlatPart DEF WellNested
  <2>3. QED
    BY <2>1, <2>2
<1>7. QED
  BY <1>1, <1>5, <1>6 DEF WellNested

LEMMA GroupWritten ==
    ASSUME NEW c, WellNested(c), NEW g \in Groups, NEW r \in ProductChoiceGroup, NEW f,
           f = [c.group EXCEPT ![g] = r] \/ f = Inserted(c.group, g, r)
    PROVE  WellNested([c EXCEPT !.group = f])
<1>1. PICK d : d = [c EXCEPT !.group = f]
  OBVIOUS
<1>2. /\ d.component = c.component /\ d.option = c.option /\ d.group = f /\ d.composition = c.composition
      /\ d = [sale |-> d.sale, listed |-> d.listed, composition |-> d.composition,
              component |-> d.component, group |-> d.group, option |-> d.option]
  BY <1>1 DEF WellNested, Catalogue
<1>3. DOMAIN c.group \subseteq Groups /\ \A x \in DOMAIN c.group : c.group[x] \in ProductChoiceGroup
  BY DEF WellNested, Catalogue
<1>4. \A x \in DOMAIN f : x \in Groups /\ f[x] \in ProductChoiceGroup
  <2>1. CASE f = [c.group EXCEPT ![g] = r]
    BY <1>3, <2>1
  <2>2. CASE f = Inserted(c.group, g, r)
    BY <1>3, <2>2 DEF Inserted
  <2>3. QED
    BY <2>1, <2>2
<1>5. Catalogue(d)
  BY <1>2, <1>4 DEF WellNested, Catalogue
<1>6. Flat(d)
  BY <1>2, FlatSame DEF WellNested
<1>7. QED
  BY <1>1, <1>5, <1>6 DEF WellNested

-----------------------------------------------------------------------------
(* The catalogue under the commands of managers.                           *)

ActivationsHeld ==
    /\ activating = [r \in Activations |-> activating[r]]
    /\ \A r \in Activations : activating[r].on => activating[r].product \in Products

LEMMA CompositionsKept ==
    ASSUME WellNested(catalog), NEW p \in Products, CreateComposition(p) \/ DeactivateComposition(p)
    PROVE  WellNested(catalog')
<1>1. CASE CreateComposition(p)
  BY <1>1, CompositionWritten DEF CreateComposition, ProductComposition, Lifecycle
<1>2. CASE DeactivateComposition(p)
  <2>1. catalog.composition[p] # "NONE" /\ catalog' = [catalog EXCEPT !.composition[p] = "INACTIVE"]
    BY <1>2 DEF DeactivateComposition
  <2>2. QED
    BY <2>1, CompositionWritten DEF ProductComposition, Lifecycle
<1>3. QED
  BY <1>1, <1>2

LEMMA SalesKept ==
    ASSUME WellNested(catalog), NEW p \in Products, UpdateProduct(p) \/ UpdateMenuItem(p)
    PROVE  WellNested(catalog')
<1>1. PICK s : s = IF p \in catalog.sale THEN catalog.sale \ {p} ELSE catalog.sale \cup {p}
  OBVIOUS
<1>2. PICK t : t = IF p \in catalog.listed THEN catalog.listed \ {p} ELSE catalog.listed \cup {p}
  OBVIOUS
<1>3. catalog' = [catalog EXCEPT !.sale = s] \/ catalog' = [catalog EXCEPT !.listed = t]
  BY <1>1, <1>2 DEF UpdateProduct, UpdateMenuItem
<1>4. QED
  BY <1>3, SaleWritten

LEMMA ComponentsKept ==
    ASSUME WellNested(catalog), NEW p \in Products, NEW q \in Products, NEW n \in 1 .. 2, NEW row \in ProductComponent,
           PostComponent(p, q, n) \/ PatchComponent(<<p, q>>, row)
    PROVE  WellNested(catalog')
<1>1. CASE PostComponent(p, q, n)
  <2>1. PICK r \in ProductComponent : r = [status |-> "ACTIVE", quantity |-> n]
    BY DEF ProductComponent, Lifecycle
  <2>2. PICK k \in Products \X Products : k = <<p, q>> /\ k[2] = q
    OBVIOUS
  <2>3. catalog.composition[k[2]] = "NONE"
    BY <1>1, <2>2 DEF PostComponent, ValidateChildProduct
  <2>4. catalog' = [catalog EXCEPT !.component = Inserted(catalog.component, k, r)]
    BY <1>1, <2>1, <2>2 DEF PostComponent
  <2>5. QED
    BY <2>3, <2>4, ComponentWritten
<1>2. CASE PatchComponent(<<p, q>>, row)
  <2>1. PICK f : f = [catalog.component EXCEPT ![<<p, q>>] = row]
    OBVIOUS
  <2>2. catalog' = [catalog EXCEPT !.component = f]
    BY <1>2, <2>1 DEF PatchComponent
  <2>3. QED
    BY <2>1, <2>2, ComponentWritten
<1>3. QED
  BY <1>1, <1>2

LEMMA OptionsKept ==
    ASSUME WellNested(catalog), NEW g \in Groups, NEW q \in Products, NEW n \in 1 .. 2, NEW row \in ProductChoiceOption,
           PostChoiceOption(g, q, n) \/ PatchChoiceOption(<<g, q>>, row)
    PROVE  WellNested(catalog')
<1>1. CASE PostChoiceOption(g, q, n)
  <2>1. PICK r \in ProductChoiceOption : r = [status |-> "ACTIVE", quantity |-> n]
    BY DEF ProductChoiceOption, Lifecycle
  <2>2. PICK k \in Groups \X Products : k = <<g, q>> /\ k[2] = q
    OBVIOUS
  <2>3. catalog.composition[k[2]] = "NONE"
    BY <1>1, <2>2 DEF PostChoiceOption, ValidateChildProduct
  <2>4. catalog' = [catalog EXCEPT !.option = Inserted(catalog.option, k, r)]
    BY <1>1, <2>1, <2>2 DEF PostChoiceOption
  <2>5. QED
    BY <2>3, <2>4, OptionWritten
<1>2. CASE PatchChoiceOption(<<g, q>>, row)
  <2>1. PICK f : f = [catalog.option EXCEPT ![<<g, q>>] = row]
    OBVIOUS
  <2>2. catalog' = [catalog EXCEPT !.option = f]
    BY <1>2, <2>1 DEF PatchChoiceOption
  <2>3. QED
    BY <2>1, <2>2, OptionWritten
<1>3. QED
  BY <1>1, <1>2

LEMMA GroupsKept ==
    ASSUME WellNested(catalog), NEW g \in Groups, NEW p \in Products, NEW r \in Ranges, NEW s \in Lifecycle,
           PostChoiceGroup(p, g, r[1], r[2]) \/ PatchChoiceGroup(g, r[1], r[2], s)
    PROVE  WellNested(catalog')
<1>1. r[1] \in Nat /\ r[2] \in Nat \ {0}
  BY DEF Ranges
<1>2. CASE PostChoiceGroup(p, g, r[1], r[2])
  <2>1. PICK row \in ProductChoiceGroup : row = [owner |-> p, min |-> r[1], max |-> r[2], status |-> "ACTIVE"]
    BY <1>1 DEF ProductChoiceGroup, Lifecycle
  <2>2. catalog' = [catalog EXCEPT !.group = Inserted(catalog.group, g, row)]
    BY <1>2, <2>1 DEF PostChoiceGroup
  <2>3. QED
    BY <2>2, GroupWritten
<1>3. CASE PatchChoiceGroup(g, r[1], r[2], s)
  <2>1. catalog.group[g] \in ProductChoiceGroup
    BY <1>3 DEF WellNested, Catalogue, PatchChoiceGroup
  <2>2. PICK row : row = [catalog.group[g] EXCEPT !.min = r[1], !.max = r[2], !.status = s]
    OBVIOUS
  <2>3. row \in ProductChoiceGroup
    BY <1>1, <2>1, <2>2 DEF ProductChoiceGroup
  <2>4. PICK f : f = [catalog.group EXCEPT ![g] = row]
    OBVIOUS
  <2>5. catalog' = [catalog EXCEPT !.group = f]
    BY <1>3, <2>2, <2>4 DEF PatchChoiceGroup
  <2>6. QED
    BY <2>3, <2>4, <2>5, GroupWritten
<1>4. QED
  BY <1>2, <1>3

LEMMA ActivationKept ==
    ASSUME WellNested(catalog), ActivationsHeld, NEW r \in Activations, ActivateComposition(r)
    PROVE  WellNested(catalog') /\ ActivationsHeld'
<1>1. PICK p \in Products : p = activating[r].product
  BY DEF ActivationsHeld, ActivateComposition
<1>2. \/ catalog' = catalog
      \/ catalog' = [catalog EXCEPT !.composition[p] = "ACTIVE"] /\ ~IsReferencedChild(catalog, p)
  BY <1>1 DEF ActivateComposition, Activatable
<1>3. WellNested(catalog')
  <2>1. PICK s \in ProductComposition : s = "ACTIVE"
    BY DEF ProductComposition, Lifecycle
  <2>2. catalog' = catalog \/ (catalog' = [catalog EXCEPT !.composition[p] = s] /\ ~IsReferencedChild(catalog, p))
    BY <1>2, <2>1
  <2>3. QED
    BY <2>2, CompositionWritten
<1>4. activating' = [activating EXCEPT ![r] = NoActivation]
  BY DEF ActivateComposition
<1>5. ActivationsHeld'
  BY <1>4 DEF ActivationsHeld, NoActivation
<1>6. QED
  BY <1>3, <1>5

LEMMA BegunKept ==
    ASSUME WellNested(catalog), ActivationsHeld, NEW r \in Activations, NEW p \in Products, BeginActivation(r, p)
    PROVE  WellNested(catalog') /\ ActivationsHeld'
<1>1. catalog' = catalog /\ activating' = [activating EXCEPT ![r] = [on |-> TRUE, product |-> p, seen |-> catalog]]
  BY DEF BeginActivation
<1>2. ActivationsHeld'
  BY <1>1 DEF ActivationsHeld
<1>3. QED
  BY <1>1, <1>2

-----------------------------------------------------------------------------
(* What is sold of a catalogue.                                            *)

\* One line that was accepted: SoldAsComposed of it.
ComposedAs(s, c) ==
    /\ s.parts = s.shown
    /\ {s.product} \cup {part[1][2] : part \in s.parts} \subseteq c.sale
    /\ IF c.composition[s.product] = "NONE" THEN s.parts = {}
       ELSE /\ {part[1] : part \in s.parts} = ActiveComponents(c, s.product) \cup s.chosen
            /\ \A g \in ActiveGroups(c, s.product) :
                  Cardinality({part \in s.parts : part[1][1] = g})
                      \in c.group[g].min .. c.group[g].max

LEMMA ComposedLines == SoldAsComposed <=> \A i \in DOMAIN sold : ComposedAs(sold[i], sold[i].of)
BY DEF SoldAsComposed, ComposedAs

\* A ready composition: every fixed component on sale, every choice a valid option of
\* it, and of each group a permitted number.
ReadyChoice(c, p, S) ==
    /\ \A k \in ActiveComponents(c, p) : k[2] \in c.sale
    /\ \A k \in S : k \in DOMAIN c.option /\ k[1] \in ActiveGroups(c, p) /\ k \in ActiveOptions(c, k[1]) /\ k[2] \in c.sale
    /\ \A g \in ActiveGroups(c, p) : LET n == Cardinality({k \in S : k[1] = g}) IN n >= c.group[g].min /\ n <= c.group[g].max

LEMMA ValidMeansReady ==
    ASSUME NEW c, Catalogue(c), NEW p, NEW S, S \subseteq Groups \X Products,
           c.composition[p] = "ACTIVE", ValidateSelection(c, p, S) = {}
    PROVE  ReadyChoice(c, p, S)
<1>1. PICK picked : picked = {k[1] : k \in S}
  OBVIOUS
<1>2. /\ ComponentViolations(c, p) = {}
      /\ \A k \in S : OptionViolation(c, p, k) = "NONE"
      /\ \A g \in picked \cap ActiveGroups(c, p) : CountViolations(c, p, S, g) = {}
      /\ \A g \in ActiveGroups(c, p) \ picked : ~(c.group[g].min > 0)
  <2>1. c.composition[p] # "NONE"
    OBVIOUS
  <2>2. ValidateSelection(c, p, S) =
            ComponentViolations(c, p)
            \cup ({OptionViolation(c, p, k) : k \in S} \ {"NONE"})
            \cup (UNION {CountViolations(c, p, S, g) : g \in picked \cap ActiveGroups(c, p)})
            \cup {"REQUIRED_GROUP_MISSING" : g \in {x \in ActiveGroups(c, p) \ picked : c.group[x].min > 0}}
    BY <1>1, <2>1, Zenon DEF ValidateSelection
  <2>3. ComponentViolations(c, p) = {} /\ {OptionViolation(c, p, k) : k \in S} \ {"NONE"} = {}
    BY <2>2
  <2>4. UNION {CountViolations(c, p, S, g) : g \in picked \cap ActiveGroups(c, p)} = {}
    BY <2>2
  <2>5. {"REQUIRED_GROUP_MISSING" : g \in {x \in ActiveGroups(c, p) \ picked : c.group[x].min > 0}} = {}
    BY <2>2
  <2>6. \A g \in picked \cap ActiveGroups(c, p) : CountViolations(c, p, S, g) = {}
    BY <2>4
  <2>7. \A g \in ActiveGroups(c, p) \ picked : ~(c.group[g].min > 0)
    BY <2>5
  <2>8. QED
    BY <2>3, <2>6, <2>7
<1>3. \A k \in ActiveComponents(c, p) : k[2] \in c.sale
  BY <1>2 DEF ComponentViolations
<1>4. \A k \in S : k[1] \in OwnGroups(c, p) /\ c.group[k[1]].status = "ACTIVE" /\ k \in DOMAIN c.option
                   /\ c.option[k].status = "ACTIVE" /\ k[2] \in c.sale
  BY <1>2 DEF OptionViolation
<1>5. \A k \in S : k[1] \in ActiveGroups(c, p) /\ k \in ActiveOptions(c, k[1])
  BY <1>4 DEF ActiveGroups, ActiveOptions
<1>6. ASSUME NEW g \in ActiveGroups(c, p)
      PROVE  LET n == Cardinality({k \in S : k[1] = g}) IN n >= c.group[g].min /\ n <= c.group[g].max
  <2>1. PICK T : T = {k \in S : k[1] = g}
    OBVIOUS
  <2>2. T = {k \in S : k[1] = g /\ OptionViolation(c, p, k) = "NONE"}
    BY <1>2, <2>1
  <2>3. c.group[g] \in ProductChoiceGroup
    BY DEF ActiveGroups, OwnGroups, Catalogue
  <2>4. c.group[g].min \in Nat /\ c.group[g].max \in Nat
    BY <2>3 DEF ProductChoiceGroup
  <2>5. IsFiniteSet(T)
    BY <2>1, StructureAssumption, FS_Product, FS_Subset
  <2>6. Cardinality(T) \in Nat
    BY <2>5, FS_CardinalityType
  <2>7. Cardinality(T) >= c.group[g].min /\ Cardinality(T) <= c.group[g].max
    <3>1. CASE g \in picked
      <4>1. CountViolations(c, p, S, g) = {}
        BY <1>2, <3>1
      <4>2. ValidCount(c, p, S, g) = Cardinality(T)
        BY <2>2, Zenon DEF ValidCount
      <4>3. ~(Cardinality(T) < c.group[g].min) /\ ~(Cardinality(T) > c.group[g].max)
        BY <4>1, <4>2 DEF CountViolations
      <4>4. QED
        BY <2>4, <2>6, <4>3
    <3>2. CASE g \notin picked
      <4>1. T = {}
        BY <1>1, <2>1, <3>2
      <4>2. Cardinality(T) = 0
        BY <4>1, FS_EmptySet
      <4>3. ~(c.group[g].min > 0)
        BY <1>2, <3>2
      <4>4. QED
        BY <2>4, <4>2, <4>3
    <3>3. QED
      BY <3>1, <3>2
  <2>8. QED
    BY <2>1, <2>7
<1>7. QED
  BY <1>3, <1>4, <1>5, <1>6 DEF ReadyChoice

\* Beside its quantity each key of a table still counts once.
LEMMA TaggedCount ==
    ASSUME NEW T, IsFiniteSet(T), NEW w, NEW U, U = {<<k, w[k].quantity>> : k \in T}
    PROVE  Cardinality(U) = Cardinality(T)
<1>1. PICK f : f = [k \in T |-> <<k, w[k].quantity>>]
  OBVIOUS
<1>2. f \in [T -> U] /\ \A a, b \in T : f[a] = f[b] => a = b
  BY <1>1
<1>3. \A u \in U : \E k \in T : f[k] = u
  BY <1>1
<1>4. f \in Bijection(T, U)
  BY <1>2, <1>3 DEF Bijection, Injection, Surjection, IsInjective
<1>5. ExistsBijection(T, U)
  BY <1>4 DEF ExistsBijection
<1>6. QED
  BY <1>5, FS_Bijection

LEMMA ReadyParts ==
    ASSUME NEW c, Catalogue(c), NEW p, NEW S, S \subseteq Groups \X Products, ReadyChoice(c, p, S), NEW parts,
           parts = CompositionGraph(c, p).fixed \cup {o \in CompositionGraph(c, p).options : o[1] \in S}
    PROVE  /\ {part[1] : part \in parts} = ActiveComponents(c, p) \cup S
           /\ \A part \in parts : part[1][2] \in c.sale
           /\ \A g \in ActiveGroups(c, p) :
                 Cardinality({part \in parts : part[1][1] = g}) \in c.group[g].min .. c.group[g].max
<1>1. PICK fixed : fixed = {<<k, c.component[k].quantity>> : k \in ActiveComponents(c, p)}
  OBVIOUS
<1>2. PICK chosen : chosen = {<<k, c.option[k].quantity>> : k \in S}
  OBVIOUS
<1>3. CompositionGraph(c, p).fixed = fixed
  BY <1>1 DEF CompositionGraph, ReadyChoice
<1>4. {o \in CompositionGraph(c, p).options : o[1] \in S} = chosen
  <2>1. PICK all : all = {x \in UNION {ActiveOptions(c, g) : g \in ActiveGroups(c, p)} : x[2] \in c.sale}
    OBVIOUS
  <2>2. CompositionGraph(c, p).options = {<<k, c.option[k].quantity>> : k \in all}
    BY <2>1 DEF CompositionGraph
  <2>3. S \subseteq all
    BY <2>1 DEF ReadyChoice
  <2>4. QED
    BY <1>2, <2>2, <2>3
<1>5. parts = fixed \cup chosen
  BY <1>3, <1>4
<1>6. {part[1] : part \in parts} = ActiveComponents(c, p) \cup S
  <2>1. (\A part \in fixed : part[1] \in ActiveComponents(c, p)) /\ \A part \in chosen : part[1] \in S
    BY <1>1, <1>2
  <2>2. \A k \in ActiveComponents(c, p) : \E part \in fixed : part[1] = k
    <3>1. SUFFICES ASSUME NEW k \in ActiveComponents(c, p) PROVE \E part \in fixed : part[1] = k
      OBVIOUS
    <3>2. PICK part \in fixed : part = <<k, c.component[k].quantity>>
      BY <1>1
    <3>3. QED
      BY <3>2
  <2>3. \A k \in S : \E part \in chosen : part[1] = k
    <3>1. SUFFICES ASSUME NEW k \in S PROVE \E part \in chosen : part[1] = k
      OBVIOUS
    <3>2. PICK part \in chosen : part = <<k, c.option[k].quantity>>
      BY <1>2
    <3>3. QED
      BY <3>2
  <2>4. QED
    BY <1>5, <2>1, <2>2, <2>3
<1>7. \A part \in parts : part[1][2] \in c.sale
  BY <1>1, <1>2, <1>5 DEF ReadyChoice
<1>8. ASSUME NEW g \in ActiveGroups(c, p)
      PROVE  Cardinality({part \in parts : part[1][1] = g}) \in c.group[g].min .. c.group[g].max
  <2>1. PICK T : T = {k \in S : k[1] = g}
    OBVIOUS
  <2>2. \A part \in fixed : part[1][1] # g
    <3>1. g \in Groups /\ \A k \in ActiveComponents(c, p) : k[1] \in Products
      BY DEF ActiveGroups, OwnGroups, ActiveComponents, Catalogue
    <3>2. QED
      BY <1>1, <3>1, StructureAssumption
  <2>3. {part \in parts : part[1][1] = g} = {<<k, c.option[k].quantity>> : k \in T}
    BY <1>2, <1>5, <2>1, <2>2
  <2>4. IsFiniteSet(T)
    BY <2>1, StructureAssumption, FS_Product, FS_Subset
  <2>5. Cardinality({<<k, c.option[k].quantity>> : k \in T}) = Cardinality(T)
    BY <2>4, TaggedCount
  <2>6. Cardinality(T) >= c.group[g].min /\ Cardinality(T) <= c.group[g].max
    BY <2>1 DEF ReadyChoice
  <2>7. Cardinality(T) \in Nat /\ c.group[g].min \in Nat /\ c.group[g].max \in Nat
    <3>1. c.group[g] \in ProductChoiceGroup
      BY DEF ActiveGroups, OwnGroups, Catalogue
    <3>2. QED
      BY <2>4, <3>1, FS_CardinalityType DEF ProductChoiceGroup
  <2>8. Cardinality(T) \in c.group[g].min .. c.group[g].max
    BY <2>6, <2>7
  <2>9. QED
    BY <2>3, <2>5, <2>8
<1>9. QED
  BY <1>6, <1>7, <1>8

\* One line more is sold, as what was chosen is composed.
LEMMA Appended ==
    ASSUME NEW s, NEW T, s \in Seq(T), NEW e
    PROVE  /\ Append(s, e) \in Seq(T \cup {e})
           /\ \A i \in DOMAIN Append(s, e) : (i \in DOMAIN s /\ Append(s, e)[i] = s[i]) \/ Append(s, e)[i] = e
<1>1. PICK U : U = T \cup {e}
  OBVIOUS
<1>2. s \in Seq(U) /\ e \in U
  BY <1>1
<1>3. Append(s, e) \in Seq(U)
  BY <1>2
<1>4. /\ Len(Append(s, e)) = Len(s) + 1 /\ Len(s) \in Nat /\ DOMAIN s = 1 .. Len(s)
      /\ DOMAIN Append(s, e) = 1 .. Len(s) + 1
  BY <1>2, <1>3
<1>5. Append(s, e)[Len(s) + 1] = e /\ \A i \in 1 .. Len(s) : Append(s, e)[i] = s[i]
  BY <1>2, <1>4
<1>6. ASSUME NEW i \in DOMAIN Append(s, e)
      PROVE  (i \in DOMAIN s /\ Append(s, e)[i] = s[i]) \/ Append(s, e)[i] = e
  <2>1. i \in 1 .. Len(s) \/ i = Len(s) + 1
    BY <1>4
  <2>2. QED
    BY <1>4, <1>5, <2>1
<1>7. QED
  BY <1>1, <1>3, <1>6

DraftHeld ==
    /\ browsing # NoSight => Catalogue(browsing)
    /\ line # NoLine => line.chosen \subseteq Groups \X Products
    /\ line = NoLine \/ line = [product |-> line.product, composed |-> line.composed, chosen |-> line.chosen]

SoldHeld == SoldAsComposed /\ \E T : sold \in Seq(T)

LEMMA ConfirmedAsComposed ==
    ASSUME DraftHeld, SoldHeld, ConfirmLine
    PROVE  SoldHeld'
<1>1. PICK c : c = browsing
  OBVIOUS
<1>2. PICK p : p = line.product
  OBVIOUS
<1>3. PICK facts : facts = CompositionFacts(browsing)
  OBVIOUS
<1>4. PICK e : e = [product |-> p, parts |-> facts.parts, shown |-> proposed.parts, chosen |-> line.chosen, of |-> c]
  OBVIOUS
<1>5. sold' = Append(sold, e) /\ facts = proposed /\ EvaluateItem(c) = "READY" /\ line # NoLine /\ browsing # NoSight
  BY <1>1, <1>2, <1>3, <1>4 DEF ConfirmLine, SameFacts
<1>6. Catalogue(c) /\ line.chosen \subseteq Groups \X Products
  BY <1>1, <1>5 DEF DraftHeld
<1>7. /\ p \in c.sale
      /\ \/ ~line.composed /\ c.composition[p] = "NONE"
         \/ line.composed /\ c.composition[p] = "ACTIVE" /\ ValidateSelection(c, p, line.chosen) = {}
  BY <1>2, <1>5 DEF EvaluateItem, IsProductOrderable
<1>8. facts.parts = IF line.composed
                    THEN CompositionGraph(c, p).fixed \cup {o \in CompositionGraph(c, p).options : o[1] \in line.chosen}
                    ELSE {}
  BY <1>1, <1>2, <1>3 DEF CompositionFacts
<1>9. ComposedAs(e, c)
  <2>1. e.parts = facts.parts /\ e.shown = facts.parts /\ e.product = p /\ e.chosen = line.chosen
    BY <1>4, <1>5
  <2>2. CASE ~line.composed /\ c.composition[p] = "NONE"
    BY <1>7, <1>8, <2>1, <2>2 DEF ComposedAs
  <2>3. CASE line.composed /\ c.composition[p] = "ACTIVE" /\ ValidateSelection(c, p, line.chosen) = {}
    <3>1. ReadyChoice(c, p, line.chosen)
      BY <1>6, <2>3, ValidMeansReady
    <3>2. facts.parts = CompositionGraph(c, p).fixed \cup {o \in CompositionGraph(c, p).options : o[1] \in line.chosen}
      BY <1>8, <2>3
    <3>3. /\ {part[1] : part \in facts.parts} = ActiveComponents(c, p) \cup line.chosen
          /\ \A part \in facts.parts : part[1][2] \in c.sale
          /\ \A g \in ActiveGroups(c, p) :
                Cardinality({part \in facts.parts : part[1][1] = g}) \in c.group[g].min .. c.group[g].max
      BY <1>6, <3>1, <3>2, ReadyParts
    <3>4. c.composition[p] # "NONE"
      BY <2>3
    <3>5. {p} \cup {part[1][2] : part \in facts.parts} \subseteq c.sale
      BY <1>7, <3>3
    <3>6. QED
      BY <2>1, <3>3, <3>4, <3>5, Zenon DEF ComposedAs
  <2>4. QED
    BY <1>7, <2>2, <2>3
<1>10. PICK T : sold \in Seq(T)
  BY DEF SoldHeld
<1>11. sold' \in Seq(T \cup {e})
  BY <1>5, <1>10, Appended
<1>12. ASSUME NEW i \in DOMAIN sold' PROVE ComposedAs(sold'[i], sold'[i].of)
  <2>1. (i \in DOMAIN sold /\ sold'[i] = sold[i]) \/ sold'[i] = e
    BY <1>5, <1>10, Appended
  <2>2. e.of = c
    BY <1>4
  <2>3. \A j \in DOMAIN sold : ComposedAs(sold[j], sold[j].of)
    BY ComposedLines DEF SoldHeld
  <2>4. QED
    BY <1>9, <2>1, <2>2, <2>3
<1>13. SoldAsComposed'
  BY <1>12 DEF SoldAsComposed, ComposedAs
<1>14. QED
  BY <1>11, <1>13 DEF SoldHeld

-----------------------------------------------------------------------------
(* Every step of the structure of products.                                *)

StructureInv == WellNested(catalog) /\ ActivationsHeld /\ DraftHeld /\ SoldHeld

LEMMA StructureStarts == StructureInit => StructureInv
<1> SUFFICES ASSUME StructureInit PROVE StructureInv
  OBVIOUS
<1>1. WellNested(catalog)
  BY StructureAssumption DEF StructureInit, WellNested
<1>2. ActivationsHeld
  BY DEF StructureInit, ActivationsHeld, NoActivation
<1>3. DraftHeld
  BY DEF StructureInit, DraftHeld
<1>4. sold = <<>>
  BY DEF StructureInit
<1>5. SoldAsComposed /\ sold \in Seq({})
  BY <1>4 DEF SoldAsComposed
<1>6. QED
  BY <1>1, <1>2, <1>3, <1>5 DEF StructureInv, SoldHeld

LEMMA StructureSame ==
    ASSUME StructureInv, UNCHANGED structureVars
    PROVE  StructureInv'
BY DEF structureVars, StructureInv, WellNested, Catalogue, Flat, IsReferencedChild,
       ActivationsHeld, DraftHeld, SoldHeld, SoldAsComposed, ActiveComponents, ActiveGroups, OwnGroups

LEMMA ManagersKeep ==
    ASSUME StructureInv, ManagerNext
    PROVE  StructureInv'
<1>1. WellNested(catalog) /\ ActivationsHeld
  BY DEF StructureInv
<1>2. ASSUME Edited, WellNested(catalog') PROVE WellNested(catalog') /\ ActivationsHeld' /\ UNCHANGED dinerVars
  BY <1>1, <1>2 DEF Edited, ActivationsHeld
<1>3. WellNested(catalog') /\ ActivationsHeld' /\ UNCHANGED dinerVars
  <2>1. CASE \E p \in Products : CreateComposition(p) \/ DeactivateComposition(p) \/ UpdateProduct(p) \/ UpdateMenuItem(p)
    <3>1. Edited
      BY <2>1 DEF CreateComposition, DeactivateComposition, UpdateProduct, UpdateMenuItem
    <3>2. WellNested(catalog')
      BY <1>1, <2>1, CompositionsKept, SalesKept
    <3>3. QED
      BY <1>2, <3>1, <3>2
  <2>2. CASE \E p, q \in Products, n \in 1 .. 2 : PostComponent(p, q, n)
    <3>1. Edited
      BY <2>2 DEF PostComponent
    <3>2. PICK row \in ProductComponent : TRUE
      <4>1. [status |-> "ACTIVE", quantity |-> 1] \in ProductComponent
        BY DEF ProductComponent, Lifecycle
      <4>2. QED
        BY <4>1
    <3>3. WellNested(catalog')
      BY <1>1, <2>2, <3>2, ComponentsKept
    <3>4. QED
      BY <1>2, <3>1, <3>3
  <2>3. CASE \E p, q \in Products, row \in ProductComponent : PatchComponent(<<p, q>>, row)
    <3>1. Edited
      BY <2>3 DEF PatchComponent
    <3>2. 1 \in 1 .. 2
      OBVIOUS
    <3>3. WellNested(catalog')
      BY <1>1, <2>3, <3>2, ComponentsKept
    <3>4. QED
      BY <1>2, <3>1, <3>3
  <2>4. CASE \E g \in Groups, q \in Products, row \in ProductChoiceOption : PatchChoiceOption(<<g, q>>, row)
    <3>1. Edited
      BY <2>4 DEF PatchChoiceOption
    <3>2. 1 \in 1 .. 2
      OBVIOUS
    <3>3. WellNested(catalog')
      BY <1>1, <2>4, <3>2, OptionsKept
    <3>4. QED
      BY <1>2, <3>1, <3>3
  <2>5. CASE \E g \in Groups, q \in Products, n \in 1 .. 2 : PostChoiceOption(g, q, n)
    <3>1. Edited
      BY <2>5 DEF PostChoiceOption
    <3>2. PICK row \in ProductChoiceOption : TRUE
      <4>1. [status |-> "ACTIVE", quantity |-> 1] \in ProductChoiceOption
        BY DEF ProductChoiceOption, Lifecycle
      <4>2. QED
        BY <4>1
    <3>3. WellNested(catalog')
      BY <1>1, <2>5, <3>2, OptionsKept
    <3>4. QED
      BY <1>2, <3>1, <3>3
  <2>6. CASE \E g \in Groups, p \in Products, r \in Ranges : PostChoiceGroup(p, g, r[1], r[2])
    <3>1. Edited
      BY <2>6 DEF PostChoiceGroup
    <3>2. PICK s \in Lifecycle : TRUE
      BY DEF Lifecycle
    <3>3. WellNested(catalog')
      BY <1>1, <2>6, <3>2, GroupsKept
    <3>4. QED
      BY <1>2, <3>1, <3>3
  <2>7. CASE \E g \in Groups, r \in Ranges, s \in Lifecycle : PatchChoiceGroup(g, r[1], r[2], s)
    <3>1. PICK g \in Groups, r \in Ranges, s \in Lifecycle : PatchChoiceGroup(g, r[1], r[2], s)
      BY <2>7
    <3>2. Edited /\ g \in DOMAIN catalog.group
      BY <3>1 DEF PatchChoiceGroup
    <3>3. PICK p \in Products : p = catalog.group[g].owner
      BY <1>1, <3>2 DEF WellNested, Catalogue, ProductChoiceGroup
    <3>4. WellNested(catalog')
      BY <1>1, <3>1, <3>3, GroupsKept
    <3>5. QED
      BY <1>2, <3>2, <3>4
  <2>8. CASE \E r \in Activations : ActivateComposition(r) \/ \E p \in Products : BeginActivation(r, p)
    <3>1. UNCHANGED dinerVars
      BY <2>8 DEF ActivateComposition, BeginActivation
    <3>2. QED
      BY <1>1, <2>8, <3>1, ActivationKept, BegunKept
  <2>9. QED
    BY <2>1, <2>2, <2>3, <2>4, <2>5, <2>6, <2>7, <2>8 DEF ManagerNext
<1>4. DraftHeld' /\ SoldHeld'
  <2>1. line' = line /\ browsing' = browsing /\ sold' = sold
    BY <1>3 DEF dinerVars
  <2>2. DraftHeld'
    BY <2>1 DEF StructureInv, DraftHeld, Catalogue
  <2>3. SoldAsComposed'
    BY <2>1 DEF StructureInv, SoldHeld, SoldAsComposed, ActiveComponents, ActiveGroups, OwnGroups
  <2>4. QED
    BY <2>1, <2>2, <2>3 DEF StructureInv, SoldHeld
<1>5. QED
  BY <1>3, <1>4 DEF StructureInv

LEMMA DinersKeep ==
    ASSUME StructureInv, DinerNext
    PROVE  StructureInv'
<1>1. catalog' = catalog /\ activating' = activating
  BY DEF DinerNext, BeginRequest, EndRequest, RemoveLine, PreviewLine, ConfirmLine, AddLine, ReplaceGroupSelections, Committed
<1>2. WellNested(catalog') /\ ActivationsHeld'
  BY <1>1 DEF StructureInv, ActivationsHeld
<1>3. Catalogue(catalog) /\ DraftHeld /\ SoldHeld
  BY DEF StructureInv, WellNested
<1>4. sold' = sold \/ ConfirmLine
  BY DEF DinerNext, BeginRequest, EndRequest, RemoveLine, PreviewLine, AddLine, ReplaceGroupSelections, Committed
<1>5. SoldHeld'
  <2>1. CASE sold' = sold
    <3>1. SoldAsComposed'
      BY <1>3, <2>1 DEF SoldHeld, SoldAsComposed, ActiveComponents, ActiveGroups, OwnGroups
    <3>2. QED
      BY <1>3, <2>1, <3>1 DEF SoldHeld
  <2>2. CASE ConfirmLine
    BY <1>3, <2>2, ConfirmedAsComposed
  <2>3. QED
    BY <1>4, <2>1, <2>2
<1>6. browsing' = browsing \/ browsing' = NoSight \/ browsing' = catalog
  BY DEF DinerNext, BeginRequest, EndRequest, RemoveLine, PreviewLine, ConfirmLine, AddLine, ReplaceGroupSelections, Committed
<1>7. browsing' # NoSight => Catalogue(browsing')
  BY <1>3, <1>6 DEF DraftHeld
<1>8. /\ line' # NoLine => line'.chosen \subseteq Groups \X Products
      /\ line' = NoLine \/ line' = [product |-> line'.product, composed |-> line'.composed, chosen |-> line'.chosen]
  <2>1. CASE line' = line
    BY <1>3, <2>1 DEF DraftHeld
  <2>2. CASE line' = NoLine
    BY <2>2
  <2>3. CASE \E p \in Products : AddLine(p)
    BY <2>3 DEF AddLine, NoLine
  <2>4. CASE \E g \in Groups : \E S \in SUBSET DOMAIN catalog.option : ReplaceGroupSelections(g, S)
    <3>1. PICK g \in Groups, S \in SUBSET DOMAIN catalog.option : ReplaceGroupSelections(g, S)
      BY <2>4
    <3>2. PICK new : new = {k \in line.chosen : k[1] # g} \cup S
      OBVIOUS
    <3>3. new \subseteq Groups \X Products
      BY <1>3, <3>1, <3>2 DEF DraftHeld, Catalogue, ReplaceGroupSelections
    <3>4. line' = [line EXCEPT !.chosen = new] /\ line # NoLine
      BY <3>1, <3>2 DEF ReplaceGroupSelections
    <3>5. line = [product |-> line.product, composed |-> line.composed, chosen |-> line.chosen]
      BY <1>3, <3>4 DEF DraftHeld
    <3>6. line' = [product |-> line.product, composed |-> line.composed, chosen |-> new]
      BY <3>4, <3>5
    <3>7. QED
      BY <3>3, <3>6
  <2>5. QED
    BY <2>1, <2>2, <2>3, <2>4 DEF DinerNext, BeginRequest, EndRequest, RemoveLine, PreviewLine, ConfirmLine
<1>9. QED
  BY <1>2, <1>5, <1>7, <1>8 DEF StructureInv, DraftHeld

LEMMA StructureSteps ==
    ASSUME StructureInv, StructureNext \/ UNCHANGED structureVars
    PROVE  StructureInv'
BY StructureSame, ManagersKeep, DinersKeep DEF StructureNext

-----------------------------------------------------------------------------
(* Promotions take their discounts one after another.                      *)

\* Of the promotions that are left one is next.
LEMMA NextIsLeft ==
    ASSUME NEW ps, ps \subseteq Promotion, ps # {}
    PROVE  NextPromotion(ps) \in ps
<1>1. \A p \in ps : p.priority \in Nat /\ p.id \in Nat
  BY DEF Promotion
<1>2. PICK T : T = {p.priority : p \in ps}
  OBVIOUS
<1>3. T \subseteq Nat /\ T # {}
  BY <1>1, <1>2
<1>4. PICK x \in T : \A y \in T : x <= y
  BY <1>3, LeastNumber
<1>5. PICK R : R = {p.id : p \in {q \in ps : q.priority = x}}
  OBVIOUS
<1>6. R \subseteq Nat /\ R # {}
  BY <1>1, <1>2, <1>4, <1>5
<1>7. PICK z \in R : \A y \in R : z <= y
  BY <1>6, LeastNumber
<1>8. PICK p \in ps : p.priority = x /\ p.id = z
  BY <1>5, <1>7
<1>9. ASSUME NEW q \in ps PROVE ~Before(q, p)
  <2>1. q.priority \in T /\ q.priority \in Nat /\ q.id \in Nat /\ x \in Nat /\ z \in Nat
    BY <1>1, <1>2, <1>3, <1>4, <1>6, <1>7
  <2>2. x <= q.priority
    BY <1>4, <2>1
  <2>3. q.priority = x => z <= q.id
    BY <1>5, <1>7
  <2>4. QED
    BY <1>8, <2>1, <2>2, <2>3 DEF Before
<1>10. \E r \in ps : \A q \in ps : ~Before(q, r)
  BY <1>9
<1>11. QED
  BY <1>10 DEF NextPromotion

\* A discount is never more than what is left of the price.
LEMMA DiscountFits ==
    ASSUME NEW p \in Promotion, p.type = "PERCENTAGE" => p.value <= 100, NEW r \in Nat
    PROVE  Discount(p, r).amount \in 0 .. r /\ Discount(p, r).exact \in BOOLEAN
<1>1. PICK v \in Nat : v = p.value
  BY DEF Promotion
<1>2. CASE p.type = "FIXED"
  BY <1>1, <1>2 DEF Discount
<1>3. CASE p.type # "FIXED"
  <2>1. v <= 100
    BY <1>1, <1>3 DEF Promotion
  <2>2. r * v \in Nat /\ r * v <= r * 100
    BY <2>1
  <2>3. PICK w \in Nat : w = r * v
    BY <2>2
  <2>4. w <= r * 100
    BY <2>2, <2>3
  <2>5. w \div 100 \in 0 .. r
    BY <2>4
  <2>6. Discount(p, r) = [amount |-> w \div 100, exact |-> w % 100 = 0]
    BY <1>1, <1>3, <2>3 DEF Discount
  <2>7. QED
    BY <2>5, <2>6
<1>4. QED
  BY <1>2, <1>3

\* The stages of taking n discounts.
DiscountsTaken(g, n, a) ==
    /\ g = [i \in 0 .. n |-> g[i]] /\ g[0] = a
    /\ \A i \in 1 .. n : g[i] = Discounted(g[i - 1])

LEMMA StagesOfDiscounts ==
    ASSUME NEW a
    PROVE  \A n \in Nat : \E g : DiscountsTaken(g, n, a)
<1>1. PICK S : S = {n \in Nat : \E g : DiscountsTaken(g, n, a)}
  OBVIOUS
<1>2. 0 \in S
  <2>1. PICK g : g = [k \in 0 .. 0 |-> a]
    OBVIOUS
  <2>2. DiscountsTaken(g, 0, a)
    BY <2>1 DEF DiscountsTaken
  <2>3. QED
    BY <1>1, <2>2
<1>3. ASSUME NEW n \in Nat, n \in S PROVE n + 1 \in S
  <2>1. PICK g : DiscountsTaken(g, n, a)
    BY <1>1, <1>3
  <2>2. PICK h : h = [k \in 0 .. n + 1 |-> IF k = n + 1 THEN Discounted(g[n]) ELSE g[k]]
    OBVIOUS
  <2>3. h = [k \in 0 .. n + 1 |-> h[k]] /\ h[0] = a
    BY <2>1, <2>2 DEF DiscountsTaken
  <2>4. ASSUME NEW k \in 1 .. n + 1 PROVE h[k] = Discounted(h[k - 1])
    <3>1. CASE k = n + 1
      <4>1. h[k] = Discounted(g[n]) /\ h[k - 1] = g[n]
        BY <2>2, <3>1
      <4>2. QED
        BY <4>1
    <3>2. CASE k # n + 1
      <4>1. k \in 1 .. n /\ h[k] = g[k] /\ h[k - 1] = g[k - 1]
        BY <2>2, <3>2
      <4>2. QED
        BY <2>1, <4>1 DEF DiscountsTaken
    <3>3. QED
      BY <3>1, <3>2
  <2>5. DiscountsTaken(h, n + 1, a)
    BY <2>3, <2>4, Zenon DEF DiscountsTaken
  <2>6. QED
    BY <1>1, <2>5
<1>4. \A n \in Nat : n \in S
  BY <1>2, <1>3, AllNumbers
<1>5. QED
  BY <1>1, <1>4

LEMMA AppliedStages ==
    ASSUME NEW ps, NEW base, NEW n \in Nat, n = Cardinality(SelectedPromotions(ps))
    PROVE  \E g : DiscountsTaken(g, n, Untouched(SelectedPromotions(ps), base)) /\ ApplyPromotions(ps, base) = g[n]
<1>1. PICK a : a = Untouched(SelectedPromotions(ps), base)
  OBVIOUS
<1>2. PICK g : DiscountsTaken(g, n, a)
  BY StagesOfDiscounts
<1>3. g = [i \in 0 .. n |-> IF i = 0 THEN a ELSE Discounted(g[i - 1])]
  <2>1. \A i \in 0 .. n : g[i] = IF i = 0 THEN a ELSE Discounted(g[i - 1])
    BY <1>2 DEF DiscountsTaken
  <2>2. g = [i \in 0 .. n |-> g[i]]
    BY <1>2 DEF DiscountsTaken
  <2>3. QED
    BY <2>1, <2>2
<1>4. PICK c : c = CHOOSE u : u = [i \in 0 .. n |-> IF i = 0 THEN a ELSE Discounted(u[i - 1])]
  OBVIOUS
<1>5. c = [i \in 0 .. n |-> IF i = 0 THEN a ELSE Discounted(c[i - 1])]
  BY <1>3, <1>4
<1>6. DiscountsTaken(c, n, a)
  <2>1. \A i \in 0 .. n : c[i] = IF i = 0 THEN a ELSE Discounted(c[i - 1])
    BY <1>5
  <2>2. c = [i \in 0 .. n |-> c[i]]
    BY <1>5, <2>1
  <2>3. c[0] = a
    <3>1. 0 \in 0 .. n
      OBVIOUS
    <3>2. QED
      BY <2>1, <3>1
  <2>4. ASSUME NEW i \in 1 .. n PROVE c[i] = Discounted(c[i - 1])
    <3>1. i \in 0 .. n /\ i # 0
      OBVIOUS
    <3>2. QED
      BY <2>1, <3>1
  <2>5. QED
    BY <2>2, <2>3, <2>4, Zenon DEF DiscountsTaken
<1>7. ApplyPromotions(ps, base) = c[n]
  BY <1>1, <1>4 DEF ApplyPromotions
<1>8. QED
  BY <1>1, <1>6, <1>7

\* A stage of the discounts: i of the n promotions were taken, within the price.
Stage(a, ps, base, m) ==
    /\ a.left \subseteq ps /\ Cardinality(a.left) = m
    /\ a.remaining \in 0 .. base
    /\ a.exact \in BOOLEAN

LEMMA StageTaken ==
    ASSUME NEW ps, IsFiniteSet(ps), ps \subseteq Promotion, \A p \in ps : p.type = "PERCENTAGE" => p.value <= 100,
           NEW base \in Nat, NEW m \in Nat, NEW a, Stage(a, ps, base, m + 1)
    PROVE  Stage(Discounted(a), ps, base, m)
<1>1. /\ a.left \subseteq ps /\ Cardinality(a.left) = m + 1 /\ a.exact \in BOOLEAN
  BY DEF Stage
<1>2. PICK r \in Nat : r = a.remaining /\ r <= base
  BY DEF Stage
<1>3. IsFiniteSet(a.left) /\ a.left # {}
  BY <1>1, FS_Subset, FS_EmptySet
<1>4. PICK p \in a.left : p = NextPromotion(a.left)
  BY <1>1, <1>3, NextIsLeft
<1>5. PICK d : d = Discount(p, r)
  OBVIOUS
<1>6. d.amount \in 0 .. r /\ d.exact \in BOOLEAN
  <2>1. p \in Promotion /\ (p.type = "PERCENTAGE" => p.value <= 100)
    BY <1>1, <1>4
  <2>2. QED
    BY <1>5, <2>1, DiscountFits
<1>7. Discounted(a) = [left |-> a.left \ {p}, remaining |-> r - d.amount, exact |-> a.exact /\ d.exact]
  BY <1>2, <1>4, <1>5, Zenon DEF Discounted
<1>8. Cardinality(a.left \ {p}) = m
  <2>1. Cardinality(a.left \ {p}) = Cardinality(a.left) - 1
    BY <1>3, <1>4, FS_RemoveElement
  <2>2. QED
    BY <1>1, <2>1
<1>9. Discounted(a).left = a.left \ {p} /\ Discounted(a).remaining = r - d.amount /\ Discounted(a).exact = (a.exact /\ d.exact)
  BY <1>7
<1>10. r - d.amount \in 0 .. base
  BY <1>2, <1>6
<1>11. (a.exact /\ d.exact) \in BOOLEAN
  OBVIOUS
<1>12. QED
  BY <1>1, <1>8, <1>9, <1>10, <1>11 DEF Stage

LEMMA PromotionsFit ==
    ASSUME NEW ps, IsFiniteSet(ps), ps \subseteq Promotion, \A p \in ps : p.type = "PERCENTAGE" => p.value <= 100,
           NEW base \in Nat
    PROVE  ApplyPromotions(ps, base).remaining \in 0 .. base
<1>1. PICK sel : sel = SelectedPromotions(ps)
  OBVIOUS
<1>2. sel \subseteq ps
  <2>1. ps # {} => NextPromotion(ps) \in ps
    BY NextIsLeft
  <2>2. QED
    BY <1>1, <2>1 DEF SelectedPromotions
<1>3. IsFiniteSet(sel)
  BY <1>2, FS_Subset
<1>4. PICK n \in Nat : n = Cardinality(sel)
  BY <1>3, FS_CardinalityType
<1>5. PICK g : DiscountsTaken(g, n, Untouched(sel, base)) /\ ApplyPromotions(ps, base) = g[n]
  BY <1>1, <1>4, AppliedStages
<1>6. PICK S : S = {i \in Nat : i <= n => Stage(g[i], sel, base, n - i)}
  OBVIOUS
<1>7. 0 \in S
  <2>1. Stage(Untouched(sel, base), sel, base, n - 0)
    BY <1>4 DEF Stage, Untouched
  <2>2. g[0] = Untouched(sel, base)
    BY <1>5 DEF DiscountsTaken
  <2>3. QED
    BY <1>6, <2>1, <2>2
<1>8. ASSUME NEW i \in Nat, i \in S PROVE i + 1 \in S
  <2>1. SUFFICES ASSUME i + 1 <= n PROVE Stage(g[i + 1], sel, base, n - (i + 1))
    BY <1>6
  <2>2. PICK m \in Nat : m = n - (i + 1) /\ n - i = m + 1
    BY <2>1
  <2>3. Stage(g[i], sel, base, m + 1)
    BY <1>6, <1>8, <2>1, <2>2
  <2>4. sel \subseteq Promotion /\ \A p \in sel : p.type = "PERCENTAGE" => p.value <= 100
    BY <1>2
  <2>5. Stage(Discounted(g[i]), sel, base, m)
    BY <1>3, <2>3, <2>4, StageTaken
  <2>6. g[i + 1] = Discounted(g[i])
    <3>1. i + 1 \in 1 .. n /\ (i + 1) - 1 = i
      BY <2>1
    <3>2. g[i + 1] = Discounted(g[(i + 1) - 1])
      BY <1>5, <3>1 DEF DiscountsTaken
    <3>3. QED
      BY <3>1, <3>2
  <2>7. QED
    BY <2>2, <2>5, <2>6
<1>9. Stage(g[n], sel, base, n - n)
  BY <1>6, <1>7, <1>8, AllNumbers
<1>10. QED
  BY <1>5, <1>9 DEF Stage

-----------------------------------------------------------------------------
(* Roundings.                                                              *)

\* To whole units: nearest, a half to the diner.
LEMMA PayableNear ==
    ASSUME NEW v \in Nat
    PROVE  2 * (RoundPayableTotal(v) - v) < Whole /\ 2 * (v - RoundPayableTotal(v)) <= Whole
<1>1. PICK q, r : q = v \div 10000 /\ r = v % 10000
  OBVIOUS
<1>5. q \in Nat /\ r \in 0 .. 9999 /\ v = 10000 * q + r
  BY <1>1
<1>2. RoundPayableTotal(v) = 10000 * q + (IF 2 * r > 10000 THEN 10000 ELSE 0)
  BY <1>1 DEF RoundPayableTotal, Whole
<1>3. QED
  BY <1>2, <1>5 DEF Whole

\* Before tax an amount is no more than with it, and more is not less.
LEMMA Divided ==
    ASSUME NEW n \in Nat, NEW d \in Nat, d > 0
    PROVE  n \div d \in Nat /\ d * (n \div d) <= n /\ n < d * (n \div d) + d
OBVIOUS

LEMMA PreTaxBounds ==
    ASSUME NEW x \in Nat, NEW y \in Nat, x <= y, NEW rule, rule.treatment = "TAXABLE" => rule.rate \in Nat \ {0}
    PROVE  /\ PreTax(x, rule) \in Nat /\ PreTax(y, rule) \in Nat
           /\ PreTax(x, rule) <= x /\ PreTax(x, rule) <= PreTax(y, rule)
<1>1. CASE rule.treatment # "TAXABLE"
  BY <1>1 DEF PreTax
<1>2. CASE rule.treatment = "TAXABLE"
  <2>1. PICK d \in Nat : d = 100 + rule.rate /\ d > 100
    BY <1>2
  <2>2. PICK m \in Nat, n \in Nat : m = 2 * (x * 100) + d /\ n = 2 * (y * 100) + d
    OBVIOUS
  <2>3. PreTax(x, rule) = m \div (2 * d) /\ PreTax(y, rule) = n \div (2 * d)
    BY <1>2, <2>1, <2>2 DEF PreTax, RoundHalfUp
  <2>4. PICK e \in Nat : e = 2 * d /\ e > 200
    BY <2>1
  <2>5. PICK p \in Nat, q \in Nat : p = m \div e /\ q = n \div e
    BY <2>4, Divided
  <2>6. e * p <= m /\ n < e * q + e /\ m <= n
    <3>1. e * (m \div e) <= m
      BY <2>4, Divided
    <3>2. n < e * (n \div e) + e
      BY <2>4, Divided
    <3>3. m <= n
      BY <2>2
    <3>4. QED
      BY <2>5, <3>1, <3>2, <3>3
  <2>7. p <= q
    <3>1. SUFFICES ASSUME q + 1 <= p PROVE FALSE
      OBVIOUS
    <3>2. e * (q + 1) <= e * p
      BY <2>4, <3>1
    <3>3. e * (q + 1) = e * q + e
      BY <2>4
    <3>4. e * p \in Nat /\ e * q \in Nat
      BY <2>4
    <3>5. QED
      BY <2>6, <3>2, <3>3, <3>4
  <2>8. p <= x
    <3>1. SUFFICES ASSUME x + 1 <= p PROVE FALSE
      OBVIOUS
    <3>2. e * (x + 1) <= e * p
      BY <2>4, <3>1
    <3>3. e * (x + 1) = e * x + e /\ e * x \in Nat /\ e * p \in Nat /\ 200 * x <= e * x
      BY <2>4
    <3>4. m < 200 * x + e
      BY <2>1, <2>2, <2>4
    <3>5. QED
      BY <2>6, <3>2, <3>3, <3>4
  <2>9. QED
    BY <2>3, <2>4, <2>5, <2>7, <2>8
<1>3. QED
  BY <1>1, <1>2

-----------------------------------------------------------------------------
(* What an order charges.                                                  *)

\* The line of a preview: a price not below zero of which promotions take no more.
Charged(l) ==
    /\ l.unit_price \in Nat /\ l.base \in Nat
    /\ l.commercial \in 0 .. l.base

LEMMA LineCharged ==
    ASSUME NEW item, item.price \in Nat, item.quantity \in 1 .. 2, item.promotions = Promotions, NEW at
    PROVE  Charged(CheckoutPreviewLine(item, at))
<1>1. PICK base \in Nat : base = item.price * item.quantity
  OBVIOUS
<1>2. PICK ps : ps = Applicable(Promotions, at)
  OBVIOUS
<1>3. ps \subseteq Promotions
  BY <1>2 DEF Applicable
<1>4. IsFiniteSet(ps) /\ ps \subseteq Promotion /\ \A p \in ps : p.type = "PERCENTAGE" => p.value <= 100
  BY <1>3, CheckoutAssumption, FS_Subset
<1>5. PICK result : result = ApplyPromotions(ps, base)
  OBVIOUS
<1>6. result.remaining \in 0 .. base
  BY <1>4, <1>5, PromotionsFit
<1>7. CheckoutPreviewLine(item, at) =
          [unit_price |-> item.price, quantity |-> item.quantity, base |-> base, exact |-> result.exact,
           commercial |-> result.remaining]
  BY <1>1, <1>2, <1>5 DEF CheckoutPreviewLine
<1>8. QED
  BY <1>6, <1>7 DEF Charged

LEMMA EvidenceReady ==
    ASSUME NEW l, Charged(l), NEW at, TaxEvidenceExists(l, TaxRules, Here, at)
    PROVE  TaxEvidence(l, TaxRules, Here, at).commercial >= 0 /\ LineReady(TaxEvidence(l, TaxRules, Here, at))
<1>1. PICK rules : rules = SelectRule(TaxRules, Here, at)
  OBVIOUS
<1>2. PICK r \in rules : r.effect = "TRANSFERRED" /\ RateFits(r)
  BY <1>1 DEF TaxEvidenceExists
<1>3. rules \subseteq TaxRules /\ Cardinality(rules) = 1
  <2>1. PICK here : here = {x \in {y \in TaxRules : y.from <= at /\ at < y.to} : x.location = Here}
    OBVIOUS
  <2>2. PICK general : general = {x \in {y \in TaxRules : y.from <= at /\ at < y.to} : x.location = Everywhere}
    OBVIOUS
  <2>3. PICK candidates : candidates = IF here # {} THEN here ELSE general
    OBVIOUS
  <2>4. SelectRule(TaxRules, Here, at) = IF Cardinality(candidates) = 1 THEN candidates ELSE {}
    BY <2>1, <2>2, <2>3, Zenon DEF SelectRule
  <2>5. candidates \subseteq TaxRules
    BY <2>1, <2>2, <2>3
  <2>6. QED
    BY <1>1, <1>2, <2>4, <2>5
<1>4. IsFiniteSet(rules)
  BY <1>3, CheckoutAssumption, FS_Subset
<1>5. \A x \in rules : x = r
  BY <1>2, <1>3, <1>4, FS_Singleton
<1>6. (CHOOSE x \in SelectRule(TaxRules, Here, at) : TRUE) = r
  BY <1>1, <1>2, <1>5
<1>7. r.rate \in Nat
  BY <1>2, <1>3, CheckoutAssumption
<1>8. PICK unit, base, commercial : unit = l.unit_price /\ base = l.base /\ commercial = l.commercial
  OBVIOUS
<1>9. unit \in Nat /\ base \in Nat /\ commercial \in Nat /\ commercial <= base
  BY <1>8 DEF Charged
<1>10. r.treatment = "TAXABLE" => r.rate \in Nat \ {0}
  BY <1>2, <1>7 DEF RateFits
<1>11. PICK u, a, b : u = PreTax(unit, r) /\ a = PreTax(base, r) /\ b = PreTax(commercial, r)
  OBVIOUS
<1>12. u \in Nat /\ a \in Nat /\ b \in Nat /\ b <= a /\ b <= commercial
  BY <1>9, <1>10, <1>11, PreTaxBounds
<1>13. r.treatment # "TAXABLE" => b = commercial /\ r.rate = 0
  BY <1>2, <1>11 DEF PreTax, RateFits
<1>14. PICK e : e = TaxEvidence(l, TaxRules, Here, at)
  OBVIOUS
<1>15. e = [quantity |-> l.quantity, commercial |-> commercial, unit |-> u, amount |-> a, discount |-> a - b, base |-> b,
            tax |-> commercial - b, treatment |-> r.treatment, rate |-> r.rate]
  BY <1>6, <1>8, <1>11, <1>14 DEF TaxEvidence, Calculate
<1>16. e.commercial = commercial /\ e.unit = u /\ e.amount = a /\ e.discount = a - b /\ e.base = b /\ e.tax = commercial - b
       /\ e.treatment = r.treatment /\ e.rate = r.rate
  BY <1>15
<1>17. /\ e.amount - e.discount = e.base /\ e.base + e.tax = e.commercial
       /\ e.unit >= 0 /\ e.amount >= 0 /\ e.discount >= 0 /\ e.base >= 0 /\ e.tax >= 0 /\ e.commercial >= 0
  BY <1>9, <1>12, <1>16
<1>18. IF e.treatment = "TAXABLE" THEN e.rate > 0 ELSE e.rate = 0 /\ e.tax = 0
  <2>1. CASE r.treatment = "TAXABLE"
    BY <1>10, <1>16, <2>1
  <2>2. CASE r.treatment # "TAXABLE"
    BY <1>9, <1>13, <1>16, <2>2
  <2>3. QED
    BY <2>1, <2>2
<1>19. QED
  BY <1>14, <1>17, <1>18 DEF LineReady

-----------------------------------------------------------------------------
(* Every step of the checkout.                                             *)

\* One accepted order: PurchasesAreSound of it.
OrderSound(p) ==
    /\ p.terms.lines = p.seen.lines
    /\ 2 * (p.terms.payable - p.terms.pre_round) < Whole
    /\ 2 * (p.terms.pre_round - p.terms.payable) <= Whole
    /\ \A i \in DOMAIN p.lines : p.lines[i].commercial >= 0 /\ LineReady(p.lines[i])

LEMMA SoundOrders == PurchasesAreSound <=> \A o \in DOMAIN purchase : OrderSound(purchase[o])
BY DEF PurchasesAreSound, OrderSound

PricesHeld ==
    /\ price = [g \in Goods |-> price[g]] /\ posPrice = [g \in Goods |-> posPrice[g]]
    /\ \A g \in Goods : price[g].amount \in Nat /\ posPrice[g] \in Nat

QuotesHeld ==
    /\ quoted = [r \in Projections |-> quoted[r]]
    /\ \A r \in Projections : quoted[r] # NoQuote => quoted[r].good \in Goods /\ quoted[r].amount \in Nat

CartsHeld ==
    /\ cart \in [Buyers -> [good : Goods, quantity : 1 .. 2]]
    /\ asked = [b \in Buyers |-> asked[b]]
    /\ \A b \in Buyers : asked[b] # NoRequest => \A g \in Goods : asked[b].prices[g].amount \in Nat

PurchasesHeld == PurchasesAreSound /\ \E T : purchase \in Seq(T)

CheckoutInv == PricesHeld /\ QuotesHeld /\ CartsHeld /\ PurchasesHeld

\* Of one item the terms are its one line and the total of it.
LEMMA TermsOfOne ==
    ASSUME NEW item, item.price \in Nat, item.quantity \in 1 .. 2, item.promotions = Promotions, NEW at,
           NEW terms, terms = ResolveCheckoutPreview(<<item>>, at)
    PROVE  /\ \A i \in DOMAIN terms.lines : Charged(terms.lines[i])
           /\ 2 * (terms.payable - terms.pre_round) < Whole
           /\ 2 * (terms.pre_round - terms.payable) <= Whole
<1>1. PICK l : l = CheckoutPreviewLine(item, at)
  OBVIOUS
<1>2. PICK lines : lines = [i \in DOMAIN <<item>> |-> CheckoutPreviewLine(<<item>>[i], at)]
  OBVIOUS
<1>3. DOMAIN lines = {1} /\ lines[1] = l
  BY <1>1, <1>2
<1>4. Charged(l)
  BY <1>1, LineCharged
<1>5. PICK f : f = [i \in DOMAIN lines |-> lines[i]["commercial"]]
  OBVIOUS
<1>6. f[1] = l.commercial /\ l.commercial \in Nat
  BY <1>3, <1>4, <1>5 DEF Charged
<1>7. Len(lines) = 1
  <2>1. lines \in Seq({l})
    BY <1>2, <1>3
  <2>2. QED
    BY <1>3, <2>1
<1>8. PICK v : v = SumOf(lines, "commercial")
  OBVIOUS
<1>9. v = Total(f, 1)
  BY <1>5, <1>7, <1>8 DEF SumOf
<1>10. v \in Nat
  BY <1>6, <1>9, TotalGrows
<1>11. terms = [lines |-> lines, pre_round |-> v, payable |-> RoundPayableTotal(v)]
  BY <1>2, <1>8 DEF ResolveCheckoutPreview
<1>12. terms.lines = lines /\ terms.pre_round = v /\ terms.payable = RoundPayableTotal(v)
  BY <1>11
<1>13. QED
  BY <1>3, <1>4, <1>10, <1>12, PayableNear

LEMMA OrderConfirmed ==
    ASSUME CheckoutInv, NEW b \in Buyers, ConfirmOrder(b)
    PROVE  PurchasesHeld'
<1>1. PICK terms : terms = Terms(b, asked[b].prices, now)
  OBVIOUS
<1>2. PICK lines : lines = [i \in DOMAIN terms.lines |-> TaxEvidence(terms.lines[i], TaxRules, Here, now)]
  OBVIOUS
<1>3. PICK e : e = [buyer |-> b, terms |-> terms, seen |-> shown[b], lines |-> lines]
  OBVIOUS
<1>4. asked[b] # NoRequest
  BY DEF ConfirmOrder
<1>5. \/ purchase' = purchase
      \/ purchase' = Append(purchase, e) /\ SameTerms(b, terms) /\ Evidenced(terms)
  BY <1>1, <1>2, <1>3 DEF ConfirmOrder
<1>6. PICK item : item = Item(b, asked[b].prices)
  OBVIOUS
<1>7. item.price \in Nat /\ item.quantity \in 1 .. 2 /\ item.promotions = Promotions
  <2>1. cart[b].good \in Goods /\ cart[b].quantity \in 1 .. 2
    BY DEF CheckoutInv, CartsHeld
  <2>2. \A g \in Goods : asked[b].prices[g].amount \in Nat
    BY <1>4 DEF CheckoutInv, CartsHeld
  <2>3. QED
    BY <1>6, <2>1, <2>2 DEF Item
<1>8. terms = ResolveCheckoutPreview(<<item>>, now)
  BY <1>1, <1>6 DEF Terms
<1>9. /\ \A i \in DOMAIN terms.lines : Charged(terms.lines[i])
      /\ 2 * (terms.payable - terms.pre_round) < Whole
      /\ 2 * (terms.pre_round - terms.payable) <= Whole
  BY <1>7, <1>8, TermsOfOne
<1>10. PICK T : purchase \in Seq(T)
  BY DEF CheckoutInv, PurchasesHeld
<1>11. CASE purchase' = purchase
  BY <1>11 DEF CheckoutInv, PurchasesHeld, PurchasesAreSound, LineReady
<1>12. CASE purchase' = Append(purchase, e) /\ SameTerms(b, terms) /\ Evidenced(terms)
  <2>1. e.terms = terms /\ e.seen = terms /\ e.lines = lines
    BY <1>3, <1>12 DEF SameTerms
  <2>2. \A i \in DOMAIN lines : lines[i].commercial >= 0 /\ LineReady(lines[i])
    <3>1. SUFFICES ASSUME NEW i \in DOMAIN lines PROVE lines[i].commercial >= 0 /\ LineReady(lines[i])
      OBVIOUS
    <3>2. i \in DOMAIN terms.lines /\ lines[i] = TaxEvidence(terms.lines[i], TaxRules, Here, now)
      BY <1>2
    <3>3. TaxEvidenceExists(terms.lines[i], TaxRules, Here, now)
      BY <1>12, <3>2 DEF Evidenced
    <3>4. Charged(terms.lines[i])
      BY <1>9, <3>2
    <3>5. QED
      BY <3>2, <3>3, <3>4, EvidenceReady
  <2>3. OrderSound(e)
    BY <1>9, <2>1, <2>2 DEF OrderSound
  <2>4. purchase' \in Seq(T \cup {e})
    BY <1>10, <1>12, Appended
  <2>5. ASSUME NEW o \in DOMAIN purchase' PROVE OrderSound(purchase'[o])
    <3>1. (o \in DOMAIN purchase /\ purchase'[o] = purchase[o]) \/ purchase'[o] = e
      BY <1>10, <1>12, Appended
    <3>2. \A i \in DOMAIN purchase : OrderSound(purchase[i])
      BY SoundOrders DEF CheckoutInv, PurchasesHeld
    <3>3. QED
      BY <2>3, <3>1, <3>2
  <2>6. PurchasesAreSound'
    BY <2>5 DEF PurchasesAreSound, OrderSound, LineReady
  <2>7. QED
    BY <2>4, <2>6 DEF PurchasesHeld
<1>13. QED
  BY <1>5, <1>11, <1>12

LEMMA CheckoutStarts == CheckoutInit => CheckoutInv
<1> SUFFICES ASSUME CheckoutInit PROVE CheckoutInv
  OBVIOUS
<1>1. Min(Prices) \in Nat
  <2>1. PICK x \in Prices : \A y \in Prices : x <= y
    BY CheckoutAssumption, LeastNumber
  <2>2. Min(Prices) \in Prices
    BY <2>1 DEF Min
  <2>3. QED
    BY <2>2, CheckoutAssumption
<1>2. price = [g \in Goods |-> NoPrice] /\ posPrice \in [Goods -> {Min(Prices)}]
  BY DEF CheckoutInit
<1>3. PricesHeld
  BY <1>1, <1>2 DEF PricesHeld, NoPrice
<1>4. QuotesHeld
  BY DEF CheckoutInit, QuotesHeld
<1>5. CartsHeld
  BY DEF CheckoutInit, CartsHeld
<1>6. purchase = <<>>
  BY DEF CheckoutInit
<1>7. PurchasesAreSound /\ purchase \in Seq({})
  BY <1>6 DEF PurchasesAreSound
<1>8. QED
  BY <1>3, <1>4, <1>5, <1>7 DEF CheckoutInv, PurchasesHeld

LEMMA PurchasesSame ==
    ASSUME PurchasesHeld, purchase' = purchase
    PROVE  PurchasesHeld'
<1>1. PurchasesAreSound'
  BY DEF PurchasesHeld, PurchasesAreSound, LineReady
<1>2. QED
  BY <1>1 DEF PurchasesHeld

LEMMA CheckoutSame ==
    ASSUME CheckoutInv, UNCHANGED checkoutVars
    PROVE  CheckoutInv'
<1>1. price' = price /\ posPrice' = posPrice /\ quoted' = quoted /\ cart' = cart /\ asked' = asked /\ purchase' = purchase
  BY DEF checkoutVars, priceVars, orderVars
<1>2. PricesHeld' /\ QuotesHeld' /\ CartsHeld'
  BY <1>1 DEF CheckoutInv, PricesHeld, QuotesHeld, CartsHeld
<1>3. QED
  BY <1>1, <1>2, PurchasesSame DEF CheckoutInv

\* A price is the platform's or the POS's, and a projection replaces only the latter.
LEMMA PricesMove ==
    ASSUME CheckoutInv, NEW g \in Goods, NEW a \in Prices, ProvisionPrice(g, a) \/ PosChangesPrice(g, a)
    PROVE  CheckoutInv' /\ PlatformPriceStands
<1>1. a \in Nat
  BY CheckoutAssumption
<1>2. quoted' = quoted /\ cart' = cart /\ asked' = asked /\ purchase' = purchase
  BY DEF ProvisionPrice, PosChangesPrice, orderVars
<1>3. \/ price' = [price EXCEPT ![g] = [amount |-> a, source |-> "PLATFORM"]] /\ posPrice' = posPrice
      \/ price' = price /\ posPrice' = [posPrice EXCEPT ![g] = a]
  BY DEF ProvisionPrice, PosChangesPrice
<1>4. PricesHeld
  BY DEF CheckoutInv
<1>5. PricesHeld'
  BY <1>1, <1>3, <1>4 DEF PricesHeld
<1>6. PlatformPriceStands
  BY <1>3, <1>4 DEF PricesHeld, PlatformPriceStands
<1>7. QuotesHeld' /\ CartsHeld'
  BY <1>2 DEF CheckoutInv, QuotesHeld, CartsHeld
<1>8. QED
  BY <1>2, <1>5, <1>6, <1>7, PurchasesSame DEF CheckoutInv

LEMMA ProjectionsMove ==
    ASSUME CheckoutInv, NEW r \in Projections,
           (\E g \in Goods : GetPrice(r, g)) \/ ResolveExternalPrice(r) \/ FindVisiblePriceWinner(r)
    PROVE  CheckoutInv' /\ PlatformPriceStands
<1>1. cart' = cart /\ asked' = asked /\ purchase' = purchase /\ posPrice' = posPrice
  BY DEF GetPrice, ResolveExternalPrice, FindVisiblePriceWinner, orderVars
<1>2. PricesHeld /\ QuotesHeld
  BY DEF CheckoutInv
<1>3. PricesHeld' /\ PlatformPriceStands
  <2>1. CASE price' = price
    BY <1>1, <1>2, <2>1 DEF PricesHeld, PlatformPriceStands
  <2>2. CASE ResolveExternalPrice(r) /\ price' # price
    <3>1. PICK g \in Goods, a \in Nat : g = quoted[r].good /\ a = quoted[r].amount
      BY <1>2, <2>2 DEF QuotesHeld, ResolveExternalPrice
    <3>2. price[g].source # "PLATFORM" /\ price' = [price EXCEPT ![g] = [amount |-> a, source |-> "POS"]]
      BY <2>2, <3>1 DEF ResolveExternalPrice, Overwrites
    <3>3. PricesHeld'
      BY <1>1, <1>2, <3>2 DEF PricesHeld
    <3>4. \A h \in Goods : h # g => price'[h] = price[h]
      BY <1>2, <3>2 DEF PricesHeld
    <3>5. PlatformPriceStands
      BY <3>2, <3>4 DEF PlatformPriceStands
    <3>6. QED
      BY <3>3, <3>5
  <2>3. QED
    BY <2>1, <2>2 DEF GetPrice, FindVisiblePriceWinner
<1>4. QuotesHeld'
  <2>1. CASE \E g \in Goods : GetPrice(r, g)
    <3>1. PICK g \in Goods : quoted' = [quoted EXCEPT ![r] = [good |-> g, amount |-> posPrice[g]]]
      BY <2>1 DEF GetPrice
    <3>2. posPrice[g] \in Nat
      BY <1>2 DEF PricesHeld
    <3>3. QED
      BY <1>2, <3>1, <3>2 DEF QuotesHeld
  <2>2. CASE ResolveExternalPrice(r) \/ FindVisiblePriceWinner(r)
    <3>1. quoted' = [quoted EXCEPT ![r] = NoQuote]
      BY <2>2 DEF ResolveExternalPrice, FindVisiblePriceWinner
    <3>2. QED
      BY <1>2, <3>1 DEF QuotesHeld
  <2>3. QED
    BY <2>1, <2>2
<1>5. CartsHeld'
  BY <1>1 DEF CheckoutInv, CartsHeld
<1>6. QED
  BY <1>1, <1>3, <1>4, <1>5, PurchasesSame DEF CheckoutInv

LEMMA BuyersMove ==
    ASSUME CheckoutInv, NEW b \in Buyers,
           PreviewCheckout(b) \/ BeginConfirmation(b) \/ ConfirmOrder(b) \/ \E q \in 1 .. 2 : SetItemQuantity(b, q)
    PROVE  CheckoutInv' /\ PlatformPriceStands
<1>1. price' = price /\ posPrice' = posPrice /\ quoted' = quoted
  BY DEF PreviewCheckout, BeginConfirmation, ConfirmOrder, SetItemQuantity, priceVars
<1>2. PricesHeld' /\ QuotesHeld' /\ PlatformPriceStands
  BY <1>1 DEF CheckoutInv, PricesHeld, QuotesHeld, PlatformPriceStands
<1>3. CartsHeld /\ PricesHeld
  BY DEF CheckoutInv
<1>4. CartsHeld'
  <2>1. CASE PreviewCheckout(b)
    BY <1>3, <2>1 DEF CartsHeld, PreviewCheckout
  <2>2. CASE BeginConfirmation(b)
    <3>1. cart' = cart /\ asked' = [asked EXCEPT ![b] = [prices |-> price, at |-> now]]
      BY <2>2 DEF BeginConfirmation
    <3>2. QED
      BY <1>3, <3>1 DEF CartsHeld, PricesHeld
  <2>3. CASE ConfirmOrder(b)
    <3>1. cart' = cart /\ asked' = [asked EXCEPT ![b] = NoRequest]
      BY <2>3 DEF ConfirmOrder
    <3>2. QED
      BY <1>3, <3>1 DEF CartsHeld
  <2>4. CASE \E q \in 1 .. 2 : SetItemQuantity(b, q)
    <3>1. PICK q \in 1 .. 2 : cart' = [cart EXCEPT ![b].quantity = q] /\ asked' = asked
      BY <2>4 DEF SetItemQuantity
    <3>2. cart' \in [Buyers -> [good : Goods, quantity : 1 .. 2]]
      BY <1>3, <3>1 DEF CartsHeld
    <3>3. QED
      BY <1>3, <3>1, <3>2 DEF CartsHeld
  <2>5. QED
    BY <2>1, <2>2, <2>3, <2>4
<1>5. PurchasesHeld'
  <2>1. purchase' = purchase \/ ConfirmOrder(b)
    BY DEF PreviewCheckout, BeginConfirmation, SetItemQuantity
  <2>2. QED
    BY <2>1, OrderConfirmed, PurchasesSame DEF CheckoutInv
<1>6. QED
  BY <1>2, <1>4, <1>5 DEF CheckoutInv

LEMMA CheckoutSteps ==
    ASSUME CheckoutInv, CheckoutNext \/ UNCHANGED checkoutVars
    PROVE  CheckoutInv' /\ PlatformPriceStands
<1>1. CASE \E g \in Goods, a \in Prices : ProvisionPrice(g, a) \/ PosChangesPrice(g, a)
  BY <1>1, PricesMove
<1>2. CASE \E r \in Projections : (\E g \in Goods : GetPrice(r, g)) \/ ResolveExternalPrice(r) \/ FindVisiblePriceWinner(r)
  BY <1>2, ProjectionsMove
<1>3. CASE \E b \in Buyers : PreviewCheckout(b) \/ BeginConfirmation(b) \/ ConfirmOrder(b)
                              \/ \E q \in 1 .. 2 : SetItemQuantity(b, q)
  BY <1>3, BuyersMove
<1>4. CASE TimePasses \/ UNCHANGED checkoutVars
  <2>1. price' = price /\ posPrice' = posPrice /\ quoted' = quoted /\ cart' = cart /\ asked' = asked /\ purchase' = purchase
    BY <1>4 DEF TimePasses, checkoutVars, priceVars, orderVars
  <2>2. PricesHeld' /\ QuotesHeld' /\ CartsHeld' /\ PlatformPriceStands
    BY <2>1 DEF CheckoutInv, PricesHeld, QuotesHeld, CartsHeld, PlatformPriceStands
  <2>3. QED
    BY <2>1, <2>2, PurchasesSame DEF CheckoutInv
<1>5. QED
  BY <1>1, <1>2, <1>3, <1>4 DEF CheckoutNext

-----------------------------------------------------------------------------
(* What is sold.                                                           *)

SalesInv == CheckoutInv /\ StructureInv /\ FiscalInv

LEMMA SalesStep ==
    ASSUME SalesInv, [SalesNext]_salesVars
    PROVE  SalesInv' /\ FiscalOutcomeIsFinal /\ PlatformPriceStands
<1>1. /\ CheckoutNext \/ UNCHANGED checkoutVars
      /\ StructureNext \/ UNCHANGED structureVars
      /\ [FiscalNext]_fiscalVars
  BY DEF SalesNext, salesVars
<1>2. CheckoutInv' /\ PlatformPriceStands
  BY <1>1, CheckoutSteps DEF SalesInv
<1>3. StructureInv'
  BY <1>1, StructureSteps DEF SalesInv
<1>4. FiscalInv' /\ FiscalOutcomeIsFinal
  BY <1>1, FiscalStep DEF SalesInv, Goal
<1>5. QED
  BY <1>2, <1>3, <1>4 DEF SalesInv

LEMMA SalesStart == SalesInit => SalesInv
BY CheckoutStarts, StructureStarts, FiscalStarts DEF SalesInit, SalesInv

\* Whatever prices, promotions, taxes and compositions become between a preview and its
\* confirmation, an order charges what was shown, to the nearest unit and with fiscal
\* values that add up, and holds the parts of one state of the catalogue, whose products
\* stay nested one level deep.
THEOREM SalesSound == SalesSpec => []SalesAreSound
<1>1. SalesInv => SalesAreSound
  BY DEF SalesInv, SalesAreSound, CheckoutInv, PurchasesHeld, StructureInv, WellNested, StructureIsFlat, SoldHeld
<1>2. SalesInv /\ [SalesNext]_salesVars => SalesInv'
  BY SalesStep
<1>3. QED
  BY <1>1, <1>2, SalesStart, PTL DEF SalesSpec

\* A fiscal outcome and its evidence are final, and so is that a price is the platform's:
\* no late answer of the fiscal provider or of the POS replaces them.
THEOREM DecisionsStand == SalesSpec => DecidedValuesStand
<1>1. SalesInv /\ [SalesNext]_salesVars => SalesInv'
  BY SalesStep
<1>2. SalesInv /\ [SalesNext]_salesVars => [FiscalOutcomeIsFinal /\ PlatformPriceStands]_salesVars
  BY SalesStep
<1>3. QED
  BY <1>1, <1>2, SalesStart, PTL DEF SalesSpec, DecidedValuesStand
==============================================================================
