---------------------------- MODULE SiteLifecycle ----------------------------
(***************************************************************************)
(* Organizations, their locations and headquarters, and the minimal        *)
(* provisioning command that makes an organization with its first location *)
(* and staff account in one transaction, replayed by operation id.         *)
(***************************************************************************)
EXTENDS Naturals, FiniteSets, Sequences

CONSTANTS Orgs, Sites,   \* identities the database may hand out
          Operations,    \* provisioning operation ids
          Manifests,     \* contents a manifest may have
          MaxHqChanges

ASSUME SiteConstants == MaxHqChanges \in Nat /\ "none" \notin Sites \cup Orgs

VARIABLES org,      \* organization -> its row, or NoOrg
          place,    \* location -> its row, or NoPlace
          hqLog,    \* headquarters changes, in order
          ran       \* operation id -> the run it recorded, or NoRun

siteVars == <<org, place, hqLog, ran>>

NoOrg == [status |-> "NONE", hq |-> "none"]
NoPlace == [org |-> "none", status |-> "NONE"]
NoRun == [manifest |-> "none", org |-> "none"]
SiteInit == /\ org = [o \in Orgs |-> NoOrg] /\ place = [l \in Sites |-> NoPlace]
            /\ hqLog = <<>> /\ ran = [k \in Operations |-> NoRun]
ActiveSites(o) == {l \in Sites : place[l].org = o /\ place[l].status = "ACTIVE"}

CreateOrganization(o) ==
    /\ org[o] = NoOrg /\ org' = [org EXCEPT ![o] = [status |-> "INACTIVE", hq |-> "none"]]
    /\ UNCHANGED <<place, hqLog, ran>>
Logged(o, l) == /\ Len(hqLog) < MaxHqChanges
                /\ hqLog' = Append(hqLog, [org |-> o, from |-> org[o].hq, to |-> l])
(* The first active location of an organization becomes its headquarters.    *)
CreateLocation(o, l) ==
    /\ org[o] # NoOrg /\ place[l] = NoPlace
    /\ place' = [place EXCEPT ![l] = [org |-> o, status |-> "ACTIVE"]]
    /\ IF org[o].hq = "none" /\ ActiveSites(o) = {}
       THEN org' = [org EXCEPT ![o].hq = l] /\ Logged(o, l)
       ELSE UNCHANGED <<org, hqLog>>
    /\ UNCHANGED ran
HeadquartersKnown(o) == org[o].hq # "none"
HeadquartersActive(o) == org[o].hq # "none" /\ place[org[o].hq].status = "ACTIVE"
UpdateOrganization(o, status) ==
    /\ org[o] # NoOrg /\ org[o].status # status
    /\ status = "ACTIVE" => HeadquartersActive(o)
    /\ org' = [org EXCEPT ![o].status = status] /\ UNCHANGED <<place, hqLog, ran>>
\* Mutant: the headquarters may be deactivated.
AlwaysDeactivate(l) == TRUE
MayDeactivate(l) == ~(org[place[l].org].status = "ACTIVE" /\ org[place[l].org].hq = l)
UpdateLocation(l, status) ==
    /\ place[l] # NoPlace /\ place[l].status # status /\ (status = "INACTIVE" => MayDeactivate(l))
    /\ place' = [place EXCEPT ![l].status = status] /\ UNCHANGED <<org, hqLog, ran>>
UpdateHeadquarters(o, l, deactivatePrevious) ==
    /\ org[o] # NoOrg /\ place[l].org = o /\ place[l].status = "ACTIVE" /\ org[o].hq # l
    /\ org' = [org EXCEPT ![o].hq = l] /\ Logged(o, l)
    /\ place' = IF deactivatePrevious /\ org[o].hq # "none"
                THEN [place EXCEPT ![org[o].hq].status = "INACTIVE"] ELSE place
    /\ UNCHANGED ran
(* One command, one commit: organization, location, headquarters, account.   *)
Unused(k) == ran[k] = NoRun
ProvisionMinimalCore(k, m, o, l) ==
    /\ Unused(k) /\ org[o] = NoOrg /\ place[l] = NoPlace
    /\ place' = [place EXCEPT ![l] = [org |-> o, status |-> "ACTIVE"]]
    /\ org' = [org EXCEPT ![o] = [status |-> "ACTIVE", hq |-> l]] /\ Logged(o, l)
    /\ ran' = [ran EXCEPT ![k] = [manifest |-> m, org |-> o]]

SiteNext ==
    \/ \E o \in Orgs, l \in Sites : \/ CreateLocation(o, l)
                                    \/ \E d \in BOOLEAN : UpdateHeadquarters(o, l, d)
                                    \/ \E k \in Operations, m \in Manifests : ProvisionMinimalCore(k, m, o, l)
    \/ \E o \in Orgs : CreateOrganization(o)
    \/ \E s \in {"ACTIVE", "INACTIVE"} : \/ \E o \in Orgs : UpdateOrganization(o, s)
                                         \/ \E l \in Sites : UpdateLocation(l, s)

SiteSpec == SiteInit /\ [][SiteNext]_siteVars
-----------------------------------------------------------------------------
OrgRow == [status : {"NONE", "ACTIVE", "INACTIVE"}, hq : Sites \cup {"none"}]
PlaceRow == [org : Orgs \cup {"none"}, status : {"NONE", "ACTIVE", "INACTIVE"}]
HqChange == [org : Orgs, from : Sites \cup {"none"}, to : Sites]
(* Type invariant of organizations and locations.                            *)
SiteTypeOK ==
    /\ org \in [Orgs -> OrgRow] /\ place \in [Sites -> PlaceRow] /\ hqLog \in Seq(HqChange)

(* An active organization always has a headquarters that is one of its own   *)
(* active locations, through replacements, deactivations and provisioning.   *)
ActiveOrganizationHasHeadquarters == \A o \in Orgs : org[o].status = "ACTIVE" =>
    org[o].hq # "none" /\ place[org[o].hq] = [org |-> o, status |-> "ACTIVE"]

(* The recorded headquarters changes of an organization form a chain that    *)
(* ends at its present headquarters: none is lost and none recorded twice.   *)
OfOrg(o) == {n \in DOMAIN hqLog : hqLog[n].org = o}
HeadquartersLogIsAChain == \A o \in Orgs :
    /\ OfOrg(o) = {} => org[o].hq = "none"
    /\ \A n \in OfOrg(o) :
          /\ (\A m \in OfOrg(o) : n <= m) => hqLog[n].from = "none"
          /\ \A m \in OfOrg(o) : m < n /\ (\A k \in OfOrg(o) : k <= m \/ n <= k)
                => hqLog[n].from = hqLog[m].to
          /\ (\A m \in OfOrg(o) : m <= n) => org[o].hq = hqLog[n].to

(* Headquarters as a whole: an active organization has one, and the recorded *)
(* changes explain it.                                                       *)
HeadquartersAreKnown ==
    SiteTypeOK /\ ActiveOrganizationHasHeadquarters /\ HeadquartersLogIsAChain

-----------------------------------------------------------------------------
(* What makes it inductive: a headquarters, whatever its organization's      *)
(* status, is a location of that organization, and changes name locations.   *)
SiteInv ==
    /\ HeadquartersAreKnown
    /\ \A o \in Orgs : org[o].hq # "none" => place[org[o].hq].org = o
    /\ \A o \in Orgs : org[o].status = "NONE" => org[o] = NoOrg
    /\ \A l \in Sites : place[l].status = "NONE" => place[l] = NoPlace
=============================================================================
