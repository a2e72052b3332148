----------------------------- MODULE StaffAccess -----------------------------
(***************************************************************************)
(* How people get into the staff of a tenant: one-time invitations that    *)
(* create an account, access provisioned by an actor who may delegate no   *)
(* permission they lack at the location, the staff rows of an onboarding   *)
(* import with their durable continuations, and the reconciliation job     *)
(* that rewrites what a role means.                                        *)
(***************************************************************************)
EXTENDS Naturals, FiniteSets, Sequences

CONSTANTS People,       \* users by email
          Founder,      \* the bootstrapped administrator
          Roles, Locs,  \* the tenant's roles and locations
          Meaning,      \* role -> the permission sets a deployment gives it
          Managing,     \* permissions needed to provision access
          Taken,        \* people whose staff key is another user's name
          Rows,         \* staff rows being imported
          Asks,         \* row -> [who, role, loc, actor]
          MaxInvites, MaxReplays, MaxDeaths

ASSUME AccessConstants ==
    /\ Founder \in People /\ Taken \subseteq People
    /\ Locs # {} /\ "manager" \in Roles
    /\ \A r \in Roles : \E m \in Meaning[r] : \A n \in Meaning[r] : n \subseteq m
    /\ Asks \in [Rows -> [who : People, role : Roles, loc : Locs, actor : People]]
    /\ MaxInvites \in Nat /\ MaxReplays \in Nat /\ MaxDeaths \in Nat

VARIABLES account,   \* people with an active canonical user
          located,   \* person -> location roles held
          grants,    \* role -> permissions it carries
          inv,       \* invitations in order of creation
          told,      \* invitations whose acceptance token was returned to someone
          cont,      \* continuation key -> continuation, or NoCont
          step,      \* row -> where its request is
          codes,     \* row -> permissions of the role when the row was planned
          held,      \* row -> invitation the request created and has not answered yet
          replays, accessCrashes

accessVars == <<account, located, grants, inv, told, cont, step, codes, held, replays,
                accessCrashes>>

ContKeys == People \X Roles \X Locs
NoCont == [status |-> "NONE", inv |-> 0, actor |-> Founder, codes |-> {}]
Key(i) == <<Asks[i].who, Asks[i].role, Asks[i].loc>>
PermsOf(p, l) == UNION {grants[r] : r \in {q \in Roles : <<l, q>> \in located[p]}}

AccessInit ==
    /\ account = {Founder} /\ located = [p \in People |-> IF p = Founder
                     THEN {<<l, r>> : l \in {CHOOSE l \in Locs : TRUE}, r \in {"manager"}} ELSE {}]
    /\ grants = [r \in Roles |-> CHOOSE m \in Meaning[r] : \A n \in Meaning[r] : n \subseteq m]
    /\ inv = <<>> /\ told = {} /\ cont = [k \in ContKeys |-> NoCont]
    /\ step = [i \in Rows |-> "idle"] /\ codes = [i \in Rows |-> {}]
    /\ held = [i \in Rows |-> 0] /\ replays = 0 /\ accessCrashes = 0

(* What the acting member may hand on at a location.                         *)
\* Mutant: permissions held at any location count.
CanAssignRoleAnywhere(a, r, l) ==
    LET all == UNION {PermsOf(a, m) : m \in Locs} IN a \in account /\ Managing \cup grants[r] \subseteq all
CanAssignRole(a, r, l) ==
    /\ a \in account /\ \E q \in Roles : <<l, q>> \in located[a]
    /\ Managing \subseteq PermsOf(a, l) /\ grants[r] \subseteq PermsOf(a, l)
MayProvision(a, p, r, l) == CanAssignRole(a, r, l) /\ p \in account
Grant(p, r, l) == located' = [located EXCEPT ![p] = @ \cup {<<l, r>>}]

(* The identity API: an account with its access in one transaction, access   *)
(* for an existing user, and the reconciliation of role permissions.         *)
ProvisionStaffAccount(a, p, r, l) ==
    /\ p \notin account \cup Taken /\ CanAssignRole(a, r, l)
    /\ account' = account \cup {p} /\ Grant(p, r, l)
    /\ UNCHANGED <<grants, inv, told, cont, step, codes, held, replays, accessCrashes>>
ProvisionAccess(a, p, r, l) ==
    /\ MayProvision(a, p, r, l) /\ <<l, r>> \notin located[p] /\ Grant(p, r, l)
    /\ UNCHANGED <<account, grants, inv, told, cont, step, codes, held, replays, accessCrashes>>
ReconcileOperationalProfiles(r) ==
    /\ \E m \in Meaning[r] : m # grants[r] /\ grants' = [grants EXCEPT ![r] = m]
    /\ UNCHANGED <<account, located, inv, told, cont, step, codes, held, replays, accessCrashes>>
-----------------------------------------------------------------------------
Usable(n) == inv[n].status = "ACTIVE" /\ ~inv[n].expired
Slots(p) == {n \in DOMAIN inv : inv[n].who = p /\ inv[n].status = "ACTIVE" /\ inv[n].slot}
(* Inviting needs one permission, held through any of the actor's roles.     *)
MayInvite(a) == a \in account /\ \E l \in Locs : "user.manage" \in PermsOf(a, l)
(* An expired holder of the slot is released when the next one is created.   *)
Released(p) == [n \in DOMAIN inv |-> IF n \in Slots(p) THEN [inv[n] EXCEPT !.slot = FALSE] ELSE inv[n]]
Invitation(p) == [who |-> p, status |-> "ACTIVE", expired |-> FALSE, slot |-> TRUE]
InviteIdentity(a, p) ==
    /\ MayInvite(a) /\ p \notin account /\ Len(inv) < MaxInvites
    /\ ~\E n \in Slots(p) : Usable(n)
    /\ inv' = Append(Released(p), Invitation(p))
InviteThroughApi(a, p) ==
    /\ InviteIdentity(a, p) /\ told' = told \cup {Len(inv) + 1}
    /\ UNCHANGED <<account, located, grants, cont, step, codes, held, replays, accessCrashes>>
AcceptInvitation(n) ==
    /\ n \in told /\ Usable(n) /\ inv[n].slot /\ inv[n].who \notin account
    /\ account' = account \cup {inv[n].who}
    /\ inv' = [inv EXCEPT ![n].status = "CONSUMED", ![n].slot = FALSE]
    /\ UNCHANGED <<located, grants, told, cont, step, codes, held, replays, accessCrashes>>
RevokeInvitation(a, n) ==
    /\ MayInvite(a) /\ inv[n].status = "ACTIVE"
    /\ inv' = [inv EXCEPT ![n].status = "REVOKED", ![n].slot = FALSE]
    /\ UNCHANGED <<account, located, grants, told, cont, step, codes, held, replays, accessCrashes>>
InvitationExpires(n) ==
    /\ Usable(n) /\ inv' = [inv EXCEPT ![n].expired = TRUE]
    /\ UNCHANGED <<account, located, grants, told, cont, step, codes, held, replays, accessCrashes>>
-----------------------------------------------------------------------------
(* A staff row of an import.  Every arrow is a transaction of its own.       *)
GoTo(i, s) == step' = [step EXCEPT ![i] = s]
PlanStaffRequest(i) ==
    /\ step[i] = "idle"
    /\ IF CanAssignRole(Asks[i].actor, Asks[i].role, Asks[i].loc)
       THEN GoTo(i, "planned") /\ codes' = [codes EXCEPT ![i] = grants[Asks[i].role]]
       ELSE GoTo(i, "blocked") /\ UNCHANGED codes
    /\ UNCHANGED <<account, located, grants, inv, told, cont, held, replays, accessCrashes>>
Equivalent(i) == cont[Key(i)].codes = codes[i]
FindContinuation(i) ==
    /\ step[i] = "planned" /\ cont[Key(i)] # NoCont
    /\ GoTo(i, IF Equivalent(i) THEN "resume" ELSE "failed")
    /\ UNCHANGED <<account, located, grants, inv, told, cont, codes, held, replays, accessCrashes>>
ProvisionKnownUser(i) ==
    /\ step[i] = "planned" /\ cont[Key(i)] = NoCont /\ Asks[i].who \in account
    /\ IF Asks[i].who \notin Taken /\ MayProvision(Asks[i].actor, Asks[i].who, Asks[i].role, Asks[i].loc)
       THEN GoTo(i, "COMPLETE") /\ Grant(Asks[i].who, Asks[i].role, Asks[i].loc)
       ELSE GoTo(i, "SECURITY_CONFLICT") /\ UNCHANGED located
    /\ UNCHANGED <<account, grants, inv, told, cont, codes, held, replays, accessCrashes>>
InviteNewUser(i) ==
    /\ step[i] = "planned" /\ cont[Key(i)] = NoCont /\ InviteIdentity(Asks[i].actor, Asks[i].who)
    /\ held' = [held EXCEPT ![i] = Len(inv) + 1] /\ GoTo(i, "PENDING_ACCEPTANCE")
    /\ UNCHANGED <<account, located, grants, told, cont, codes, replays, accessCrashes>>
(* The invitation conflicts: use the one that is there, or start over when   *)
(* the user exists by now.                                                   *)
ReuseInvitation(i) ==
    /\ step[i] = "planned" /\ cont[Key(i)] = NoCont /\ Asks[i].who \notin account
    /\ MayInvite(Asks[i].actor)
    /\ \E n \in Slots(Asks[i].who) : Usable(n) /\ held' = [held EXCEPT ![i] = n]
    /\ GoTo(i, "PENDING_REUSED")
    /\ UNCHANGED <<account, located, grants, inv, told, cont, codes, replays, accessCrashes>>
(* Permission lost since the plan, or no invitation left: the import stops.  *)
GiveUp(i) ==
    /\ step[i] = "planned" /\ cont[Key(i)] = NoCont /\ Asks[i].who \notin account
    /\ ~MayInvite(Asks[i].actor) /\ GoTo(i, "failed")
    /\ UNCHANGED <<account, located, grants, inv, told, cont, codes, held, replays, accessCrashes>>
Outcomes == {"COMPLETE", "SECURITY_CONFLICT", "PENDING_ACCEPTANCE", "PENDING_REUSED"}
StatusOf(s) == IF s = "PENDING_REUSED" THEN "PENDING_ACCEPTANCE" ELSE s
(* The token is answered only if the continuation kept this invitation.      *)
Deliver(i, kept) ==
    told' = IF step[i] = "PENDING_ACCEPTANCE" /\ (kept = NoCont \/ kept.inv = held[i])
            THEN told \cup {held[i]} ELSE told
SaveNewContinuation(i) ==
    LET kept == cont[Key(i)] IN
    /\ step[i] \in Outcomes
    /\ cont' = IF kept # NoCont THEN cont ELSE [cont EXCEPT ![Key(i)] =
                  [status |-> StatusOf(step[i]), inv |-> held[i], actor |-> Asks[i].actor,
                   codes |-> codes[i]]]
    /\ IF kept # NoCont /\ ~Equivalent(i) THEN GoTo(i, "failed") /\ UNCHANGED told
       ELSE GoTo(i, "done") /\ Deliver(i, kept)
    /\ held' = [held EXCEPT ![i] = 0]
    /\ UNCHANGED <<account, located, grants, inv, codes, replays, accessCrashes>>

(* Resuming: the checks read without a lock, access is granted in its own    *)
(* transaction, and the outcome is written unless someone completed it.      *)
Mark(i, status) ==
    cont' = [cont EXCEPT ![Key(i)] = IF @.status = "COMPLETE" THEN @ ELSE [@ EXCEPT !.status = status]]
ResumeContinuation(i) ==
    LET c == cont[Key(i)] IN
    /\ step[i] = "resume"
    /\ \/ c.status # "PENDING_ACCEPTANCE" /\ GoTo(i, "done")
       \/ /\ c.status = "PENDING_ACCEPTANCE" /\ Asks[i].who \notin account
          /\ GoTo(i, IF Usable(c.inv) THEN "done" ELSE "TERMINAL")
       \/ /\ c.status = "PENDING_ACCEPTANCE" /\ Asks[i].who \in account
          /\ GoTo(i, IF Asks[i].who \in Taken \/ grants[Asks[i].role] # c.codes
                     THEN "CONFLICT" ELSE "regrant")
    /\ UNCHANGED <<account, located, grants, inv, told, cont, codes, held, replays, accessCrashes>>
\* Mutant: completion is reported although the grant was refused.
RegrantUnchecked(i) ==
    /\ step[i] = "regrant" /\ GoTo(i, "GRANTED")
    /\ IF MayProvision(cont[Key(i)].actor, Asks[i].who, Asks[i].role, Asks[i].loc)
       THEN Grant(Asks[i].who, Asks[i].role, Asks[i].loc) ELSE UNCHANGED located
    /\ UNCHANGED <<account, grants, inv, told, cont, codes, held, replays, accessCrashes>>
RegrantAccess(i) ==
    /\ step[i] = "regrant"
    /\ IF MayProvision(cont[Key(i)].actor, Asks[i].who, Asks[i].role, Asks[i].loc)
       THEN GoTo(i, "GRANTED") /\ Grant(Asks[i].who, Asks[i].role, Asks[i].loc)
       ELSE GoTo(i, "CONFLICT") /\ UNCHANGED located
    /\ UNCHANGED <<account, grants, inv, told, cont, codes, held, replays, accessCrashes>>
MarkSecurityConflict(i) ==
    /\ step[i] = "CONFLICT" /\ Mark(i, "SECURITY_CONFLICT") /\ GoTo(i, "done")
    /\ UNCHANGED <<account, located, grants, inv, told, codes, held, replays, accessCrashes>>
MarkTerminalFailure(i) ==
    /\ step[i] = "TERMINAL" /\ Mark(i, "TERMINAL_FAILURE") /\ GoTo(i, "done")
    /\ UNCHANGED <<account, located, grants, inv, told, codes, held, replays, accessCrashes>>
MarkComplete(i) ==
    /\ step[i] = "GRANTED" /\ Mark(i, "COMPLETE") /\ GoTo(i, "done")
    /\ UNCHANGED <<account, located, grants, inv, told, codes, held, replays, accessCrashes>>
(* The same workbook confirmed again resumes its recorded continuations.     *)
ResumeStaffReplay(i) ==
    /\ step[i] = "done" /\ replays < MaxReplays /\ cont[Key(i)].status # "COMPLETE"
    /\ replays' = replays + 1 /\ GoTo(i, "resume")
    /\ UNCHANGED <<account, located, grants, inv, told, cont, codes, held, accessCrashes>>
CrashStaffRow(i) ==
    /\ step[i] \notin {"idle", "blocked", "failed", "done"} /\ accessCrashes < MaxDeaths
    /\ accessCrashes' = accessCrashes + 1 /\ GoTo(i, "failed") /\ held' = [held EXCEPT ![i] = 0]
    /\ UNCHANGED <<account, located, grants, inv, told, cont, codes, replays>>

StaffRow(i) == \/ PlanStaffRequest(i) \/ FindContinuation(i) \/ ProvisionKnownUser(i)
               \/ InviteNewUser(i) \/ ReuseInvitation(i) \/ GiveUp(i) \/ SaveNewContinuation(i)
               \/ ResumeContinuation(i) \/ RegrantAccess(i) \/ MarkSecurityConflict(i)
               \/ MarkTerminalFailure(i) \/ MarkComplete(i) \/ ResumeStaffReplay(i)
               \/ CrashStaffRow(i)
AccessNext ==
    \/ \E i \in Rows : StaffRow(i)
    \/ \E a, p \in People, r \in Roles, l \in Locs :
          ProvisionStaffAccount(a, p, r, l) \/ ProvisionAccess(a, p, r, l)
    \/ \E r \in Roles : ReconcileOperationalProfiles(r)
    \/ \E a, p \in People : InviteThroughApi(a, p)
    \/ \E n \in DOMAIN inv : \/ AcceptInvitation(n) \/ InvitationExpires(n)
                             \/ \E a \in People : RevokeInvitation(a, n)

AccessSpec == AccessInit /\ [][AccessNext]_accessVars
-----------------------------------------------------------------------------
Statuses == {"NONE", "PENDING_ACCEPTANCE", "COMPLETE", "SECURITY_CONFLICT", "TERMINAL_FAILURE"}
(* Type invariant of accounts, access, invitations and continuations.        *)
AccessTypeOK ==
    /\ account \subseteq People /\ located \in [People -> SUBSET (Locs \X Roles)]
    /\ told \subseteq DOMAIN inv /\ \A k \in ContKeys : cont[k].status \in Statuses
    /\ \A k \in ContKeys : cont[k].inv \in 0 .. Len(inv)

(* A continuation that says COMPLETE is true: the person has an account and  *)
(* the role at the location, in every interleaving of two imports, a replay, *)
(* the API and a crash.                                                      *)
HasAccess(p, r, l) == p \in account /\ <<l, r>> \in located[p]
CompleteMeansAccess == \A k \in ContKeys :
    cont[k].status = "COMPLETE" => HasAccess(k[1], k[2], k[3])

(* One email never has two invitations that could both be accepted.          *)
OneAcceptableInvitation == \A p \in People :
    Cardinality({n \in DOMAIN inv : inv[n].who = p /\ Usable(n) /\ inv[n].slot}) <= 1

(* As long as no request dies or is refused, someone holds the token of      *)
(* every invitation that a pending continuation waits for: the person can    *)
(* get in.  (A request that dies, or whose row is refused because the role   *)
(* changed meanwhile, takes the only copy of its token with it; and so does  *)
(* one that finds its continuation saved with an earlier invitation, after   *)
(* which a continuation for another role or location may wait in vain.)      *)
NothingLost == accessCrashes = 0 /\ \A i \in Rows : step[i] # "failed"
AllNameOne(p, n) == \A k \in ContKeys : k[1] = p /\ cont[k] # NoCont => cont[k].inv = n
Reachable(n) == n \in told \/ \E i \in Rows : step[i] = "PENDING_ACCEPTANCE" /\ held[i] = n
PendingCanBeAccepted == NothingLost =>
    \A k \in ContKeys :
       cont[k].status = "PENDING_ACCEPTANCE" /\ Usable(cont[k].inv)
          /\ AllNameOne(k[1], cont[k].inv) => Reachable(cont[k].inv)

(* Access is earned: what a continuation of provision_staff reports is true, *)
(* one invitation of an email can be accepted, and it can be.                *)
AccessIsEarned ==
    AccessTypeOK /\ CompleteMeansAccess /\ OneAcceptableInvitation /\ PendingCanBeAccepted

(* Delegation hands on and never adds: unless the meaning of a role changes, *)
(* no step makes a permission available at a location where nobody had it.   *)
PermsAt(l) == UNION {PermsOf(p, l) : p \in account}
DelegationAddsNothing == [][grants' = grants => \A l \in Locs : PermsAt(l)' \subseteq PermsAt(l)]_accessVars

-----------------------------------------------------------------------------
(* What makes them inductive.                                                *)
Permissions == UNION {UNION Meaning[r] : r \in Roles}
InvitationRow == [who : People, status : {"ACTIVE", "CONSUMED", "REVOKED"},
                  expired : BOOLEAN, slot : BOOLEAN]
Continuation == [status : Statuses, inv : Nat, actor : People, codes : SUBSET Permissions]
Steps == Outcomes \cup {"idle", "planned", "blocked", "resume", "regrant", "GRANTED", "CONFLICT",
                       "TERMINAL", "done", "failed"}
AccessTyped ==
    /\ account \subseteq People /\ located \in [People -> SUBSET (Locs \X Roles)]
    /\ grants \in [Roles -> SUBSET Permissions] /\ codes \in [Rows -> SUBSET Permissions]
    /\ inv \in Seq(InvitationRow) /\ told \subseteq DOMAIN inv
    /\ cont \in [ContKeys -> Continuation] /\ \A k \in ContKeys : cont[k].inv \in 0 .. Len(inv)
    /\ step \in [Rows -> Steps] /\ held \in [Rows -> Nat] /\ \A i \in Rows : held[i] \in 0 .. Len(inv)
    /\ replays \in Nat /\ accessCrashes \in Nat
(* A person without an account has no access, and a row on its way to        *)
(* COMPLETE has given it.                                                    *)
AccessFollowsAccount ==
    /\ \A p \in People \ account : located[p] = {}
    /\ \A i \in Rows : step[i] \in {"COMPLETE", "GRANTED"} =>
          HasAccess(Asks[i].who, Asks[i].role, Asks[i].loc)
    /\ CompleteMeansAccess
(* Who waits for an invitation waits for one of the right person, and an     *)
(* invitation that may be accepted is within reach.                          *)
InvitationsFollowPeople ==
    /\ \A p \in People : \A m, n \in Slots(p) : m = n
    /\ \A k \in ContKeys : cont[k].status = "PENDING_ACCEPTANCE" =>
          cont[k].inv \in DOMAIN inv /\ inv[cont[k].inv].who = k[1]
    /\ \A i \in Rows : step[i] \in {"PENDING_ACCEPTANCE", "PENDING_REUSED"} =>
          held[i] \in DOMAIN inv /\ inv[held[i]].who = Asks[i].who
    /\ NothingLost => \A n \in DOMAIN inv :
          Usable(n) => Reachable(n) \/ ~AllNameOne(inv[n].who, n)
AccessInv == AccessTyped /\ AccessFollowsAccount /\ InvitationsFollowPeople
=============================================================================
