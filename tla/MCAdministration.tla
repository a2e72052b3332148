-------------------------- MODULE MCAdministration --------------------------
(* Staff access, staff sessions and the lifecycle of organizations for TLC.  *)
(* The three share no state, so a behaviour follows one of them.             *)
EXTENDS StaffAccess, StaffSessions, SiteLifecycle

VARIABLE part

vars == <<accessVars, sessionVars, siteVars, part>>

MCMeaning == [r \in {"manager", "waiter"} |->
    IF r = "manager" THEN {{"user.manage", "order"}, {"user.manage"}} ELSE {{"order"}, {}}]
MCAsks == [i \in {"r1", "r2"} |->
    [who |-> "ana", role |-> "waiter", loc |-> "here", actor |-> "boss"]]

Init == AccessInit /\ SessionInit /\ SiteInit /\ part \in {"access", "sessions", "sites"}
Next == /\ \/ part = "access" /\ AccessNext /\ UNCHANGED <<sessionVars, siteVars>>
           \/ part = "sessions" /\ SessionNext /\ UNCHANGED <<accessVars, siteVars>>
           \/ part = "sites" /\ SiteNext /\ UNCHANGED <<accessVars, sessionVars>>
        /\ UNCHANGED part
Spec == Init /\ [][Next]_vars
=============================================================================
