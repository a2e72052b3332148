---------------------------- MODULE StaffSessions ----------------------------
(***************************************************************************)
(* One staff user's server sessions.  A login verifies the password        *)
(* against a hash read without a lock, then creates the only active        *)
(* session under the user's lock if the hash is still that one.  A token   *)
(* names its session; logout closes it, an administrative password change  *)
(* replaces it, and a token may simply run out.                            *)
(***************************************************************************)
EXTENDS Naturals, FiniteSets

CONSTANTS Clients,      \* browsers and terminals of the user
          MaxSessions, MaxPasswords

ASSUME SessionBounds == MaxSessions \in Nat /\ MaxPasswords \in Nat

VARIABLES password,   \* current password of the user
          session,    \* sessions in order of creation
          client,     \* client -> what it knows
          served      \* history: sessions in whose name a request was served, with the
                      \* password of that moment

sessionVars == <<password, session, client, served>>

Fresh == [at |-> "out", knows |-> 0, read |-> 0, token |-> 0]
SessionInit == /\ password = 0 /\ session = [n \in {} |-> 0]
               /\ client = [c \in Clients |-> Fresh] /\ served = {}
ActiveSessions == {n \in DOMAIN session : session[n].status = "ACTIVE"}

(* login, first half: the stored hash matches what the client typed.         *)
VerifyPassword(c, typed) ==
    /\ client[c].at = "out" /\ typed = password
    /\ client' = [client EXCEPT ![c].at = "verified", ![c].read = password, ![c].knows = typed]
    /\ UNCHANGED <<password, session, served>>
(* login, second half, under the user's lock.                                *)
\* Mutant: the hash is not compared again under the lock.
AnyHash(c) == TRUE
HashUnchanged(c) == client[c].read = password
CreateStaffAuthSession(c) ==
    LET n == Cardinality(DOMAIN session) + 1 IN
    /\ client[c].at = "verified" /\ n <= MaxSessions /\ HashUnchanged(c) /\ ActiveSessions = {}
    /\ session' = [m \in DOMAIN session \cup {n} |->
                     IF m = n THEN [status |-> "ACTIVE", password |-> client[c].read] ELSE session[m]]
    /\ client' = [client EXCEPT ![c].at = "in", ![c].token = n]
    /\ UNCHANGED <<password, served>>
(* Credentials changed meanwhile, or someone is logged in already.           *)
RefuseLogin(c) ==
    /\ client[c].at = "verified" /\ (~HashUnchanged(c) \/ ActiveSessions # {})
    /\ client' = [client EXCEPT ![c] = Fresh] /\ UNCHANGED <<password, session, served>>
AuthenticatedByToken(c) == client[c].at = "in"
Authenticated(c) == client[c].at = "in" /\ session[client[c].token].status = "ACTIVE"
ServeRequest(c) ==
    /\ Authenticated(c) /\ served' = served \cup {<<client[c].token, password>>}
    /\ UNCHANGED <<password, session, client>>
CloseStaffAuthSession(c) ==
    /\ Authenticated(c)
    /\ session' = [session EXCEPT ![client[c].token].status = "CLOSED"]
    /\ UNCHANGED <<password, client, served>>
(* A client that is told 401 starts again; one whose token ran out does too, *)
(* but then nobody can close the session it leaves behind.                   *)
ForgetToken(c) == /\ client[c].at = "in" /\ client' = [client EXCEPT ![c] = Fresh]
                  /\ UNCHANGED <<password, session, served>>
KeepSessions == session
ReplaceSessions == [n \in DOMAIN session |->
    IF n \in ActiveSessions THEN [session[n] EXCEPT !.status = "REPLACED"] ELSE session[n]]
ChangeStaffPassword ==
    /\ password < MaxPasswords /\ password' = password + 1
    /\ session' = ReplaceSessions /\ UNCHANGED <<client, served>>

SessionNext ==
    \/ \E c \in Clients : \/ \E t \in 0 .. MaxPasswords : VerifyPassword(c, t)
                          \/ CreateStaffAuthSession(c) \/ RefuseLogin(c) \/ ServeRequest(c)
                          \/ CloseStaffAuthSession(c) \/ ForgetToken(c)
    \/ ChangeStaffPassword

SessionSpec == SessionInit /\ [][SessionNext]_sessionVars
-----------------------------------------------------------------------------
(* Type invariant of sessions and clients.                                   *)
SessionTypeOK ==
    /\ password \in 0 .. MaxPasswords /\ DOMAIN session = 1 .. Cardinality(DOMAIN session)
    /\ \A n \in DOMAIN session : session[n].status \in {"ACTIVE", "CLOSED", "REPLACED"}
    /\ \A c \in Clients : client[c].token \in DOMAIN session \cup {0}

(* A user never has two active sessions, whatever logins race.               *)
OneActiveSession == Cardinality(ActiveSessions) <= 1

(* Nobody is served on the strength of a password that has been changed: not *)
(* through a session opened before the change, nor by a login that verified  *)
(* the old password while the change was being made.                         *)
OldPasswordServesNobody == \A u \in served : session[u[1]].password = u[2]

(* Sessions as a whole: of their types, one active, and each serving only    *)
(* whoever knows the password in force.                                      *)
SessionsServeTheirOwner == SessionTypeOK /\ OneActiveSession /\ OldPasswordServesNobody

-----------------------------------------------------------------------------
(* What makes it inductive: an active session was opened with the password   *)
(* in force, and a client that is in has the token of a session.             *)
SessionRow == [status : {"ACTIVE", "CLOSED", "REPLACED"}, password : 0 .. MaxPasswords]
ClientState == [at : {"out", "verified", "in"}, knows : 0 .. MaxPasswords,
                read : 0 .. MaxPasswords, token : Nat]
SessionInv ==
    /\ password \in 0 .. MaxPasswords
    /\ \E n \in 0 .. MaxSessions : session \in [1 .. n -> SessionRow]
    /\ client \in [Clients -> ClientState]
    /\ \A c \in Clients : client[c].token \in DOMAIN session \cup {0}
    /\ \A c \in Clients : client[c].at = "in" => client[c].token \in DOMAIN session
    /\ served \subseteq (DOMAIN session) \X (0 .. MaxPasswords)
    /\ \A n \in ActiveSessions : session[n].password = password
    /\ \A m, n \in ActiveSessions : m = n
    /\ OldPasswordServesNobody
=============================================================================
