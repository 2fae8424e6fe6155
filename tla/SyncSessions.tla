------------------------------ MODULE SyncSessions ------------------------------
(***************************************************************************)
(* sync_sessions: opened by signup and login, required and refreshed by    *)
(* every mutating request (SyncSessionGuard) and by the preflight,         *)
(* invalidated by login, logout, a change of credentials and the daily     *)
(* cleanup, removed by the cleanup and with the account.                   *)
(*                                                                         *)
(* Every statement commits on its own: a login invalidates and opens with  *)
(* two, the guard validates and refreshes with two.  Signup and login hold *)
(* the rate limiter's mutex for the whole handler in release mode, so they *)
(* follow one another (OneLogin); every other request interleaves.         *)
(*                                                                         *)
(* Times are kept as days passed, which stop counting once they are past    *)
(* what the code compares them with, so that nothing bounds the run.       *)
(***************************************************************************)
EXTENDS Naturals, FiniteSets

CONSTANTS
  Users,     \* accounts there may be
  Sessions,  \* sync_sessions.id: gen_random_uuid
  Clients,   \* requests in flight at once
  IdleDays,  \* SYNC_SESSION_TTL_DAYS
  KeepDays,  \* hardDeleteAfterDays
  OneLogin,  \* TRUE in release mode, where the rate limiter is on
  NoRow,     \* the absence of a row
  None       \* NULL, no request

VARIABLES
  accounts,  \* users
  sessions,  \* the table
  request,   \* the request each client has in flight
  uptime,    \* days since the process started or its ticker last fired: 0 or 1
  purging    \* the cleanup is between its two statements

syncVars == <<accounts, sessions, request, uptime, purging>>

Session == [user: Users, idle: 0 .. IdleDays + 1, dead: {None} \cup 0 .. KeepDays + 1]

\* A login or signup past its password check, before and after it has invalidated the
\* sessions there were; "kicked" tells whether that statement succeeded.
LoginRequest == [op: {"login", "open"}, user: Users, kicked: BOOLEAN]

\* A mutating request or a preflight whose session was valid when it was looked up.
GuardRequest == [op: {"guard"}, user: Users, sess: Sessions]

\* A logout (None: on every device), a credential change, an account deletion.
LogoutRequest == [op: {"logout"}, user: Users, sess: Sessions \cup {None}]
AccountRequest == [op: {"credentials", "quit"}, user: Users]

SyncRequest == LoginRequest \cup GuardRequest \cup LogoutRequest \cup AccountRequest

ASSUME SyncAssumptions ==
  /\ IdleDays \in Nat /\ KeepDays \in Nat
  /\ OneLogin \in BOOLEAN
  /\ None \notin Nat \cup Sessions \cup SyncRequest
  /\ NoRow \notin Session

Doing(op) == {c \in Clients : request[c] # None /\ request[c].op = op}

Active(x) == sessions[x] # NoRow /\ sessions[x].dead = None
Dead(x) == sessions[x] # NoRow /\ sessions[x].dead # None
ActiveOf(u) == {x \in Sessions : Active(x) /\ sessions[x].user = u}

\* Ids no row has and no request mentions.
Unused == {x \in Sessions :
  /\ sessions[x] = NoRow
  /\ \A c \in Doing("guard") \cup Doing("logout") : request[c].sess # x}

\* "SET invalidated_at = now()" for the sessions in S.
Invalidated(S) ==
  [x \in Sessions |-> IF x \in S THEN [sessions[x] EXCEPT !.dead = 0] ELSE sessions[x]]

-----------------------------------------------------------------------------
SyncReceive(c, r) ==
  /\ request[c] = None
  /\ request' = [request EXCEPT ![c] = r]

SyncFinish(c) == request' = [request EXCEPT ![c] = None]

\* A mutant of MutexFree: another login may run, as outside release mode.
MutexIgnored == TRUE

\* The rate limiter's mutex.
MutexFree == OneLogin => Doing("login") \cup Doing("open") = {}

ReceiveSignup(c) ==
  \E u \in Users \ accounts :
    /\ MutexFree
    /\ accounts' = accounts \cup {u}
    /\ SyncReceive(c, [op |-> "open", user |-> u, kicked |-> FALSE])
    /\ UNCHANGED <<sessions, uptime, purging>>

ReceiveLogin(c) ==
  \E u \in accounts :
    /\ MutexFree
    /\ SyncReceive(c, [op |-> "login", user |-> u, kicked |-> FALSE])
    /\ UNCHANGED <<accounts, sessions, uptime, purging>>

\* invalidateAllSessions ignores an error.
KickSessions(c) ==
  /\ c \in Doing("login")
  /\ \E ok \in BOOLEAN :
       /\ request' = [request EXCEPT ![c].op = "open", ![c].kicked = ok]
       /\ sessions' = IF ok THEN Invalidated(ActiveOf(request[c].user)) ELSE sessions
  /\ UNCHANGED <<accounts, uptime, purging>>

\* createSyncSession, with its foreign key.
OpenSession(c) ==
  /\ c \in Doing("open") /\ request[c].user \in accounts
  /\ \E x \in Unused :
       sessions' = [sessions EXCEPT ![x] = [user |-> request[c].user, idle |-> 0, dead |-> None]]
  /\ SyncFinish(c)
  /\ UNCHANGED <<accounts, uptime, purging>>

-----------------------------------------------------------------------------
\* ValidateSession; a refused request changes nothing.
ReceiveGuarded(c) ==
  \E x \in Sessions :
    /\ Active(x)
    /\ SyncReceive(c, [op |-> "guard", user |-> sessions[x].user, sess |-> x])
    /\ UNCHANGED <<accounts, sessions, uptime, purging>>

\* A mutant of Refreshed: the refresh revives the session.
RefreshedAlive(x) == [sessions[x] EXCEPT !.idle = 0, !.dead = None]

Refreshed(x) == [sessions[x] EXCEPT !.idle = 0]

\* UPDATE ... WHERE id = $1: it finds the row whatever has become of it.
Refresh(c) ==
  /\ c \in Doing("guard")
  /\ LET x == request[c].sess IN
     sessions' = IF sessions[x] = NoRow THEN sessions ELSE [sessions EXCEPT ![x] = Refreshed(x)]
  /\ SyncFinish(c)
  /\ UNCHANGED <<accounts, uptime, purging>>

\* Any of these passes JWTAuth; a credential change and a deletion have passed the guard.
ReceiveOther(c) ==
  /\ \E u \in accounts, x \in Sessions \cup {None} :
       \/ SyncReceive(c, [op |-> "logout", user |-> u, sess |-> x])
       \/ x = None /\ SyncReceive(c, [op |-> "credentials", user |-> u])
       \/ x = None /\ SyncReceive(c, [op |-> "quit", user |-> u])
  /\ UNCHANGED <<accounts, sessions, uptime, purging>>

\* A mutant of LoggedOut: the session is looked up by its id alone.
LoggedOutById(r) == IF r.sess = None THEN ActiveOf(r.user) ELSE {x \in {r.sess} : Active(x)}

\* The sessions a logout invalidates.
LoggedOut(r) == IF r.sess = None THEN ActiveOf(r.user) ELSE ActiveOf(r.user) \cap {r.sess}

CommitLogout(c) ==
  /\ c \in Doing("logout")
  /\ sessions' = Invalidated(LoggedOut(request[c]))
  /\ SyncFinish(c)
  /\ UNCHANGED <<accounts, uptime, purging>>

CommitCredentials(c) ==
  /\ c \in Doing("credentials")
  /\ sessions' = Invalidated(ActiveOf(request[c].user))
  /\ SyncFinish(c)
  /\ UNCHANGED <<accounts, uptime, purging>>

\* ON DELETE CASCADE.
CommitQuit(c) ==
  /\ c \in Doing("quit")
  /\ accounts' = accounts \ {request[c].user}
  /\ sessions' = [x \in Sessions |->
       IF sessions[x] # NoRow /\ sessions[x].user = request[c].user THEN NoRow ELSE sessions[x]]
  /\ SyncFinish(c)
  /\ UNCHANGED <<uptime, purging>>

\* An error the code answers or ignores, or a lost connection.
SyncAbort(c) ==
  /\ request[c] # None
  /\ SyncFinish(c)
  /\ UNCHANGED <<accounts, sessions, uptime, purging>>

-----------------------------------------------------------------------------
(* Days pass; the cleanup runs a day after the process started, and daily. *)

Older(n, max) == IF n > max THEN n ELSE n + 1

Day ==
  /\ sessions' = [x \in Sessions |->
       IF sessions[x] = NoRow THEN NoRow
       ELSE [sessions[x] EXCEPT !.idle = Older(@, IdleDays),
                                !.dead = IF @ = None THEN None ELSE Older(@, KeepDays)]]
  /\ uptime' = 1
  /\ UNCHANGED <<accounts, request, purging>>

\* The process restarts: a new ticker, and the requests in flight are lost.
Restart ==
  /\ uptime' = 0 /\ purging' = FALSE
  /\ request' = [c \in Clients |-> None]
  /\ UNCHANGED <<accounts, sessions>>

\* A mutant of Expired: sessions that are invalidated already.
ExpiredDead(x) == Dead(x) /\ sessions[x].idle > IdleDays

Expired(x) == Active(x) /\ sessions[x].idle > IdleDays

\* The first statement, with or without an error.
ExpireSessions ==
  /\ uptime = 1 /\ ~purging
  /\ sessions' = Invalidated({x \in Sessions : Expired(x)})
  /\ uptime' = 0 /\ purging' = TRUE
  /\ UNCHANGED <<accounts, request>>

ExpireFails ==
  /\ uptime = 1 /\ ~purging
  /\ uptime' = 0 /\ purging' = TRUE
  /\ UNCHANGED <<accounts, sessions, request>>

Old(x) == Dead(x) /\ sessions[x].dead > KeepDays

\* The second statement runs whatever came of the first.
PurgeSessions ==
  /\ purging /\ purging' = FALSE
  /\ sessions' = [x \in Sessions |-> IF Old(x) THEN NoRow ELSE sessions[x]]
  /\ UNCHANGED <<accounts, request, uptime>>

PurgeFails ==
  /\ purging /\ purging' = FALSE
  /\ UNCHANGED <<accounts, sessions, request, uptime>>

-----------------------------------------------------------------------------
SyncInit ==
  /\ accounts = {}
  /\ sessions = [x \in Sessions |-> NoRow]
  /\ request = [c \in Clients |-> None]
  /\ uptime = 0
  /\ purging = FALSE

ClientStep(c) ==
  \/ ReceiveSignup(c) \/ ReceiveLogin(c) \/ KickSessions(c) \/ OpenSession(c)
  \/ ReceiveGuarded(c) \/ Refresh(c)
  \/ ReceiveOther(c) \/ CommitLogout(c) \/ CommitCredentials(c) \/ CommitQuit(c)
  \/ SyncAbort(c)

SyncNext ==
  \/ \E c \in Clients : ClientStep(c)
  \/ Day \/ Restart
  \/ ExpireSessions \/ ExpireFails \/ PurgeSessions \/ PurgeFails

\* Days pass, the job comes to its end, and the process again and again stays up for a
\* day and has its first statement carried out: if it never did, no session would expire.
SyncFairness ==
  /\ WF_syncVars(Day)
  /\ WF_syncVars(PurgeSessions \/ PurgeFails)
  /\ SF_syncVars(ExpireSessions)

SyncSafe == SyncInit /\ [][SyncNext]_syncVars

SyncSpec == SyncSafe /\ SyncFairness

-----------------------------------------------------------------------------
(* Properties.                                                             *)

\* Every variable holds a value of its table or request type.
SyncTypeOK ==
  /\ accounts \subseteq Users
  /\ sessions \in [Sessions -> Session \cup {NoRow}]
  /\ request \in [Clients -> SyncRequest \cup {None}]
  /\ uptime \in 0 .. 1 /\ purging \in BOOLEAN

\* "Invalidate any existing active sessions before creating a new one": a login whose
\* invalidation went through leaves its user the one session it opens, although the two
\* statements are not one transaction and other requests run between them.
LoginLeavesOneSession ==
  [][\A c \in Doing("open"), u \in Users :
       request[c].kicked /\ request[c].user = u /\ request'[c] = None /\ sessions' # sessions
         => Cardinality(ActiveOf(u)') = 1]_syncVars

\* An invalidated session stays invalidated until it is removed: no refresh of a request
\* that was validated before revives it.
DeadStaysDead == [][\A x \in Sessions : Dead(x) /\ sessions'[x] # NoRow => Dead(x)']_syncVars

\* A session ends for its own user's request, or by idling: nobody ends it for another.
\* (An administrator who deletes an account ends its sessions too; that is not modelled.)
EndedByOwner ==
  [][\A x \in Sessions : Active(x) /\ ~Active(x)' =>
       \/ sessions[x].idle > IdleDays
       \/ \E c \in Clients : request[c] # None /\ request'[c] # request[c]
                               /\ request[c].user = sessions[x].user]_syncVars

\* "a user who is purely browsing ... will eventually expire": a session is refreshed
\* again and again, or ends.
IdleEnds == \A x \in Sessions : []<>(~Active(x) \/ sessions[x].idle = 0)
=============================================================================
