-------------------------- MODULE SyncSessionsProofs --------------------------
(***************************************************************************)
(* Proofs about SyncSessions, for any number of users, sessions and        *)
(* requests and any lifetimes.  None of them needs fairness, so they start *)
(* from SyncSafe.                                                          *)
(***************************************************************************)
EXTENDS SyncSessions, FiniteSetTheorems, TLAPS

\* Every kind of request is a request, and None is none.
LEMMA Kinds ==
  /\ LoginRequest \subseteq SyncRequest /\ GuardRequest \subseteq SyncRequest
  /\ LogoutRequest \subseteq SyncRequest /\ AccountRequest \subseteq SyncRequest
  /\ \A q \in SyncRequest : q # None /\ q.user \in Users
BY SyncAssumptions
DEF SyncRequest, LoginRequest, GuardRequest, LogoutRequest, AccountRequest

\* What an op says about its request.
LEMMA KindOfOp ==
  ASSUME NEW q \in SyncRequest
  PROVE  /\ q.op \in {"login", "open"} => q \in LoginRequest
         /\ q.op = "guard" => q \in GuardRequest
         /\ q.op = "logout" => q \in LogoutRequest
         /\ q.op \in {"credentials", "quit"} => q \in AccountRequest
BY DEF SyncRequest, LoginRequest, GuardRequest, LogoutRequest, AccountRequest

\* One client's step keeps the requests' type.
LEMMA RequestType ==
  ASSUME SyncTypeOK, NEW c \in Clients, NEW q \in SyncRequest \cup {None},
         request' = [request EXCEPT ![c] = q]
  PROVE  /\ request' \in [Clients -> SyncRequest \cup {None}]
         /\ request'[c] = q
         /\ \A d \in Clients \ {c} : request'[d] = request[d]
BY DEF SyncTypeOK

LEMMA DoingType ==
  ASSUME SyncTypeOK, NEW op, NEW c \in Doing(op)
  PROVE  c \in Clients /\ request[c] \in SyncRequest /\ request[c].op = op
BY DEF SyncTypeOK, Doing

\* A session of the table with another idle time and another invalidation.
LEMMA SessionType ==
  ASSUME NEW s \in Session, NEW i \in 0 .. IdleDays + 1, NEW d \in {None} \cup 0 .. KeepDays + 1
  PROVE  /\ [s EXCEPT !.idle = i] \in Session
         /\ [s EXCEPT !.dead = d] \in Session
         /\ [s EXCEPT !.idle = i, !.dead = d] \in Session
         /\ s.idle \in 0 .. IdleDays + 1 /\ s.dead \in {None} \cup 0 .. KeepDays + 1
         /\ s # NoRow /\ s.user \in Users
BY SyncAssumptions DEF Session

LEMMA InvalidatedType ==
  ASSUME SyncTypeOK, NEW S, \A x \in S : sessions[x] # NoRow
  PROVE  Invalidated(S) \in [Sessions -> Session \cup {NoRow}]
<1> SUFFICES ASSUME NEW x \in Sessions, x \in S PROVE [sessions[x] EXCEPT !.dead = 0] \in Session
  BY DEF Invalidated, SyncTypeOK
<1>1. sessions[x] \in Session
  BY DEF SyncTypeOK
<1>2. 0 \in 0 .. KeepDays + 1 /\ 0 \in 0 .. IdleDays + 1
  BY SyncAssumptions
<1>3. QED BY <1>1, <1>2, SessionType

\* What an invalidation does to a row.
LEMMA InvalidatedRow ==
  ASSUME SyncTypeOK, NEW S, NEW x \in Sessions, \A y \in S : sessions[y] # NoRow
  PROVE  /\ Invalidated(S)[x] # NoRow <=> sessions[x] # NoRow
         /\ x \notin S => Invalidated(S)[x] = sessions[x]
         /\ sessions[x] # NoRow => Invalidated(S)[x].user = sessions[x].user
         /\ x \in S => Invalidated(S)[x].dead = 0
<1>1. CASE x \notin S
  BY <1>1 DEF Invalidated
<1>2. CASE x \in S
  <2>1. sessions[x] \in Session
    BY <1>2 DEF SyncTypeOK
  <2>2. Invalidated(S)[x] = [sessions[x] EXCEPT !.dead = 0]
    BY <1>2 DEF Invalidated
  <2>3. [sessions[x] EXCEPT !.dead = 0] \in Session
    <3>1. 0 \in {None} \cup 0 .. KeepDays + 1
      BY SyncAssumptions
    <3>2. QED BY <2>1, <3>1 DEF Session
  <2>4. [sessions[x] EXCEPT !.dead = 0].user = sessions[x].user
        /\ [sessions[x] EXCEPT !.dead = 0].dead = 0
    BY <2>1 DEF Session
  <2>5. Invalidated(S)[x] # NoRow /\ sessions[x] # NoRow
    BY <1>2, <2>2, <2>3, SyncAssumptions
  <2>6. QED BY <1>2, <2>2, <2>4, <2>5
<1>3. QED BY <1>1, <1>2

LEMMA OlderType ==
  ASSUME NEW max \in Nat, NEW n \in 0 .. max + 1
  PROVE  Older(n, max) \in 0 .. max + 1
BY DEF Older

-----------------------------------------------------------------------------
LEMMA TypeInit == SyncInit => SyncTypeOK
<1> SUFFICES ASSUME SyncInit PROVE SyncTypeOK
  OBVIOUS
<1>1. /\ accounts \subseteq Users /\ sessions \in [Sessions -> Session \cup {NoRow}]
      /\ request \in [Clients -> SyncRequest \cup {None}] /\ uptime \in 0 .. 1
  BY DEF SyncInit
<1>2. purging \in BOOLEAN
  BY Zenon DEF SyncInit
<1>3. QED BY <1>1, <1>2, Zenon DEF SyncTypeOK

LEMMA TypeStep == SyncTypeOK /\ [SyncNext]_syncVars => SyncTypeOK'
<1> SUFFICES ASSUME SyncTypeOK, [SyncNext]_syncVars PROVE SyncTypeOK'
  OBVIOUS
<1>n. None \in SyncRequest \cup {None}
  OBVIOUS
<1>0. CASE UNCHANGED syncVars
  BY <1>0 DEF SyncTypeOK, syncVars
<1>1. ASSUME NEW c \in Clients, ReceiveSignup(c) PROVE SyncTypeOK'
  <2>1. PICK u \in Users \ accounts :
          /\ accounts' = accounts \cup {u}
          /\ request' = [request EXCEPT ![c] = [op |-> "open", user |-> u, kicked |-> FALSE]]
          /\ UNCHANGED <<sessions, uptime, purging>>
    BY <1>1 DEF ReceiveSignup, SyncReceive
  <2>2. [op |-> "open", user |-> u, kicked |-> FALSE] \in SyncRequest
    BY DEF SyncRequest, LoginRequest
  <2>3. QED BY <2>1, <2>2, RequestType DEF SyncTypeOK
<1>2. ASSUME NEW c \in Clients, ReceiveLogin(c) PROVE SyncTypeOK'
  <2>1. PICK u \in accounts :
          /\ request' = [request EXCEPT ![c] = [op |-> "login", user |-> u, kicked |-> FALSE]]
          /\ UNCHANGED <<accounts, sessions, uptime, purging>>
    BY <1>2 DEF ReceiveLogin, SyncReceive
  <2>2. [op |-> "login", user |-> u, kicked |-> FALSE] \in SyncRequest
    BY DEF SyncRequest, LoginRequest, SyncTypeOK
  <2>3. QED BY <2>1, <2>2, RequestType DEF SyncTypeOK
<1>3. ASSUME NEW c \in Clients, KickSessions(c) PROVE SyncTypeOK'
  <2>1. PICK q \in LoginRequest : q = request[c]
    BY <1>3, DoingType, KindOfOp DEF KickSessions
  <2>2. PICK ok \in BOOLEAN :
          /\ request' = [request EXCEPT ![c].op = "open", ![c].kicked = ok]
          /\ sessions' = IF ok THEN Invalidated(ActiveOf(request[c].user)) ELSE sessions
          /\ UNCHANGED <<accounts, uptime, purging>>
    BY <1>3 DEF KickSessions
  <2>3. request' = [request EXCEPT ![c] = [q EXCEPT !.op = "open", !.kicked = ok]]
    BY <2>1, <2>2 DEF SyncTypeOK
  <2>4. [q EXCEPT !.op = "open", !.kicked = ok] \in SyncRequest
    BY DEF LoginRequest, SyncRequest
  <2>5. Invalidated(ActiveOf(request[c].user)) \in [Sessions -> Session \cup {NoRow}]
    BY InvalidatedType DEF ActiveOf, Active
  <2>6. QED BY <2>2, <2>3, <2>4, <2>5, RequestType DEF SyncTypeOK
<1>4. ASSUME NEW c \in Clients, OpenSession(c) PROVE SyncTypeOK'
  <2>1. [user |-> request[c].user, idle |-> 0, dead |-> None] \in Session
    BY <1>4, DoingType, Kinds, SyncAssumptions DEF OpenSession, Session
  <2>2. sessions' \in [Sessions -> Session \cup {NoRow}]
    BY <1>4, <2>1 DEF OpenSession, SyncTypeOK
  <2>3. QED BY <1>4, <1>n, <2>2, RequestType DEF OpenSession, SyncFinish, SyncTypeOK
<1>5. ASSUME NEW c \in Clients, ReceiveGuarded(c) PROVE SyncTypeOK'
  <2>1. PICK x \in Sessions :
          /\ Active(x)
          /\ request' = [request EXCEPT ![c] = [op |-> "guard", user |-> sessions[x].user, sess |-> x]]
          /\ UNCHANGED <<accounts, sessions, uptime, purging>>
    BY <1>5 DEF ReceiveGuarded, SyncReceive
  <2>2. sessions[x].user \in Users
    BY <2>1 DEF Active, SyncTypeOK, Session
  <2>3. [op |-> "guard", user |-> sessions[x].user, sess |-> x] \in SyncRequest
    BY <2>2 DEF SyncRequest, GuardRequest
  <2>4. QED BY <2>1, <2>3, RequestType DEF SyncTypeOK
<1>6. ASSUME NEW c \in Clients, Refresh(c) PROVE SyncTypeOK'
  <2>1. request[c].sess \in Sessions
    BY <1>6, DoingType, KindOfOp DEF Refresh, GuardRequest
  <2>2. sessions[request[c].sess] # NoRow => Refreshed(request[c].sess) \in Session
    <3>1. 0 \in 0 .. IdleDays + 1
      BY SyncAssumptions
    <3>2. sessions[request[c].sess] \in Session \cup {NoRow}
      BY <2>1 DEF SyncTypeOK
    <3>3. \A s \in Session : [s EXCEPT !.idle = 0] \in Session
      BY <3>1 DEF Session
    <3>4. QED BY <3>2, <3>3 DEF Refreshed
  <2>3. QED BY <1>6, <1>n, <2>1, <2>2, RequestType DEF Refresh, SyncFinish, SyncTypeOK
<1>7. ASSUME NEW c \in Clients, ReceiveOther(c) PROVE SyncTypeOK'
  <2>1. PICK u \in accounts, x \in Sessions \cup {None} :
          \/ request' = [request EXCEPT ![c] = [op |-> "logout", user |-> u, sess |-> x]]
          \/ request' = [request EXCEPT ![c] = [op |-> "credentials", user |-> u]]
          \/ request' = [request EXCEPT ![c] = [op |-> "quit", user |-> u]]
    BY <1>7 DEF ReceiveOther, SyncReceive
  <2>2. /\ [op |-> "logout", user |-> u, sess |-> x] \in SyncRequest
        /\ [op |-> "credentials", user |-> u] \in SyncRequest
        /\ [op |-> "quit", user |-> u] \in SyncRequest
    BY DEF SyncRequest, LogoutRequest, AccountRequest, SyncTypeOK
  <2>3. request' \in [Clients -> SyncRequest \cup {None}]
    BY <2>1, <2>2 DEF SyncTypeOK
  <2>4. QED BY <1>7, <2>3 DEF ReceiveOther, SyncTypeOK
<1>8. ASSUME NEW c \in Clients, CommitLogout(c) PROVE SyncTypeOK'
  <2>1. Invalidated(LoggedOut(request[c])) \in [Sessions -> Session \cup {NoRow}]
    BY InvalidatedType DEF LoggedOut, ActiveOf, Active
  <2>2. QED BY <1>8, <1>n, <2>1, RequestType DEF CommitLogout, SyncFinish, SyncTypeOK
<1>9. ASSUME NEW c \in Clients, CommitCredentials(c) PROVE SyncTypeOK'
  <2>1. Invalidated(ActiveOf(request[c].user)) \in [Sessions -> Session \cup {NoRow}]
    BY InvalidatedType DEF ActiveOf, Active
  <2>2. QED BY <1>9, <1>n, <2>1, RequestType DEF CommitCredentials, SyncFinish, SyncTypeOK
<1>10. ASSUME NEW c \in Clients, CommitQuit(c) PROVE SyncTypeOK'
  BY <1>10, <1>n, RequestType DEF CommitQuit, SyncFinish, SyncTypeOK
<1>11. ASSUME NEW c \in Clients, SyncAbort(c) PROVE SyncTypeOK'
  BY <1>11, <1>n, RequestType DEF SyncAbort, SyncFinish, SyncTypeOK
<1>12. CASE Day
  <2>1. ASSUME NEW x \in Sessions, sessions[x] # NoRow
        PROVE  [sessions[x] EXCEPT !.idle = Older(@, IdleDays),
                                   !.dead = IF @ = None THEN None ELSE Older(@, KeepDays)] \in Session
    <3>1. sessions[x] \in Session
      BY <2>1 DEF SyncTypeOK
    <3>2. Older(sessions[x].idle, IdleDays) \in 0 .. IdleDays + 1
      BY <3>1, OlderType, SyncAssumptions DEF Session
    <3>3. (IF sessions[x].dead = None THEN None ELSE Older(sessions[x].dead, KeepDays))
          \in {None} \cup 0 .. KeepDays + 1
      BY <3>1, OlderType, SyncAssumptions DEF Session
    <3>4. QED BY <3>1, <3>2, <3>3, SessionType
  <2>2. sessions' \in [Sessions -> Session \cup {NoRow}]
    BY <1>12, <2>1 DEF Day
  <2>u. uptime' = 1
    BY <1>12, Zenon DEF Day
  <2>3. uptime' \in 0 .. 1
    BY <2>u
  <2>4. /\ accounts' \subseteq Users /\ request' \in [Clients -> SyncRequest \cup {None}]
        /\ purging' \in BOOLEAN
    BY <1>12, Zenon DEF Day, SyncTypeOK
  <2>5. QED BY <2>2, <2>3, <2>4, Zenon DEF SyncTypeOK
<1>13. CASE Restart
  <2>1. purging' \in BOOLEAN
    BY <1>13, Zenon DEF Restart
  <2>2. /\ accounts' \subseteq Users /\ sessions' \in [Sessions -> Session \cup {NoRow}]
        /\ uptime' \in 0 .. 1 /\ request' \in [Clients -> SyncRequest \cup {None}]
    BY <1>13 DEF Restart, SyncTypeOK
  <2>3. QED BY <2>1, <2>2, Zenon DEF SyncTypeOK
<1>14. CASE ExpireSessions
  <2>1. Invalidated({x \in Sessions : Expired(x)}) \in [Sessions -> Session \cup {NoRow}]
    BY InvalidatedType DEF Expired, Active
  <2>2. QED BY <1>14, <2>1 DEF ExpireSessions, SyncTypeOK
<1>15. CASE ExpireFails
  BY <1>15 DEF ExpireFails, SyncTypeOK
<1>16. CASE PurgeSessions
  BY <1>16 DEF PurgeSessions, SyncTypeOK
<1>17. CASE PurgeFails
  BY <1>17 DEF PurgeFails, SyncTypeOK
<1>18. QED
  BY <1>0, <1>1, <1>2, <1>3, <1>4, <1>5, <1>6, <1>7, <1>8, <1>9, <1>10, <1>11, <1>12, <1>13,
     <1>14, <1>15, <1>16, <1>17 DEF SyncNext, ClientStep

\* Accounts, sessions, requests and the cleanup keep their types.
THEOREM SyncTypeCorrect == SyncSafe => []SyncTypeOK
BY TypeInit, TypeStep, PTL DEF SyncSafe

-----------------------------------------------------------------------------
(* What a step does to a session.                                          *)

\* A row that stays is its user's and stays invalidated if it was; only a login's
\* insert makes one, under an id that had none.
LEMMA RowStep ==
  ASSUME SyncTypeOK, [SyncNext]_syncVars, NEW x \in Sessions, sessions'[x] # NoRow
  PROVE  \/ /\ sessions[x] # NoRow /\ sessions'[x].user = sessions[x].user
            /\ Dead(x) => Dead(x)'
         \/ sessions[x] = NoRow /\ \E c \in Clients : OpenSession(c)
<1> DEFINE Kept == /\ sessions[x] # NoRow /\ sessions'[x].user = sessions[x].user
                   /\ Dead(x) => Dead(x)'
<1>t. sessions[x] # NoRow => sessions[x] \in Session
  BY DEF SyncTypeOK
<1>0. CASE sessions'[x] = sessions[x]
  BY <1>0 DEF Dead
<1>1. ASSUME NEW S, S \subseteq {y \in Sessions : Active(y)}, sessions' = Invalidated(S)
      PROVE  Kept
  <2>1. \A y \in S : sessions[y] # NoRow
    BY <1>1 DEF Active
  <2>2. /\ sessions[x] # NoRow /\ sessions'[x].user = sessions[x].user
        /\ x \notin S => sessions'[x] = sessions[x]
    BY <1>1, <2>1, InvalidatedRow
  <2>3. Dead(x) => x \notin S
    BY <1>1 DEF Dead, Active
  <2>4. QED BY <2>2, <2>3 DEF Dead
<1>2. ASSUME NEW c \in Clients, KickSessions(c) PROVE Kept
  <2>1. CASE sessions' = sessions
    BY <2>1 DEF Dead
  <2>2. CASE sessions' = Invalidated(ActiveOf(request[c].user))
    BY <1>1, <2>2 DEF ActiveOf
  <2>3. QED BY <1>2, <2>1, <2>2 DEF KickSessions
<1>3. ASSUME NEW c \in Clients, OpenSession(c) PROVE Kept \/ sessions[x] = NoRow
  BY <1>3, <1>0 DEF OpenSession, Unused, SyncTypeOK
<1>4. ASSUME NEW c \in Clients, Refresh(c) PROVE Kept
  <2>1. request[c].sess \in Sessions
    BY <1>4, DoingType, KindOfOp DEF Refresh, GuardRequest
  <2>2. CASE sessions'[x] = sessions[x]
    BY <2>2 DEF Dead
  <2>3. CASE sessions'[x] = [sessions[x] EXCEPT !.idle = 0] /\ sessions[x] # NoRow
    <3>1. sessions'[x].user = sessions[x].user /\ sessions'[x].dead = sessions[x].dead
      BY <1>t, <2>3 DEF Session
    <3>2. QED BY <2>3, <3>1 DEF Dead
  <2>4. QED BY <1>4, <2>1, <2>2, <2>3 DEF Refresh, Refreshed, SyncTypeOK
<1>5. ASSUME NEW c \in Clients, CommitLogout(c) PROVE Kept
  <2>1. LoggedOut(request[c]) \subseteq {y \in Sessions : Active(y)}
    BY DEF LoggedOut, ActiveOf
  <2>2. QED BY <1>1, <1>5, <2>1 DEF CommitLogout
<1>6. ASSUME NEW c \in Clients, CommitCredentials(c) PROVE Kept
  BY <1>1, <1>6 DEF CommitCredentials, ActiveOf
<1>7. ASSUME NEW c \in Clients, CommitQuit(c) PROVE sessions'[x] = sessions[x]
  BY <1>7 DEF CommitQuit
<1>8. CASE Day
  <2>1. sessions[x] # NoRow
    BY <1>8 DEF Day
  <2>2. sessions'[x] = [sessions[x] EXCEPT
          !.idle = Older(@, IdleDays),
          !.dead = IF @ = None THEN None ELSE Older(@, KeepDays)]
    BY <1>8, <2>1 DEF Day
  <2>3. /\ sessions'[x].user = sessions[x].user
        /\ sessions'[x].dead =
             IF sessions[x].dead = None THEN None ELSE Older(sessions[x].dead, KeepDays)
    BY <1>t, <2>1, <2>2 DEF Session
  <2>4. sessions[x].dead # None => sessions'[x].dead # None
    <3> SUFFICES ASSUME sessions[x].dead # None PROVE sessions'[x].dead # None
      OBVIOUS
    <3>1. sessions[x].dead \in 0 .. KeepDays + 1
      BY <1>t, <2>1 DEF Session
    <3>2. Older(sessions[x].dead, KeepDays) \in Nat
      BY <3>1, SyncAssumptions DEF Older
    <3>3. QED BY <2>3, <3>2, SyncAssumptions
  <2>5. QED BY <2>1, <2>3, <2>4 DEF Dead
<1>9. CASE ExpireSessions
  BY <1>1, <1>9 DEF ExpireSessions, Expired
<1>10. CASE PurgeSessions
  BY <1>10, <1>0 DEF PurgeSessions
<1>11. CASE UNCHANGED sessions
  BY <1>11, <1>0
<1>12. QED
  BY <1>0, <1>2, <1>3, <1>4, <1>5, <1>6, <1>7, <1>8, <1>9, <1>10, <1>11
  DEF SyncNext, ClientStep, syncVars, ReceiveSignup, ReceiveLogin, ReceiveGuarded, ReceiveOther,
      SyncAbort, Restart, ExpireFails, PurgeFails

\* Once invalidated, a session is not revived by any request, day or cleanup.
THEOREM DeadForGood == SyncSafe => DeadStaysDead
<1>1. SyncTypeOK /\ [SyncNext]_syncVars
      => [\A x \in Sessions : Dead(x) /\ sessions'[x] # NoRow => Dead(x)']_syncVars
  BY RowStep DEF Dead
<1>2. QED BY SyncTypeCorrect, <1>1, PTL DEF SyncSafe, DeadStaysDead

-----------------------------------------------------------------------------
(* Whose request ends a session.                                           *)

\* A session that ends has idled, or a request of its user takes a step.
Ended(x) ==
  \/ sessions[x].idle > IdleDays
  \/ \E c \in Clients : request[c] # None /\ request'[c] # request[c]
                          /\ request[c].user = sessions[x].user

LEMMA EndStep ==
  ASSUME SyncTypeOK, [SyncNext]_syncVars, NEW x \in Sessions, Active(x), ~Active(x)'
  PROVE  Ended(x)
<1>x. sessions[x] \in Session /\ sessions[x] # NoRow /\ sessions[x].dead = None
  BY DEF Active, SyncTypeOK
<1>0. sessions'[x] # sessions[x]
  BY DEF Active
<1>1. ASSUME NEW c \in Clients, NEW op, c \in Doing(op), SyncFinish(c)
      PROVE  request[c] # None /\ request'[c] # request[c]
  <2>1. request[c] # None /\ request'[c] = None
    BY <1>1 DEF Doing, SyncFinish, SyncTypeOK
  <2>2. QED BY <2>1
<1>2. ASSUME NEW S, \A y \in S : sessions[y] # NoRow, sessions' = Invalidated(S) PROVE x \in S
  BY <1>0, <1>2 DEF Invalidated
<1>3. ASSUME NEW c \in Clients, KickSessions(c) PROVE Ended(x)
  <2>1. PICK q \in LoginRequest : q = request[c]
    BY <1>3, DoingType, KindOfOp DEF KickSessions
  <2>2. sessions' = Invalidated(ActiveOf(q.user))
    BY <1>0, <1>3, <2>1 DEF KickSessions
  <2>3. q.user = sessions[x].user
    BY <1>2, <2>2 DEF ActiveOf, Active
  <2>4. request'[c].op = "open" /\ q.op = "login" /\ q # None
    <3>1. q.op = "login" /\ q # None
      BY <1>3, <2>1 DEF KickSessions, Doing
    <3>2. PICK ok \in BOOLEAN : request'[c] = [q EXCEPT !.op = "open", !.kicked = ok]
      BY <1>3, <2>1 DEF KickSessions, SyncTypeOK
    <3>3. [q EXCEPT !.op = "open", !.kicked = ok].op = "open"
      BY DEF LoginRequest
    <3>4. QED BY <3>1, <3>2, <3>3
  <2>5. QED BY <2>1, <2>3, <2>4 DEF Ended
<1>4. ASSUME NEW c \in Clients, OpenSession(c) PROVE FALSE
  BY <1>0, <1>4, <1>x DEF OpenSession, Unused, SyncTypeOK
<1>5. ASSUME NEW c \in Clients, Refresh(c) PROVE FALSE
  <2>1. sessions'[x] = [sessions[x] EXCEPT !.idle = 0]
    BY <1>0, <1>5 DEF Refresh, Refreshed, SyncTypeOK
  <2>2. sessions'[x] \in Session /\ sessions'[x].dead = None
    <3>1. 0 \in 0 .. IdleDays + 1
      BY SyncAssumptions
    <3>2. QED BY <1>x, <2>1, <3>1 DEF Session
  <2>3. QED BY <2>2, SyncAssumptions DEF Active
<1>6. ASSUME NEW c \in Clients, CommitLogout(c) PROVE Ended(x)
  <2>1. x \in LoggedOut(request[c])
    BY <1>2, <1>6 DEF CommitLogout, LoggedOut, ActiveOf, Active
  <2>2. request[c].user = sessions[x].user
    BY <2>1 DEF LoggedOut, ActiveOf
  <2>3. QED BY <1>1, <1>6, <2>2 DEF CommitLogout, Ended
<1>7. ASSUME NEW c \in Clients, CommitCredentials(c) PROVE Ended(x)
  <2>1. request[c].user = sessions[x].user
    BY <1>2, <1>7 DEF CommitCredentials, ActiveOf, Active
  <2>2. QED BY <1>1, <1>7, <2>1 DEF CommitCredentials, Ended
<1>8. ASSUME NEW c \in Clients, CommitQuit(c) PROVE Ended(x)
  <2>1. request[c].user = sessions[x].user
    BY <1>0, <1>8 DEF CommitQuit
  <2>2. QED BY <1>1, <1>8, <2>1 DEF CommitQuit, Ended
<1>9. CASE Day
  <2>1. sessions'[x] = [sessions[x] EXCEPT
          !.idle = Older(@, IdleDays),
          !.dead = IF @ = None THEN None ELSE Older(@, KeepDays)]
    BY <1>9, <1>x DEF Day
  <2>2. Older(sessions[x].idle, IdleDays) \in 0 .. IdleDays + 1
    BY <1>x, OlderType, SyncAssumptions DEF Session
  <2>3. sessions'[x] \in Session /\ sessions'[x].dead = None
    BY <1>x, <2>1, <2>2 DEF Session
  <2>4. QED BY <2>3, SyncAssumptions DEF Active
<1>10. CASE ExpireSessions
  <2>1. Expired(x)
    BY <1>2, <1>10 DEF ExpireSessions, Expired, Active
  <2>2. QED BY <2>1 DEF Expired, Ended
<1>11. CASE PurgeSessions
  BY <1>0, <1>11, <1>x DEF PurgeSessions, Old, Dead
<1>12. CASE UNCHANGED sessions
  BY <1>0, <1>12
<1>13. QED
  BY <1>3, <1>4, <1>5, <1>6, <1>7, <1>8, <1>9, <1>10, <1>11, <1>12
  DEF SyncNext, ClientStep, syncVars, ReceiveSignup, ReceiveLogin, ReceiveGuarded, ReceiveOther,
      SyncAbort, Restart, ExpireFails, PurgeFails

\* Nobody's request ends another user's session, whatever id it names and whatever
\* happened to that session since it was looked up.
THEOREM OwnersEnd == SyncSafe => EndedByOwner
<1>1. SyncTypeOK /\ [SyncNext]_syncVars
      => [\A x \in Sessions : Active(x) /\ ~Active(x)' =>
            \/ sessions[x].idle > IdleDays
            \/ \E c \in Clients : request[c] # None /\ request'[c] # request[c]
                                    /\ request[c].user = sessions[x].user]_syncVars
  BY EndStep DEF Ended
<1>2. QED BY SyncTypeCorrect, <1>1, PTL DEF SyncSafe, EndedByOwner

-----------------------------------------------------------------------------
(* One login at a time leaves one session.                                 *)

LoggingIn == Doing("login") \cup Doing("open")

AtMostOneLogin == \A c, d \in LoggingIn : c = d

\* A user whose sessions a login has invalidated has none until it opens its own.
KickedClean == \A c \in Doing("open") : request[c].kicked => ActiveOf(request[c].user) = {}

LoginInv == SyncTypeOK /\ AtMostOneLogin /\ KickedClean

\* A login that goes on after a step has been going on before, or starts with it; then
\* it has invalidated nothing yet.
LEMMA LoginStep ==
  ASSUME SyncTypeOK, [SyncNext]_syncVars, NEW c \in LoggingIn'
  PROVE  \/ c \in LoggingIn /\ (request'[c] = request[c] \/ KickSessions(c))
         \/ /\ MutexFree /\ request'[c].kicked = FALSE
            /\ \A d \in Clients \ {c} : request'[d] = request[d]
<1>c. c \in Clients /\ request'[c] # None /\ request'[c].op \in {"login", "open"}
  BY DEF LoggingIn, Doing
<1>0. CASE request'[c] = request[c]
  BY <1>0, <1>c DEF LoggingIn, Doing
<1>1. ASSUME NEW d \in Clients, SyncFinish(d) PROVE request'[c] = request[c]
  BY <1>1, <1>c DEF SyncFinish, SyncTypeOK
<1>2. ASSUME NEW d \in Clients, NEW q, SyncReceive(d, q), q.op \notin {"login", "open"}
      PROVE  request'[c] = request[c]
  BY <1>2, <1>c DEF SyncReceive, SyncTypeOK
<1>3. ASSUME NEW d \in Clients, NEW q, SyncReceive(d, q), d # c
      PROVE  request'[c] = request[c]
  BY <1>3, <1>c DEF SyncReceive, SyncTypeOK
<1>4. ASSUME NEW q, SyncReceive(c, q)
      PROVE  request'[c] = q /\ \A d \in Clients \ {c} : request'[d] = request[d]
  BY <1>4, <1>c DEF SyncReceive, SyncTypeOK
<1>5. ASSUME NEW d \in Clients, ReceiveSignup(d), request'[c] # request[c]
      PROVE  /\ MutexFree /\ request'[c].kicked = FALSE
             /\ \A e \in Clients \ {c} : request'[e] = request[e]
  <2>1. d = c
    BY <1>3, <1>5 DEF ReceiveSignup
  <2>2. PICK u : SyncReceive(c, [op |-> "open", user |-> u, kicked |-> FALSE]) /\ MutexFree
    BY <1>5, <2>1 DEF ReceiveSignup
  <2>3. QED BY <1>4, <2>2
<1>6. ASSUME NEW d \in Clients, ReceiveLogin(d), request'[c] # request[c]
      PROVE  /\ MutexFree /\ request'[c].kicked = FALSE
             /\ \A e \in Clients \ {c} : request'[e] = request[e]
  <2>1. d = c
    BY <1>3, <1>6 DEF ReceiveLogin
  <2>2. PICK u : SyncReceive(c, [op |-> "login", user |-> u, kicked |-> FALSE]) /\ MutexFree
    BY <1>6, <2>1 DEF ReceiveLogin
  <2>3. QED BY <1>4, <2>2
<1>7. ASSUME NEW d \in Clients, KickSessions(d)
      PROVE  c \in LoggingIn /\ (request'[c] = request[c] \/ KickSessions(c))
  <2>1. CASE d = c
    BY <1>7, <2>1 DEF KickSessions, LoggingIn
  <2>2. CASE d # c
    <3>1. request'[c] = request[c]
      BY <1>7, <1>c, <2>2 DEF KickSessions, SyncTypeOK
    <3>2. QED BY <1>c, <3>1 DEF LoggingIn, Doing
  <2>3. QED BY <2>1, <2>2
<1>8. ASSUME NEW d \in Clients, ReceiveGuarded(d) PROVE request'[c] = request[c]
  BY <1>2, <1>8 DEF ReceiveGuarded
<1>9. ASSUME NEW d \in Clients, ReceiveOther(d) PROVE request'[c] = request[c]
  BY <1>2, <1>9 DEF ReceiveOther
<1>10. CASE Restart
  BY <1>10, <1>c DEF Restart
<1>11. CASE UNCHANGED request
  BY <1>11, <1>0
<1>12. QED
  BY <1>0, <1>1, <1>5, <1>6, <1>7, <1>8, <1>9, <1>10, <1>11
  DEF SyncNext, ClientStep, syncVars, OpenSession, Refresh, CommitLogout, CommitCredentials,
      CommitQuit, SyncAbort, Day, ExpireSessions, ExpireFails, PurgeSessions, PurgeFails

\* Nobody gets a session but by a login's insert, which ends the login.
LEMMA NoNewSession ==
  ASSUME SyncTypeOK, [SyncNext]_syncVars, NEW u,
         \A c \in Clients : ~OpenSession(c)
  PROVE  ActiveOf(u)' \subseteq ActiveOf(u)
<1> SUFFICES ASSUME NEW x \in Sessions, Active(x)', sessions'[x].user = u
             PROVE  Active(x) /\ sessions[x].user = u
  BY DEF ActiveOf
<1>1. sessions[x] # NoRow /\ sessions'[x].user = sessions[x].user /\ (Dead(x) => Dead(x)')
  BY RowStep DEF Active
<1>2. QED BY <1>1 DEF Active, Dead

LEMMA LoginInvStep ==
  ASSUME OneLogin = TRUE, LoginInv, [SyncNext]_syncVars
  PROVE  LoginInv'
<1>0. SyncTypeOK /\ AtMostOneLogin /\ KickedClean
  BY DEF LoginInv
<1>1. SyncTypeOK'
  BY <1>0, TypeStep
<1>2. AtMostOneLogin'
  <2> SUFFICES ASSUME NEW c \in LoggingIn', NEW d \in LoggingIn' PROVE c = d
    BY DEF AtMostOneLogin
  <2>1. CASE c \in LoggingIn /\ d \in LoggingIn
    BY <1>0, <2>1 DEF AtMostOneLogin
  <2>2. ASSUME NEW e \in LoggingIn', NEW f \in LoggingIn', e \notin LoggingIn PROVE e = f
    <3>1. LoggingIn = {} /\ \A g \in Clients \ {e} : request'[g] = request[g]
      BY <1>0, <2>2, LoginStep DEF MutexFree, LoggingIn
    <3>2. \A g \in Clients : request'[g] = request[g] /\ g \in LoggingIn' => g \in LoggingIn
      BY DEF LoggingIn, Doing
    <3>3. f \in Clients
      BY DEF LoggingIn, Doing
    <3>4. QED BY <3>1, <3>2, <3>3
  <2>3. QED BY <2>1, <2>2
<1>3. KickedClean'
  <2> SUFFICES ASSUME NEW c \in Doing("open")', request'[c].kicked,
                      NEW u, u = request'[c].user
               PROVE  ActiveOf(u)' = {}
    <3>1. KickedClean' <=> \A c \in Doing("open")' : request'[c].kicked => ActiveOf(request[c].user)' = {}
      BY DEF KickedClean
    <3>2. \A c \in Clients : \A u : u = request'[c].user => (ActiveOf(request[c].user)' = ActiveOf(u)')
      BY DEF ActiveOf
    <3>3. QED BY <3>1, <3>2 DEF Doing
  <2>c. c \in Clients /\ c \in LoggingIn'
    BY DEF LoggingIn, Doing
  <2>1. c \in LoggingIn /\ (request'[c] = request[c] \/ KickSessions(c))
    BY <1>0, <2>c, LoginStep
  <2>2. CASE KickSessions(c)
    <3>1. PICK q \in LoginRequest : q = request[c]
      BY <1>0, <2>2, DoingType, KindOfOp DEF KickSessions
    <3>k. PICK ok \in BOOLEAN :
            /\ request' = [request EXCEPT ![c].op = "open", ![c].kicked = ok]
            /\ sessions' = IF ok THEN Invalidated(ActiveOf(request[c].user)) ELSE sessions
      BY <2>2 DEF KickSessions
    <3>2. /\ request'[c] = [q EXCEPT !.op = "open", !.kicked = ok]
          /\ sessions' = IF ok THEN Invalidated(ActiveOf(q.user)) ELSE sessions
      BY <1>0, <2>c, <3>1, <3>k DEF SyncTypeOK
    <3>3. request'[c].user = q.user /\ request'[c].kicked = ok
      BY <3>2 DEF LoginRequest
    <3>4. sessions' = Invalidated(ActiveOf(q.user))
      BY <3>2, <3>3
    <3>5. ASSUME NEW x \in Sessions, Active(x)', sessions'[x].user = q.user PROVE FALSE
      <4>1. \A y \in ActiveOf(q.user) : sessions[y] # NoRow
        BY DEF ActiveOf, Active
      <4>2. x \notin ActiveOf(q.user)
        BY <1>0, <3>4, <3>5, <4>1, InvalidatedRow, SyncAssumptions DEF Active
      <4>3. sessions'[x] = sessions[x]
        BY <1>0, <3>4, <4>1, <4>2, InvalidatedRow
      <4>4. QED BY <3>5, <4>2, <4>3 DEF ActiveOf, Active
    <3>6. QED BY <3>2, <3>3, <3>5 DEF ActiveOf
  <2>3. CASE request'[c] = request[c]
    <3>1. c \in Doing("open") /\ ActiveOf(request[c].user) = {}
      BY <1>0, <2>3, <2>c DEF Doing, KickedClean
    <3>2. ASSUME NEW d \in Clients, OpenSession(d) PROVE FALSE
      <4>1. d \in LoggingIn /\ d \notin LoggingIn'
        BY <1>0, <3>2 DEF OpenSession, SyncFinish, LoggingIn, Doing, SyncTypeOK
      <4>2. d = c
        BY <1>0, <2>1, <4>1 DEF AtMostOneLogin
      <4>3. QED BY <2>c, <4>1, <4>2
    <3>3. QED BY <1>0, <2>3, <3>1, <3>2, NoNewSession
  <2>4. QED BY <2>1, <2>2, <2>3
<1>4. QED BY <1>1, <1>2, <1>3 DEF LoginInv

LEMMA LoginInvInit == SyncInit => LoginInv
BY TypeInit DEF SyncInit, LoginInv, AtMostOneLogin, LoggingIn, KickedClean, Doing

\* A login that has invalidated and now opens is the one step that ends it and changes
\* a session, and it finds none of its user's.
LEMMA OpenStep ==
  ASSUME LoginInv, [SyncNext]_syncVars, NEW c \in Doing("open"), NEW u \in Users,
         request[c].kicked, request[c].user = u, request'[c] = None, sessions' # sessions
  PROVE  Cardinality(ActiveOf(u)') = 1
<1>0. SyncTypeOK /\ AtMostOneLogin /\ KickedClean
  BY DEF LoginInv
<1>c. c \in Clients /\ request[c] # None /\ request[c].op = "open"
  BY DEF Doing
<1>1. OpenSession(c)
  <2>1. ASSUME NEW d \in Clients, SyncFinish(d), d # c PROVE FALSE
    BY <1>0, <1>c, <2>1 DEF SyncFinish, SyncTypeOK
  <2>2. ASSUME NEW d \in Clients, NEW op, op # "open", d \in Doing(op), SyncFinish(d) PROVE FALSE
    BY <1>c, <2>1, <2>2 DEF Doing
  <2>3. ASSUME NEW d \in Clients, KickSessions(d) PROVE FALSE
    BY <1>0, <1>c, <2>3 DEF KickSessions, Doing, SyncTypeOK
  <2>4. QED
    BY <1>c, <2>1, <2>2, <2>3
    DEF SyncNext, ClientStep, syncVars, ReceiveSignup, ReceiveLogin, OpenSession, ReceiveGuarded,
        Refresh, ReceiveOther, CommitLogout, CommitCredentials, CommitQuit, SyncAbort, Day, Restart,
        ExpireSessions, ExpireFails, PurgeSessions, PurgeFails
<1>2. PICK x \in Unused :
        sessions' = [sessions EXCEPT ![x] = [user |-> u, idle |-> 0, dead |-> None]]
  BY <1>1 DEF OpenSession
<1>3. x \in Sessions /\ sessions'[x] = [user |-> u, idle |-> 0, dead |-> None]
      /\ \A y \in Sessions \ {x} : sessions'[y] = sessions[y]
  BY <1>0, <1>2 DEF Unused, SyncTypeOK
<1>4. ActiveOf(u) = {}
  BY <1>0 DEF KickedClean
<1>5. [user |-> u, idle |-> 0, dead |-> None] \in Session
  BY SyncAssumptions DEF Session
<1>6. ActiveOf(u)' = {x}
  BY <1>3, <1>4, <1>5, SyncAssumptions DEF ActiveOf, Active
<1>7. QED BY <1>6, FS_Singleton

\* Behind the rate limiter's mutex, a login that could invalidate leaves its user just
\* the session it opens, whatever requests of the user's run between its statements.
THEOREM OneSession ==
  ASSUME OneLogin = TRUE
  PROVE  SyncSafe => LoginLeavesOneSession
<1>1. LoginInv /\ [SyncNext]_syncVars => LoginInv'
  BY LoginInvStep
<1>2. LoginInv /\ [SyncNext]_syncVars
      => [\A c \in Doing("open"), u \in Users :
            request[c].kicked /\ request[c].user = u /\ request'[c] = None /\ sessions' # sessions
              => Cardinality(ActiveOf(u)') = 1]_syncVars
  BY OpenStep
<1>3. QED BY LoginInvInit, <1>1, <1>2, PTL DEF SyncSafe, LoginLeavesOneSession
=============================================================================
