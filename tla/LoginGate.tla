------------------------------- MODULE LoginGate -------------------------------
(***************************************************************************)
(* The two throttles in front of a login: RateLimiter, per address and in  *)
(* memory, and the count of failed attempts with its lockout, per account  *)
(* and in users.                                                           *)
(*                                                                         *)
(* In release mode (Release) the limiter's mutex is held from the lookup   *)
(* to the end of the handler, by "defer": logins follow one another and    *)
(* the sweep waits for them.  Login reads the count, compares the password *)
(* and writes the count, each with a statement of its own.                 *)
(*                                                                         *)
(* Times are ages in ticks; an age stops counting once it has reached the  *)
(* window, a lockout once it has elapsed.  Of an address's list of times   *)
(* the limiter only asks how many are how old, so the list is kept as the  *)
(* number of requests of each age.                                         *)
(***************************************************************************)
EXTENDS Naturals, Functions

CONSTANTS
  Ips,          \* client addresses
  Limit,        \* RATE_LIMIT
  Window,       \* RATE_WINDOW_SECONDS, in ticks
  Users,        \* accounts
  Clients,      \* logins in flight at once
  MaxAttempts,  \* maxFailedLoginAttempts
  LockTime,     \* loginLockoutDuration, in ticks
  Release,      \* TRUE in release mode
  None          \* no entry, NULL, no request

VARIABLES
  requests,  \* rateLimiter.requests: how many an address has of each age, or None
  mutex,     \* the client whose request holds rateLimiter.mu, or None
  attempts,  \* users.failed_login_attempts
  locked,    \* users.login_locked_until: None, or the ticks left
  login,     \* the login each client has in flight
  guesses,   \* wrong passwords since the last right one or the last lockout's end, 0 if lost
  lost       \* accounts for which a write of the count has failed

gateVars == <<requests, mutex, attempts, locked, login, guesses, lost>>

Request(counts) ==
  [ip: Ips, user: Users, step: {"wait", "read", "reset", "compare"}, seen: counts]

Login == Request(0 .. MaxAttempts)

\* The age Window stands for all that are over.
Ages == [0 .. Window -> Nat]

ASSUME GateAssumptions ==
  /\ Limit \in Nat \ {0} /\ Window \in Nat \ {0}
  /\ MaxAttempts \in Nat \ {0} /\ LockTime \in Nat \ {0}
  /\ Release \in BOOLEAN
  /\ None \notin Clients \cup Nat \cup Login \cup Ages /\ None \notin Request(Nat)

At(c, step) == login[c] # None /\ login[c].step = step

-----------------------------------------------------------------------------
(* RateLimiter.                                                            *)

\* The requests inside the window.
Valid(ages) == [a \in 0 .. Window - 1 |-> ages[a]]

\* A mutant of Admitted: one more than the limit.
AdmittedOneMore(ip) == requests[ip] # None => SumFunction(Valid(requests[ip])) <= Limit

\* An address without an entry is let in whatever the limit.
Admitted(ip) == requests[ip] # None => SumFunction(Valid(requests[ip])) < Limit

\* The list without what is over; an address without an entry has an empty one.
Filtered(ip) ==
  [a \in 0 .. Window |-> IF requests[ip] = None \/ a = Window THEN 0 ELSE requests[ip][a]]

\* The list that is stored, with the request that is let in.
Entered(ip) == [Filtered(ip) EXCEPT ![0] = @ + 1]

ReceiveLogin(c) ==
  /\ login[c] = None
  /\ \E ip \in Ips, u \in Users :
       login' = [login EXCEPT ![c] = [ip |-> ip, user |-> u, step |-> "wait", seen |-> 0]]
  /\ UNCHANGED <<requests, mutex, attempts, locked, guesses, lost>>

\* Outside release mode the middleware does nothing.
Enter(c) ==
  /\ At(c, "wait") /\ mutex = None
  /\ LET ip == login[c].ip IN
     /\ Release => Admitted(ip)
     /\ requests' = IF Release THEN [requests EXCEPT ![ip] = Entered(ip)] ELSE requests
     /\ mutex' = IF Release THEN c ELSE None
  /\ login' = [login EXCEPT ![c].step = "read"]
  /\ UNCHANGED <<attempts, locked, guesses, lost>>

\* 429; the filtered list is not stored.
Refuse(c) ==
  /\ Release
  /\ At(c, "wait") /\ mutex = None /\ ~Admitted(login[c].ip)
  /\ login' = [login EXCEPT ![c] = None]
  /\ UNCHANGED <<requests, mutex, attempts, locked, guesses, lost>>

\* An entry with nothing left is deleted.
Swept(ip) ==
  IF \A a \in 0 .. Window : Filtered(ip)[a] = 0 THEN None ELSE Filtered(ip)

Sweep ==
  /\ Release
  /\ mutex = None
  /\ requests' = [ip \in Ips |-> Swept(ip)]
  /\ UNCHANGED <<mutex, attempts, locked, login, guesses, lost>>

-----------------------------------------------------------------------------
(* Login, inside the limiter.                                              *)

\* A mutant of Unlocked: the mutex is released by hand, and not on every path.
UnlockedOnlyAfterCompare(c) == IF At(c, "compare") /\ mutex = c THEN None ELSE mutex

\* The handler returns, and the limiter's deferred Unlock runs.
Unlocked(c) == IF mutex = c THEN None ELSE mutex

Answer(c) ==
  /\ login' = [login EXCEPT ![c] = None]
  /\ mutex' = Unlocked(c)

\* A mutant of AfterRead: the elapsed lockout is not reset.
AfterReadNoReset(u) == "compare"

\* An elapsed lockout is reset before the password is compared.
AfterRead(u) == IF locked[u] = None THEN "compare" ELSE "reset"

ReadUser(c) ==
  /\ At(c, "read")
  /\ LET u == login[c].user IN
     /\ locked[u] \in {None, 0}
     /\ login' = [login EXCEPT ![c].step = AfterRead(u), ![c].seen = attempts[u]]
  /\ UNCHANGED <<requests, mutex, attempts, locked, guesses, lost>>

\* 429 until the lockout has elapsed.
StillLocked(c) ==
  /\ At(c, "read") /\ locked[login[c].user] \notin {None, 0}
  /\ Answer(c)
  /\ UNCHANGED <<requests, attempts, locked, guesses, lost>>

\* A write of the two columns whose error is ignored.
WriteThrottle(u, n, until) ==
  \/ /\ attempts' = [attempts EXCEPT ![u] = n]
     /\ locked' = [locked EXCEPT ![u] = until]
     /\ UNCHANGED lost
  \/ /\ lost' = lost \cup {u}
     /\ UNCHANGED <<attempts, locked>>

\* What an observer counts, for as long as no write was lost.
Guessed(u, n) == guesses' = [guesses EXCEPT ![u] = IF u \in lost' THEN 0 ELSE n]

ResetThrottle(c) ==
  /\ At(c, "reset")
  /\ WriteThrottle(login[c].user, 0, None)
  /\ Guessed(login[c].user, 0)
  /\ login' = [login EXCEPT ![c].step = "compare", ![c].seen = 0]
  /\ UNCHANGED <<requests, mutex>>

\* The lockout that the n-th failure in a row sets.
LockAfter(u, n) == IF n >= MaxAttempts THEN LockTime ELSE locked[u]

WrongPassword(c) ==
  /\ At(c, "compare")
  /\ LET u == login[c].user
         n == login[c].seen + 1
     IN  /\ WriteThrottle(u, n, LockAfter(u, n))
         /\ Guessed(u, guesses[u] + 1)
  /\ Answer(c)
  /\ UNCHANGED requests

\* The counters are reset if they were read above zero.
RightPassword(c) ==
  /\ At(c, "compare")
  /\ LET u == login[c].user IN
     /\ IF login[c].seen > 0 THEN WriteThrottle(u, 0, None)
                             ELSE UNCHANGED <<attempts, locked, lost>>
     /\ Guessed(u, 0)
  /\ Answer(c)
  /\ UNCHANGED requests

\* An unknown address, a malformed body, an error or a lost connection.
Fail(c) ==
  /\ At(c, "read")
  /\ Answer(c)
  /\ UNCHANGED <<requests, attempts, locked, guesses, lost>>

\* A tick later.
Older(ages) ==
  [a \in 0 .. Window |-> IF a = 0 THEN 0
                         ELSE IF a = Window THEN ages[Window] + ages[Window - 1]
                         ELSE ages[a - 1]]

Tick ==
  /\ requests' = [ip \in Ips |-> IF requests[ip] = None THEN None ELSE Older(requests[ip])]
  /\ locked' = [u \in Users |-> IF locked[u] \in {None, 0} THEN locked[u] ELSE locked[u] - 1]
  /\ UNCHANGED <<mutex, attempts, login, guesses, lost>>

-----------------------------------------------------------------------------
GateInit ==
  /\ requests = [ip \in Ips |-> None]
  /\ mutex = None
  /\ attempts = [u \in Users |-> 0]
  /\ locked = [u \in Users |-> None]
  /\ login = [c \in Clients |-> None]
  /\ guesses = [u \in Users |-> 0]
  /\ lost = {}

Handle(c) ==
  \/ ReadUser(c) \/ StillLocked(c) \/ ResetThrottle(c)
  \/ WrongPassword(c) \/ RightPassword(c) \/ Fail(c)

GateNext ==
  \/ \E c \in Clients : ReceiveLogin(c) \/ Enter(c) \/ Refuse(c) \/ Handle(c)
  \/ Sweep \/ Tick

\* A handler that has started goes on, and a goroutine that waits for the mutex gets it
\* (sync.Mutex hands it over to one that has waited for a millisecond).
GateFairness ==
  \A c \in Clients : WF_gateVars(Handle(c)) /\ SF_gateVars(Enter(c) \/ Refuse(c))

GateSafe == GateInit /\ [][GateNext]_gateVars

GateSpec == GateSafe /\ GateFairness

-----------------------------------------------------------------------------
(* Properties.                                                             *)

\* The requests the limiter counts against an address.
Counted == [ip \in Ips |-> Valid(Filtered(ip))]

\* Whether a request still waits for the limiter's decision or is past it.
Visits == [c \in Clients |-> IF login[c] = None THEN None
                             ELSE [ip |-> login[c].ip, inside |-> login[c].step # "wait"]]

SW == INSTANCE SlidingWindow WITH recent <- Counted, visits <- Visits

\* In release mode RateLimiter is a sliding window: the map, its lazy filtering and the
\* sweep let a request pass when fewer than the limit have passed within the window and
\* answer 429 when not, and every request that passes counts.
IsSlidingWindow == SW!WindowSpec

\* "lock for loginLockoutDuration after maxFailedAttempts consecutive bcrypt
\* mismatches", and start fresh when it has elapsed: of the logins at POST /auth/login the
\* stored count is the number of wrong passwords in a row, the account is locked exactly
\* from the last one allowed on, and no more are compared there, however many arrive
\* together, unless a write of the count was lost.  POST /dashboard/login compares the
\* same passwords beside all this: it neither reads nor writes what is modelled here.
ThrottleIsExact ==
  \A u \in Users \ lost :
    /\ attempts[u] = guesses[u]
    /\ guesses[u] <= MaxAttempts
    /\ locked[u] # None <=> guesses[u] = MaxAttempts

\* Every login is answered: the mutex that is held through the handler is given back on
\* every path.
LoginsAnswered == \A c \in Clients : login[c] # None ~> login[c] = None
=============================================================================
