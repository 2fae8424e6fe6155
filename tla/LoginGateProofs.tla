--------------------------- MODULE LoginGateProofs ---------------------------
(***************************************************************************)
(* The lockout is exact behind the rate limiter's mutex, and the limiter   *)
(* is a sliding window, for any number of logins in flight, accounts and   *)
(* addresses, any limits and any times.  Neither needs fairness, so both   *)
(* proofs start from GateSafe.                                             *)
(***************************************************************************)
EXTENDS LoginGate, FiniteSetTheorems, WellFoundedInduction, TLAPS

Attempts == 0 .. MaxAttempts
Lockout == 0 .. LockTime \cup {None}

\* The types, and what keeps the stored count within its bound.
CountsTyped ==
  /\ mutex \in Clients \cup {None}
  /\ attempts \in [Users -> Attempts]
  /\ locked \in [Users -> Lockout]
  /\ login \in [Clients -> Login \cup {None}]
  /\ guesses \in [Users -> Nat]
  /\ \A u \in Users : locked[u] = None => attempts[u] < MaxAttempts
  /\ \A c \in Clients : At(c, "compare") => login[c].seen < MaxAttempts

\* A login inside the limiter holds its mutex.
InsideHolds == \A c \in Clients : login[c] # None /\ login[c].step # "wait" => mutex = c

\* What a login has read of the account still holds when it compares the password.
ReadIsFresh ==
  \A c \in Clients :
    At(c, "compare") /\ login[c].user \notin lost =>
      /\ login[c].seen = attempts[login[c].user]
      /\ locked[login[c].user] = None

GateInv == CountsTyped /\ InsideHolds /\ ReadIsFresh /\ ThrottleIsExact

-----------------------------------------------------------------------------
LEMMA GateInvInit == GateInit => GateInv
<1> SUFFICES ASSUME GateInit PROVE GateInv
  OBVIOUS
<1>1. \A c \in Clients : login[c] = None
  BY DEF GateInit
<1>2. CountsTyped
  BY <1>1, GateAssumptions DEF GateInit, CountsTyped, Attempts, Lockout, At
<1>3. InsideHolds /\ ReadIsFresh
  BY <1>1 DEF InsideHolds, ReadIsFresh, At
<1>4. ThrottleIsExact
  BY GateAssumptions DEF GateInit, ThrottleIsExact
<1>5. QED BY <1>2, <1>3, <1>4 DEF GateInv

\* The login of a client that is at a step.
LEMMA LoginType ==
  ASSUME CountsTyped, NEW c \in Clients, login[c] # None
  PROVE  /\ login[c] \in Login /\ login[c].user \in Users /\ login[c].seen \in Attempts
         /\ login[c].step \in {"wait", "read", "reset", "compare"}
BY DEF CountsTyped, Login, Request, Attempts

\* Going on to another step keeps a login a login.
LEMMA GoType ==
  ASSUME CountsTyped, NEW c \in Clients, login[c] # None,
         NEW s \in {"wait", "read", "reset", "compare"}, NEW n \in Attempts,
         login' = [login EXCEPT ![c].step = s, ![c].seen = n]
  PROVE  /\ login' \in [Clients -> Login \cup {None}]
         /\ login'[c] # None /\ login'[c].step = s /\ login'[c].seen = n
         /\ login'[c].user = login[c].user
         /\ \A d \in Clients \ {c} : login'[d] = login[d]
<1>1. login[c] \in Login
  BY LoginType
<1>2. [login[c] EXCEPT !.step = s, !.seen = n] \in Login
  BY <1>1 DEF Login, Request, Attempts
<1>3. login' = [login EXCEPT ![c] = [login[c] EXCEPT !.step = s, !.seen = n]]
  OBVIOUS
<1>4. login'[c] = [login[c] EXCEPT !.step = s, !.seen = n]
  BY <1>3 DEF CountsTyped
<1>5. login'[c].step = s /\ login'[c].seen = n /\ login'[c].user = login[c].user
  BY <1>1, <1>4 DEF Login, Request
<1>6. QED BY <1>2, <1>3, <1>4, <1>5, GateAssumptions DEF CountsTyped

\* Nobody else is inside the limiter while a client is.
LEMMA Alone ==
  ASSUME CountsTyped, InsideHolds, NEW c \in Clients, login[c] # None, login[c].step # "wait",
         NEW d \in Clients, d # c, login[d] # None
  PROVE  login[d].step = "wait"
BY DEF InsideHolds

\* A handler's answer.
LEMMA AnswerStep ==
  ASSUME CountsTyped, InsideHolds, NEW c \in Clients, login[c] # None, login[c].step # "wait",
         Answer(c)
  PROVE  /\ mutex' \in Clients \cup {None}
         /\ login' \in [Clients -> Login \cup {None}]
         /\ InsideHolds'
         /\ \A d \in Clients, s \in {"read", "reset", "compare"} : ~At(d, s)'
<1>1. login'[c] = None /\ \A d \in Clients \ {c} : login'[d] = login[d]
  BY DEF Answer, CountsTyped
<1>2. \A d \in Clients : login'[d] # None => login'[d].step = "wait"
  BY <1>1, Alone
<1>3. mutex' \in Clients \cup {None} /\ login' \in [Clients -> Login \cup {None}]
  BY DEF Answer, Unlocked, CountsTyped
<1>4. QED BY <1>2, <1>3 DEF InsideHolds, At

\* A write of an account's two columns, that went through or was lost, and what the
\* observer has counted by then.
LEMMA WriteStep ==
  ASSUME CountsTyped, ThrottleIsExact, NEW u \in Users, NEW n \in Attempts, NEW until \in Lockout,
         NEW g \in Nat, WriteThrottle(u, n, until), Guessed(u, g),
         until = None => n < MaxAttempts,
         u \notin lost => g = n /\ (until # None <=> n = MaxAttempts)
  PROVE  /\ attempts' \in [Users -> Attempts] /\ locked' \in [Users -> Lockout]
         /\ guesses' \in [Users -> Nat]
         /\ \A v \in Users : locked'[v] = None => attempts'[v] < MaxAttempts
         /\ ThrottleIsExact'
         /\ u \notin lost' => attempts'[u] = n /\ locked'[u] = until
<1>1. guesses' \in [Users -> Nat] /\ \A v \in Users \ {u} : guesses'[v] = guesses[v]
  BY DEF Guessed, CountsTyped
<1>2. CASE /\ attempts' = [attempts EXCEPT ![u] = n]
           /\ locked' = [locked EXCEPT ![u] = until]
           /\ UNCHANGED lost
  <2>1. /\ attempts' \in [Users -> Attempts] /\ locked' \in [Users -> Lockout]
        /\ attempts'[u] = n /\ locked'[u] = until
        /\ \A v \in Users \ {u} : attempts'[v] = attempts[v] /\ locked'[v] = locked[v]
    BY <1>2 DEF CountsTyped
  <2>2. u \notin lost => guesses'[u] = n
    BY <1>2 DEF Guessed, CountsTyped
  <2>3. n <= MaxAttempts
    BY GateAssumptions DEF Attempts
  <2>4. ThrottleIsExact'
    <3> SUFFICES ASSUME NEW v \in Users \ lost
                 PROVE  /\ attempts'[v] = guesses'[v] /\ guesses'[v] <= MaxAttempts
                        /\ locked'[v] # None <=> guesses'[v] = MaxAttempts
      BY <1>2 DEF ThrottleIsExact
    <3>1. CASE v = u
      BY <2>1, <2>2, <2>3, <3>1
    <3>2. CASE v # u
      BY <1>1, <2>1, <3>2 DEF ThrottleIsExact
    <3>3. QED BY <3>1, <3>2
  <2>5. \A v \in Users : locked'[v] = None => attempts'[v] < MaxAttempts
    BY <2>1 DEF CountsTyped
  <2>6. QED BY <1>1, <2>1, <2>4, <2>5
<1>3. CASE lost' = lost \cup {u} /\ UNCHANGED <<attempts, locked>>
  BY <1>1, <1>3 DEF CountsTyped, ThrottleIsExact
<1>4. QED BY <1>2, <1>3 DEF WriteThrottle

\* Steps that leave the accounts alone and let no login reach the comparison.
LEMMA AccountsKept ==
  ASSUME GateInv, UNCHANGED <<attempts, locked, guesses, lost>>,
         mutex' \in Clients \cup {None},
         login' \in [Clients -> Login \cup {None}],
         InsideHolds',
         \A c \in Clients : At(c, "compare")' => login'[c] = login[c]
  PROVE  GateInv'
<1>0. CountsTyped /\ ReadIsFresh /\ ThrottleIsExact
  BY DEF GateInv
<1>1. CountsTyped'
  BY <1>0 DEF CountsTyped, At
<1>2. ReadIsFresh'
  BY <1>0 DEF ReadIsFresh, At
<1>3. ThrottleIsExact'
  BY <1>0 DEF ThrottleIsExact
<1>4. QED BY <1>1, <1>2, <1>3 DEF GateInv

LEMMA GateInvStep ==
  ASSUME Release = TRUE, GateInv, [GateNext]_gateVars
  PROVE  GateInv'
<1>0. CountsTyped /\ InsideHolds /\ ReadIsFresh /\ ThrottleIsExact
  BY DEF GateInv
<1>m. mutex \in Clients \cup {None} /\ login \in [Clients -> Login \cup {None}]
  BY <1>0 DEF CountsTyped
<1>u. CASE UNCHANGED gateVars
  BY <1>0, <1>m, <1>u, AccountsKept DEF gateVars, InsideHolds
<1>1. ASSUME NEW c \in Clients, ReceiveLogin(c) PROVE GateInv'
  <2>1. PICK ip \in Ips, u \in Users :
          login' = [login EXCEPT ![c] = [ip |-> ip, user |-> u, step |-> "wait", seen |-> 0]]
    BY <1>1 DEF ReceiveLogin
  <2>2. [ip |-> ip, user |-> u, step |-> "wait", seen |-> 0] \in Login
    BY GateAssumptions DEF Login, Request
  <2>3. /\ login'[c].step = "wait" /\ login' \in [Clients -> Login \cup {None}]
        /\ \A d \in Clients \ {c} : login'[d] = login[d]
    BY <1>m, <2>1, <2>2
  <2>4. UNCHANGED <<mutex, attempts, locked, guesses, lost>>
    BY <1>1 DEF ReceiveLogin
  <2>5. InsideHolds'
    BY <1>0, <2>3, <2>4 DEF InsideHolds
  <2>6. QED BY <1>m, <2>3, <2>4, <2>5, AccountsKept DEF At
<1>2. ASSUME NEW c \in Clients, Enter(c) PROVE GateInv'
  <2>1. login[c] # None /\ mutex = None /\ mutex' = c
    BY <1>2 DEF Enter, At
  <2>2. login' = [login EXCEPT ![c].step = "read"] /\ UNCHANGED <<attempts, locked, guesses, lost>>
    BY <1>2 DEF Enter
  <2>3. login[c] \in Login /\ [login[c] EXCEPT !.step = "read"] \in Login
    BY <1>m, <2>1 DEF Login, Request
  <2>4. /\ login'[c] = [login[c] EXCEPT !.step = "read"]
        /\ login' \in [Clients -> Login \cup {None}]
        /\ \A d \in Clients \ {c} : login'[d] = login[d]
    BY <1>m, <2>2, <2>3
  <2>5. login'[c].step = "read"
    BY <2>3, <2>4 DEF Login, Request
  <2>6. \A d \in Clients : login[d] # None => login[d].step = "wait"
    BY <1>0, <2>1, GateAssumptions DEF InsideHolds
  <2>7. InsideHolds'
    BY <2>1, <2>4, <2>6 DEF InsideHolds
  <2>8. QED BY <1>m, <2>1, <2>2, <2>4, <2>5, <2>7, AccountsKept DEF At
<1>3. ASSUME NEW c \in Clients, Refuse(c) PROVE GateInv'
  <2>1. /\ login' = [login EXCEPT ![c] = None]
        /\ UNCHANGED <<mutex, attempts, locked, guesses, lost>>
    BY <1>3 DEF Refuse
  <2>2. /\ login'[c] = None /\ login' \in [Clients -> Login \cup {None}]
        /\ \A d \in Clients \ {c} : login'[d] = login[d]
    BY <1>m, <2>1
  <2>3. InsideHolds'
    BY <1>0, <2>1, <2>2 DEF InsideHolds
  <2>4. QED BY <1>m, <2>1, <2>2, <2>3, AccountsKept DEF At
<1>4. CASE Sweep
  BY <1>0, <1>4, <1>m, AccountsKept DEF Sweep, InsideHolds
<1>5. CASE Tick
  <2>1. UNCHANGED <<mutex, attempts, login, guesses, lost>>
    BY <1>5 DEF Tick
  <2>2. /\ locked' \in [Users -> Lockout]
        /\ \A u \in Users : locked'[u] = None <=> locked[u] = None
    BY <1>0, <1>5, GateAssumptions DEF Tick, CountsTyped, Lockout
  <2>3. CountsTyped'
    BY <1>0, <2>1, <2>2 DEF CountsTyped, At
  <2>4. InsideHolds'
    BY <1>0, <2>1 DEF InsideHolds
  <2>5. ReadIsFresh'
    BY <1>0, <2>1, <2>2, LoginType DEF ReadIsFresh, At
  <2>6. ThrottleIsExact'
    BY <1>0, <2>1, <2>2 DEF ThrottleIsExact
  <2>7. QED BY <2>3, <2>4, <2>5, <2>6 DEF GateInv
<1>6. ASSUME NEW c \in Clients, ReadUser(c) PROVE GateInv'
  <2>1. /\ login[c] # None /\ login[c].step = "read"
        /\ UNCHANGED <<mutex, attempts, locked, guesses, lost>>
    BY <1>6 DEF ReadUser, At
  <2>2. PICK u \in Users : u = login[c].user
    BY <1>0, <2>1, LoginType
  <2>3. attempts[u] \in Attempts /\ AfterRead(u) \in {"reset", "compare"}
    BY <1>0 DEF CountsTyped, AfterRead
  <2>4. login' = [login EXCEPT ![c].step = AfterRead(u), ![c].seen = attempts[u]]
    BY <1>6, <2>2 DEF ReadUser
  <2>5. /\ login' \in [Clients -> Login \cup {None}]
        /\ login'[c] # None /\ login'[c].step = AfterRead(u) /\ login'[c].seen = attempts[u]
        /\ login'[c].user = u
        /\ \A d \in Clients \ {c} : login'[d] = login[d]
    BY <1>0, <2>1, <2>2, <2>3, <2>4, GoType
  <2>6. mutex = c /\ InsideHolds'
    BY <1>0, <2>1, <2>5 DEF InsideHolds
  <2>7. AfterRead(u) = "compare" => locked[u] = None /\ attempts[u] < MaxAttempts
    BY <1>0 DEF AfterRead, CountsTyped
  <2>8. CountsTyped'
    BY <1>0, <2>1, <2>5, <2>7 DEF CountsTyped, At
  <2>9. ReadIsFresh'
    BY <1>0, <2>1, <2>5, <2>7 DEF ReadIsFresh, At
  <2>10. QED BY <1>0, <2>1, <2>6, <2>8, <2>9 DEF GateInv, ThrottleIsExact
<1>7. ASSUME NEW c \in Clients, StillLocked(c) \/ Fail(c) PROVE GateInv'
  <2>1. /\ login[c] # None /\ login[c].step = "read" /\ Answer(c)
        /\ UNCHANGED <<attempts, locked, guesses, lost>>
    BY <1>7 DEF StillLocked, Fail, At
  <2>2. QED BY <1>0, <2>1, AnswerStep, AccountsKept
<1>8. ASSUME NEW c \in Clients, ResetThrottle(c) PROVE GateInv'
  <2>1. /\ login[c] # None /\ login[c].step = "reset"
        /\ login' = [login EXCEPT ![c].step = "compare", ![c].seen = 0] /\ UNCHANGED mutex
    BY <1>8 DEF ResetThrottle, At
  <2>2. PICK u \in Users : u = login[c].user
    BY <1>0, <2>1, LoginType
  <2>3. WriteThrottle(u, 0, None) /\ Guessed(u, 0)
    BY <1>8, <2>2 DEF ResetThrottle
  <2>4. 0 \in Attempts /\ None \in Lockout /\ 0 < MaxAttempts /\ 0 # MaxAttempts
    BY GateAssumptions DEF Attempts, Lockout
  <2>5. /\ attempts' \in [Users -> Attempts] /\ locked' \in [Users -> Lockout]
        /\ guesses' \in [Users -> Nat]
        /\ \A v \in Users : locked'[v] = None => attempts'[v] < MaxAttempts
        /\ ThrottleIsExact'
        /\ u \notin lost' => attempts'[u] = 0 /\ locked'[u] = None
    BY <1>0, <2>3, <2>4, WriteStep
  <2>6. /\ login' \in [Clients -> Login \cup {None}]
        /\ login'[c] # None /\ login'[c].step = "compare" /\ login'[c].seen = 0
        /\ login'[c].user = u
        /\ \A d \in Clients \ {c} : login'[d] = login[d]
    BY <1>0, <2>1, <2>2, <2>4, GoType
  <2>7. \A d \in Clients \ {c} : login'[d] # None => login'[d].step = "wait"
    BY <1>0, <2>1, <2>6, Alone
  <2>8. mutex = c
    BY <1>0, <2>1 DEF InsideHolds
  <2>9. CountsTyped'
    BY <1>m, <2>1, <2>4, <2>5, <2>6, <2>7 DEF CountsTyped, At
  <2>10. InsideHolds' /\ ReadIsFresh'
    BY <2>1, <2>5, <2>6, <2>7, <2>8 DEF InsideHolds, ReadIsFresh, At
  <2>11. QED BY <2>5, <2>9, <2>10 DEF GateInv
<1>9. ASSUME NEW c \in Clients, login[c] # None, login[c].step = "compare", Answer(c),
             attempts' \in [Users -> Attempts], locked' \in [Users -> Lockout],
             guesses' \in [Users -> Nat],
             \A v \in Users : locked'[v] = None => attempts'[v] < MaxAttempts,
             ThrottleIsExact'
      PROVE  GateInv'
  <2>1. /\ mutex' \in Clients \cup {None} /\ login' \in [Clients -> Login \cup {None}]
        /\ InsideHolds' /\ \A d \in Clients : ~At(d, "compare")'
    BY <1>0, <1>9, AnswerStep
  <2>2. CountsTyped' /\ ReadIsFresh'
    BY <1>9, <2>1 DEF CountsTyped, ReadIsFresh
  <2>3. QED BY <1>9, <2>1, <2>2 DEF GateInv
<1>10. ASSUME NEW c \in Clients, WrongPassword(c) PROVE GateInv'
  <2>1. login[c] # None /\ login[c].step = "compare" /\ Answer(c)
    BY <1>10 DEF WrongPassword, At
  <2>2. PICK u \in Users : u = login[c].user
    BY <1>0, <2>1, LoginType
  <2>3. PICK n \in Attempts : n = login[c].seen + 1
    BY <1>0, <2>1, LoginType, GateAssumptions DEF CountsTyped, At, Attempts
  <2>4. WriteThrottle(u, n, LockAfter(u, n)) /\ Guessed(u, guesses[u] + 1)
    BY <1>10, <2>2, <2>3 DEF WrongPassword
  <2>5. LockAfter(u, n) \in Lockout /\ (LockAfter(u, n) = None => n < MaxAttempts)
    BY <1>0, GateAssumptions DEF LockAfter, Lockout, Attempts, CountsTyped
  <2>6. guesses[u] + 1 \in Nat
    BY <1>0 DEF CountsTyped
  <2>7. u \notin lost => guesses[u] + 1 = n /\ (LockAfter(u, n) # None <=> n = MaxAttempts)
    <3> SUFFICES ASSUME u \notin lost
                 PROVE  guesses[u] + 1 = n /\ (LockAfter(u, n) # None <=> n = MaxAttempts)
      OBVIOUS
    <3>1. login[c].seen = attempts[u] /\ locked[u] = None /\ attempts[u] = guesses[u]
      BY <1>0, <2>1, <2>2 DEF ReadIsFresh, ThrottleIsExact, At
    <3>2. LockAfter(u, n) # None <=> n >= MaxAttempts
      BY <3>1, GateAssumptions DEF LockAfter
    <3>3. n \in 0 .. MaxAttempts
      BY DEF Attempts
    <3>4. QED BY <2>3, <3>1, <3>2, <3>3, GateAssumptions
  <2>8. QED BY <1>0, <1>9, <2>1, <2>4, <2>5, <2>6, <2>7, WriteStep
<1>11. ASSUME NEW c \in Clients, RightPassword(c) PROVE GateInv'
  <2>1. login[c] # None /\ login[c].step = "compare" /\ Answer(c)
    BY <1>11 DEF RightPassword, At
  <2>2. PICK u \in Users : u = login[c].user
    BY <1>0, <2>1, LoginType
  <2>3. Guessed(u, 0)
    BY <1>11, <2>2 DEF RightPassword
  <2>4. 0 \in Attempts /\ None \in Lockout /\ 0 < MaxAttempts /\ 0 # MaxAttempts
    BY GateAssumptions DEF Attempts, Lockout
  <2>5. CASE login[c].seen > 0
    <3>1. WriteThrottle(u, 0, None)
      BY <1>11, <2>2, <2>5 DEF RightPassword
    <3>2. QED BY <1>0, <1>9, <2>1, <2>3, <2>4, <3>1, WriteStep
  <2>6. CASE ~(login[c].seen > 0)
    <3>1. UNCHANGED <<attempts, locked, lost>>
      BY <1>11, <2>6 DEF RightPassword
    <3>2. login[c].seen = 0
      BY <1>0, <2>1, <2>6, LoginType, GateAssumptions DEF Attempts
    <3>3. guesses' \in [Users -> Nat] /\ \A v \in Users \ {u} : guesses'[v] = guesses[v]
      BY <1>0, <2>3 DEF Guessed, CountsTyped
    <3>4. u \notin lost => guesses'[u] = 0 /\ guesses[u] = 0
      BY <1>0, <2>1, <2>2, <2>3, <3>1, <3>2
      DEF Guessed, CountsTyped, ReadIsFresh, ThrottleIsExact, At
    <3>5. ThrottleIsExact'
      BY <1>0, <3>1, <3>3, <3>4 DEF ThrottleIsExact
    <3>6. /\ attempts' \in [Users -> Attempts] /\ locked' \in [Users -> Lockout]
          /\ \A v \in Users : locked'[v] = None => attempts'[v] < MaxAttempts
      BY <1>0, <3>1 DEF CountsTyped
    <3>7. QED BY <1>9, <2>1, <3>3, <3>5, <3>6
  <2>7. QED BY <2>5, <2>6
<1>12. QED
  BY <1>u, <1>1, <1>2, <1>3, <1>4, <1>5, <1>6, <1>7, <1>8, <1>10, <1>11 DEF GateNext, Handle

\* In release mode the account is locked after exactly MaxAttempts wrong passwords in a
\* row, however many logins arrive together, although the count is read and written in
\* statements of their own: the limiter's mutex, held through the handler, orders them.
THEOREM ExactBehindMutex ==
  ASSUME Release = TRUE
  PROVE  GateSafe => []ThrottleIsExact
<1>1. GateInv /\ [GateNext]_gateVars => GateInv'
  BY GateInvStep
<1>2. GateInv => ThrottleIsExact
  BY DEF GateInv
<1>3. QED BY GateInvInit, <1>1, <1>2, PTL DEF GateSafe

-----------------------------------------------------------------------------
(* RateLimiter is a sliding window.                                        *)

\* Induction over the subsets of a finite set; F is the set of those that have a property.
LEMMA SubsetsInduction ==
  ASSUME NEW S, IsFiniteSet(S), NEW F,
         \A T \in SUBSET S : (\A U \in SUBSET T : U # T => U \in F) => T \in F
  PROVE  \A T \in SUBSET S : T \in F
<1> DEFINE Bad == (SUBSET S) \ F
<1> SUFFICES ASSUME Bad # {} PROVE FALSE
  OBVIOUS
<1>1. IsWellFoundedOn(StrictSubsetOrdering(S), SUBSET S)
  <2>1. IsWellFoundedOn(StrictSubsetOrdering(S), FiniteSubsetsOf(S))
    BY FS_StrictSubsetOrderingWellFounded
  <2>2. FiniteSubsetsOf(S) = SUBSET S
    BY FS_FiniteSubsetsOfFinite
  <2>3. QED BY <2>1, <2>2
<1>2. Bad \subseteq SUBSET S
  OBVIOUS
<1>3. PICK T \in Bad : \A U \in Bad : <<U, T>> \notin StrictSubsetOrdering(S)
  <2> HIDE DEF Bad
  <2>1. QED BY <1>1, <1>2, WFMin
<1>4. ASSUME NEW U \in SUBSET T, U # T PROVE U \in F
  <2>1. <<U, T>> \in StrictSubsetOrdering(S)
    BY <1>3, <1>4 DEF StrictSubsetOrdering
  <2>2. QED BY <1>3, <1>4, <2>1
<1>5. QED BY <1>3, <1>4

\* h gives the sum of f over each subset of S, taking one element at a time.
Sums(f, S, h) ==
  h = [T \in SUBSET S |->
        IF T = {} THEN 0 ELSE LET x == CHOOSE x \in T : TRUE IN f[x] + h[T \ {x}]]

\* A function that is zero everywhere sums to zero.
LEMMA ZeroSum ==
  ASSUME NEW f, IsFiniteSet(DOMAIN f), \A x \in DOMAIN f : f[x] = 0
  PROVE  SumFunction(f) = 0
<1> DEFINE S == DOMAIN f
           zero == [T \in SUBSET S |-> 0]
           h == CHOOSE g : Sums(f, S, g)
<1>1. SumFunction(f) = h[S]
  BY DEF SumFunction, SumFunctionOnSet, FoldFunctionOnSet, MapThenFoldSet, Sums
<1>2. Sums(f, S, zero)
  <2>1. \A T \in SUBSET S : T # {} => (CHOOSE x \in T : TRUE) \in T
    OBVIOUS
  <2>2. \A T \in SUBSET S :
          zero[T] = IF T = {} THEN 0
                    ELSE LET x == CHOOSE x \in T : TRUE IN f[x] + zero[T \ {x}]
    BY <2>1
  <2>3. QED BY <2>2 DEF Sums
<1>3. Sums(f, S, h)
  BY <1>2
<1> HIDE DEF h
<1> DEFINE F == {T \in SUBSET S : h[T] = 0}
<1>4. ASSUME NEW T \in SUBSET S, \A U \in SUBSET T : U # T => U \in F
      PROVE  T \in F
  <2>1. CASE T = {}
    BY <1>3, <2>1 DEF Sums
  <2>2. CASE T # {}
    <3>1. PICK x \in T : x = (CHOOSE y \in T : TRUE)
      BY <2>2
    <3>2. h[T] = f[x] + h[T \ {x}]
      BY <1>3, <2>2, <3>1 DEF Sums
    <3>3. T \ {x} \in F
      BY <1>4, <3>1
    <3>4. QED BY <3>1, <3>2, <3>3
  <2>3. QED BY <2>1, <2>2
<1> HIDE DEF F
<1>5. \A T \in SUBSET S : T \in F
  BY <1>4, SubsetsInduction
<1>6. S \in F
  BY <1>5
<1>7. QED BY <1>1, <1>6 DEF F

\* What the limiter counts of a list, or of a missing one.
Count(ages) == [a \in 0 .. Window - 1 |-> IF ages = None THEN 0 ELSE ages[a]]

Steps == {"wait", "read", "reset", "compare"}

\* The types the counting needs.
GateTyped ==
  /\ requests \in [Ips -> Ages \cup {None}]
  /\ attempts \in [Users -> Nat]
  /\ login \in [Clients -> [ip: Ips, user: Users, step: Steps, seen: Nat] \cup {None}]

\* The abstract list, before and after a step.
LEMMA CountedIs ==
  /\ Counted = [ip \in Ips |-> Count(requests[ip])]
  /\ Counted' = [ip \in Ips |-> Count(requests'[ip])]
<1>1. \A ip \in Ips : Valid(Filtered(ip)) = Count(requests[ip])
  BY GateAssumptions DEF Valid, Filtered, Count
<1>2. \A ip \in Ips : Valid(Filtered(ip))' = Count(requests'[ip])
  BY GateAssumptions DEF Valid, Filtered, Count
<1>3. QED BY <1>1, <1>2 DEF Counted

\* Where a request is, before and after a step.
View(l) == IF l = None THEN None ELSE [ip |-> l.ip, inside |-> l.step # "wait"]

LEMMA VisitsIs ==
  /\ Visits = [c \in Clients |-> View(login[c])]
  /\ Visits' = [c \in Clients |-> View(login'[c])]
BY DEF Visits, View

\* A step of one client's request that ends up elsewhere.
LEMMA VisitMoves ==
  ASSUME NEW c \in Clients, NEW v, login' = [login EXCEPT ![c] = v]
  PROVE  Visits' = [Visits EXCEPT ![c] = View(login'[c])]
<1>1. \A d \in Clients \ {c} : login'[d] = login[d]
  OBVIOUS
<1>2. QED BY <1>1, VisitsIs

\* The abstract sum is the limiter's.
LEMMA FreeIs ==
  ASSUME NEW ip \in Ips
  PROVE  SW!Free(ip) <=> SumFunction(Counted[ip]) < Limit
<1>1. SW!SumFunction(Counted[ip]) = SumFunction(Counted[ip])
  BY DEF SW!SumFunction, SW!SumFunctionOnSet, SW!FoldFunctionOnSet, SW!MapThenFoldSet,
         SumFunction, SumFunctionOnSet, FoldFunctionOnSet, MapThenFoldSet
<1>2. QED BY <1>1 DEF SW!Free

\* A missing list is an empty one: its count is zero.
LEMMA CountNone ==
  SumFunction(Count(None)) = 0
<1>1. IsFiniteSet(0 .. Window - 1)
  BY FS_Interval, GateAssumptions
<1>2. DOMAIN Count(None) = 0 .. Window - 1 /\ \A a \in 0 .. Window - 1 : Count(None)[a] = 0
  BY DEF Count
<1>3. QED BY <1>1, <1>2, ZeroSum

\* Filtering and entering.
LEMMA FilteredType ==
  ASSUME GateTyped, NEW ip \in Ips
  PROVE  /\ Filtered(ip) \in Ages /\ Count(Filtered(ip)) = Count(requests[ip])
         /\ Entered(ip) \in Ages
         /\ Count(Entered(ip)) = [Count(requests[ip]) EXCEPT ![0] = @ + 1]
<1>1. requests[ip] = None \/ requests[ip] \in [0 .. Window -> Nat]
  BY DEF GateTyped, Ages
<1>2. Filtered(ip) \in [0 .. Window -> Nat]
  BY <1>1, GateAssumptions DEF Filtered
<1>3. None \notin [0 .. Window -> Nat] /\ 0 \in 0 .. Window - 1 /\ 0 .. Window - 1 \subseteq 0 .. Window
  BY GateAssumptions DEF Ages
<1>4. \A a \in 0 .. Window - 1 : Filtered(ip)[a] = Count(requests[ip])[a]
  BY GateAssumptions DEF Filtered, Count
<1>5. Count(Filtered(ip)) = Count(requests[ip])
  BY <1>2, <1>3, <1>4 DEF Count
<1>6. Entered(ip) \in [0 .. Window -> Nat]
  BY <1>2, <1>3 DEF Entered
<1>7. Count(Entered(ip)) = [a \in 0 .. Window - 1 |-> Entered(ip)[a]]
  BY <1>3, <1>6 DEF Count
<1>8. \A a \in 0 .. Window - 1 :
        Entered(ip)[a] = IF a = 0 THEN Filtered(ip)[0] + 1 ELSE Filtered(ip)[a]
  BY <1>2, <1>3 DEF Entered
<1>9. Count(Entered(ip)) = [Count(requests[ip]) EXCEPT ![0] = @ + 1]
  <2>1. Count(requests[ip]) = [a \in 0 .. Window - 1 |-> Count(requests[ip])[a]]
    BY DEF Count
  <2>2. QED BY <1>3, <1>4, <1>7, <1>8, <2>1
<1>10. QED BY <1>2, <1>5, <1>6, <1>9 DEF Ages

\* Getting older.
LEMMA OlderType ==
  ASSUME NEW ages \in Ages
  PROVE  /\ Older(ages) \in Ages
         /\ Count(Older(ages)) =
              [a \in 0 .. Window - 1 |-> IF a = 0 THEN 0 ELSE Count(ages)[a - 1]]
<1>1. \A a \in 0 .. Window : a # 0 => a - 1 \in 0 .. Window - 1
  BY GateAssumptions
<1>2. Older(ages) \in Ages
  BY <1>1, GateAssumptions DEF Older, Ages
<1>3. ages # None /\ Older(ages) # None
  BY <1>2, GateAssumptions
<1>4. \A a \in 0 .. Window - 1 : Older(ages)[a] = IF a = 0 THEN 0 ELSE ages[a - 1]
  BY GateAssumptions DEF Older
<1>5. \A a \in 0 .. Window - 1 : a # 0 => Count(ages)[a - 1] = ages[a - 1]
  BY <1>1, <1>3, GateAssumptions DEF Count
<1>6. QED BY <1>2, <1>3, <1>4, <1>5 DEF Count

\* A login that goes on to another step keeps its address and its user.
LEMMA GoTyped ==
  ASSUME GateTyped, NEW c \in Clients, login[c] # None, NEW s \in Steps, NEW n \in Nat,
         login' = [login EXCEPT ![c].step = s, ![c].seen = n]
  PROVE  login' \in [Clients -> [ip: Ips, user: Users, step: Steps, seen: Nat] \cup {None}]
<1>1. login[c] \in [ip: Ips, user: Users, step: Steps, seen: Nat]
  BY DEF GateTyped
<1>2. [login[c] EXCEPT !.step = s, !.seen = n] \in [ip: Ips, user: Users, step: Steps, seen: Nat]
  BY <1>1
<1>3. login' = [login EXCEPT ![c] = [login[c] EXCEPT !.step = s, !.seen = n]]
  OBVIOUS
<1>4. QED BY <1>2, <1>3 DEF GateTyped

\* An address with an entry is let in exactly when it has room, and one without has room.
LEMMA AdmittedIs ==
  ASSUME GateTyped, NEW ip \in Ips
  PROVE  Admitted(ip) <=> SW!Free(ip)
<1>1. CASE requests[ip] = None
  <2>1. Counted[ip] = Count(None)
    BY <1>1, CountedIs
  <2>2. QED BY <1>1, <2>1, CountNone, FreeIs, GateAssumptions DEF Admitted
<1>2. CASE requests[ip] # None
  <2>1. Counted[ip] = Valid(requests[ip])
    BY <1>2, CountedIs DEF Count, Valid
  <2>2. QED BY <1>2, <2>1, FreeIs DEF Admitted
<1>3. QED BY <1>1, <1>2

\* The types hold at the start, when nothing counts and nobody asks.
LEMMA WindowInitially == GateInit => GateTyped /\ SW!WindowInit
<1> SUFFICES ASSUME GateInit PROVE GateTyped /\ SW!WindowInit
  OBVIOUS
<1>1. GateTyped
  BY DEF GateInit, GateTyped
<1>2. \A ip \in Ips : Count(requests[ip]) = [a \in 0 .. Window - 1 |-> 0]
  BY DEF GateInit, Count
<1>3. \A c \in Clients : View(login[c]) = None
  BY DEF GateInit, View
<1>4. QED BY <1>1, <1>2, <1>3, CountedIs, VisitsIs DEF SW!WindowInit

\* In release mode every step keeps the types, and asks, passes or rejects a request, lets
\* one leave, lets a tick elapse or changes nothing the abstract window knows.
LEMMA WindowStep ==
  ASSUME Release, GateTyped, [GateNext]_gateVars
  PROVE  GateTyped' /\ [SW!WindowNext]_<<Counted, Visits>>
<1> DEFINE Logins == [ip: Ips, user: Users, step: Steps, seen: Nat]
<1>t. /\ requests \in [Ips -> Ages \cup {None}] /\ attempts \in [Users -> Nat]
      /\ login \in [Clients -> Logins \cup {None}]
  BY DEF GateTyped
<1>n. None \notin Logins
  BY GateAssumptions DEF Steps, Request
<1>k. ASSUME UNCHANGED requests PROVE UNCHANGED Counted
  BY <1>k, CountedIs
<1>v. ASSUME UNCHANGED login PROVE UNCHANGED Visits
  BY <1>v, VisitsIs
<1>u. CASE UNCHANGED gateVars
  BY <1>k, <1>v, <1>u DEF gateVars, GateTyped
<1>1. ASSUME NEW c \in Clients, ReceiveLogin(c) PROVE GateTyped' /\ SW!WindowNext
  <2>1. PICK ip \in Ips, u \in Users :
          login' = [login EXCEPT ![c] = [ip |-> ip, user |-> u, step |-> "wait", seen |-> 0]]
    BY <1>1 DEF ReceiveLogin
  <2>2. [ip |-> ip, user |-> u, step |-> "wait", seen |-> 0] \in Logins
    BY DEF Steps
  <2>3. login' \in [Clients -> Logins \cup {None}]
    BY <1>t, <2>1, <2>2
  <2>4. GateTyped'
    BY <1>1, <1>t, <2>3 DEF ReceiveLogin, GateTyped
  <2>5. Visits[c] = None /\ View(login'[c]) = SW!Waiting(ip)
    BY <1>1, <1>t, <1>n, <2>1, <2>2, VisitsIs DEF ReceiveLogin, View, SW!Waiting
  <2>6. Visits' = [Visits EXCEPT ![c] = SW!Waiting(ip)]
    BY <2>1, <2>5, VisitMoves
  <2>7. UNCHANGED Counted
    BY <1>1, <1>k DEF ReceiveLogin
  <2>8. QED BY <2>4, <2>5, <2>6, <2>7 DEF SW!Ask, SW!WindowNext
<1>2. ASSUME NEW c \in Clients, Enter(c)
      PROVE  GateTyped' /\ SW!WindowNext
  <2>1. /\ login[c] # None /\ login[c].step = "wait" /\ UNCHANGED attempts
        /\ login' = [login EXCEPT ![c].step = "read"]
    BY <1>2 DEF Enter, At
  <2>2. login[c] \in Logins /\ [login[c] EXCEPT !.step = "read"] \in Logins
    BY <1>t, <2>1 DEF Steps
  <2>3. login' \in [Clients -> Logins \cup {None}]
    BY <1>t, <2>1, <2>2
  <2>4. PICK ip \in Ips : ip = login[c].ip
    BY <2>2
  <2>5. Admitted(ip) /\ requests' = [requests EXCEPT ![ip] = Entered(ip)]
    BY <1>2, <2>4 DEF Enter
  <2>6. Entered(ip) \in Ages
    BY FilteredType
  <2>7. requests' \in [Ips -> Ages \cup {None}]
    BY <1>t, <2>5, <2>6
  <2>8. Count(requests'[ip]) = [Count(requests[ip]) EXCEPT ![0] = @ + 1]
    BY <1>t, <2>5, FilteredType
  <2>9. \A i \in Ips \ {ip} : requests'[i] = requests[i]
    BY <1>t, <2>5
  <2>10. Counted' = [Counted EXCEPT ![ip][0] = @ + 1]
    <3>1. Counted[ip] = Count(requests[ip]) /\ Counted \in [Ips -> {Count(requests[i]) : i \in Ips}]
      BY CountedIs
    <3>2. Counted' = [Counted EXCEPT ![ip] = [Count(requests[ip]) EXCEPT ![0] = @ + 1]]
      BY <2>8, <2>9, <3>1, CountedIs
    <3>3. QED BY <3>1, <3>2
  <2>11. login' = [login EXCEPT ![c] = [login[c] EXCEPT !.step = "read"]]
    BY <2>1
  <2>12. login'[c] = [login[c] EXCEPT !.step = "read"]
    BY <1>t, <2>11
  <2>13. Visits[c] = SW!Waiting(ip) /\ View(login'[c]) = SW!Inside(ip)
    <3>1. login'[c] \in Logins /\ login'[c].ip = ip /\ login'[c].step = "read"
      BY <2>2, <2>4, <2>12
    <3>2. login'[c] # None
      BY <1>n, <3>1
    <3>3. View(login[c]) = SW!Waiting(ip) /\ View(login'[c]) = SW!Inside(ip)
      BY <2>1, <2>4, <3>1, <3>2 DEF View, SW!Waiting, SW!Inside
    <3>4. QED BY <3>3, VisitsIs
  <2>14. Visits' = [Visits EXCEPT ![c] = SW!Inside(ip)]
    BY <2>11, <2>13, VisitMoves
  <2>15. SW!Pass(c, ip)
    BY <2>5, <2>10, <2>13, <2>14, AdmittedIs DEF SW!Pass
  <2>16. QED BY <1>t, <2>1, <2>3, <2>7, <2>15 DEF GateTyped, SW!WindowNext
\* A request that has been answered.
<1>a. ASSUME NEW c \in Clients, login[c] # None, login' = [login EXCEPT ![c] = None]
      PROVE  /\ login' \in [Clients -> Logins \cup {None}]
             /\ Visits' = [Visits EXCEPT ![c] = None]
             /\ login[c].ip \in Ips
             /\ login[c].step = "wait" => Visits[c] = SW!Waiting(login[c].ip)
             /\ login[c].step # "wait" => Visits[c] = SW!Inside(login[c].ip)
  <2>1. login' \in [Clients -> Logins \cup {None}] /\ login'[c] = None /\ login[c] \in Logins
    BY <1>t, <1>a
  <2>2. Visits' = [Visits EXCEPT ![c] = None]
    BY <1>a, <2>1, VisitMoves DEF View
  <2>3. QED BY <1>a, <2>1, <2>2, VisitsIs DEF View, SW!Waiting, SW!Inside
<1>3. ASSUME NEW c \in Clients, Refuse(c) PROVE GateTyped' /\ SW!WindowNext
  <2>1. /\ login[c] # None /\ login[c].step = "wait" /\ ~Admitted(login[c].ip)
        /\ login' = [login EXCEPT ![c] = None] /\ UNCHANGED <<requests, attempts>>
    BY <1>3 DEF Refuse, At
  <2>2. ~SW!Free(login[c].ip)
    BY <1>a, <2>1, AdmittedIs
  <2>3. SW!Reject(c, login[c].ip)
    BY <1>a, <1>k, <2>1, <2>2 DEF SW!Reject
  <2>4. QED BY <1>t, <1>a, <2>1, <2>3 DEF GateTyped, SW!WindowNext
<1>l. ASSUME NEW c \in Clients, login[c] # None, login[c].step # "wait",
             login' = [login EXCEPT ![c] = None], UNCHANGED requests
      PROVE  SW!WindowNext
  <2>1. SW!Leave(c, login[c].ip)
    BY <1>l, <1>a, <1>k DEF SW!Leave
  <2>2. QED BY <1>l, <1>a, <2>1 DEF SW!WindowNext
<1>4. ASSUME NEW c \in Clients, StillLocked(c) \/ Fail(c) PROVE GateTyped' /\ SW!WindowNext
  <2>1. /\ login[c] # None /\ login[c].step # "wait"
        /\ login' = [login EXCEPT ![c] = None] /\ UNCHANGED <<requests, attempts>>
    BY <1>4 DEF StillLocked, Fail, Answer, At
  <2>2. QED BY <1>t, <1>a, <1>l, <2>1 DEF GateTyped
<1>5. ASSUME NEW c \in Clients, WrongPassword(c) \/ RightPassword(c)
      PROVE  GateTyped' /\ SW!WindowNext
  <2>1. /\ login[c] # None /\ login[c].step # "wait" /\ UNCHANGED requests
        /\ login' = [login EXCEPT ![c] = None]
    BY <1>5 DEF WrongPassword, RightPassword, Answer, At
  <2>2. login[c].seen + 1 \in Nat
    BY <1>t, <2>1
  <2>3. attempts' \in [Users -> Nat]
    BY <1>5, <1>t, <2>2 DEF WrongPassword, RightPassword, WriteThrottle
  <2>4. QED BY <1>t, <1>a, <1>l, <2>1, <2>3 DEF GateTyped
<1>6. CASE Sweep
  <2>1. requests' = [ip \in Ips |-> Swept(ip)] /\ UNCHANGED <<attempts, login>>
    BY <1>6 DEF Sweep
  <2>2. \A ip \in Ips : Swept(ip) \in Ages \cup {None}
    BY FilteredType DEF Swept
  <2>3. ASSUME NEW ip \in Ips PROVE Count(Swept(ip)) = Count(requests[ip])
    <3>1. CASE \A a \in 0 .. Window : Filtered(ip)[a] = 0
      <4>1. Filtered(ip) # None
        BY FilteredType, GateAssumptions
      <4>2. Count(Filtered(ip)) = Count(None)
        BY <3>1, <4>1, GateAssumptions DEF Count
      <4>3. QED BY <3>1, <4>2, FilteredType DEF Swept
    <3>2. CASE ~ \A a \in 0 .. Window : Filtered(ip)[a] = 0
      BY <3>2, FilteredType DEF Swept
    <3>3. QED BY <3>1, <3>2
  <2>4. UNCHANGED Counted
    BY <2>1, <2>3, CountedIs
  <2>5. requests' \in [Ips -> Ages \cup {None}]
    BY <2>1, <2>2
  <2>6. QED BY <1>t, <1>v, <2>1, <2>4, <2>5 DEF GateTyped
<1>7. CASE Tick
  <2>1. /\ requests' = [ip \in Ips |-> IF requests[ip] = None THEN None ELSE Older(requests[ip])]
        /\ UNCHANGED <<attempts, login>>
    BY <1>7 DEF Tick
  <2>2. ASSUME NEW ip \in Ips
        PROVE  /\ requests'[ip] \in Ages \cup {None}
               /\ Count(requests'[ip]) = [a \in 0 .. Window - 1 |->
                    IF a = 0 THEN 0 ELSE Count(requests[ip])[a - 1]]
    <3>1. CASE requests[ip] = None
      <4>1. \A a \in 0 .. Window - 1 : a # 0 => a - 1 \in 0 .. Window - 1
        BY GateAssumptions
      <4>2. \A a \in 0 .. Window - 1 : a # 0 => Count(None)[a - 1] = 0
        BY <4>1 DEF Count
      <4>3. Count(None) = [a \in 0 .. Window - 1 |-> IF a = 0 THEN 0 ELSE Count(None)[a - 1]]
        BY <4>2 DEF Count
      <4>4. QED BY <2>1, <3>1, <4>3
    <3>2. CASE requests[ip] # None
      <4>1. requests[ip] \in Ages
        BY <1>t, <3>2
      <4>2. QED BY <2>1, <3>2, <4>1, OlderType
    <3>3. QED BY <3>1, <3>2
  <2>3. SW!Elapse
    BY <1>v, <2>1, <2>2, CountedIs DEF SW!Elapse
  <2>4. requests' \in [Ips -> Ages \cup {None}]
    BY <2>1, <2>2
  <2>5. QED BY <1>t, <2>1, <2>3, <2>4 DEF GateTyped, SW!WindowNext
\* A request that goes on inside the limiter.
<1>s. ASSUME NEW c \in Clients, NEW step \in Steps, NEW n \in Nat, login[c] # None,
             login[c].step # "wait", step # "wait",
             login' = [login EXCEPT ![c].step = step, ![c].seen = n]
      PROVE  UNCHANGED Visits
  <2>1. login' = [login EXCEPT ![c] = [login[c] EXCEPT !.step = step, !.seen = n]]
    BY <1>s
  <2>2. login[c] \in Logins /\ login'[c] = [login[c] EXCEPT !.step = step, !.seen = n]
    BY <1>t, <1>s, <2>1
  <2>3. login'[c] = [ip |-> login[c].ip, user |-> login[c].user, step |-> step, seen |-> n]
    BY <2>2
  <2>4. None # [ip |-> login[c].ip, user |-> login[c].user, step |-> step, seen |-> n]
    BY <1>n, <2>2
  <2>5. View(login'[c]) = View(login[c])
    BY <1>s, <2>3, <2>4 DEF View
  <2>6. Visits' = [Visits EXCEPT ![c] = Visits[c]]
    BY <2>1, <2>5, VisitMoves, VisitsIs
  <2>7. QED BY <2>6, VisitsIs
<1>8. ASSUME NEW c \in Clients, ReadUser(c) PROVE GateTyped' /\ UNCHANGED <<Counted, Visits>>
  <2>1. login[c] # None /\ UNCHANGED <<requests, attempts>>
    BY <1>8 DEF ReadUser, At
  <2>2. PICK u \in Users : u = login[c].user
    BY <1>t, <2>1
  <2>3. attempts[u] \in Nat /\ AfterRead(u) \in Steps
    BY <1>t DEF AfterRead, Steps
  <2>4. login' = [login EXCEPT ![c].step = AfterRead(u), ![c].seen = attempts[u]]
    BY <1>8, <2>2 DEF ReadUser
  <2>5. login' \in [Clients -> Logins \cup {None}]
    BY <2>1, <2>3, <2>4, GoTyped
  <2>6. UNCHANGED Visits
    <3>1. login[c].step # "wait"
      BY <1>8 DEF ReadUser, At
    <3>2. AfterRead(u) # "wait"
      BY DEF AfterRead
    <3>3. QED BY <1>s, <2>1, <2>3, <2>4, <3>1, <3>2
  <2>7. QED BY <1>t, <1>k, <2>1, <2>5, <2>6 DEF GateTyped
<1>9. ASSUME NEW c \in Clients, ResetThrottle(c) PROVE GateTyped' /\ UNCHANGED <<Counted, Visits>>
  <2>1. /\ login[c] # None /\ UNCHANGED requests
        /\ login' = [login EXCEPT ![c].step = "compare", ![c].seen = 0]
    BY <1>9 DEF ResetThrottle, At
  <2>2. login' \in [Clients -> Logins \cup {None}]
    BY <2>1, GoTyped DEF Steps
  <2>3. attempts' \in [Users -> Nat]
    BY <1>9, <1>t DEF ResetThrottle, WriteThrottle
  <2>4. UNCHANGED Visits
    <3>1. login[c].step # "wait"
      BY <1>9 DEF ResetThrottle, At
    <3>2. "compare" \in Steps /\ "compare" # "wait" /\ 0 \in Nat
      BY DEF Steps
    <3>3. QED BY <1>s, <2>1, <3>1, <3>2
  <2>5. QED BY <1>t, <1>k, <2>1, <2>2, <2>3, <2>4 DEF GateTyped
<1>10. QED
  BY <1>u, <1>1, <1>2, <1>3, <1>4, <1>5, <1>6, <1>7, <1>8, <1>9 DEF GateNext, Handle

\* In release mode, for any number of requests in flight, any addresses, limit and window:
\* the map with its missing entries, the filtering of a list only when its address asks
\* again and the sweep let a request pass when fewer than the limit have passed within the
\* window and refuse it when not.
THEOREM LimiterIsSlidingWindow == Release => (GateSafe => IsSlidingWindow)
<1> SUFFICES ASSUME Release PROVE GateSafe => IsSlidingWindow
  OBVIOUS
<1>1. GateTyped /\ [GateNext]_gateVars => GateTyped' /\ [SW!WindowNext]_<<Counted, Visits>>
  BY WindowStep
<1>2. QED BY WindowInitially, <1>1, PTL DEF GateSafe, IsSlidingWindow, SW!WindowSpec
=============================================================================
