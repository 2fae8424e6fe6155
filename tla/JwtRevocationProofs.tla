------------------------- MODULE JwtRevocationProofs -------------------------
(***************************************************************************)
(* Proofs about JwtRevocation, for any number of requests, any length of a *)
(* second and of a cache entry's life.  None of them needs fairness, so    *)
(* they start from JwtSafe.                                                *)
(***************************************************************************)
EXTENDS JwtRevocation, TLAPS

\* The second an instant lies in: it starts no later and ends after the instant.
LEMMA SecondOf ==
  ASSUME NEW t \in Nat
  PROVE  /\ t \div Second \in Int
         /\ (t \div Second) * Second <= t
         /\ t < (t \div Second) * Second + Second
BY JwtAssumptions

\* What a writer puts in the column is an instant of the clock's range, and not
\* later than the clock.
LEMMA CutoffType ==
  ASSUME clock \in Instant, NEW o
  PROVE  CutoffOf(o) \in Cutoff /\ CutoffOf(o) \in Int /\ CutoffOf(o) >= clock - Second
BY JwtAssumptions DEF CutoffOf, Instant, Cutoff

\* One request's step keeps the requests' type.
LEMMA RequestType ==
  ASSUME JwtTypeOK, NEW r \in Requests, NEW q \in Request \cup {None},
         requests' = [requests EXCEPT ![r] = q]
  PROVE  requests' \in [Requests -> Request \cup {None}]
BY DEF JwtTypeOK

\* A request that stays in flight stays a request, whatever step it goes to.
LEMMA GoType ==
  ASSUME JwtTypeOK, NEW r \in Requests, requests[r] # None,
         NEW a \in {"drop", "read", "store", "in", "wipe", "open"},
         NEW v \in Cutoff \cup {None},
         \/ requests' = [requests EXCEPT ![r].at = a]
         \/ requests' = [requests EXCEPT ![r].at = a, ![r].value = v]
  PROVE  requests' \in [Requests -> Request \cup {None}]
<1>1. requests \in [Requests -> Request \cup {None}] /\ requests[r] \in Request
  BY DEF JwtTypeOK
<1>2. [requests[r] EXCEPT !.at = a] \in Request
  BY <1>1 DEF Request
<1>3. [requests[r] EXCEPT !.at = a, !.value = v] \in Request
  BY <1>1 DEF Request
<1>4. CASE requests' = [requests EXCEPT ![r].at = a]
  BY <1>1, <1>2, <1>4
<1>5. CASE requests' = [requests EXCEPT ![r].at = a, ![r].value = v]
  <2>1. requests' = [requests EXCEPT ![r] = [requests[r] EXCEPT !.at = a, !.value = v]]
    BY <1>1, <1>5
  <2>2. QED BY <1>1, <1>3, <2>1
<1>6. QED BY <1>4, <1>5

LEMMA TypeInit == JwtInit => JwtTypeOK
BY JwtAssumptions DEF JwtInit, JwtTypeOK, Instant, Cutoff

LEMMA TypeStep == JwtTypeOK /\ [JwtNext]_jwtVars => JwtTypeOK'
<1> SUFFICES ASSUME JwtTypeOK, [JwtNext]_jwtVars PROVE JwtTypeOK'
  OBVIOUS
<1>0. None \in Request \cup {None}
  OBVIOUS
<1>1. CASE UNCHANGED jwtVars
  BY <1>1 DEF JwtTypeOK, jwtVars
<1>2. ASSUME NEW r \in Requests, Present(r) PROVE JwtTypeOK'
  <2>1. PICK t \in tokens, o \in {"use", "revoke", "close"}, a \in {"in", "drop", "read"} :
          requests' = [requests EXCEPT ![r] = NewRequest(o, t, a)]
    BY <1>2 DEF Present
  <2>2. NewRequest(o, t, a) \in Request
    BY DEF NewRequest, Request, JwtTypeOK
  <2>3. QED BY <1>2, <2>1, <2>2, RequestType DEF Present, JwtTypeOK
<1>3. ASSUME NEW r \in Requests, Login(r) PROVE JwtTypeOK'
  <2>1. NewRequest("login", clock, "in") \in Request
    BY DEF NewRequest, Request, JwtTypeOK
  <2>2. QED BY <1>3, <2>1, RequestType DEF Login, JwtTypeOK
<1>4. ASSUME NEW r \in Requests, DropExpired(r) PROVE JwtTypeOK'
  BY <1>4, GoType DEF DropExpired, At, Go, JwtTypeOK
<1>5. ASSUME NEW r \in Requests, ReadRevocation(r) PROVE JwtTypeOK'
  BY <1>5, GoType DEF ReadRevocation, At, JwtTypeOK
<1>6. ASSUME NEW r \in Requests, StoreRevocation(r) PROVE JwtTypeOK'
  <2>1. requests[r] \in Request
    BY <1>6 DEF StoreRevocation, At, JwtTypeOK
  <2>2. cache' \in Entry \cup {None}
    BY <1>6, <2>1, JwtAssumptions DEF StoreRevocation, Entry, Request
  <2>3. requests' \in [Requests -> Request \cup {None}]
    BY <1>6, <1>0, GoType, RequestType DEF StoreRevocation, At, End
  <2>4. QED BY <1>6, <2>2, <2>3 DEF StoreRevocation, JwtTypeOK
<1>7. ASSUME NEW r \in Requests, Revoke(r) PROVE JwtTypeOK'
  BY <1>7, GoType, CutoffType DEF Revoke, At, Go, JwtTypeOK
<1>8. ASSUME NEW r \in Requests, LoseRevoke(r) PROVE JwtTypeOK'
  BY <1>8, GoType DEF LoseRevoke, At, Go, JwtTypeOK
<1>9. ASSUME NEW r \in Requests, Wipe(r) PROVE JwtTypeOK'
  <2>1. requests' \in [Requests -> Request \cup {None}]
    BY <1>9, <1>0, GoType, RequestType DEF Wipe, At, Go, End
  <2>2. QED BY <1>9, <2>1 DEF Wipe, JwtTypeOK
<1>10. ASSUME NEW r \in Requests, OpenSession(r) PROVE JwtTypeOK'
  BY <1>10, <1>0, RequestType DEF OpenSession, At, End, JwtTypeOK, Request
<1>11. ASSUME NEW r \in Requests, DeleteAccount(r) PROVE JwtTypeOK'
  BY <1>11, <1>0, RequestType DEF DeleteAccount, End, JwtTypeOK
<1>12. ASSUME NEW r \in Requests, Answer(r) PROVE JwtTypeOK'
  BY <1>12, <1>0, RequestType DEF Answer, End, JwtTypeOK
<1>13. CASE Restart
  BY <1>13 DEF Restart, JwtTypeOK
<1>14. CASE Tick
  BY <1>14, JwtAssumptions DEF Tick, JwtTypeOK, Instant, Cutoff, Entry
<1>15. QED
  BY <1>1, <1>2, <1>3, <1>4, <1>5, <1>6, <1>7, <1>8, <1>9, <1>10, <1>11, <1>12, <1>13, <1>14
     DEF JwtNext, Serve

\* The types of the clock, the column, the cache, the tokens and the requests.
THEOREM JwtTypeCorrect == JwtSafe => []JwtTypeOK
<1>1. QED BY TypeInit, TypeStep, PTL DEF JwtSafe

-----------------------------------------------------------------------------
\* Only an UPDATE writes the column, and it leaves an instant that is at most a
\* second behind the clock; a deleted user does not come back.
LEMMA ColumnStep ==
  ASSUME JwtTypeOK, [JwtNext]_jwtVars
  PROVE  /\ validAfter' # validAfter => validAfter' \in Int /\ validAfter' >= clock - Second
         /\ account' => account
<1>1. ASSUME NEW r \in Requests, Revoke(r)
      PROVE  validAfter' \in Int /\ validAfter' >= clock - Second /\ account' = account
  BY <1>1, CutoffType DEF Revoke, JwtTypeOK
<1>2. UNCHANGED jwtVars => validAfter' = validAfter /\ account' = account
  BY Zenon DEF jwtVars
<1>3. ASSUME NEW r \in Requests,
             \/ Present(r) \/ Login(r) \/ DropExpired(r) \/ ReadRevocation(r)
             \/ StoreRevocation(r) \/ LoseRevoke(r) \/ Wipe(r) \/ OpenSession(r) \/ Answer(r)
      PROVE  validAfter' = validAfter /\ account' = account
  BY <1>3, Zenon DEF Present, Login, DropExpired, ReadRevocation, StoreRevocation,
     LoseRevoke, Wipe, OpenSession, Answer
<1>4. ASSUME NEW r \in Requests, DeleteAccount(r)
      PROVE  validAfter' = validAfter /\ ~account'
  BY <1>4 DEF DeleteAccount
<1>5. Restart \/ Tick => validAfter' = validAfter /\ account' = account
  BY Zenon DEF Restart, Tick
<1>6. ASSUME NEW r \in Requests, Present(r) \/ Login(r) \/ Serve(r)
      PROVE  /\ validAfter' # validAfter => validAfter' \in Int /\ validAfter' >= clock - Second
             /\ account' = account \/ ~account'
  BY <1>1, <1>3, <1>4, <1>6, Zenon DEF Serve
<1>7. /\ validAfter' # validAfter => validAfter' \in Int /\ validAfter' >= clock - Second
      /\ account' = account \/ ~account'
  BY <1>2, <1>5, <1>6, Zenon DEF JwtNext
<1>8. QED
  BY <1>7

\* The token that a step revives was issued less than a second ago, because the
\* second it carries starts after the instant that is written.
LEMMA YoungStep ==
  ASSUME JwtTypeOK, [JwtNext]_jwtVars, NEW t \in tokens, Revoked(t), ~Revoked(t)'
  PROVE  clock - t < Second
<1>1. t \in Nat /\ clock \in Nat
  BY JwtAssumptions DEF JwtTypeOK, Instant
<1>2. account' /\ Newer(t, validAfter')
  BY DEF Revoked, Newer
<1>3. account /\ validAfter' # validAfter
  BY <1>2, ColumnStep DEF Revoked
<1>4. validAfter' \in Int /\ validAfter' >= clock - Second /\ validAfter' # None
  BY <1>3, ColumnStep, JwtAssumptions
<1>5. (t \div Second) * Second > validAfter'
  BY <1>2, <1>4 DEF Newer
<1>6. (t \div Second) * Second <= t /\ (t \div Second) * Second \in Int
  BY <1>1, SecondOf, JwtAssumptions
<1>7. QED BY <1>1, <1>4, <1>5, <1>6, JwtAssumptions

\* A token that stopped working works again only if it is less than a second old.
THEOREM YoungTokensRevive == JwtSafe => OnlyYoungTokensRevive
<1>1. JwtTypeOK /\ [JwtNext]_jwtVars
      => [\A t \in tokens : Revoked(t) /\ ~Revoked(t)' => clock - t < Second]_jwtVars
  BY YoungStep
<1>2. QED BY <1>1, JwtTypeCorrect, PTL DEF JwtSafe, OnlyYoungTokensRevive

-----------------------------------------------------------------------------
\* A login's own token carries a second that starts after the instant it writes, if
\* the clock is still in that second.
LEMMA QuickStep ==
  ASSUME JwtTypeOK, [JwtNext]_jwtVars, NEW r \in Requests,
         At(r, "in"), requests[r].op = "login", validAfter' # validAfter, At(r, "wipe")',
         clock \div Second = requests[r].tok \div Second
  PROVE  Newer(requests[r].tok, validAfter')
<1> DEFINE t == requests[r].tok
<1>1. t \in Nat /\ clock \in Nat
  BY JwtAssumptions DEF JwtTypeOK, Instant, At, Request
<1>2. Revoke(r)
  <2>1. PICK q \in Requests : Revoke(q)
    BY DEF JwtNext, jwtVars, Serve, Present, Login, DropExpired, ReadRevocation,
       StoreRevocation, LoseRevoke, Wipe, OpenSession, DeleteAccount, Answer, Restart, Tick
  <2>2. q = r
    BY <2>1 DEF Revoke, Go, At, JwtTypeOK
  <2>3. QED BY <2>1, <2>2
<1>3. validAfter' = clock - Second
  BY <1>2 DEF Revoke, CutoffOf
<1>4. clock < (clock \div Second) * Second + Second /\ (clock \div Second) * Second \in Int
  BY <1>1, SecondOf, JwtAssumptions
<1>5. (t \div Second) * Second > clock - Second
  BY <1>1, <1>4, JwtAssumptions
<1>6. QED BY <1>3, <1>5 DEF Newer

\* A login whose UPDATE runs in the second of its token does not revoke that token.
THEOREM QuickLogin == JwtSafe => QuickLoginKeepsToken
<1> DEFINE Kept ==
      \A r \in Requests :
        /\ At(r, "in") /\ requests[r].op = "login"
        /\ validAfter' # validAfter
        /\ At(r, "wipe")'
        /\ clock \div Second = requests[r].tok \div Second
        => Newer(requests[r].tok, validAfter')
<1>1. JwtTypeOK /\ [JwtNext]_jwtVars => [Kept]_jwtVars
  BY QuickStep
<1>2. QED BY <1>1, JwtTypeCorrect, PTL DEF JwtSafe, QuickLoginKeepsToken

-----------------------------------------------------------------------------
\* What the other steps do to a fresh entry: they leave it, the column and the
\* wipes to come as they are, or the entry goes.
LEMMA StaysFresh ==
  ASSUME JwtTypeOK, Fresh,
         \/ ~Hit'
         \/ /\ validAfter' = validAfter
            /\ Hit' => Hit /\ cache'.value = cache.value
            /\ \A r \in Requests : At(r, "wipe") => At(r, "wipe")'
         \/ \E r \in Requests : At(r, "wipe")'
  PROVE  Fresh'
BY DEF Fresh

\* A step of a request leaves the others where they are.
LEMMA OthersStay ==
  ASSUME JwtTypeOK, NEW r \in Requests, ~At(r, "wipe"), NEW q,
         requests' = [requests EXCEPT ![r] = q]
  PROVE  \A p \in Requests : At(p, "wipe") => At(p, "wipe")'
BY DEF At, JwtTypeOK

LEMMA GoIs ==
  ASSUME JwtTypeOK, NEW r \in Requests, requests[r] # None, Go(r, "wipe")
  PROVE  At(r, "wipe")'
<1>1. requests \in [Requests -> Request \cup {None}] /\ requests[r] \in Request
  BY DEF JwtTypeOK
<1>2. requests'[r] = [requests[r] EXCEPT !.at = "wipe"]
  BY <1>1 DEF Go
<1>3. requests'[r] \in Request /\ requests'[r].at = "wipe"
  BY <1>1, <1>2 DEF Request
<1>4. QED BY <1>3, JwtAssumptions DEF At

\* The entry goes stale in the store of a value that is not the column's, or not at
\* all: an UPDATE leaves its request about to wipe, and a wipe leaves no entry.
LEMMA StaleStep ==
  ASSUME JwtTypeOK, [JwtNext]_jwtVars, Fresh, ~Fresh'
  PROVE  \E r \in Requests :
           /\ At(r, "store") /\ requests[r].value # validAfter
           /\ cache' = [value |-> requests[r].value, left |-> TTL]
<1>1. CASE UNCHANGED jwtVars
  BY <1>1 DEF jwtVars, Fresh, Hit, At
<1>2. ASSUME NEW r \in Requests, Present(r) \/ Login(r) \/ ReadRevocation(r) \/ OpenSession(r)
                                 \/ DeleteAccount(r) \/ Answer(r)
      PROVE  FALSE
  <2>1. validAfter' = validAfter /\ cache' = cache /\ ~At(r, "wipe")
    BY <1>2, Zenon DEF Present, Login, ReadRevocation, OpenSession, DeleteAccount, Answer, At
  <2>2. \E q : requests' = [requests EXCEPT ![r] = q]
    BY <1>2 DEF Present, Login, ReadRevocation, OpenSession, DeleteAccount, Answer, End, JwtTypeOK
  <2>3. QED BY <2>1, <2>2, OthersStay, StaysFresh DEF Hit
<1>3. ASSUME NEW r \in Requests, DropExpired(r) \/ Wipe(r) PROVE FALSE
  BY <1>3, StaysFresh DEF DropExpired, Wipe, Hit
<1>4. ASSUME NEW r \in Requests, Revoke(r) \/ LoseRevoke(r) PROVE FALSE
  BY <1>4, GoIs, StaysFresh DEF Revoke, LoseRevoke, At
<1>5. ASSUME NEW r \in Requests, StoreRevocation(r)
      PROVE  /\ At(r, "store") /\ requests[r].value # validAfter
             /\ cache' = [value |-> requests[r].value, left |-> TTL]
  BY <1>5 DEF StoreRevocation, Fresh
<1>6. CASE Restart
  BY <1>6, StaysFresh DEF Restart, Hit
<1>7. CASE Tick
  <2>1. Hit' => Hit /\ cache'.value = cache.value
    BY <1>7 DEF Tick, Hit, JwtTypeOK, Entry
  <2>2. QED BY <1>7, <2>1, StaysFresh DEF Tick, At
<1>8. QED
  BY <1>1, <1>2, <1>3, <1>4, <1>5, <1>6, <1>7 DEF JwtNext, Serve

\* Only a late store makes the cache disagree with the column.
THEOREM LateStoreGoesStale == JwtSafe => OnlyLateStoreGoesStale
<1> DEFINE Late ==
      Fresh /\ ~Fresh' =>
        \E r \in Requests :
          /\ At(r, "store") /\ requests[r].value # validAfter
          /\ cache' = [value |-> requests[r].value, left |-> TTL]
<1>1. JwtTypeOK /\ [JwtNext]_jwtVars => [Late]_jwtVars
  BY StaleStep
<1>2. QED BY <1>1, JwtTypeCorrect, PTL DEF JwtSafe, OnlyLateStoreGoesStale
=============================================================================
