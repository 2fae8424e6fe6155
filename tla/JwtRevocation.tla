---------------------------- MODULE JwtRevocation ----------------------------
(***************************************************************************)
(* The bearer tokens of one user and what makes them stop working: the     *)
(* column users.tokens_invalidated_after, its in-memory cache, the JWTAuth *)
(* middleware that reads both, and the handlers that write the column      *)
(* (login, logout, a change of password or address) or delete the user.    *)
(*                                                                         *)
(* Requests run concurrently; a step is one statement or one locked access *)
(* to the cache.  Sync sessions are not part of this module: a request     *)
(* that one of their checks refuses ends with Answer.  Time has Second     *)
(* instants to the second: the column and now() are exact, a token carries *)
(* the second it was issued in.                                            *)
(***************************************************************************)
EXTENDS Integers

CONSTANTS
  Requests,  \* requests in flight at once
  Second,    \* instants in a second
  TTL,       \* instants a cache entry lives
  MaxTime,   \* bound on the clock
  None       \* NULL, no entry, no request

VARIABLES
  clock,
  account,     \* the user's row exists
  validAfter,  \* users.tokens_invalidated_after
  cache,       \* the user's entry in JWTRevocationCache
  tokens,      \* when the tokens in clients' hands were issued
  requests     \* what each request is about to do

jwtVars == <<clock, account, validAfter, cache, tokens, requests>>

-----------------------------------------------------------------------------
Instant == Second .. MaxTime
Cutoff == 0 .. MaxTime
Entry == [value: Cutoff \cup {None}, left: 0 .. TTL]

\* "use" is a request that leaves the column alone, "revoke" a logout or a change
\* of credentials, "close" DELETE /me.  at is the next step, tok the token that is
\* presented or, for a login, issued; value is what a lookup has read.
Request ==
  [op: {"use", "revoke", "close", "login"}, tok: Instant, value: Cutoff \cup {None},
   at: {"drop", "read", "store", "in", "wipe", "open"}]

ASSUME JwtAssumptions ==
  /\ Second \in Nat \ {0} /\ TTL \in Nat \ {0}
  /\ MaxTime \in Nat /\ MaxTime >= Second
  /\ None \notin Int \cup Request

NewRequest(o, t, a) == [op |-> o, tok |-> t, value |-> None, at |-> a]

\* A mutant of Newer: a token of the very instant passes (!Before for After).
NotOlder(t, v) == v # None => (t \div Second) * Second >= v

\* !claims.IssuedAt.After(v) refuses; a NULL column refuses nothing.
Newer(t, v) == v # None => (t \div Second) * Second > v

\* A mutant of Hit: Get does not look at expiresAt.
HitEvenExpired == cache # None

Hit == cache # None /\ cache.left > 0

At(r, a) == requests[r] # None /\ requests[r].at = a
Go(r, a) == requests' = [requests EXCEPT ![r].at = a]
End(r) == requests' = [requests EXCEPT ![r] = None]

-----------------------------------------------------------------------------
\* A user who has just signed up.
JwtInit ==
  /\ clock = Second
  /\ account = TRUE
  /\ validAfter = None
  /\ cache = None
  /\ tokens = {Second}
  /\ requests = [r \in Requests |-> None]

\* JWTAuth looks the user up in the cache.  A fresh entry that refuses the token
\* ends the request without a trace.
Present(r) ==
  /\ requests[r] = None
  /\ \E t \in tokens, o \in {"use", "revoke", "close"} :
       \/ /\ Hit /\ Newer(t, cache.value)
          /\ requests' = [requests EXCEPT ![r] = NewRequest(o, t, "in")]
       \/ /\ cache # None /\ ~Hit
          /\ requests' = [requests EXCEPT ![r] = NewRequest(o, t, "drop")]
       \/ /\ cache = None
          /\ requests' = [requests EXCEPT ![r] = NewRequest(o, t, "read")]
  /\ UNCHANGED <<clock, account, validAfter, cache, tokens>>

\* The entry was expired when it was read; by now it may be another one.
DropExpired(r) ==
  /\ At(r, "drop")
  /\ cache' = None
  /\ Go(r, "read")
  /\ UNCHANGED <<clock, account, validAfter, tokens>>

\* The SELECT finds no row once the user is deleted; then Answer ends the request.
ReadRevocation(r) ==
  /\ At(r, "read") /\ account
  /\ requests' = [requests EXCEPT ![r].at = "store", ![r].value = validAfter]
  /\ UNCHANGED <<clock, account, validAfter, cache, tokens>>

\* The value goes into the cache whether or not it lets the token in.
StoreRevocation(r) ==
  /\ At(r, "store")
  /\ cache' = [value |-> requests[r].value, left |-> TTL]
  /\ IF Newer(requests[r].tok, requests[r].value)
     THEN requests' = [requests EXCEPT ![r].at = "in", ![r].value = None]
     ELSE End(r)
  /\ UNCHANGED <<clock, account, validAfter, tokens>>

\* The password was right: the token is stamped before the column is written.
Login(r) ==
  /\ requests[r] = None /\ account
  /\ requests' = [requests EXCEPT ![r] = NewRequest("login", clock, "in")]
  /\ UNCHANGED <<clock, account, validAfter, cache, tokens>>

\* A mutant of CutoffOf: a login writes now(), like a logout.
CutoffNow(op) == clock

\* The instant a writer puts in the column.
CutoffOf(op) == IF op = "login" THEN clock - Second ELSE clock

Revoke(r) ==
  /\ At(r, "in") /\ requests[r].op \in {"revoke", "login"}
  /\ account
  /\ validAfter' = CutoffOf(requests[r].op)
  /\ Go(r, "wipe")
  /\ UNCHANGED <<clock, account, cache, tokens>>

\* The UPDATE fails, or finds no row, and its result is ignored.
LoseRevoke(r) ==
  /\ At(r, "in") /\ requests[r].op \in {"revoke", "login"}
  /\ Go(r, "wipe")
  /\ UNCHANGED <<clock, account, validAfter, cache, tokens>>

\* A mutant of Wipe: a login forgets JWTCache.Invalidate.
WipeButNotOnLogin(r) ==
  /\ At(r, "wipe")
  /\ IF requests[r].op = "login"
     THEN Go(r, "open") /\ cache' = cache
     ELSE End(r) /\ cache' = None
  /\ UNCHANGED <<clock, account, validAfter, tokens>>

Wipe(r) ==
  /\ At(r, "wipe")
  /\ cache' = None
  /\ IF requests[r].op = "login" THEN Go(r, "open") ELSE End(r)
  /\ UNCHANGED <<clock, account, validAfter, tokens>>

\* The session is inserted, which needs the user's row, and the token handed out.
OpenSession(r) ==
  /\ At(r, "open") /\ account
  /\ tokens' = tokens \cup {requests[r].tok}
  /\ End(r)
  /\ UNCHANGED <<clock, account, validAfter, cache>>

\* The entry in the cache stays.
DeleteAccount(r) ==
  /\ At(r, "in") /\ requests[r].op = "close"
  /\ account' = FALSE
  /\ End(r)
  /\ UNCHANGED <<clock, validAfter, cache, tokens>>

\* The request is answered with no further effect: it only used the token, or it is
\* refused (by the sync session guard, a conflict, a balance) or fails.
Answer(r) ==
  /\ \/ At(r, "read")
     \/ At(r, "in") /\ requests[r].op # "login"
     \/ At(r, "open")
  /\ End(r)
  /\ UNCHANGED <<clock, account, validAfter, cache, tokens>>

Restart ==
  /\ cache' = None
  /\ requests' = [r \in Requests |-> None]
  /\ UNCHANGED <<clock, account, validAfter, tokens>>

\* Entries age with the clock, and still do when it stands at its bound.
Tick ==
  /\ clock' = IF clock < MaxTime THEN clock + 1 ELSE clock
  /\ cache' = IF cache # None /\ cache.left > 0 THEN [cache EXCEPT !.left = @ - 1] ELSE cache
  /\ UNCHANGED <<account, validAfter, tokens, requests>>

\* What the server does for a request it has accepted.
Serve(r) ==
  \/ DropExpired(r) \/ ReadRevocation(r) \/ StoreRevocation(r)
  \/ Revoke(r) \/ LoseRevoke(r) \/ Wipe(r) \/ OpenSession(r) \/ DeleteAccount(r)
  \/ Answer(r)

JwtNext ==
  \/ \E r \in Requests : Present(r) \/ Login(r) \/ Serve(r)
  \/ Restart
  \/ Tick

JwtSafe == JwtInit /\ [][JwtNext]_jwtVars

\* Handlers run to their end and time passes; nobody has to send a request.
JwtSpec == JwtSafe /\ (\A r \in Requests : WF_jwtVars(Serve(r))) /\ WF_jwtVars(Tick)

-----------------------------------------------------------------------------
Revoked(t) == ~account \/ ~Newer(t, validAfter)

\* A request with the token is past JWTAuth, or the next one would be let in unread.
Used(t) ==
  \/ Hit /\ Newer(t, cache.value)
  \/ \E r \in Requests : At(r, "in") /\ requests[r].op # "login" /\ requests[r].tok = t

\* The cache agrees with the column, or a writer is about to wipe it.
Fresh == ~Hit \/ cache.value = validAfter \/ \E r \in Requests : At(r, "wipe")

-----------------------------------------------------------------------------
\* The type invariant.
JwtTypeOK ==
  /\ clock \in Instant
  /\ account \in BOOLEAN
  /\ validAfter \in Cutoff \cup {None}
  /\ cache \in Entry \cup {None}
  /\ tokens \in SUBSET Instant
  /\ requests \in [Requests -> Request \cup {None}]

\* The cache comes to disagree with the column only when a request stores a value it
\* has read before the column was written and the cache wiped (the gap between the
\* SELECT and cache.Set in JWTAuth); every write of the column is followed by a wipe.
OnlyLateStoreGoesStale ==
  [][Fresh /\ ~Fresh' =>
       \E r \in Requests :
         /\ At(r, "store") /\ requests[r].value # validAfter
         /\ cache' = [value |-> requests[r].value, left |-> TTL]]_jwtVars

\* A token that stopped working works again only if it is less than a second old:
\* a login sets the column back to one second ago, even just after a logout.
OnlyYoungTokensRevive ==
  [][\A t \in tokens : Revoked(t) /\ ~Revoked(t)' => clock - t < Second]_jwtVars

\* A login whose UPDATE runs in the second its token was stamped in does not revoke
\* that token.
QuickLoginKeepsToken ==
  [][\A r \in Requests :
       /\ At(r, "in") /\ requests[r].op = "login"
       /\ validAfter' # validAfter
       /\ At(r, "wipe")'
       /\ clock \div Second = requests[r].tok \div Second
       => Newer(requests[r].tok, validAfter')]_jwtVars

\* The same of every login, as the comment in Login has it ("still passes its own
\* After-check"), however long the statements between take.
LoginKeepsToken ==
  [][\A r \in Requests :
       /\ At(r, "in") /\ requests[r].op = "login"
       /\ validAfter' # validAfter
       /\ At(r, "wipe")'
       => Newer(requests[r].tok, validAfter')]_jwtVars

\* A token that is revoked for good, or whose user is gone, stops working, although
\* stale values reach the cache and requests keep coming.  This is about the requests
\* that go through JWTAuth: the portal checks a cookie's token by signature and expiry
\* alone and never looks at the column.
RevokedTokenDies == \A t \in Instant : <>[]Revoked(t) => <>[]~Used(t)

\* A token that stays valid is not turned away for ever by a stale value.
ValidTokenIsHeard ==
  \A t \in Instant : <>[]~Revoked(t) => <>[](Hit => Newer(t, cache.value))
=============================================================================
