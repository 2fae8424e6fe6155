# Finance Manager backend: TLA+ models and proofs

The service is a Go/Gin REST API over PostgreSQL (READ COMMITTED, pgx pool). Phones keep working
offline and send their writes later, so requests arrive late, twice and out of order; several
members of a group write the same rows; background jobs clean up beside them. These modules state
what must hold of the rows and of the money in them in spite of that.

## 1. The system

| Component (src/…) | State | Operations | Hard behaviour | What makes it correct |
|---|---|---|---|---|
| Group transactions (`internal/group/group_transactions.go`) | `group_transactions`, `group_transaction_splits`, linked `transactions` | create (upsert by client id), partial update, delete, list, get | checks outside the transaction, last-write-wins stamps, retries, lock order | splits add up; each share is one live row in its user's dashboard; newer writes win; deletes hide |
| Settlements (`internal/settlement`) | `settlements`, linked `transactions` | create, update, delete, get | debt read under READ COMMITTED, update against delete | only the excess over the debt is booked, as a matching pair; a delete of the settlement hides it |
| Money sums (`internal/helpers/db_helpers.go`, `internal/group/balances.go`) | none | balance of a member, pairwise debt, balances list | several statements, each with its own snapshot | the three computations agree; balances sum to zero |
| Membership (`internal/group/group.go`) | `groups`, `group_members` | create, rename, add, remove, leave, delete | leave or remove against a create in flight; the four statements of a delete against everything | no member leaves with a debt; a deletion of a group misses only what is created behind it; a deleted account leaves nothing |
| Personal transactions (`internal/transaction`) | `transactions` | upsert by client id, update, delete, list, export; daily purge | upsert of a row another handler owns; purge between requests | linked rows change with their owner only |
| Recurring (`internal/recurring`) | `recurring_transactions`, `recurring_skipped_occurrences` | create, update, delete; tick every 15 minutes; backfill | tick against delete, time zones, daylight saving | one row per rule and instant; a deleted occurrence stays deleted |
| Auth (`internal/auth`, `internal/middleware/jwt*.go`) | `users`, `email_verifications`, revocation cache | signup, login, logout, update, delete, verify, resend | cache against logout, whole-second tokens, counters read then written | `JWTAuth` refuses a revoked token; at most N wrong passwords in a row at POST `/auth/login` |
| Sync sessions (`internal/sync`) | `sync_sessions` | preflight, guard, idle expiry, purge | two logins at once, refresh after an invalidation, a job that first runs a day after the start | a login leaves one session; a dead one stays dead; one that idles ends |
| Categories (`internal/category`) | `custom_categories` | create, override, rename, delete with reassignment | a deletion of several statements; a write that resolved a category, or copied a key, before | only such a write leaves a row on a key that is gone; the catch-all stays |
| Rate limiter (`internal/middleware/rate_limiter.go`) | map of address to times, one mutex | request, sweep | mutex held during the handler | a sliding window; every login is answered |
| Reminders (`internal/notify`) | `device_tokens`, `last_reminded_at` | register, unregister, periodic reminders | job against settlement | nobody is reminded of a paid debt |
| Admin (`internal/admin`) | — | recurring backfill, predefined categories, deletion of accounts, tables | the backfill runs in UTC; a deletion of a category is five statements | see Recurring and Categories |
| Portal (`internal/portal`) | a cookie with a token | a login of its own, pages | its login and its cookie check know no throttle and no revocation | not modelled, see section 7 |
| Budget, dashboard, export, config, logging, e-mail, seed | scalars and read-only queries | — | — | — |

Components interact only through the database, with three exceptions in memory: the token
revocation cache, the rate limiter's map and the tickers of the jobs. `PROJECT.json` lists the
components with what is modelled of each, and the hazards at their lines.

## 2. Modules

`GroupState` holds the rows of one group (`gts`, `splits`, `setts`, `personal`, `members`,
`groupDeleted`), their types and the sums the handlers compute from them (`Balance`,
`PairwiseDebt`). It has no actions. Amounts are integers; `Unit` is the number of units in a cent,
so `Unit = 10` shows what `DECIMAL(12,2)` does to tenths of a cent (`Stored`).

`GroupTransactions` has the write handlers of `/groups/:id/transactions`.

| Code | Action |
|---|---|
| checks of POST, PATCH, DELETE (through the pool) | `ReceiveCreate`, `ReceiveUpdate`, `ReceiveDelete`: put the request in `pending[c]` |
| `db.WithTx` of POST and PATCH, with `applySplitsInPlace` | `CommitCreate`, `CommitUpdate` (`ApplySplits`, `SyncPersonal`) |
| the two statements of DELETE's transaction | `HideRows` (what the first one sees, and `NOW()`), `CommitDelete` |
| DELETE `/categories/:id` and the admin's deletion, which rewrite `category`: what the statement on shares sees, what the one on group transactions sees, the commit | `ReceiveRecat`, `RecatGroups`, `CommitRecat` |
| any error answer, rollback, lost connection, crash | `Abort` |
| POST `/transactions` with the id of a linked row | `UpsertTransaction` (if `DirectEdits`) |
| `purgeSoftDeleted`, its statements | `PurgeTransactions`, `PurgeGroupTransactions` (if `Purges`) |
| wall clock | `Tick`; a write's stamp is any time up to `clock + ClientLead` |

A create and an update lock the group transaction's row with their first statement, so no other of
them gets between their statements and their transaction is one step. A delete takes that lock
last, so its first statement is a step of its own. The deletion of a category is here for one reason:
it moves the rows of its owner only, so that a share and its group transaction come to differ.

`Settlements` has the write handlers of `/settlements`.

| Code | Action |
|---|---|
| checks of POST, PATCH, DELETE | `ReceiveSettlement`, `ReceiveSettUpdate`, `ReceiveSettDelete` |
| POST: `INSERT`, then `pairwiseDebt` | `InsertSettlement`: the debt is read here, the row is not yet visible |
| POST: rows and commit | `CommitSettlement` (`BookExcess`) |
| PATCH of the amount: `UPDATE` (row lock), `DELETE` of rows, `pairwiseDebt` | `RepriceSettlement` |
| PATCH of the amount: new rows and commit | `CommitReprice` (`BookExcess`) |
| PATCH of the notes | `CommitNotes` |
| DELETE's two statements | `HideSettRows`, `CommitSettDelete` |
| `DeleteGroup`: its checks; its statement on settlements; the commit | `ReceiveClose`, `CloseSettlements`, `CommitDeleteGroup` |
| errors, deadlocks, rollbacks | `SettAbort` |
| PATCH and DELETE `/transactions/:id` on a booked row | `UpdateTransaction`, `DeleteTransaction` (if `DirectEdits`) |
| the purge | `PurgeSettledRows`, `PurgeSettlements` (if `Purges`) |

`JwtRevocation` has the tokens of one user: what `JWTAuth` reads and what revokes.

| Code | Action |
|---|---|
| `JWTAuth`: `cache.Get` | `Present` (hit, expired or no entry), `DropExpired` |
| `JWTAuth`: `SELECT`, then `cache.Set` and the check | `ReadRevocation`, `StoreRevocation` |
| `Login` up to `generateToken` | `Login` |
| the `UPDATE` of `Login`, `Logout`, `UpdateMe` | `Revoke`, or `LoseRevoke` if it fails, since its error is ignored |
| `JWTCache.Invalidate` | `Wipe` |
| `createSyncSession` and the answer | `OpenSession` |
| `DeleteMe` | `DeleteAccount` |
| any other answer, a restart, time | `Answer`, `Restart`, `Tick` |

It shares no rows with the others: a request that passes `JWTAuth` goes on with only the
user's id. A `Second` has several instants, because a token carries whole seconds while the column
and `now()` are exact; the login's offset of one second exists for that difference. The clock stops
at `MaxTime` and cache entries still age then.

`GroupMembership` composes both group modules with what changes the members: it runs every action of
theirs (but the purge, the edits of `/transactions` and the deletions of categories, on which no balance
depends), adds what
accounts and the group's lock ask of them, and has these requests of its own, in `changing`.

| Code | Action |
|---|---|
| `AddMember`: checks, `INSERT` | `ReceiveAdd`, `CommitAdd` |
| `RemoveMember`, `LeaveGroup`: checks, `SELECT ... FOR UPDATE`, `DELETE` and commit | `ReceiveLeave`, `LockGroup`, `Depart` |
| the four statements of `getUserGroupBalance` | `ReadBalance`, four times |
| `DeleteMe`: checks, `DELETE FROM users` with its cascades | `ReceiveQuit`, `DeleteAccount` |
| `DeleteGroup`: the `UPDATE` of shares; of group transactions; of settlements; of the group, and the commit | `CloseGroup`; `CloseGts`; `CloseSetts`; `CommitClose` (`RowsClosed`, `GtsClosed`, `SettsClosed`) |
| any refusal, error or lost connection | `MemAbort` |
| foreign keys to `groups` and `users` in the other handlers | `CreateAllowed`, `UpdateAllowed`, the conjuncts of `SettStep` |

`Watched` marks, for the property only, a reader of a balance one of whose four sums has changed
under it in a way the group's lock cannot stop. A deletion of the group remembers what each of its
statements has seen; what others commit behind a statement it never takes. That the rows it has
updated are locked until it commits is modelled only where an update of a settlement holds the lock
first (`Locked`); elsewhere the others are let through, which only adds behaviours.

`RecurrenceDates` has the date arithmetic of `internal/recurring` as operators over day numbers:
`FiresToday` (scheduler), `AllMissedOccurrences` (backfill), `ComputeNextOccurrence` (shown to the
client), each translated from its own code, with the calendar, zones and clock changes they ask the
Go library for. The calendar is a closed form over all years (`Jan1`, `Month1` and their inverses
`YearOf`, `MonthOf`, `DayOf`), so that it can be evaluated and reasoned about. The one action, `Tick`,
is the scheduler's question of a day. The scheduler and the handlers ask in the user's zone; the
backfill's two callers pass `time.UTC` and no end date, which is `MissedInUtc`.

`Recurring` has the rules and their rows; a rule carries the set of days it fires on.

| Code | Action |
|---|---|
| `GenerateDueTransactions`: rules, skips, insert | `StartPass`, `ReadSkips`, `InsertOccurrence`, `EndPass` |
| the admin's backfill | `StartBackfill`, `BackfillOne`, `EndBackfill` |
| POST, PATCH, DELETE of a rule | `CreateRecurringTransaction`, `UpdateRecurringTransaction`, `DeleteRecurringTransaction` |
| POST, PATCH `/transactions` on a rule's row | `CreateTransaction` with `SyncRule`, `UpdateTransaction`, `UnlinkTransaction` |
| DELETE `/transactions/:id`: read, then delete and skip | `ReadForDelete`, `DeleteTransaction` |
| errors, restarts; time | `Abort`, `EndPass`; `NewDay` |

`removed` and `pass.gone` record what the user has deleted, for `DeletedStaysAway` only.

`Categories` has own categories, overrides, and the rows that carry a key.

| Code | Action |
|---|---|
| `ResolveCategoryKey` of every handler that stores a key; the write that follows | `Resolve`; `WriteOwn`, `WriteGroup` |
| PATCH of a group transaction without a category: its `UPDATE` returns the stored key; shares get it | `LoadGroup`; `WriteRegrouped` |
| the scheduler and the backfill: read a rule, insert an occurrence | `LoadRule`, `WriteOccurrence` |
| POST `/categories`; its override of a predefined one | `CreateCategory`; `FindPredefined`, `InsertOverride` |
| PATCH: find, guard of "other", update | `FindCategory`, `Guard`, `UpdateCategory` |
| DELETE: begin; an `UPDATE` per table; hide the category and commit; of an override | `DeleteCategory`; `Reassign`; `CommitDelete`; `ResetOverride` |
| the admin's predefined categories: create, show or hide | `AdminCreate`, `AdminSetHidden` |
| the admin's deletion: begin; an `UPDATE` per table; the overrides; the category and commit | `AdminHardDelete`; `Reassign`; `DeleteOverrides`; `CommitHardDelete` |
| a deletion fails; the tombstone purge | `AbortDeletion`; `PurgeCategoryTombstone` |
| rows deleted or given another category; errors | `Drop`; `Abort` |

`deleting` is the deletion under way: the rows its statements have taken are locked and others read them
as they were (`Shown`) until it commits. A deletion's last statement is about one row that nothing else
here depends on before the commit, and goes with it. A statement of a deletion that waits for the row a
PATCH has locked comes after it (`Held`).

`SyncSessions` has the sessions; every statement is a step.

| Code | Action |
|---|---|
| `Signup`; `Login`: `invalidateAllSessions`, `createSyncSession` | `ReceiveSignup`; `ReceiveLogin`, `KickSessions`, `OpenSession` |
| `SyncSessionGuard` and `Preflight`: validate, refresh | `ReceiveGuarded`, `Refresh` |
| `Logout`, `UpdateMe`, `DeleteMe` | `ReceiveOther`, `CommitLogout`, `CommitCredentials`, `CommitQuit` |
| the cleanup's two statements, with or without an error | `ExpireSessions`, `ExpireFails`, `PurgeSessions`, `PurgeFails` |
| days; a restart; errors | `Day`; `Restart`; `SyncAbort` |

`LoginGate` has the two throttles of a login, the limiter's map and mutex and the account's count of
failures, and `SlidingWindow` what a limiter promises. An address's list of times is how many requests
of each age it holds, for the code only counts and filters it; an address may also have no entry.
`SW == INSTANCE SlidingWindow WITH recent <- Counted, visits <- Visits` is the refinement: `Counted` keeps of the stored
ages the ones that still count, and none of a missing entry, and `Visits` keeps of a request whether it
waits or is past the limiter, so that a pass and a refusal are steps of `SlidingWindow` and neither is a
stutter.

| Code | Action |
|---|---|
| `RateLimiter`: lock, filter, admit or 429; `c.Next` returns | `Enter`, `Refuse`; `Answer` |
| the sweep | `Sweep` |
| `Login`: `SELECT`; still locked; the reset after a lockout; compare, and the `UPDATE`s | `ReadUser`; `StillLocked`; `ResetThrottle`; `WrongPassword`, `RightPassword` |
| any error answer; time | `Fail`; `Tick` |

`guesses` and `lost` record, for the property only, what was really guessed and for which account a
write of the count failed (its error is ignored).

The MC modules give the constants small values. The operators whose comment starts with "A mutant
of" are wrong versions of the definition after them; each breaks the property that `PROJECT.json`
names, which shows that the property depends on that code.

## 3. Runs

| Run | Instance | Shows |
|---|---|---|
| `GtConcurrent` | 2 requests in flight, 2 users, one of them the payer (`Payers`), 2 split lists, 2 totals, 2 values of `meta`, clock 0..1 | shares of live group transactions are shown, with their category, date and notes; last write wins; a repeated create changes nothing; what can break a sum or revive a share is exactly the known list |
| `GtPurge` | 1 request, the purge and direct edits of linked rows between its steps; deletions of a category | pointers, row ids and single counting survive |
| `SettSequential` | 1 request, 3 members, 2 settlements, hand edits of booked rows | payments are left unbooked up to the debt only; an update books exactly the excess; balance = sum of pairwise debts |
| `SettConcurrent` | 2 requests on 1 settlement, the deletion of the group among them, purge | booked rows are a matching pair or none; the only ways a row of a deleted settlement is shown |
| `SettPureClearing` | 1 request | a violation, see below |
| `Membership` | a group of 2 users from its creation; one request of each kind on one group transaction and one settlement | who departs is square with the group, but for a change between the four statements; a deleted group keeps only what was created behind the deletion's statements, a deleted account nothing |
| `Recurring` | 1 rule, 2 rows, 2 days, New York | no orphan, no double; what was deleted stays away; every due occurrence is entered |
| `RecurrenceDates` | 12 rules, 4 zones (UTC, one each far east and west of it, New York), 420 days with a leap day and three clock changes | scheduler (user's zone) and backfill (UTC, no end date) name the same days, but for exceptions that are spelled out; where a backfill resumes; the next occurrence shown is the next one |
| `Categories` | 2 users, 1 own key, "food" and "other", 1 request and 1 deletion at a time, 2 rows with a key (`MaxRefs`), 1 category or override (`MaxCats`) | which steps leave a row, an override or the catch-all as they should not be |
| `JwtTokens` | 2 requests, 2 instants to the second, three instants of clock, entries that live one instant | what makes the cache stale and what a login revives; a revoked token dies and a valid one is heard in spite of stale entries |
| `SyncSessions` | 2 users, 2 sessions, 2 requests, sessions that idle out after 1 day | one session per login; dead is dead; nobody ends another's; idling ends |
| `LoginGate` | 2 addresses, 2 logins on 1 account, limit 2, window 3, 3 attempts, lockout 2 | the limiter is a sliding window; the count is exact; every login is answered |

**Bounds.** Two users are enough for one share to be kept while another is added, removed or handed
over; three rows allow a replaced row beside the two in use; two requests allow every order of one
request's checks and commit around the other's. One group transaction suffices because no statement
of these handlers joins two of them. Two clock values give older, equal and newer stamps. In
`Membership` the races are between requests of different kinds, so one of each is in flight.
`Settlers` leaves out pairs that pay each other in no interesting way. For tokens, one request reads
while another writes; three instants hold two stamps of one second and the start of the next.
`RecurrenceDates` runs over more than a year so that every month end, 29 February and both clock
changes fall within it, one of them after the year's end (`FirstDay`, `LastDay`). In
`Recurring` two rows let a deleted occurrence and a new one exist at once, and `LastDay = 2` lets a
pass last past its day; it is the bound of `NewDay`, so `DueIsEntered` is about the last day for
ever. In `Categories` `MaxRefs` bounds the rows with a key, `MaxCats` the rows of `custom_categories`,
`Overriders` who overrides, and one deletion runs at a time: two of them touch rows of different keys or wait for each other.
In the two runs of `GroupTransactions` `Payers` leaves out that the other user pays: with one currency
and one group of members no outcome of a check depends on it. In
`SyncSessions` and `LoginGate` nothing bounds time: ages stop at the value after which the code does
not tell them apart (`IdleDays`, `KeepDays`, `Window`, `LockTime`).

**Symmetry and deadlock.** In the group and settlement runs client identities, row ids and
settlement ids are interchangeable and no expression chooses among them, so they are symmetry sets;
users are not (they have roles and currencies). Runs with liveness use no symmetry. Deadlock is not
checked where a bounded instance stops: all requests answered, no id free and the clock at its
bound. `JwtTokens` and `LoginGate` check it.

**Fairness.** A request may stop at any point (`Abort` and its like), which is also how crashes,
timeouts and deadlock victims appear; the safety properties assume no fairness. The liveness ones do:

* `JwtSpec`: weak fairness of each request's steps (`Serve`), since each runs in a goroutine of its
  own and every statement returns or fails, and of time. Nobody has to log in, log out or stop
  sending requests. `RevokedTokenDies` and `ValidTokenIsHeard` are `<>[]P => <>[]Q`: the column may
  change for ever, and only what stays so has to be noticed.
* `RecFairness`: the ticker starts a pass again and again and a pass ends (weak); a rule whose turn
  comes again and again is in the end read and inserted (strong), because a failing statement or a
  restart ends a pass before it, but not every time.
* `SyncFairness`: days pass and the cleanup comes to its end (weak); the process again and again
  stays up for a day and gets its first statement through (strong). Without that assumption a server
  that restarts daily expires nothing, for the job runs first a day after the start.
* `GateFairness`: a handler that has started goes on (weak), and a goroutine that waits for the
  mutex gets it (strong), which `sync.Mutex` does in its starvation mode.

**A violation.** `SettPureClearing` checks what settlement.go says of a payment that the debt covers
("no rows"). A create counts its own row as already paid, so a payment of exactly the debt is booked
as income and expense.

These variants of the runs also end in violations; the runs' own properties say precisely how far:

| Variant | Violated | Cause |
|---|---|---|
| `GtConcurrent` with `MCRepeats`, or with `Unit = 10` | `SplitsSumToTotal` | a user named twice, whose last amount is stored; the sum is checked before `DECIMAL(12,2)` rounds each share |
| `GtConcurrent` with `MCTwoCurrencies`, `MCOneShareEach` | `OneCurrency` | payer and splits are checked against what the other request replaces |
| `GtConcurrent` | `DeleteHidesShares` | a request checked before a delete commits its rows after it (`OnlyLateUpdateRevives`, proved below) |
| `GtConcurrent` with `Reassignments <- MCToOther`, the clauses "`Reassignments = {}`" dropped | `LiveSharesShown`, `RetryChangesNothing` | DELETE `/categories/:id` rewrites the caller's rows and the group transactions the caller paid: the shares of the other members keep the old key, and a create that is sent again changes them |
| `GtConcurrent` with `DirectEdits` | `LiveSharesShown` | POST `/transactions` overwrites a linked row that PATCH refuses |
| `SettSequential` with two requesters | `ClearsOnlyDebt` | both read the same debt |
| `JwtTokens` | `LoginKeepsToken` | a second ends between a login's token and its `UPDATE`; `QuickLoginKeepsToken` holds |
| `Recurring` with `Offset = 5` | `DeletedStaysAway` | the skip carries the server's date, which east of UTC is the day before the user's |
| `SyncSessions` with `OneLogin = FALSE` | `LoginLeavesOneSession` | two logins between their statements: the limiter's mutex is what keeps them apart |
| `LoginGate` with `Release = FALSE` | `ThrottleIsExact` | two failures are counted once |

## 4. Proofs

`GroupTransactionsProofs` proves, for any number of users, requests, ids, amounts and any clock:

| Theorem | Statement | Argument |
|---|---|---|
| `TypeCorrect` | `GtSpec => []GtTypeOK` | inductive by itself; the work is in `applySplitsInPlace`, whose result is typed by lemmas on `LastEntry`, `Stored` and `RowAfter` |
| `OwnRows` | `GtSpec => []SplitsPointAtOwnRow` | `OwnRowInv` adds the type; two splits never share a row, since a row has one user and one group transaction |
| `SharesShown` | without direct edits, `GtSpec => []LiveSharesShown` (its clause on category, date and notes: as long as no category is deleted) | `ShownInv` adds that linked rows are expenses and `OwnRowInv` |
| `OneRow` | if no request names a user twice or nothing is purged, `GtSpec => []OneLiveRowPerShare` | `OneRowInv`; without the purge it adds that every share has a row (`AllBound`) |
| `RowIdsStable` | `GtSpec => RowIdsPreserved` | one step lemma from `OwnRowInv` |
| `NewerWins` | `GtSpec => LastWriteWins` | one step lemma from the type |
| `LateUpdateRevives` | under the hypothesis of `OneRow`, `GtSpec => OnlyLateUpdateRevives` | one case per action, from `OneRowInv`: a row that shows is its split's, so who wrote the split wrote the row |
| `RetryIdempotent` | without direct edits, `GtSpec => RetryChangesNothing` (as long as no category is deleted) | from `ShownInv`: a create with the stamp and the values the rows have writes what is there, entry by entry of `applySplitsInPlace` |
| `ImbalanceKnown` | if shares are sent in whole cents, `GtSpec => OnlyKnownImbalance` | `SumInv` adds to `OwnRowInv` what a request in flight was checked for: its own total is the sum of its shares |

Each step lemma has one case per action. They rest on the assumptions `StateAssumptions` and
`GtAssumptions`, which only say that the parameters are of their kind, that ids and users are finite in
number, and that `None` and `NoRow` are no values of theirs; TLC evaluates them on every run.

`NoRepeatsOrNoPurge`, `DirectEdits = FALSE` and `WholeEntries` are hypotheses of the theorems and not
assumptions, because clients can break each of them and then the statement fails (section 3).
`WholeEntries` is no formality: the code checks the sum before the column rounds, so two
shares of half a cent pass for one cent and are stored as two.

**Sums.** The handlers' sums are folds over finite sets (`SumFunctionOnSet`). What is needed of them
(a sum is a natural number or an integer, changes with one entry by that entry, splits over disjoint
sets, is bounded entry by entry, is the sum of the sums of a partition, is a multiple of a cent if
its entries are) is proved once at the start of `GroupTransactionsProofs`, by well-founded induction
over the subsets of a finite set. The induction hypothesis is there the set of the subsets for which
the statement holds, which needs no operator parameter.

`GroupProofs` has the settlements and the membership. The first part proves, for any number of users,
requests, settlements and amounts and any opening ledger:

| Theorem | Statement | Argument |
|---|---|---|
| `SettTypeCorrect` | `SettSpec => []SettTypeOK` | not inductive by itself: a commit writes an amount whose `CHECK` ran when the request read the debt. `SettTypeInv` adds that what a request in flight will write is positive and what it will book is no more |
| `PairsMatch` | without direct edits, `SettSpec => []PairedRows` | `PairInv` |
| `BalancesAgree` | `SettSpec => []BalanceIsSumOfDebts` | from the types alone: the four sums of the balance are taken apart by the other member, group transaction and settlement, and put together again as debts |
| `RepriceRevives` | `SettSpec => OnlyRepriceRevives`: by a late update of the amount, by a delete that missed its rows, or by the deletion of the group, which hides no booked row | one case per action, from `SettTypeInv` |
| `RepriceBooksExcess` | `OneAtATime /\ WholeOpenings => (SettSpec => UpdateBooksExcess)` | `DebtInv` |
| `ClearsNoMore` | `OneAtATime /\ WholeOpenings => (SettSpec => ClearsOnlyDebt)` | `DebtInv`, and how much each kind of step adds to what is unbooked |

`PairInv` adds to the types and the pairs what the requests in flight know. An inserted settlement
belongs to one request and has no row before it commits (`NewSetts`); without that, two creates
could book rows for one settlement. An open delete has seen all the rows of its settlement or, if an
update has replaced them since, none of them (`SeenWhole`); without that, a delete could hide half a
pair. And booked rows belong to no group transaction (`MatchedRows`), or the purge could take one of
two. `ExcessBound` holds for any debt.

`DebtInv` adds to `SettTypeInv` that the tables hold whole cents (`WholeTables`) and that the excess a
request has computed is still the excess over the debt of the moment (`ReadsDebt`), which is what two
requests at once break, and that a deletion of the group has seen every settlement (`ClosesAll`); hence `OneAtATime`, the hypothesis that there is one requester, as in the run.
`WholeOpenings` says that the opening ledger is one `DECIMAL(12,2)` columns can hold. What clients send
is rounded, and the theorems hold for any `Unit`.

The second part cites the step lemmas of the two group modules for their requests and proves, for any
number of users, requests of the three kinds, rows and amounts:

| Theorem | Statement |
|---|---|
| `AccountsGone` | `MemSpec => []MemInv`: types, and nothing of a deleted account |
| `DeletedGroupStays` | `MemSpec => NothingRevivesInDeletedGroup`: what is left live got there by a create or an insert behind the deletion's statement on its table |
| `DeletedGroupHidden` | `MemSpec => ClosedGroupHidesShares` |
| `DepartedSquare` | `MemSpec => DepartsSettled` |

`AccountsInv` joins `OwnRowInv` and `SettTypeInv`, the invariants of the two modules, and adds two
facts they only need together. A row is a share or is booked by a settlement, never both
(`RowsApart`): without it a settlement could drop the row a split points at. The parties of a
settlement whose transaction is open have accounts (`PartiesStay`): without it the commit could book
a row for an account that is gone; the foreign keys' locks (`HoldsUser`) keep it. What a write does to
rows is stated once for each component, by `RowsFor` (new rows belong to users the request has
checked) and `BookedFor` (a settlement touches booked rows only).

`DepartInv` adds to `AccountsInv` what a reader of a balance knows: while a leave or removal has the
group locked no insert of a settlement is in flight, and what the reader has added up is the balance's
part of the statements that have run (`ReadSoFar`, in `ReadingInv`), unless `Watched` has marked it. An insert needs
the group's row for its foreign key, so it cannot get past that lock; only a change of a row that is
already there is excused, and for `DeleteMe`, which locks no group, any write.

`JwtRevocationProofs` proves, for any number of requests, any resolution of the clock and any life
of an entry, from `JwtAssumptions` (a second and an entry's life are positive, the clock starts
within its bound):

| Theorem | Statement | Argument |
|---|---|---|
| `JwtTypeCorrect` | `JwtSafe => []JwtTypeOK` | inductive by itself |
| `LateStoreGoesStale` | `JwtSafe => OnlyLateStoreGoesStale` | an `UPDATE` leaves its request about to wipe (`GoIs`), a wipe leaves no entry, every other step leaves both alone (`StaysFresh`) |
| `YoungTokensRevive` | `JwtSafe => OnlyYoungTokensRevive` | `ColumnStep`: what is written is at most a second old; `SecondOf`: a token's second starts no later than its stamp |
| `QuickLogin` | `JwtSafe => QuickLoginKeepsToken` | `SecondOf`: the clock is less than a second past the second it is in |

`JwtSafe` is `JwtSpec` without fairness, so they hold of `JwtSpec` too.

`RecurrenceDatesProofs` proves, for every schedule the columns can hold, any zone, year and span of
days, from `DateAssumptions`, which only types the parameters:

| Theorem | Statement | Argument |
|---|---|---|
| `BackfillAgrees` | `DatesSpec => []TicksMatchBackfill`: the user's scheduler and the backfill in UTC name the same dates, but for days past `end_date`, the day of the start, rules counted from a start with another date in UTC, and weekly rules without days where clocks change | `DatesInv`; a day the backfill misses is a day that is due (`MissedDays`); a rule that does not count from its start is due on the same dates in both zones (`SameDates`) |
| `BackfillResumesExactly` | `DatesSpec => []BackfillResumes`: resumed from the user's midnight it lists what comes after, and the same date again exactly when that midnight is on the day before in UTC | the same lemmas from any day on; `UtcDay`: the date in UTC of a midnight |
| `LateByADay` | `DatesSpec => []WeeklyDriftsOneDay` | the hours between two midnights differ from 24 a day by one at most |
| `ShownIsKept` | if every rule starts within five years of the first day, `DatesSpec => NextOccurrenceKept` | a rule fires within 14 days, 14 months or six years (`NextFires`), so each bounded search ends at the least day it fires on (`NextShown`) |

`DatesInv` says that `fired` is the set of the days before today on which the rule was due. Below it
are lemmas about the calendar: the closed form orders years, months and days (`YearOrder`,
`MonthOrder`), each day has exactly one date (`YearOfType`, `MonthOfType`, `DateOfDay`), and the local day
of an instant is defined in every zone (`StartOfDayType`). `StartsInView` is a hypothesis of `ShownIsKept` because the
handler looks five years ahead: a rule that starts later is shown no next occurrence until then, and
what it is shown first is no day it was shown before.

`RecurringProofs`, `CategoriesProofs`, `SyncSessionsProofs` and `LoginGateProofs`, for any number of
rules, rows, keys, users, sessions, addresses, requests and any limits:

| Theorem | Statement | Argument |
|---|---|---|
| `NothingOrphaned` | `RecSafe => []RecInv` | inductive by itself |
| `DeletedForGood` | on UTC or west of it, `RecSafe => DeletedStaysAway` | `DeletedInv` adds `SkipsRecorded` (what was deleted is in the skips while its rule is there; this needs the date of a local midnight to be the same day, hence `Offset <= 0`) and `PassKnows` (a rule in hand had no skip when the pass began) |
| `CatTypeCorrect` | `CatSpec => []CatTypeOK` | inductive by itself |
| `KeysAreOwn` | `CatSpec => []CatInv` | `OwnKeysInv` adds `WritesAreOwn`: what a request has looked up is its user's, and a key in use is never given to another |
| `StraysAreWritten` | `CatSpec => StrayOnlyByWrite`, a row behind the `UPDATE` of its table included | one case per action; what a commit leaves on its key it had missed before (`Missed`) |
| `OtherIsGuarded` | `CatSpec => OtherHiddenOnlyUnguarded` | `OtherInv` adds `OverridesGuarded` and `PatchesOther`: what the guard saw is still so when the update runs |
| `OrphansAreLate` | `CatSpec => OrphanOnlyByLateInsert`, an override behind the `DELETE` of the overrides included | one case per action |
| `SyncTypeCorrect` | `SyncSafe => []SyncTypeOK` | inductive by itself |
| `DeadForGood`, `OwnersEnd` | `SyncSafe => DeadStaysDead`, `SyncSafe => EndedByOwner` | from the type, one case per action |
| `OneSession` | with `OneLogin`, `SyncSafe => LoginLeavesOneSession` | `LoginInv` adds `AtMostOneLogin` and `KickedClean`: between its two statements the user of a login has no active session |
| `ExactBehindMutex` | in release mode, `GateSafe => []ThrottleIsExact` | `GateInv` adds `InsideHolds` (a login past the limiter holds the mutex) and `ReadIsFresh` (so the count it has read is still the stored one) |
| `LimiterIsSlidingWindow` | in release mode, `GateSafe => IsSlidingWindow` | step by step: `Enter` maps to a pass and only when there is room, `Refuse` to a rejection and only when there is none, `ReceiveLogin` to an ask, an answer to a leave, `Tick` to an elapse; the sweep and the statements inside the handler are stutters. `GateTyped` types the stored ages. `GateAssumptions` takes the limit as positive, for the code admits an address without an entry whatever the limit |

The `Safe` formulas are the specifications without fairness.

## 5. What is only model-checked

Liveness (`RevokedTokenDies`, `ValidTokenIsHeard`, `DueIsEntered`, `IdleEnds`, `LoginsAnswered`) and
`ENABLED`, which are out of the prover's reach. Every invariant and every action property of the passing
runs is stated by a theorem of section 4, some under the hypotheses named there, and the constants of
the run that checks it satisfy them (the variants of section 3 show what happens without). TLC in
turn checks what no theorem says: that the actions can all happen, and that each property breaks with
the mutant `PROJECT.json` names.

## 6. Abstractions

* One group. `GroupTransactions` and `Settlements` alone have members that stay;
  `Settlements` alone has group transactions that stay as they are until the group is deleted;
  `GroupMembership` lets all change. The purge of deleted groups is left out.
* Category, date, description and notes of a row are one value (`meta`); only the notes matter for
  rows of settlements. Keys of categories are in `Categories`, dates of occurrences in `Recurring`.
* A response is not modelled; a client that lost one sends the request again, which is another
  `Receive` of the same request.
* PostgreSQL: a statement sees what is committed when it starts, a row lock is held until the end
  of the transaction, a row that changed meanwhile is looked at again, a deadlock aborts one.
* The age of a soft-deleted row is left open: the purge may take any of them, but the rows of one
  settlement go together, as one transaction hid them.
* Ids from `gen_random_uuid` are ids that no row and no open request has.
* A payer, split user or party whose account is deleted becomes NULL; in `GroupMembership` it keeps
  its name and is no longer in `accounts`. Currencies do not change.
* `Recurring`: one user, one zone without clock changes (those are in `RecurrenceDates`).
* `JwtRevocation`: one user and one server process (each has its own cache). Signatures and the 24
  hours a token lives are left out, as are passwords: `Login` starts when the password was right.
  A request that the guard of sessions refuses ends with `Answer`. It is about requests through
  `JWTAuth`; see section 7 for the portal.
* `SyncSessions`: an administrator's deletion of an account (admin.go:562), which takes its sessions
  along, is left out.
* `RecurrenceDates`: weekly rules without days are in, although POST and a PATCH of the frequency
  refuse them: a PATCH of `days_of_week` alone lets the empty list in (recurring.go:94-97, 368, 472).
* `LoginGate`: logins at POST `/auth/login`, in release mode (outside it the limiter lets all pass); the other routes behind the limiter only take the mutex, like
  `Fail`.

## 7. Not modelled, and what is left

* The codes of e-mail verification (`auth.go`, resend and verify): attempts are read and written in
  two statements, like the login's count but without a mutex around them. The next module to write.
* The portal's login. POST `/dashboard/login` (portal.go:59, 89-126) compares the same passwords and
  issues tokens with neither the limiter nor the lockout nor the count, so `ThrottleIsExact` bounds wrong
  passwords at POST `/auth/login` only; and its cookie check (portal.go:179-193) verifies signature and
  expiry of the same kind of token without looking at the revocation column, so `RevokedTokenDies` is
  about `JWTAuth` only. The code has no mechanism there whose state could be modelled.
* The connection pool: `DeleteMe` and a create ask for a second connection while they hold one.
* `computeBalances` and `UpdateGroup`; the version check of personal rows that are linked to nothing.
* Reminders and device tokens, budget and dashboard, CSV export, most of the admin
  pages and the portal's pages behind its login: read-only queries, HTML and single statements. Seed data, configuration, logging, e-mail and
  start-up are I/O without state of their own.
