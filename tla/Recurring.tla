------------------------------ MODULE Recurring ------------------------------
(***************************************************************************)
(* The life of recurring rules and of the occurrences they leave in the    *)
(* transactions table: the scheduler's pass, the admin's backfill, and the *)
(* handlers of /recurring-transactions and /transactions that change rules *)
(* and their rows.  One user; a pass handles its rules one after the other *)
(* and every statement of it is a step, so a delete may come in between.   *)
(*                                                                         *)
(* On which days a rule fires is worked out in RecurrenceDates; here it is *)
(* a set of days that the rule carries.  Instants are hours in UTC: the    *)
(* user's day d starts at Midnight(d), and the server's clock is on UTC.   *)
(* Only rows that are linked to a rule are kept in the model.              *)
(***************************************************************************)
EXTENDS Integers, FiniteSets

CONSTANTS
  Rules,      \* ids of recurring transactions
  TxIds,      \* ids of transactions
  Clients,    \* requests in flight at once
  Schedules,  \* sets of days that a client's schedule can fire on
  LastDay,    \* bound: the last day the model looks at
  Offset,     \* the user's zone, hours east of UTC
  Backfills,  \* TRUE if the admin runs backfills
  NoRow,      \* the absence of a row
  None        \* NULL, or no request

VARIABLES
  today,     \* the user's local day
  rules,     \* recurring_transactions
  rows,      \* transactions with a recurring_transaction_id
  skips,     \* recurring_skipped_occurrences: rule and DATE
  pass,      \* the scheduler's pass over the user's rules
  backfill,  \* the admin's backfill
  requests,  \* requests past their first statement
  removed    \* the rules and days whose occurrence the user has deleted

tables == <<rules, rows, skips>>
recVars == <<today, tables, pass, backfill, requests, removed>>

-----------------------------------------------------------------------------
Days == 1 .. LastDay

Midnight(d) == 24 * d - Offset
LocalDay(t) == (t + Offset) \div 24

\* pgx reads a TIMESTAMPTZ into the server's zone and writes a DATE from it.
DateOf(t) == t \div 24

Dates == {Midnight(d) : d \in Days} \cup {24 * d : d \in Days}

RuleRow == [days: Schedules, active: BOOLEAN, lastAdded: Dates \cup {None}]

TxRow == [rule: Rules, date: Dates]

\* The rules that are due and not handled yet, the one whose skips have been read,
\* and what had been deleted when the pass began.
Pass == [day: Days, todo: SUBSET Rules, cur: Rules \cup {None},
         gone: SUBSET (Rules \X Dates)]

Backfill == [rule: Rules, dates: SUBSET Dates]

DeleteTx == [op: {"delete"}, tx: TxIds, row: TxRow]
SyncLastAdded == [op: {"sync"}, row: TxRow]

ASSUME RecAssumptions ==
  /\ LastDay \in Nat \ {0} /\ Offset \in -11 .. 14 /\ Backfills \in BOOLEAN
  /\ Schedules \subseteq SUBSET Days
  /\ NoRow \notin RuleRow \cup TxRow
  /\ None \notin Int \cup Rules \cup Pass \cup Backfill \cup DeleteTx \cup SyncLastAdded

Unused ==
  {t \in TxIds : /\ rows[t] = NoRow
                 /\ \A c \in Clients : requests[c] \in DeleteTx => requests[c].tx # t}

\* gen_random_uuid; one unused id is as good as another.
NewId == CHOOSE t \in Unused : TRUE

\* UNIQUE (user_id, recurring_transaction_id, date)
Taken(r, x) == \E t \in TxIds : rows[t] # NoRow /\ rows[t].rule = r /\ rows[t].date = x

Due(r, d) == rules[r] # NoRow /\ rules[r].active /\ d \in rules[r].days

-----------------------------------------------------------------------------
(* GenerateDueTransactions.                                                *)

StartPass ==
  /\ pass = None
  /\ pass' = [day |-> today, todo |-> {r \in Rules : Due(r, today)}, cur |-> None,
              gone |-> removed]
  /\ UNCHANGED <<today, tables, backfill, requests, removed>>

\* A mutant of Skipped: the skips of the present day are read.
SkippedToday(r, d) == <<r, today>> \in skips

\* A mutant of Skipped: a rule with a skip is skipped for good.
SkippedForGood(r, d) == \E k \in skips : k[1] = r

Skipped(r, d) == <<r, d>> \in skips

\* loadSkippedDates
ReadSkips(r) ==
  /\ pass # None /\ pass.cur = None /\ r \in pass.todo
  /\ pass' = IF Skipped(r, pass.day) THEN [pass EXCEPT !.todo = @ \ {r}]
             ELSE [pass EXCEPT !.cur = r]
  /\ UNCHANGED <<today, tables, backfill, requests, removed>>

\* ON CONFLICT DO NOTHING.  A rule that is gone by now fails the foreign key, and
\* the error ends the pass over this user's rules.
InsertOccurrence(r) ==
  /\ pass # None /\ pass.cur = r
  /\ IF rules[r] = NoRow THEN pass' = None /\ UNCHANGED rows
     ELSE /\ pass' = [pass EXCEPT !.todo = @ \ {r}, !.cur = None]
          /\ \/ Taken(r, Midnight(pass.day)) /\ UNCHANGED rows
             \/ /\ ~Taken(r, Midnight(pass.day)) /\ Unused # {}
                /\ rows' = [rows EXCEPT ![NewId] = [rule |-> r, date |-> Midnight(pass.day)]]
  /\ UNCHANGED <<today, rules, skips, backfill, requests, removed>>

\* The last rule is done, a statement fails, or the server restarts.
EndPass ==
  /\ pass # None
  /\ pass' = None
  /\ UNCHANGED <<today, tables, backfill, requests, removed>>

NewDay ==
  /\ today < LastDay
  /\ today' = today + 1
  /\ UNCHANGED <<tables, pass, backfill, requests, removed>>

-----------------------------------------------------------------------------
(* The admin's backfill: in UTC, of inactive rules too, and without the    *)
(* skips.                                                                  *)

StartBackfill(r) ==
  /\ Backfills /\ backfill = None
  /\ rules[r] # NoRow
  /\ LET missed == {24 * d : d \in {x \in rules[r].days : x <= today}}
     IN  backfill' = [rule |-> r,
           dates |-> IF rules[r].lastAdded = None THEN missed
                     ELSE {t \in missed : DateOf(t) > DateOf(rules[r].lastAdded)}]
  /\ UNCHANGED <<today, tables, pass, requests, removed>>

\* Oldest first; an insert that fails is passed over.
BackfillOne ==
  /\ backfill # None
  /\ \E x \in backfill.dates :
       LET r == backfill.rule IN
       /\ \A t \in backfill.dates : x <= t
       /\ backfill' = [backfill EXCEPT !.dates = @ \ {x}]
       /\ IF rules[r] = NoRow \/ Taken(r, x) THEN UNCHANGED rows
          ELSE /\ Unused # {}
               /\ rows' = [rows EXCEPT ![NewId] = [rule |-> r, date |-> x]]
  /\ UNCHANGED <<today, rules, skips, pass, requests, removed>>

EndBackfill ==
  /\ backfill # None
  /\ backfill' = None
  /\ UNCHANGED <<today, tables, pass, requests, removed>>

-----------------------------------------------------------------------------
(* /recurring-transactions                                                 *)

\* An upsert: the schedule of an existing rule is replaced, unless the client's
\* version is older (then nothing happens); is_active and last_added_date stay.
CreateRecurringTransaction(r) ==
  /\ \E s \in Schedules :
       rules' = [rules EXCEPT ![r] =
         IF rules[r] = NoRow THEN [days |-> s, active |-> TRUE, lastAdded |-> None]
         ELSE [rules[r] EXCEPT !.days = s]]
  /\ UNCHANGED <<today, rows, skips, pass, backfill, requests, removed>>

\* A change of schedule resets last_added_date.
UpdateRecurringTransaction(r) ==
  /\ rules[r] # NoRow
  /\ \E b \in BOOLEAN :
       \/ rules' = [rules EXCEPT ![r].active = b]
       \/ \E s \in Schedules :
            rules' = [rules EXCEPT ![r] = [days |-> s, active |-> b, lastAdded |-> None]]
  /\ UNCHANGED <<today, rows, skips, pass, backfill, requests, removed>>

\* A mutant of OfOthers: what refers to the rule stays.
OfAll(r, K) == K

OfOthers(r, K) == {k \in K : k[1] # r}

\* The skips go with the rule, its rows are kept without it, and what had been
\* deleted counts no more if the client sends the rule again.
DeleteRecurringTransaction(r) ==
  /\ rules[r] # NoRow
  /\ rules' = [rules EXCEPT ![r] = NoRow]
  /\ skips' = OfOthers(r, skips)
  /\ rows' = [t \in TxIds |-> IF rows[t] # NoRow /\ rows[t].rule = r THEN NoRow ELSE rows[t]]
  /\ removed' = OfOthers(r, removed)
  /\ pass' = IF pass = None THEN None ELSE [pass EXCEPT !.gone = OfOthers(r, @)]
  /\ UNCHANGED <<today, backfill, requests>>

-----------------------------------------------------------------------------
(* /transactions on rows that are linked to a rule                         *)

\* The upsert of an own row: a new row or another rule and date for an old one.
\* The unique key and the foreign key refuse it with a 500.
CreateTransaction(c, t, r, d) ==
  /\ requests[c] = None
  /\ rows[t] # NoRow \/ (Unused # {} /\ t = NewId)
  /\ rules[r] # NoRow
  /\ LET row == [rule |-> r, date |-> Midnight(d)]
     IN  /\ \A u \in TxIds \ {t} : rows[u] # row
         /\ rows' = [rows EXCEPT ![t] = row]
         /\ requests' = [requests EXCEPT ![c] = [op |-> "sync", row |-> row]]
  /\ UNCHANGED <<today, rules, skips, pass, backfill, removed>>

\* The upsert without a rule: the row is no occurrence any more.
UnlinkTransaction(t) ==
  /\ rows[t] # NoRow
  /\ rows' = [rows EXCEPT ![t] = NoRow]
  /\ UNCHANGED <<today, rules, skips, pass, backfill, requests, removed>>

\* GREATEST(COALESCE(last_added_date, '-infinity'), date)
LaterDate(a, b) == IF a = None \/ a < b THEN b ELSE a

\* A statement of its own, whose error is ignored.
SyncRule(c) ==
  /\ requests[c] \in SyncLastAdded
  /\ requests' = [requests EXCEPT ![c] = None]
  /\ LET row == requests[c].row
     IN  rules' = IF rules[row.rule] = NoRow THEN rules
                  ELSE [rules EXCEPT ![row.rule].lastAdded = LaterDate(@, row.date)]
  /\ UNCHANGED <<today, rows, skips, pass, backfill, removed>>

\* PATCH moves a row to another day.
UpdateTransaction(t, d) ==
  /\ rows[t] # NoRow
  /\ ~Taken(rows[t].rule, Midnight(d))
  /\ rows' = [rows EXCEPT ![t].date = Midnight(d)]
  /\ UNCHANGED <<today, rules, skips, pass, backfill, requests, removed>>

ReadForDelete(c, t) ==
  /\ requests[c] = None /\ rows[t] # NoRow
  /\ requests' = [requests EXCEPT ![c] = [op |-> "delete", tx |-> t, row |-> rows[t]]]
  /\ UNCHANGED <<today, tables, pass, backfill, removed>>

SkipOf(row) == <<row.rule, DateOf(row.date)>>

\* DELETE and the skip in one transaction.  Without the rule the skip fails its
\* foreign key, and the transaction that it has aborted cannot commit.
DeleteTransaction(c) ==
  /\ requests[c] \in DeleteTx
  /\ requests' = [requests EXCEPT ![c] = None]
  /\ LET q == requests[c] IN
     IF rules[q.row.rule] = NoRow THEN UNCHANGED <<rows, skips, removed>>
     ELSE /\ rows' = [rows EXCEPT ![q.tx] = NoRow]
          /\ skips' = skips \cup {SkipOf(q.row)}
          /\ removed' = IF rows[q.tx] = q.row
                        THEN removed \cup {<<q.row.rule, q.row.date>>} ELSE removed
  /\ UNCHANGED <<today, rules, pass, backfill>>

\* The client goes away, a statement fails or the server restarts.
Abort(c) ==
  /\ requests[c] # None
  /\ requests' = [requests EXCEPT ![c] = None]
  /\ UNCHANGED <<today, tables, pass, backfill, removed>>

-----------------------------------------------------------------------------
RecInit ==
  /\ today = 1
  /\ rules = [r \in Rules |-> NoRow]
  /\ rows = [t \in TxIds |-> NoRow]
  /\ skips = {}
  /\ pass = None
  /\ backfill = None
  /\ requests = [c \in Clients |-> None]
  /\ removed = {}

PassStep(r) == ReadSkips(r) \/ InsertOccurrence(r)

RecNext ==
  \/ StartPass \/ EndPass \/ NewDay
  \/ BackfillOne \/ EndBackfill
  \/ \E r \in Rules :
       \/ PassStep(r) \/ StartBackfill(r)
       \/ CreateRecurringTransaction(r) \/ UpdateRecurringTransaction(r)
       \/ DeleteRecurringTransaction(r)
  \/ \E t \in TxIds : UnlinkTransaction(t) \/ \E d \in Days : UpdateTransaction(t, d)
  \/ \E c \in Clients :
       \/ \E t \in TxIds, r \in Rules, d \in Days : CreateTransaction(c, t, r, d)
       \/ \E t \in TxIds : ReadForDelete(c, t)
       \/ SyncRule(c) \/ DeleteTransaction(c) \/ Abort(c)

\* A ticker starts a pass every quarter of an hour and the pass goes on; an error
\* or a restart that cuts passes short does not come back at the same rule forever.
RecFairness ==
  /\ WF_recVars(StartPass) /\ WF_recVars(EndPass)
  /\ \A r \in Rules : SF_recVars(ReadSkips(r)) /\ SF_recVars(InsertOccurrence(r))

RecSafe == RecInit /\ [][RecNext]_recVars

RecSpec == RecSafe /\ RecFairness

-----------------------------------------------------------------------------
(* Properties.                                                             *)

\* Rows, passes and requests have their types, and one rule has one row an instant.
RecTypeOK ==
  /\ today \in Days
  /\ rules \in [Rules -> RuleRow \cup {NoRow}]
  /\ rows \in [TxIds -> TxRow \cup {NoRow}]
  /\ skips \subseteq Rules \X Int
  /\ pass \in Pass \cup {None}
  /\ backfill \in Backfill \cup {None}
  /\ requests \in [Clients -> DeleteTx \cup SyncLastAdded \cup {None}]
  /\ removed \subseteq Rules \X Dates
  /\ \A t, u \in TxIds : rows[t] = rows[u] /\ rows[t] # NoRow => t = u

\* No row, no skip and no request in flight outlives what it refers to: a row always
\* has its rule, and so has a skip, however the deletes of rules and rows interleave.
NoOrphans ==
  /\ \A t \in TxIds : rows[t] # NoRow => rules[rows[t].rule] # NoRow
  /\ \A k \in skips : rules[k[1]] # NoRow

\* What every state keeps, whatever the passes, backfills and requests in flight do:
\* nothing is orphaned, and no occurrence is entered twice for one instant.
RecInv == RecTypeOK /\ NoOrphans

\* "Record the skip so GenerateDueTransactions never re-creates this occurrence": a
\* pass that begins after the user has deleted an occurrence does not bring it back.
\* (A pass that had read the skips before the delete may.)
DeletedStaysAway ==
  [][\A r \in Rules, x \in Dates :
       /\ pass # None /\ pass' # pass
       /\ <<r, x>> \in pass.gone
       /\ Taken(r, x)'
       => Taken(r, x)]_recVars

\* Every occurrence is entered while its day lasts, unless the user has skipped it or
\* taken the rule back, although a failing rule ends the pass for those after it.
\* (The model's rows may run out: Unused is then empty.)
DueIsEntered ==
  \A r \in Rules, d \in Days :
    (today = d /\ Due(r, d)) ~>
      (today # d \/ ~Due(r, d) \/ Taken(r, Midnight(d)) \/ <<r, d>> \in skips \/ Unused = {})
=============================================================================
