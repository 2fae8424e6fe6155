--------------------------- MODULE RecurringProofs ---------------------------
(***************************************************************************)
(* Proofs about Recurring, for any number of rules, rows and requests, any *)
(* schedules and any last day.  None of them needs fairness, so they start *)
(* from RecSafe.                                                           *)
(***************************************************************************)
EXTENDS Recurring, TLAPS

\* Instants and dates are integers.
LEMMA DateType ==
  /\ Dates \subseteq Int
  /\ \A d \in Days : d \in Int /\ Midnight(d) \in Dates /\ 24 * d \in Dates
  /\ \A t \in Dates : DateOf(t) \in Int
BY RecAssumptions DEF Days, Dates, Midnight, DateOf

\* West of UTC, and on it, a local midnight has the date of its day.
LEMMA WestDates ==
  ASSUME Offset <= 0, NEW d \in Days
  PROVE  DateOf(Midnight(d)) = d
<1>1. d \in Int /\ Offset \in -11 .. 0
  BY RecAssumptions DEF Days
<1>2. QED BY <1>1 DEF DateOf, Midnight

\* A request is of one kind, which its op tells, and None is of no kind.
LEMMA Kinds ==
  ASSUME NEW q
  PROVE  /\ q \in DeleteTx => q \notin SyncLastAdded /\ q # None
         /\ q \in SyncLastAdded => q \notin DeleteTx /\ q # None
BY RecAssumptions DEF DeleteTx, SyncLastAdded

LEMMA RequestType ==
  ASSUME RecTypeOK, NEW c \in Clients, NEW q \in DeleteTx \cup SyncLastAdded \cup {None},
         requests' = [requests EXCEPT ![c] = q]
  PROVE  requests' \in [Clients -> DeleteTx \cup SyncLastAdded \cup {None}]
BY DEF RecTypeOK

LEMMA NewIdType ==
  ASSUME Unused # {}
  PROVE  NewId \in TxIds /\ rows[NewId] = NoRow
<1>1. NewId \in Unused
  BY DEF NewId
<1>2. QED BY <1>1 DEF Unused

\* A row that is put in a free place, or in the place of another, is the only one for
\* its rule and instant.
LEMMA PutRow ==
  ASSUME RecTypeOK, NEW t \in TxIds, NEW row \in TxRow,
         \A u \in TxIds \ {t} : rows[u] # row,
         rows' = [rows EXCEPT ![t] = row]
  PROVE  /\ rows' \in [TxIds -> TxRow \cup {NoRow}]
         /\ \A v, u \in TxIds : rows'[v] = rows'[u] /\ rows'[v] # NoRow => v = u
         /\ \A u \in TxIds : rows'[u] = rows[u] \/ rows'[u] = row
BY DEF RecTypeOK

\* So is one that no other is like because its rule and instant were not taken.
LEMMA FreeRow ==
  ASSUME RecTypeOK, NEW r \in Rules, NEW x \in Dates, ~Taken(r, x)
  PROVE  /\ [rule |-> r, date |-> x] \in TxRow
         /\ \A u \in TxIds : rows[u] # [rule |-> r, date |-> x]
<1>1. [rule |-> r, date |-> x] \in TxRow
  BY DEF TxRow
<1>2. ASSUME NEW u \in TxIds, rows[u] = [rule |-> r, date |-> x] PROVE FALSE
  BY <1>1, <1>2, RecAssumptions DEF Taken
<1>3. QED BY <1>1, <1>2

\* A rule that is entered or changed leaves the others as they are.
LEMMA RuleType ==
  ASSUME RecTypeOK, NEW r \in Rules, NEW rule \in RuleRow, rules' = [rules EXCEPT ![r] = rule]
  PROVE  /\ rules' \in [Rules -> RuleRow \cup {NoRow}]
         /\ rules'[r] # NoRow
         /\ \A s \in Rules : rules[s] # NoRow => rules'[s] # NoRow
BY RecAssumptions DEF RecTypeOK

-----------------------------------------------------------------------------
LEMMA RecInvInit == RecInit => RecInv
<1> SUFFICES ASSUME RecInit PROVE RecInv
  OBVIOUS
<1>1. RecTypeOK
  BY RecAssumptions DEF RecInit, RecTypeOK, Days
<1>2. NoOrphans
  BY DEF RecInit, NoOrphans
<1>3. QED BY <1>1, <1>2 DEF RecInv

\* A step that inserts at most one free row for a rule that there is.
LEMMA Inserted ==
  ASSUME RecInv, NEW r \in Rules, NEW x \in Dates, rules[r] # NoRow,
         \/ UNCHANGED rows
         \/ /\ ~Taken(r, x) /\ Unused # {}
            /\ rows' = [rows EXCEPT ![NewId] = [rule |-> r, date |-> x]]
  PROVE  /\ rows' \in [TxIds -> TxRow \cup {NoRow}]
         /\ \A v, u \in TxIds : rows'[v] = rows'[u] /\ rows'[v] # NoRow => v = u
         /\ \A t \in TxIds : rows'[t] # NoRow => rules[rows'[t].rule] # NoRow
<1>0. RecTypeOK /\ NoOrphans
  BY DEF RecInv
<1>1. CASE UNCHANGED rows
  BY <1>0, <1>1 DEF RecTypeOK, NoOrphans
<1>2. CASE /\ ~Taken(r, x) /\ Unused # {}
           /\ rows' = [rows EXCEPT ![NewId] = [rule |-> r, date |-> x]]
  <2>1. /\ rows' \in [TxIds -> TxRow \cup {NoRow}]
        /\ \A v, u \in TxIds : rows'[v] = rows'[u] /\ rows'[v] # NoRow => v = u
        /\ \A u \in TxIds : rows'[u] = rows[u] \/ rows'[u] = [rule |-> r, date |-> x]
    BY <1>0, <1>2, FreeRow, NewIdType, PutRow
  <2>2. QED BY <1>0, <2>1 DEF NoOrphans
<1>3. QED BY <1>1, <1>2

LEMMA RecInvStep == RecInv /\ [RecNext]_recVars => RecInv'
<1> SUFFICES ASSUME RecInv, [RecNext]_recVars PROVE RecInv'
  OBVIOUS
<1>0. RecTypeOK /\ NoOrphans
  BY DEF RecInv
<1>n. None \in DeleteTx \cup SyncLastAdded \cup {None}
  OBVIOUS
<1>u. CASE UNCHANGED recVars
  BY <1>0, <1>u DEF RecInv, RecTypeOK, NoOrphans, recVars, tables
<1>1. CASE StartPass
  <2>1. pass' \in Pass
    BY <1>0, <1>1 DEF StartPass, Pass, RecTypeOK
  <2>2. QED BY <1>0, <1>1, <2>1 DEF StartPass, RecInv, RecTypeOK, NoOrphans, tables
<1>2. ASSUME NEW r \in Rules, ReadSkips(r) PROVE RecInv'
  <2>1. pass' \in Pass
    BY <1>0, <1>2 DEF ReadSkips, Pass, RecTypeOK
  <2>2. QED BY <1>0, <1>2, <2>1 DEF ReadSkips, RecInv, RecTypeOK, NoOrphans, tables
<1>3. ASSUME NEW r \in Rules, InsertOccurrence(r) PROVE RecInv'
  <2>1. pass \in Pass /\ pass.day \in Days /\ Midnight(pass.day) \in Dates
    BY <1>0, <1>3, DateType DEF InsertOccurrence, Pass, RecTypeOK
  <2>2. pass' \in Pass \cup {None}
    <3>1. [pass EXCEPT !.todo = @ \ {r}, !.cur = None] \in Pass
      BY <2>1 DEF Pass
    <3>2. QED BY <1>3, <3>1, Zenon DEF InsertOccurrence
  <2>3. /\ rows' \in [TxIds -> TxRow \cup {NoRow}]
        /\ \A v, u \in TxIds : rows'[v] = rows'[u] /\ rows'[v] # NoRow => v = u
        /\ \A t \in TxIds : rows'[t] # NoRow => rules[rows'[t].rule] # NoRow
    <3>1. CASE rules[r] = NoRow
      BY <1>0, <1>3, <3>1 DEF InsertOccurrence, RecTypeOK, NoOrphans
    <3>2. CASE rules[r] # NoRow
      BY <1>3, <2>1, <3>2, Inserted DEF InsertOccurrence
    <3>3. QED BY <3>1, <3>2
  <2>4. QED BY <1>0, <1>3, <2>2, <2>3 DEF InsertOccurrence, RecInv, RecTypeOK, NoOrphans
<1>4. CASE EndPass
  BY <1>0, <1>4 DEF EndPass, RecInv, RecTypeOK, NoOrphans, tables
<1>5. CASE NewDay
  <2>1. today' \in Days
    BY <1>0, <1>5, RecAssumptions DEF NewDay, Days, RecTypeOK
  <2>2. QED BY <1>0, <1>5, <2>1 DEF NewDay, RecInv, RecTypeOK, NoOrphans, tables
<1>6. ASSUME NEW r \in Rules, StartBackfill(r) PROVE RecInv'
  <2>1. {24 * d : d \in {x \in rules[r].days : x <= today}} \subseteq Dates
    BY <1>0, <1>6, RecAssumptions DEF StartBackfill, RecTypeOK, RuleRow, Dates
  <2>2. PICK dates \in SUBSET Dates : backfill' = [rule |-> r, dates |-> dates]
    BY <1>6, <2>1 DEF StartBackfill
  <2>3. backfill' \in Backfill
    BY <2>2 DEF Backfill
  <2>4. QED BY <1>0, <1>6, <2>3 DEF StartBackfill, RecInv, RecTypeOK, NoOrphans, tables
<1>7. CASE BackfillOne
  <2>1. backfill \in Backfill /\ backfill.rule \in Rules /\ backfill.dates \subseteq Dates
    BY <1>0, <1>7 DEF BackfillOne, Backfill, RecTypeOK
  <2>2. PICK x \in backfill.dates :
          /\ backfill' = [backfill EXCEPT !.dates = @ \ {x}]
          /\ IF rules[backfill.rule] = NoRow \/ Taken(backfill.rule, x) THEN UNCHANGED rows
             ELSE /\ Unused # {}
                  /\ rows' = [rows EXCEPT ![NewId] = [rule |-> backfill.rule, date |-> x]]
    BY <1>7 DEF BackfillOne
  <2>3. backfill' \in Backfill
    BY <2>1, <2>2 DEF Backfill
  <2>4. /\ rows' \in [TxIds -> TxRow \cup {NoRow}]
        /\ \A v, u \in TxIds : rows'[v] = rows'[u] /\ rows'[v] # NoRow => v = u
        /\ \A t \in TxIds : rows'[t] # NoRow => rules[rows'[t].rule] # NoRow
    <3>1. CASE UNCHANGED rows
      BY <1>0, <3>1 DEF RecTypeOK, NoOrphans
    <3>2. CASE ~UNCHANGED rows
      BY <2>1, <2>2, <3>2, Inserted
    <3>3. QED BY <3>1, <3>2
  <2>5. QED BY <1>0, <1>7, <2>3, <2>4 DEF BackfillOne, RecInv, RecTypeOK, NoOrphans
<1>8. CASE EndBackfill
  BY <1>0, <1>8 DEF EndBackfill, RecInv, RecTypeOK, NoOrphans, tables
<1>9. ASSUME NEW r \in Rules, CreateRecurringTransaction(r) PROVE RecInv'
  <2>1. PICK s \in Schedules :
          rules' = [rules EXCEPT ![r] =
            IF rules[r] = NoRow THEN [days |-> s, active |-> TRUE, lastAdded |-> None]
            ELSE [rules[r] EXCEPT !.days = s]]
    BY <1>9 DEF CreateRecurringTransaction
  <2>2. [days |-> s, active |-> TRUE, lastAdded |-> None] \in RuleRow
    BY DEF RuleRow
  <2>3. rules[r] # NoRow => [rules[r] EXCEPT !.days = s] \in RuleRow
    BY <1>0 DEF RuleRow, RecTypeOK
  <2>4. PICK rule \in RuleRow : rules' = [rules EXCEPT ![r] = rule]
    BY <2>1, <2>2, <2>3
  <2>5. QED BY <1>0, <1>9, <2>4, RuleType DEF CreateRecurringTransaction, RecInv, RecTypeOK, NoOrphans, TxRow
<1>10. ASSUME NEW r \in Rules, UpdateRecurringTransaction(r) PROVE RecInv'
  <2>1. PICK b \in BOOLEAN :
          \/ rules' = [rules EXCEPT ![r].active = b]
          \/ \E s \in Schedules :
               rules' = [rules EXCEPT ![r] = [days |-> s, active |-> b, lastAdded |-> None]]
    BY <1>10 DEF UpdateRecurringTransaction
  <2>2. \A s \in Schedules : [days |-> s, active |-> b, lastAdded |-> None] \in RuleRow
    BY DEF RuleRow
  <2>3. [rules[r] EXCEPT !.active = b] \in RuleRow
    BY <1>0, <1>10 DEF UpdateRecurringTransaction, RuleRow, RecTypeOK
  <2>4. PICK rule \in RuleRow : rules' = [rules EXCEPT ![r] = rule]
    BY <2>1, <2>2, <2>3
  <2>5. QED BY <1>0, <1>10, <2>4, RuleType DEF UpdateRecurringTransaction, RecInv, RecTypeOK, NoOrphans, TxRow
<1>11. ASSUME NEW r \in Rules, DeleteRecurringTransaction(r) PROVE RecInv'
  <2>1. /\ rows' \in [TxIds -> TxRow \cup {NoRow}]
        /\ \A v, u \in TxIds : rows'[v] = rows'[u] /\ rows'[v] # NoRow => v = u
    BY <1>0, <1>11 DEF DeleteRecurringTransaction, RecTypeOK
  <2>2. pass' \in Pass \cup {None}
    BY <1>0, <1>11 DEF DeleteRecurringTransaction, OfOthers, Pass, RecTypeOK
  <2>3. rules' \in [Rules -> RuleRow \cup {NoRow}] /\ \A s \in Rules \ {r} : rules'[s] = rules[s]
    BY <1>0, <1>11 DEF DeleteRecurringTransaction, RecTypeOK
  <2>4. skips' \subseteq Rules \X Int /\ removed' \subseteq Rules \X Dates
    BY <1>0, <1>11 DEF DeleteRecurringTransaction, OfOthers, RecTypeOK
  <2>5. RecTypeOK'
    BY <1>0, <1>11, <2>1, <2>2, <2>3, <2>4 DEF DeleteRecurringTransaction, RecTypeOK
  <2>6. NoOrphans'
    <3>1. \A t \in TxIds : rows'[t] # NoRow => rows'[t] = rows[t] /\ rows[t].rule \in Rules \ {r}
      BY <1>0, <1>11 DEF DeleteRecurringTransaction, RecTypeOK, TxRow
    <3>2. \A k \in skips' : k \in skips /\ k[1] \in Rules \ {r}
      BY <1>0, <1>11 DEF DeleteRecurringTransaction, OfOthers, RecTypeOK
    <3>3. QED BY <1>0, <2>3, <3>1, <3>2 DEF NoOrphans
  <2>7. QED BY <2>5, <2>6 DEF RecInv
<1>12. ASSUME NEW c \in Clients, NEW t \in TxIds, NEW r \in Rules, NEW d \in Days,
              CreateTransaction(c, t, r, d)
       PROVE  RecInv'
  <2> DEFINE row == [rule |-> r, date |-> Midnight(d)]
  <2>1. row \in TxRow /\ [op |-> "sync", row |-> row] \in SyncLastAdded
    BY DateType DEF TxRow, SyncLastAdded
  <2>2. /\ \A u \in TxIds \ {t} : rows[u] # row
        /\ rows' = [rows EXCEPT ![t] = row]
        /\ requests' = [requests EXCEPT ![c] = [op |-> "sync", row |-> row]]
    BY <1>12 DEF CreateTransaction
  <2>3. requests' \in [Clients -> DeleteTx \cup SyncLastAdded \cup {None}]
    BY <1>0, <2>1, <2>2, RequestType
  <2> HIDE DEF row
  <2>4. /\ rows' \in [TxIds -> TxRow \cup {NoRow}]
        /\ \A v, u \in TxIds : rows'[v] = rows'[u] /\ rows'[v] # NoRow => v = u
        /\ \A u \in TxIds : rows'[u] = rows[u] \/ rows'[u] = row
    BY <1>0, <2>1, <2>2, PutRow
  <2>5. row.rule = r /\ rules[r] # NoRow
    BY <1>12 DEF CreateTransaction, row
  <2>6. QED BY <1>0, <1>12, <2>3, <2>4, <2>5 DEF CreateTransaction, RecInv, RecTypeOK, NoOrphans
<1>13. ASSUME NEW t \in TxIds, UnlinkTransaction(t) PROVE RecInv'
  BY <1>0, <1>13 DEF UnlinkTransaction, RecInv, RecTypeOK, NoOrphans
<1>14. ASSUME NEW t \in TxIds, NEW d \in Days, UpdateTransaction(t, d) PROVE RecInv'
  <2>1. rows[t] \in TxRow /\ rows[t].rule \in Rules /\ rules[rows[t].rule] # NoRow
    BY <1>0, <1>14 DEF UpdateTransaction, RecTypeOK, TxRow, NoOrphans
  <2>2. rows' = [rows EXCEPT ![t] = [rule |-> rows[t].rule, date |-> Midnight(d)]]
    <3>1. [rows[t] EXCEPT !.date = Midnight(d)] = [rule |-> rows[t].rule, date |-> Midnight(d)]
      BY <2>1 DEF TxRow
    <3>2. QED BY <1>0, <1>14, <3>1 DEF UpdateTransaction, RecTypeOK
  <2>3. /\ rows' \in [TxIds -> TxRow \cup {NoRow}]
        /\ \A v, u \in TxIds : rows'[v] = rows'[u] /\ rows'[v] # NoRow => v = u
        /\ \A u \in TxIds : rows'[u] = rows[u]
                              \/ rows'[u] = [rule |-> rows[t].rule, date |-> Midnight(d)]
    <3>1. rows[t].rule \in Rules /\ Midnight(d) \in Dates
      BY <2>1, DateType DEF TxRow
    <3>2. ~Taken(rows[t].rule, Midnight(d))
      BY <1>14 DEF UpdateTransaction
    <3>3. /\ [rule |-> rows[t].rule, date |-> Midnight(d)] \in TxRow
          /\ \A u \in TxIds : rows[u] # [rule |-> rows[t].rule, date |-> Midnight(d)]
      BY <1>0, <3>1, <3>2, FreeRow
    <3> DEFINE moved == [rule |-> rows[t].rule, date |-> Midnight(d)]
    <3> HIDE DEF moved
    <3>4. moved \in TxRow /\ \A u \in TxIds \ {t} : rows[u] # moved
      BY <3>3 DEF moved
    <3>5. rows' = [rows EXCEPT ![t] = moved]
      BY <2>2 DEF moved
    <3>6. /\ rows' \in [TxIds -> TxRow \cup {NoRow}]
          /\ \A v, u \in TxIds : rows'[v] = rows'[u] /\ rows'[v] # NoRow => v = u
          /\ \A u \in TxIds : rows'[u] = rows[u] \/ rows'[u] = moved
      BY <1>0, <3>4, <3>5, PutRow
    <3>7. QED BY <3>6 DEF moved
  <2>4. QED BY <1>0, <1>14, <2>1, <2>3 DEF UpdateTransaction, RecInv, RecTypeOK, NoOrphans
<1>15. ASSUME NEW c \in Clients, SyncRule(c) PROVE RecInv'
  <2>1. PICK row \in TxRow : row = requests[c].row
    BY <1>15 DEF SyncRule, SyncLastAdded
  <2>2. requests' \in [Clients -> DeleteTx \cup SyncLastAdded \cup {None}]
    BY <1>0, <1>15, <1>n, RequestType DEF SyncRule
  <2>3. row.rule \in Rules /\ row.date \in Dates
    BY DEF TxRow
  <2>4. CASE rules' = rules
    BY <1>0, <1>15, <2>2, <2>4 DEF SyncRule, RecInv, RecTypeOK, NoOrphans
  <2>5. CASE rules' # rules
    <3>1. rules[row.rule] \in RuleRow
      BY <1>0, <1>15, <2>1, <2>3, <2>5 DEF SyncRule, RecTypeOK
    <3>2. PICK x \in Dates \cup {None} : rules' = [rules EXCEPT ![row.rule].lastAdded = x]
      BY <1>15, <2>1, <2>3, <2>5, <3>1 DEF SyncRule, LaterDate, RuleRow
    <3>3. [rules[row.rule] EXCEPT !.lastAdded = x] \in RuleRow
      BY <3>1 DEF RuleRow
    <3>4. PICK rule \in RuleRow : rules' = [rules EXCEPT ![row.rule] = rule]
      BY <3>2, <3>3
    <3>5. /\ rules' \in [Rules -> RuleRow \cup {NoRow}]
          /\ \A s \in Rules : rules[s] # NoRow => rules'[s] # NoRow
      BY <1>0, <2>3, <3>4, RuleType
    <3>6. UNCHANGED <<today, rows, skips, pass, backfill, removed>>
      BY <1>15 DEF SyncRule
    <3>7. RecTypeOK'
      BY <1>0, <2>2, <3>5, <3>6 DEF RecTypeOK
    <3>8. NoOrphans'
      BY <1>0, <3>5, <3>6 DEF RecTypeOK, NoOrphans, TxRow
    <3>9. QED BY <3>7, <3>8 DEF RecInv
  <2>6. QED BY <2>4, <2>5
<1>16. ASSUME NEW c \in Clients, NEW t \in TxIds, ReadForDelete(c, t) PROVE RecInv'
  <2>1. [op |-> "delete", tx |-> t, row |-> rows[t]] \in DeleteTx
    BY <1>0, <1>16 DEF ReadForDelete, DeleteTx, RecTypeOK
  <2>2. QED BY <1>0, <1>16, <2>1, RequestType DEF ReadForDelete, RecInv, RecTypeOK, NoOrphans, tables
<1>17. ASSUME NEW c \in Clients, DeleteTransaction(c) PROVE RecInv'
  <2>1. PICK q \in DeleteTx : q = requests[c]
    BY <1>17 DEF DeleteTransaction
  <2>2. q.tx \in TxIds /\ q.row \in TxRow /\ q.row.rule \in Rules /\ q.row.date \in Dates
    BY DEF DeleteTx, TxRow
  <2>3. requests' \in [Clients -> DeleteTx \cup SyncLastAdded \cup {None}]
    BY <1>0, <1>17, <1>n, RequestType DEF DeleteTransaction
  <2>4. /\ rows' \in [TxIds -> TxRow \cup {NoRow}]
        /\ \A v, u \in TxIds : rows'[v] = rows'[u] /\ rows'[v] # NoRow => v = u
        /\ \A t \in TxIds : rows'[t] # NoRow => rows'[t] = rows[t]
    BY <1>0, <1>17, <2>1, <2>2 DEF DeleteTransaction, RecTypeOK
  <2>5. /\ skips' \subseteq Rules \X Int
        /\ \A k \in skips' : \/ k \in skips
                             \/ k[1] = q.row.rule /\ rules[k[1]] # NoRow
    <3>1. SkipOf(q.row) \in Rules \X Int /\ SkipOf(q.row)[1] = q.row.rule
      BY <2>2, DateType DEF SkipOf
    <3>2. QED BY <1>0, <1>17, <2>1, <3>1 DEF DeleteTransaction, RecTypeOK
  <2>6. removed' \subseteq Rules \X Dates
    BY <1>0, <1>17, <2>1, <2>2 DEF DeleteTransaction, RecTypeOK
  <2>7. QED BY <1>0, <1>17, <2>3, <2>4, <2>5, <2>6 DEF DeleteTransaction, RecInv, RecTypeOK, NoOrphans
<1>18. ASSUME NEW c \in Clients, Abort(c) PROVE RecInv'
  BY <1>0, <1>18, <1>n, RequestType DEF Abort, RecInv, RecTypeOK, NoOrphans, tables
<1>19. QED
  BY <1>u, <1>1, <1>2, <1>3, <1>4, <1>5, <1>6, <1>7, <1>8, <1>9, <1>10, <1>11, <1>12, <1>13,
     <1>14, <1>15, <1>16, <1>17, <1>18 DEF RecNext, PassStep

\* No row and no skip outlives its rule, and no occurrence is entered twice for one
\* instant, however passes, backfills, deletes and requests in flight interleave.
THEOREM NothingOrphaned == RecSafe => []RecInv
BY RecInvInit, RecInvStep, PTL DEF RecSafe

-----------------------------------------------------------------------------
(* What the user has deleted stays deleted, west of UTC.                   *)

\* What has been deleted is among the skips, which a pass reads before it inserts: so
\* what it is about to insert had not been deleted when it began.
SkipsRecorded == \A k \in removed : <<k[1], DateOf(k[2])>> \in skips

PassKnows ==
  pass # None =>
    /\ pass.gone \subseteq removed
    /\ pass.cur # None => <<pass.cur, Midnight(pass.day)>> \notin pass.gone

DeletedInv == RecInv /\ SkipsRecorded /\ PassKnows

LEMMA DeletedInit == RecInit => DeletedInv
BY RecInvInit DEF RecInit, DeletedInv, SkipsRecorded, PassKnows

\* The deletes only add to what has been deleted, and a rule's own takes all of it.
LEMMA RemovedStep ==
  ASSUME RecTypeOK, SkipsRecorded, [RecNext]_recVars
  PROVE  /\ SkipsRecorded'
         /\ \/ removed \subseteq removed'
            \/ \E r \in Rules : DeleteRecurringTransaction(r)
<1>u. CASE UNCHANGED <<skips, removed>>
  BY <1>u DEF SkipsRecorded, DateOf
<1>1. ASSUME NEW r \in Rules, DeleteRecurringTransaction(r) PROVE SkipsRecorded'
  BY <1>1 DEF DeleteRecurringTransaction, OfOthers, SkipsRecorded, DateOf
<1>2. ASSUME NEW c \in Clients, DeleteTransaction(c)
      PROVE  SkipsRecorded' /\ removed \subseteq removed'
  <2>1. PICK row : /\ skips' = skips \/ skips' = skips \cup {<<row.rule, DateOf(row.date)>>}
                   /\ removed' = removed \/ removed' = removed \cup {<<row.rule, row.date>>}
                   /\ removed' # removed => skips' = skips \cup {<<row.rule, DateOf(row.date)>>}
    BY <1>2 DEF DeleteTransaction, SkipOf
  <2>2. QED BY <2>1 DEF SkipsRecorded, DateOf
<1>3. QED
  BY <1>u, <1>1, <1>2
  DEF RecNext, recVars, tables, PassStep, StartPass, ReadSkips, InsertOccurrence, EndPass, NewDay,
      StartBackfill, BackfillOne, EndBackfill, CreateRecurringTransaction, UpdateRecurringTransaction,
      CreateTransaction, UnlinkTransaction, UpdateTransaction, SyncRule, ReadForDelete, Abort

LEMMA DeletedStep ==
  ASSUME Offset <= 0, DeletedInv, [RecNext]_recVars
  PROVE  DeletedInv'
<1>0. RecInv /\ RecTypeOK /\ SkipsRecorded /\ PassKnows
  BY DEF DeletedInv, RecInv
<1>1. RecInv'
  BY <1>0, RecInvStep
<1>2. SkipsRecorded'
  BY <1>0, RemovedStep
<1>3. PassKnows'
  <2>1. CASE StartPass
    <3>1. pass' = [day |-> today, todo |-> {r \in Rules : Due(r, today)}, cur |-> None,
                   gone |-> removed] /\ UNCHANGED removed
      BY <2>1 DEF StartPass
    <3>2. pass'.gone = removed /\ pass'.cur = None
      BY <3>1
    <3>3. QED BY <3>1, <3>2 DEF PassKnows
  <2>2. ASSUME NEW r \in Rules, ReadSkips(r) PROVE PassKnows'
    <3>1. pass \in Pass /\ pass # None /\ pass.day \in Days /\ UNCHANGED removed
      BY <1>0, <2>2 DEF ReadSkips, Pass, RecTypeOK
    <3>2. CASE Skipped(r, pass.day)
      <4>1. pass' = [pass EXCEPT !.todo = @ \ {r}]
        BY <2>2, <3>2 DEF ReadSkips
      <4>2. pass'.gone = pass.gone /\ pass'.cur = pass.cur /\ pass'.day = pass.day
        BY <3>1, <4>1 DEF Pass
      <4>3. QED BY <1>0, <3>1, <4>2 DEF PassKnows, Midnight
    <3>3. CASE ~Skipped(r, pass.day)
      <4>1. pass' = [pass EXCEPT !.cur = r]
        BY <2>2, <3>3 DEF ReadSkips
      <4>2. pass'.gone = pass.gone /\ pass'.cur = r /\ pass'.day = pass.day
        BY <3>1, <4>1 DEF Pass
      <4>3. <<r, Midnight(pass.day)>> \notin removed
        <5>1. DateOf(Midnight(pass.day)) = pass.day
          BY <3>1, WestDates
        <5>2. <<r, pass.day>> \notin skips
          BY <3>3 DEF Skipped
        <5> DEFINE k == <<r, Midnight(pass.day)>>
        <5>3. k[1] = r /\ k[2] = Midnight(pass.day)
          OBVIOUS
        <5> HIDE DEF k
        <5>4. k \notin removed
          BY <1>0, <5>1, <5>2, <5>3 DEF SkipsRecorded
        <5>5. QED BY <5>4 DEF k
      <4>4. QED BY <1>0, <3>1, <4>2, <4>3 DEF PassKnows, Midnight
    <3>4. QED BY <3>2, <3>3
  <2>3. ASSUME NEW r \in Rules, InsertOccurrence(r) PROVE PassKnows'
    <3>1. UNCHANGED removed /\ pass \in Pass
      BY <1>0, <2>3 DEF InsertOccurrence, RecTypeOK
    <3>2. pass' = None \/ pass' = [pass EXCEPT !.todo = @ \ {r}, !.cur = None]
      BY <2>3 DEF InsertOccurrence
    <3>3. pass' = None \/ (pass'.gone = pass.gone /\ pass'.cur = None)
      BY <3>1, <3>2 DEF Pass
    <3>4. QED BY <1>0, <2>3, <3>1, <3>3 DEF InsertOccurrence, PassKnows
  <2>4. CASE EndPass
    BY <2>4 DEF EndPass, PassKnows
  <2>5. ASSUME NEW r \in Rules, DeleteRecurringTransaction(r) PROVE PassKnows'
    <3>1. CASE pass = None
      BY <2>5, <3>1 DEF DeleteRecurringTransaction, PassKnows
    <3>2. CASE pass # None
      <4>1. pass \in Pass /\ pass' = [pass EXCEPT !.gone = OfOthers(r, @)]
        BY <1>0, <2>5, <3>2 DEF DeleteRecurringTransaction, RecTypeOK
      <4>2. pass'.gone = OfOthers(r, pass.gone) /\ pass'.cur = pass.cur /\ pass'.day = pass.day
        BY <4>1 DEF Pass
      <4>3. removed' = OfOthers(r, removed)
        BY <2>5 DEF DeleteRecurringTransaction
      <4>4. QED BY <1>0, <3>2, <4>2, <4>3 DEF PassKnows, OfOthers, Midnight
    <3>3. QED BY <3>1, <3>2
  <2>6. CASE UNCHANGED pass /\ ~\E r \in Rules : DeleteRecurringTransaction(r)
    <3>1. removed \subseteq removed'
      BY <1>0, <2>6, RemovedStep
    <3>2. QED BY <1>0, <2>6, <3>1 DEF PassKnows, Midnight
  <2>7. QED
    BY <2>1, <2>2, <2>3, <2>4, <2>5, <2>6
    DEF RecNext, recVars, tables, PassStep, NewDay, StartBackfill, BackfillOne, EndBackfill,
        CreateRecurringTransaction, UpdateRecurringTransaction, CreateTransaction, UnlinkTransaction,
        UpdateTransaction, SyncRule, ReadForDelete, DeleteTransaction, Abort
<1>4. QED BY <1>1, <1>2, <1>3 DEF DeletedInv

\* A step of a pass brings back nothing that was deleted before the pass began.
StaysAway ==
  \A r \in Rules, x \in Dates :
    /\ pass # None /\ pass' # pass
    /\ <<r, x>> \in pass.gone
    /\ Taken(r, x)'
    => Taken(r, x)

LEMMA AwayStep == DeletedInv /\ [RecNext]_recVars => StaysAway
<1> SUFFICES ASSUME DeletedInv, [RecNext]_recVars, NEW r \in Rules, NEW x \in Dates,
                    pass # None, pass' # pass, <<r, x>> \in pass.gone, Taken(r, x)'
             PROVE  Taken(r, x)
  BY DEF StaysAway
<1>0. RecTypeOK /\ PassKnows
  BY DEF DeletedInv, RecInv
<1>1. PICK t \in TxIds : rows'[t] # NoRow /\ rows'[t].rule = r /\ rows'[t].date = x
  BY DEF Taken
<1>u. CASE rows'[t] = rows[t]
  BY <1>1, <1>u DEF Taken
<1>2. ASSUME NEW s \in Rules, InsertOccurrence(s) PROVE rows'[t] = rows[t]
  <2>1. pass.cur = s /\ s # None
    BY <1>2, RecAssumptions DEF InsertOccurrence
  <2>2. <<s, Midnight(pass.day)>> \notin pass.gone
    BY <1>0, <2>1 DEF PassKnows
  <2>3. CASE rows' = [rows EXCEPT ![NewId] = [rule |-> s, date |-> Midnight(pass.day)]]
    <3>1. rows'[t] = rows[t] \/ rows'[t] = [rule |-> s, date |-> Midnight(pass.day)]
      BY <1>0, <2>3 DEF RecTypeOK
    <3>2. QED BY <1>1, <2>2, <3>1
  <2>4. QED BY <1>2, <2>3 DEF InsertOccurrence
<1>3. ASSUME NEW s \in Rules, DeleteRecurringTransaction(s) PROVE rows'[t] = rows[t]
  BY <1>1, <1>3 DEF DeleteRecurringTransaction
<1>4. CASE UNCHANGED rows
  BY <1>4, <1>u
<1>5. QED
  BY <1>u, <1>2, <1>3, <1>4
  DEF RecNext, recVars, tables, PassStep, StartPass, ReadSkips, EndPass, NewDay, StartBackfill,
      BackfillOne, EndBackfill, CreateRecurringTransaction, UpdateRecurringTransaction,
      CreateTransaction, UnlinkTransaction, UpdateTransaction, SyncRule, ReadForDelete,
      DeleteTransaction, Abort

\* For a user on UTC or west of it, a scheduler's pass does not bring back what he had
\* deleted before it began.  East of UTC the date of a local midnight is the day before.
THEOREM DeletedForGood ==
  ASSUME Offset <= 0
  PROVE  RecSafe => DeletedStaysAway
<1>1. DeletedInv /\ [RecNext]_recVars => DeletedInv'
  BY DeletedStep
<1>2. DeletedInv /\ [RecNext]_recVars
      => [\A r \in Rules, x \in Dates :
            /\ pass # None /\ pass' # pass
            /\ <<r, x>> \in pass.gone
            /\ Taken(r, x)'
            => Taken(r, x)]_recVars
  BY AwayStep DEF StaysAway
<1>3. QED BY DeletedInit, <1>1, <1>2, PTL DEF RecSafe, DeletedStaysAway
=============================================================================
