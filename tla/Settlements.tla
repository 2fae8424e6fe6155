----------------------------- MODULE Settlements -----------------------------
(***************************************************************************)
(* The write handlers of /settlements: create, update and delete, with the *)
(* pair of personal rows they book for what a payment exceeds the debt by, *)
(* the ways /transactions and the purge job reach those rows, and the      *)
(* deletion of the whole group, which hides settlements but not their      *)
(* rows.  The group transactions stay as they are until then; the debt     *)
(* moves with settlements.                                                 *)
(*                                                                         *)
(* A create and an update read the debt with a statement of its own and    *)
(* book the excess when they commit; under READ COMMITTED others commit in *)
(* between.  An update holds the settlement's row lock from its first      *)
(* statement on.  A delete takes that lock last: its first statement hides *)
(* the rows it sees.                                                       *)
(***************************************************************************)
EXTENDS GroupState

CONSTANTS
  Requesters,   \* settlement requests in flight at once
  SettAmounts,  \* the "amount" values clients send
  Settlers,     \* bound: who may pay whom, pairs of users
  Openings      \* the group transactions, splits and shares at the start

VARIABLES
  settling  \* the request each requester has in flight, past its checks

settVars == <<clock, tables, settling>>

-----------------------------------------------------------------------------
CreateSettRequest ==
  [op: {"create"}, from: Users, to: Users, amt: SettAmounts, meta: Metas \cup {None}]

\* A create whose row is inserted but not committed, with the excess it will book.
InsertedSett ==
  [op: {"insert"}, sett: SettIds, from: Users, to: Users, amt: SettAmounts,
   meta: Metas \cup {None}, excess: Nat]

\* None is a field the request leaves out; one of the two is there.
UpdateSettRequest ==
  {r \in [op: {"update"}, sett: SettIds, amt: SettAmounts \cup {None}, meta: Metas \cup {None}] :
     r.amt # None \/ r.meta # None}

\* An update that holds the row's lock, with the excess it will book.
RepricedSett ==
  [op: {"reprice"}, sett: SettIds, amt: SettAmounts, meta: Metas \cup {None}, excess: Nat]

DeleteSettRequest == [op: {"delete"}, sett: SettIds]

\* A delete whose first statement has run, with the rows it has updated.
HiddenSett == [op: {"hide"}, sett: SettIds, seen: SUBSET RowIds]

\* The deletion of the group, past its checks.
CloseSettRequest == [op: {"delete group"}]

\* The same with the settlements its statement on them has updated.
ClosedSetts == [op: {"close"}, seen: SUBSET SettIds]

SettRequest == CreateSettRequest \cup InsertedSett \cup UpdateSettRequest
               \cup RepricedSett \cup DeleteSettRequest \cup HiddenSett
               \cup CloseSettRequest \cup ClosedSetts

Opening ==
  [gts: [GtIds -> GtRow \cup {NoRow}],
   splits: [GtIds -> [Users -> SplitRow \cup {NoRow}]],
   personal: [RowIds -> {r \in PersonalRow : r.sett = None} \cup {NoRow}]]

ASSUME SettAssumptions ==
  /\ SettAmounts \subseteq Amount
  /\ None \notin SettAmounts \cup SettRequest
  /\ Openings \subseteq Opening

InFlight(op) == {c \in Requesters : settling[c] # None /\ settling[c].op = op}

Linked(x) == {t \in RowIds : personal[t] # NoRow /\ personal[t].sett = x}

\* gen_random_uuid: ids no row, open transaction or open delete knows of.
UnusedSetts ==
  {x \in SettIds : setts[x] = NoRow}
    \ ({settling[c].sett : c \in InFlight("insert")}
         \cup UNION {settling[c].seen : c \in InFlight("close")})
UnusedSettRows ==
  {t \in RowIds : personal[t] = NoRow} \ UNION {settling[c].seen : c \in InFlight("hide")}

\* Another update holds the settlement's row lock.
Locked(x) == \E c \in InFlight("reprice") : settling[c].sett = x

-----------------------------------------------------------------------------
\* ComputeSettlementEffect: the part of a payment that no debt covers.  A negative
\* debt covers nothing, and no more than the payment is covered.
Excess(debt, amount) ==
  IF debt \in 0 .. amount THEN amount - debt ELSE IF debt < 0 THEN amount ELSE 0

\* A mutant of CreateDebt: the settlements before it are forgotten.
SharesOnly(r) == Shares(PaidBy(r.to), r.from) - Shares(PaidBy(r.from), r.to)

\* pairwiseDebt in a create sees the row the create has just inserted.
CreateDebt(r) == PairwiseDebt(r.from, r.to, None) - Stored(r.amt)

\* A mutant of RepriceDebt: the settlement is not left out of the sums.
RepriceKeepsOwn(r) == PairwiseDebt(setts[r.sett].from, setts[r.sett].to, None)

\* pairwiseDebt in an update leaves the settlement itself out.
RepriceDebt(r) == PairwiseDebt(setts[r.sett].from, setts[r.sett].to, r.sett)

SettExpense(x, u, n, m) ==
  [user |-> u, kind |-> "expense", amt |-> Stored(n), meta |-> m,
   gt |-> None, sett |-> x, deleted |-> FALSE]
SettIncome(x, u, n, m) == [SettExpense(x, u, n, m) EXCEPT !.kind = "income"]

\* The rows of x are dropped and, if there is an excess, a new pair is inserted.
BookExcess(x, from, to, n, m) ==
  LET kept == [t \in RowIds |-> IF t \in Linked(x) THEN NoRow ELSE personal[t]]
  IN  \/ n = 0 /\ personal' = kept
      \/ /\ Stored(n) > 0                         \* CHECK (amount > 0)
         /\ \E i, e \in UnusedSettRows :
              /\ i # e
              /\ personal' = [kept EXCEPT ![i] = SettIncome(x, to, n, m),
                                          ![e] = SettExpense(x, from, n, m)]

-----------------------------------------------------------------------------
SettReceive(c, r) ==
  /\ settling[c] = None
  /\ settling' = [settling EXCEPT ![c] = r]
  /\ UNCHANGED <<clock, tables>>

\* Both parties are members and one of them is the caller.
ReceiveSettlement(c) ==
  \E from, to \in Users, n \in SettAmounts, m \in Metas \cup {None} :
    /\ from # to /\ <<from, to>> \in Settlers
    /\ ActiveMembers({from, to})
    /\ SameCurrency({from, to})
    /\ SettReceive(c, [op |-> "create", from |-> from, to |-> to, amt |-> n, meta |-> m])

ReceiveSettUpdate(c) ==
  \E x \in SettIds, n \in SettAmounts \cup {None}, m \in Metas \cup {None} :
    /\ SettLive(x)
    /\ <<n, m>> # <<None, None>>
    /\ SettReceive(c, [op |-> "update", sett |-> x, amt |-> n, meta |-> m])

ReceiveSettDelete(c) ==
  \E x \in SettIds :
    /\ SettLive(x)
    /\ SettReceive(c, [op |-> "delete", sett |-> x])

SettFinish(c) == settling' = [settling EXCEPT ![c] = None]

InsertSettlement(c) ==
  /\ c \in InFlight("create")
  /\ LET r == settling[c] IN
     /\ Stored(r.amt) > 0
     /\ \E x \in UnusedSetts :
          settling' = [settling EXCEPT ![c] =
            [op |-> "insert", sett |-> x, from |-> r.from, to |-> r.to, amt |-> r.amt,
             meta |-> r.meta, excess |-> Excess(CreateDebt(r), r.amt)]]
  /\ UNCHANGED <<clock, tables>>

CommitSettlement(c) ==
  /\ c \in InFlight("insert")
  /\ LET r == settling[c] IN
     /\ setts' = [setts EXCEPT ![r.sett] =
          [from |-> r.from, to |-> r.to, amt |-> Stored(r.amt), meta |-> r.meta,
           deleted |-> FALSE]]
     /\ BookExcess(r.sett, r.from, r.to, r.excess, r.meta)
  /\ SettFinish(c)
  /\ UNCHANGED <<clock, groupDeleted, members, gts, splits>>

\* The UPDATE asks for the id only; a mixed currency is a 400.
RepriceSettlement(c) ==
  /\ c \in InFlight("update") /\ settling[c].amt # None
  /\ LET r == settling[c] IN
     /\ setts[r.sett] # NoRow /\ ~Locked(r.sett)
     /\ Stored(r.amt) > 0
     /\ SameCurrency({setts[r.sett].from, setts[r.sett].to})
     /\ settling' = [settling EXCEPT ![c] =
          [op |-> "reprice", sett |-> r.sett, amt |-> r.amt, meta |-> r.meta,
           excess |-> Excess(RepriceDebt(r), r.amt)]]
  /\ UNCHANGED <<clock, tables>>

\* The columns an update leaves.
UpdatedSett(r) ==
  [setts[r.sett] EXCEPT !.amt = IF r.amt = None THEN @ ELSE Stored(r.amt),
                        !.meta = IF r.meta = None THEN @ ELSE r.meta]

CommitReprice(c) ==
  /\ c \in InFlight("reprice")
  /\ LET r == settling[c] IN
     /\ setts[r.sett] # NoRow
     /\ setts' = [setts EXCEPT ![r.sett] = UpdatedSett(r)]
     /\ BookExcess(r.sett, setts[r.sett].from, setts[r.sett].to, r.excess, UpdatedSett(r).meta)
  /\ SettFinish(c)
  /\ UNCHANGED <<clock, groupDeleted, members, gts, splits>>

\* An update of the notes alone, which go to the live rows of the settlement.
CommitNotes(c) ==
  /\ c \in InFlight("update") /\ settling[c].amt = None
  /\ LET r == settling[c] IN
     /\ setts[r.sett] # NoRow /\ ~Locked(r.sett)
     /\ setts' = [setts EXCEPT ![r.sett] = UpdatedSett(r)]
     /\ personal' = [t \in RowIds |-> IF t \in Linked(r.sett) /\ RowLive(t)
                                      THEN [personal[t] EXCEPT !.meta = r.meta]
                                      ELSE personal[t]]
  /\ SettFinish(c)
  /\ UNCHANGED <<clock, groupDeleted, members, gts, splits>>

HideSettRows(c) ==
  /\ c \in InFlight("delete")
  /\ settling' = [settling EXCEPT ![c] =
       [op |-> "hide", sett |-> settling[c].sett, seen |-> Linked(settling[c].sett)]]
  /\ UNCHANGED <<clock, tables>>

\* A mutant of HiddenSettRow: only the expense is hidden.
IncomeLeft(r, t) ==
  IF t \in r.seen \cap Linked(r.sett) /\ personal[t].kind = "expense"
  THEN [personal[t] EXCEPT !.deleted = TRUE] ELSE personal[t]

HiddenSettRow(r, t) ==
  IF t \in r.seen \cap Linked(r.sett) THEN [personal[t] EXCEPT !.deleted = TRUE] ELSE personal[t]

CommitSettDelete(c) ==
  /\ c \in InFlight("hide")
  /\ LET r == settling[c] IN
     /\ ~Locked(r.sett)
     /\ personal' = [t \in RowIds |-> HiddenSettRow(r, t)]
     /\ setts' = IF setts[r.sett] = NoRow THEN setts
                 ELSE [setts EXCEPT ![r.sett].deleted = TRUE]
  /\ SettFinish(c)
  /\ UNCHANGED <<clock, groupDeleted, members, gts, splits>>

\* DELETE /groups/:id.  What its statements do to the rows they saw; a row that another
\* transaction has changed meanwhile is looked at again.

\* A mutant of RowsClosed: the statement runs after group_transactions are hidden and
\* looks for live ones.
RowsNotClosed(seen) == personal

\* Personal rows of group transactions are hidden, those of settlements are not.
RowsClosed(seen) ==
  [t \in RowIds |-> IF t \in seen /\ personal[t] # NoRow /\ personal[t].gt # None
                    THEN [personal[t] EXCEPT !.deleted = TRUE] ELSE personal[t]]

GtsClosed(seen, stamp) ==
  [g \in GtIds |-> IF g \in seen /\ gts[g] # NoRow
                   THEN [gts[g] EXCEPT !.deleted = TRUE, !.stamp = stamp] ELSE gts[g]]

\* A mutant of SettsClosed: settlements are forgotten.
SettsOpen(seen) == setts

SettsClosed(seen) ==
  [x \in SettIds |-> IF x \in seen /\ setts[x] # NoRow
                     THEN [setts[x] EXCEPT !.deleted = TRUE] ELSE setts[x]]

ReceiveClose(c) == ~groupDeleted /\ SettReceive(c, [op |-> "delete group"])

\* Of its statements, the one on settlements is a step: nothing here inserts or changes
\* a group transaction or a linked row, so the others may as well go with the commit.
CloseSettlements(c) ==
  /\ c \in InFlight("delete group")
  /\ settling' = [settling EXCEPT ![c] =
       [op |-> "close", seen |-> {x \in SettIds : setts[x] # NoRow}]]
  /\ UNCHANGED <<clock, tables>>

CommitDeleteGroup(c) ==
  /\ c \in InFlight("close")
  /\ \A x \in settling[c].seen : ~Locked(x)
  /\ groupDeleted' = TRUE
  /\ personal' = RowsClosed(RowIds)
  /\ gts' = GtsClosed(GtIds, clock)
  /\ setts' = SettsClosed(settling[c].seen)
  /\ SettFinish(c)
  /\ UNCHANGED <<clock, members, splits>>

\* An error answer, a deadlock, a lost connection or a crash: nothing is kept.
SettAbort(c) ==
  /\ settling[c] # None
  /\ SettFinish(c)
  /\ UNCHANGED <<clock, tables>>

-----------------------------------------------------------------------------
(* What else reaches the booked rows.  PATCH and DELETE of /transactions   *)
(* refuse rows of group transactions, not rows of settlements.             *)

UpdateTransaction ==
  /\ DirectEdits
  /\ \E t \in RowIds, k \in {"expense", "income"}, n \in SettAmounts :
       /\ RowLive(t) /\ personal[t].gt = None
       /\ Stored(n) > 0
       /\ personal' = [personal EXCEPT ![t].kind = k, ![t].amt = Stored(n)]
  /\ UNCHANGED <<clock, groupDeleted, members, gts, splits, setts, settling>>

DeleteTransaction ==
  /\ DirectEdits
  /\ \E t \in RowIds :
       /\ RowLive(t) /\ personal[t].gt = None
       /\ personal' = [personal EXCEPT ![t] = NoRow]
  /\ UNCHANGED <<clock, groupDeleted, members, gts, splits, setts, settling>>

\* The rows of a settlement were hidden by one transaction, so they are a day old
\* together.
PurgeSettledRows ==
  /\ Purges
  /\ \E old \in SUBSET (SettIds \cup {None}) :
       personal' = [t \in RowIds |->
         IF personal[t] # NoRow /\ personal[t].gt = None /\ personal[t].sett \in old
            /\ personal[t].deleted
         THEN NoRow ELSE personal[t]]
  /\ UNCHANGED <<clock, groupDeleted, members, gts, splits, setts, settling>>

\* A row lock of an open update makes the DELETE wait.
PurgeSettlements ==
  /\ Purges
  /\ \E old \in SUBSET {x \in SettIds : setts[x] # NoRow /\ setts[x].deleted /\ ~Locked(x)} :
       /\ setts' = [x \in SettIds |-> IF x \in old THEN NoRow ELSE setts[x]]
       /\ personal' = [t \in RowIds |->                      \* ON DELETE SET NULL
                         IF personal[t] # NoRow /\ personal[t].sett \in old
                         THEN [personal[t] EXCEPT !.sett = None] ELSE personal[t]]
  /\ UNCHANGED <<clock, groupDeleted, members, gts, splits, settling>>

-----------------------------------------------------------------------------
SettInit ==
  /\ clock = 0
  /\ groupDeleted = FALSE
  /\ members = Users
  /\ setts = [x \in SettIds |-> NoRow]
  /\ \E o \in Openings : gts = o.gts /\ splits = o.splits /\ personal = o.personal
  /\ settling = [c \in Requesters |-> None]

SettNext ==
  \/ \E c \in Requesters :
       \/ ReceiveSettlement(c) \/ InsertSettlement(c) \/ CommitSettlement(c)
       \/ ReceiveSettUpdate(c) \/ RepriceSettlement(c) \/ CommitReprice(c) \/ CommitNotes(c)
       \/ ReceiveSettDelete(c) \/ HideSettRows(c) \/ CommitSettDelete(c)
       \/ ReceiveClose(c) \/ CloseSettlements(c) \/ CommitDeleteGroup(c)
       \/ SettAbort(c)
  \/ UpdateTransaction \/ DeleteTransaction
  \/ PurgeSettledRows \/ PurgeSettlements

SettSpec == SettInit /\ [][SettNext]_settVars

-----------------------------------------------------------------------------
(* Properties.                                                             *)

\* Every variable holds a value of its table or request type.
SettTypeOK ==
  /\ TablesTypeOK
  /\ settling \in [Requesters -> SettRequest \cup {None}]

\* Rows i and e are all the rows of settlement x, and mirror each other.
IsPair(x, i, e) ==
  /\ Linked(x) = {i, e}
  /\ personal[i].kind = "income" /\ personal[i].user = setts[x].to
  /\ personal[e].kind = "expense" /\ personal[e].user = setts[x].from
  /\ personal[i].amt = personal[e].amt /\ personal[e].amt <= setts[x].amt
  /\ personal[i].deleted = personal[e].deleted
  /\ ~personal[i].deleted => /\ personal[i].meta = setts[x].meta
                             /\ personal[e].meta = setts[x].meta

\* "there will be 0 or 2": the rows of a settlement are none, or an income of the
\* recipient and an expense of the payer, of the same amount, not above the
\* settlement's, with its notes, and both shown or both hidden.
PairedRows ==
  \A x \in SettIds :
    Linked(x) # {} => setts[x] # NoRow /\ \E i, e \in RowIds : IsPair(x, i, e)

DeletedSettShown(x) ==
  /\ setts[x] # NoRow /\ setts[x].deleted
  /\ \E t \in Linked(x) : RowLive(t)

\* "DeleteSettlement cascades cleanly", but for two requests in flight: a row of a
\* deleted settlement can only be shown by an update of the amount that
\* was checked before the delete, by a delete whose first statement ran before
\* such an update had committed, or by the deletion of the whole group, which deletes the
\* settlement and leaves the rows it booked in the dashboards.
OnlyRepriceRevives ==
  [][\A x \in SettIds : ~DeletedSettShown(x) /\ DeletedSettShown(x)' =>
       \E c \in Requesters :
         /\ settling[c] # None /\ settling'[c] = None
         /\ \/ settling[c].op = "reprice" /\ settling[c].sett = x
            \/ /\ settling[c].op = "hide" /\ settling[c].sett = x
               /\ Linked(x) \ settling[c].seen # {}
            \/ settling[c].op = "close" /\ x \in settling[c].seen
    ]_settVars

AtLeastZero(n) == IF n < 0 THEN 0 ELSE n

\* What the dashboards show as paid beyond the debt with settlement x.
Booked(x) ==
  SumFunction([t \in {t \in Linked(x) : RowLive(t) /\ personal[t].kind = "expense"} |->
                 personal[t].amt])

\* What u has paid v without it being booked, because a share stands for it.
Cleared(u, v) ==
  SumFunction([x \in Settled(u, v) |-> AtLeastZero(setts[x].amt - Booked(x))])

\* What u owes v by the splits, and to return by v's own settlements.
Owed(u, v) ==
  AtLeastZero(Shares(PaidBy(v), u) - Shares(PaidBy(u), v) + Paid(Settled(v, u)))

\* "only book the excess portion": payments are left unbooked only up to the debt
\* that the shares of group transactions stand for, so that money paid is neither
\* missing from the dashboards nor counted against the same share twice.
ClearsOnlyDebt ==
  [][settling' # settling =>
       \A u, v \in Users :
         Cleared(u, v)' > Cleared(u, v) => Cleared(u, v)' <= Owed(u, v)']_settVars

\* A settlement whose amount is changed ends up with exactly the rows that a
\* settlement of that amount should have, whatever was booked for it before.
UpdateBooksExcess ==
  [][\A c \in Requesters, x \in SettIds :
       /\ settling[c] # None /\ settling[c].op = "reprice" /\ settling[c].sett = x
       /\ settling'[c] = None /\ SettLive(x) /\ <<setts, personal>>' # <<setts, personal>>
       => Booked(x)' = Excess(PairwiseDebt(setts[x].from, setts[x].to, x), setts'[x].amt)
    ]_settVars

\* "amount <= debt -> no rows (pure debt clearing)".
PureClearing ==
  [][\A x \in SettIds :
       /\ setts[x] = NoRow /\ setts'[x] # NoRow
       /\ setts'[x].amt <= PairwiseDebt(setts'[x].from, setts'[x].to, None)
       => Booked(x)' = 0
    ]_settVars

\* A member's balance, which decides whether it may leave, is what the others owe
\* it, which decides what a settlement books: getUserGroupBalance and pairwiseDebt
\* agree as long as the splits of every group transaction add up.
BalanceIsSumOfDebts ==
  (\A g \in GtIds : GtLive(g) => SplitSum(g) = gts[g].total) =>
    \A v \in Users :
      Balance(v) = SumFunction([u \in Users \ {v} |-> PairwiseDebt(u, v, None)])
=============================================================================
