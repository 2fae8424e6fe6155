------------------------------ MODULE GroupState ------------------------------
(***************************************************************************)
(* The rows one group owns in PostgreSQL, as the handlers of the packages  *)
(* group, settlement and transaction read and write them, and the money    *)
(* sums those handlers compute from the rows.  The handlers themselves are *)
(* in GroupTransactions and Settlements.                                   *)
(*                                                                         *)
(* One group is modelled: no statement of these handlers touches a row of  *)
(* a group other than the one in its URL (the upsert refuses, with a 409,  *)
(* an id that another group owns).  Amounts are integers in units of       *)
(* 1/Unit of a cent, so that what DECIMAL(12,2) does to a finer amount can *)
(* be seen; Unit = 1 means clients only send whole cents.                  *)
(***************************************************************************)
EXTENDS Integers, Sequences, FiniteSets, Functions

CONSTANTS
  Users,      \* accounts
  GtIds,      \* ids a client may give a group transaction
  SettIds,    \* ids of settlements
  RowIds,     \* ids of personal transactions (gen_random_uuid)
  Metas,      \* a value stands for one category, date, description and notes
  Currency,   \* users.currency, a function of the user
  Unit,       \* units in one cent
  DirectEdits, \* TRUE if clients change linked rows through /transactions
  Purges,     \* TRUE if the daily purge job runs
  NoRow,      \* the absence of a row
  None        \* NULL, or a field the request leaves out

VARIABLES
  clock,        \* the server's wall clock, in ticks
  groupDeleted, \* groups.is_deleted
  members,      \* group_members
  gts,          \* group_transactions
  splits,       \* group_transaction_splits: UNIQUE (group transaction, user)
  setts,        \* settlements
  personal      \* transactions, the rows a user's own dashboard adds up

tables == <<groupDeleted, members, gts, splits, setts, personal>>

-----------------------------------------------------------------------------
Amount == Nat \ {0}

GtRow == [payer: Users, total: Amount, meta: Metas, deleted: BOOLEAN, stamp: Nat]

SplitRow == [amt: Amount, row: RowIds \cup {None}]

SettRow == [from: Users, to: Users, amt: Amount, meta: Metas \cup {None}, deleted: BOOLEAN]

PersonalRow == [user: Users, kind: {"expense", "income"}, amt: Amount,
                meta: Metas \cup {None}, gt: GtIds \cup {None},
                sett: SettIds \cup {None}, deleted: BOOLEAN]

\* Ids are UUIDs, of which there are finitely many.
ASSUME StateAssumptions ==
  /\ IsFiniteSet(Users) /\ IsFiniteSet(GtIds) /\ IsFiniteSet(SettIds) /\ IsFiniteSet(RowIds)
  /\ Unit \in Nat \ {0}
  /\ DirectEdits \in BOOLEAN /\ Purges \in BOOLEAN
  /\ None \notin Users \cup GtIds \cup SettIds \cup RowIds \cup Metas
  /\ NoRow \notin GtRow \cup SplitRow \cup SettRow \cup PersonalRow

TablesTypeOK ==
  /\ clock \in Nat
  /\ groupDeleted \in BOOLEAN
  /\ members \subseteq Users
  /\ gts \in [GtIds -> GtRow \cup {NoRow}]
  /\ splits \in [GtIds -> [Users -> SplitRow \cup {NoRow}]]
  /\ setts \in [SettIds -> SettRow \cup {NoRow}]
  /\ personal \in [RowIds -> PersonalRow \cup {NoRow}]

\* No rows yet, and every account in the group.
EmptyTables ==
  /\ clock = 0
  /\ groupDeleted = FALSE
  /\ members = Users
  /\ gts = [g \in GtIds |-> NoRow]
  /\ splits = [g \in GtIds |-> [u \in Users |-> NoRow]]
  /\ setts = [x \in SettIds |-> NoRow]
  /\ personal = [t \in RowIds |-> NoRow]

-----------------------------------------------------------------------------
\* DECIMAL(12,2): rounded to a whole cent, halves away from zero.
Stored(a) == ((2 * a + Unit) \div (2 * Unit)) * Unit

\* helpers.IsGroupMember and helpers.MissingGroupMembers.
ActiveMembers(S) == ~groupDeleted /\ S \subseteq members

\* COUNT(DISTINCT currency) <= 1.
SameCurrency(S) == \A u, v \in S : Currency[u] = Currency[v]

GtLive(g) == gts[g] # NoRow /\ ~gts[g].deleted
SettLive(x) == setts[x] # NoRow /\ ~setts[x].deleted
RowLive(t) == personal[t] # NoRow /\ ~personal[t].deleted

HasSplit(g, u) == splits[g][u] # NoRow
Bound(g, u) == HasSplit(g, u) /\ splits[g][u].row # None
SplitAmount(g, u) == IF HasSplit(g, u) THEN splits[g][u].amt ELSE 0

\* The caller paid for, or has a share of, group transaction g.
Involved(g, u) == gts[g].payer = u \/ HasSplit(g, u)

-----------------------------------------------------------------------------
Total(S) == SumFunction([g \in S |-> gts[g].total])
Shares(S, u) == SumFunction([g \in S |-> SplitAmount(g, u)])
Paid(S) == SumFunction([x \in S |-> setts[x].amt])

PaidBy(u) == {g \in GtIds : GtLive(g) /\ gts[g].payer = u}

\* A mutant of Settled: deleted settlements count.
EverSettled(u, v) == {x \in SettIds : setts[x] # NoRow /\ setts[x].from = u /\ setts[x].to = v}

Settled(u, v) == {x \in SettIds : SettLive(x) /\ setts[x].from = u /\ setts[x].to = v}

\* helpers.getUserGroupBalance: paid, minus owed, plus and minus settlements.
Balance(u) ==
  Total(PaidBy(u)) - Shares({g \in GtIds : GtLive(g)}, u)
    + Paid({x \in SettIds : SettLive(x) /\ setts[x].from = u})
    - Paid({x \in SettIds : SettLive(x) /\ setts[x].to = u})

\* settlement.pairwiseDebt: what u owes v, leaving settlement "except" out.
PairwiseDebt(u, v, except) ==
  Shares(PaidBy(v), u) - Shares(PaidBy(u), v)
    - Paid(Settled(u, v) \ {except}) + Paid(Settled(v, u) \ {except})

\* The sum of the split rows of group transaction g.
SplitSum(g) == SumFunction([u \in Users |-> SplitAmount(g, u)])
=============================================================================
