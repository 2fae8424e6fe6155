-------------------------- MODULE GroupTransactions --------------------------
(***************************************************************************)
(* The write handlers of /groups/:id/transactions: create (an upsert by    *)
(* client-supplied id), partial update and delete, with the personal rows  *)
(* they keep in step (applySplitsInPlace), the upsert of POST              *)
(* /transactions that can reach such a row, and the purge job.             *)
(*                                                                         *)
(* A handler is two steps.  Its checks read the database through the pool, *)
(* outside any transaction: the Receive actions.  Its writes are one READ  *)
(* COMMITTED transaction: the Commit actions.  Between the two any other   *)
(* request may run, which is what "pending" is for.  Creates and updates   *)
(* of one group transaction lock its row first, so their transaction can   *)
(* be one step.  A delete locks it last: which personal rows it hides is   *)
(* what its first statement sees (HideRows), and other requests may commit *)
(* before it does.  Where row locks would deadlock, PostgreSQL aborts one  *)
(* of the two requests: Abort.                                             *)
(***************************************************************************)
EXTENDS GroupState

CONSTANTS
  Clients,     \* requests in flight at once
  SplitLists,  \* the "splits" arrays clients send
  Totals,      \* the "total_amount" values clients send
  Payers,      \* bound: who pays
  Reassignments,  \* per category that may be deleted, what each value of Metas becomes
  MaxTime,     \* bound on the clock
  ClientLead   \* how far a client's clock may be ahead of the server's

VARIABLES
  pending,  \* the request each client has in flight, past its checks
  purging   \* the purge job is between its first two DELETE statements

gtVars == <<clock, tables, pending, purging>>

-----------------------------------------------------------------------------
(* Requests.  A field an update leaves out is None (<<>> for splits).      *)

CreateRequest ==
  [op: {"create"}, gt: GtIds, payer: Users, total: Totals,
   splits: SplitLists, meta: Metas, stamp: Nat]

UpdateRequest ==
  [op: {"update"}, gt: GtIds, payer: Users \cup {None}, total: Totals \cup {None},
   splits: SplitLists \cup {<<>>}, meta: Metas \cup {None}, stamp: Nat]

DeleteRequest == [op: {"delete"}, gt: GtIds]

\* A delete whose transaction is open: when it began, and the rows it has updated.
HideRequest == [op: {"hide"}, gt: GtIds, stamp: Nat, seen: SUBSET RowIds]

\* The deletion of a category, by its owner or by an admin, with the rows its statements
\* have updated: its own shares first, the group transactions its users paid next.
RecatRequest ==
  [op: {"recat"}, to: Reassignments, owners: SUBSET Users, next: {"groups", "commit"},
   seen: SUBSET RowIds, gts: SUBSET GtIds]

Request == CreateRequest \cup UpdateRequest \cup DeleteRequest \cup HideRequest
           \cup RecatRequest

ASSUME GtAssumptions ==
  /\ SplitLists \subseteq Seq([user: Users, amt: Amount]) \ {<<>>}
  /\ Totals \subseteq Amount
  /\ Payers \subseteq Users
  /\ Reassignments \subseteq [Metas -> Metas]
  /\ MaxTime \in Nat
  /\ ClientLead \in Nat
  /\ None \notin Amount \cup Request

SplitUsers(s) == {s[i].user : i \in DOMAIN s}
SplitListSum(s) == SumFunction([i \in DOMAIN s |-> s[i].amt])
Repeats(s) == \E i, j \in DOMAIN s : i # j /\ s[i].user = s[j].user

\* The version a write claims: any time a client's clock may have shown while
\* it was offline, or the server's own time.
Stamps == 0 .. (clock + ClientLead)

-----------------------------------------------------------------------------
(* applySplitsInPlace.  It reads the current splits once, then goes        *)
(* through the wanted ones in order; "fresh" gives the id of each row it   *)
(* inserts.  The last entry of a user is the one that stays.               *)

LastEntry(s, u) == CHOOSE i \in DOMAIN s :
  s[i].user = u /\ \A j \in DOMAIN s : s[j].user = u => j <= i

\* A mutant of Reused: every edit inserts the rows anew, as an older version did.
NeverReused(g, u) == FALSE

\* The member's personal row is updated in place: the split exists and has one.
Reused(g, u) == Bound(g, u)

\* The entries that insert a personal row.
Inserted(g, s) == {i \in DOMAIN s : ~Reused(g, s[i].user)}

\* gen_random_uuid never returns an id that an open transaction still remembers.
UnusedRows == {t \in RowIds :
  /\ personal[t] = NoRow
  /\ \A c \in Clients :
       pending[c] # None /\ pending[c].op \in {"hide", "recat"} => t \notin pending[c].seen}

FreshRows(g, s) == Injection(Inserted(g, s), UnusedRows)

\* The statements fail, and the transaction rolls back, when a split row would
\* be inserted twice or a personal row's CHECK (amount > 0) does not hold.
SplitsFail(g, s) ==
  \/ \E i, j \in DOMAIN s : i # j /\ s[i].user = s[j].user /\ ~HasSplit(g, s[i].user)
  \/ \E i \in DOMAIN s : Stored(s[i].amt) = 0

NewSplit(g, s, u, fresh) ==
  [amt |-> Stored(s[LastEntry(s, u)].amt),
   row |-> IF Reused(g, u) THEN splits[g][u].row ELSE fresh[LastEntry(s, u)]]

SplitsAfter(g, s, fresh) ==
  [u \in Users |-> IF u \in SplitUsers(s) THEN NewSplit(g, s, u, fresh) ELSE NoRow]

InsertedRow(g, e, m) ==
  [user |-> e.user, kind |-> "expense", amt |-> Stored(e.amt), meta |-> m,
   gt |-> g, sett |-> None, deleted |-> FALSE]

\* A mutant of UpdatedPersonal: is_deleted = FALSE is left out of the UPDATE.
UpdatedNotRevived(row, a, m) == [row EXCEPT !.amt = Stored(a), !.meta = m]

UpdatedPersonal(row, a, m) ==
  [row EXCEPT !.amt = Stored(a), !.meta = m, !.deleted = FALSE]

PointsAt(g, u, t) == Bound(g, u) /\ splits[g][u].row = t

\* The entry that inserts row t, and the named user whose split points at t.
EntryOfRow(fresh, t) == CHOOSE i \in DOMAIN fresh : fresh[i] = t
UserOfRow(g, s, t) == CHOOSE u \in SplitUsers(s) : PointsAt(g, u, t)

RowAfter(g, s, m, fresh, t) ==
  IF \E i \in DOMAIN fresh : fresh[i] = t
  THEN InsertedRow(g, s[EntryOfRow(fresh, t)], m)
  ELSE IF \E u \in SplitUsers(s) : Reused(g, u) /\ PointsAt(g, u, t)
  THEN UpdatedPersonal(personal[t], s[LastEntry(s, UserOfRow(g, s, t))].amt, m)
  ELSE IF \E u \in Users \ SplitUsers(s) : PointsAt(g, u, t)
  THEN [personal[t] EXCEPT !.deleted = TRUE]
  ELSE personal[t]

ApplySplits(g, s, m) ==
  \E fresh \in FreshRows(g, s) :
    /\ splits' = [splits EXCEPT ![g] = SplitsAfter(g, s, fresh)]
    /\ personal' = [t \in RowIds |-> RowAfter(g, s, m, fresh, t)]

-----------------------------------------------------------------------------
(* The checks of a request, up to db.WithTx.                               *)

Receive(c, r) ==
  /\ pending[c] = None
  /\ pending' = [pending EXCEPT ![c] = r]
  /\ UNCHANGED <<clock, tables, purging>>

\* The caller is any member, the payer for one.
ReceiveCreate(c) ==
  \E p \in members \cap Payers, g \in GtIds, n \in Totals, s \in SplitLists, m \in Metas, t \in Stamps :
    /\ SplitListSum(s) = n
    /\ ActiveMembers({p} \cup SplitUsers(s))
    /\ SameCurrency({p} \cup SplitUsers(s))
    /\ Receive(c, [op |-> "create", gt |-> g, payer |-> p, total |-> n,
                   splits |-> s, meta |-> m, stamp |-> t])

\* New splits must add up to the new total, or to the stored one when the request gives none.
UpdateChecked(g, p, n, s, m) ==
  LET payer == IF p = None THEN gts[g].payer ELSE p
      involved == IF s # <<>> THEN SplitUsers(s) ELSE {v \in Users : HasSplit(g, v)}
  IN /\ GtLive(g)
     /\ <<p, s, m>> # <<None, <<>>, None>>
     /\ p # None => ActiveMembers({p})
     /\ n # None => s # <<>>
     /\ s # <<>> => /\ SplitListSum(s) = IF n = None THEN gts[g].total ELSE n
                    /\ ActiveMembers(SplitUsers(s))
     /\ s # <<>> \/ p # None => SameCurrency({payer} \cup involved)

\* Anyone involved may update, a member or not, so the payer can.
ReceiveUpdate(c) ==
  \E g \in GtIds, p \in Payers \cup {None}, n \in Totals \cup {None},
     s \in SplitLists \cup {<<>>}, m \in Metas \cup {None}, t \in Stamps :
    /\ UpdateChecked(g, p, n, s, m)
    /\ Receive(c, [op |-> "update", gt |-> g, payer |-> p, total |-> n,
                   splits |-> s, meta |-> m, stamp |-> t])

\* A member who is involved; a deleted group transaction may be deleted again.
ReceiveDelete(c) ==
  \E g \in GtIds :
    /\ ~groupDeleted /\ gts[g] # NoRow
    /\ {u \in members : Involved(g, u)} # {}
    /\ Receive(c, [op |-> "delete", gt |-> g])

-----------------------------------------------------------------------------
(* The database transaction of a request.                                  *)

Finish(c) == pending' = [pending EXCEPT ![c] = None]

\* A mutant of Stale: off by one tick.
StaleByTwo(r) == gts[r.gt] # NoRow /\ gts[r.gt].stamp > r.stamp + 1

\* A newer version is stored; equal stamps let the write through.
Stale(r) == gts[r.gt] # NoRow /\ gts[r.gt].stamp > r.stamp

\* A mutant of UpsertedRow: the conflict branch does not undelete.
UpsertedStaysDeleted(r) ==
  [payer |-> r.payer, total |-> Stored(r.total), meta |-> r.meta,
   deleted |-> gts[r.gt] # NoRow /\ gts[r.gt].deleted, stamp |-> r.stamp]

\* INSERT ... ON CONFLICT (id) DO UPDATE: writes every column, and undeletes.
UpsertedRow(r) ==
  [payer |-> r.payer, total |-> Stored(r.total), meta |-> r.meta,
   deleted |-> FALSE, stamp |-> r.stamp]

CommitCreate(c) ==
  /\ pending[c] # None /\ pending[c].op = "create"
  /\ LET r == pending[c] IN
     /\ ~Stale(r) /\ Stored(r.total) > 0 /\ ~SplitsFail(r.gt, r.splits)
     /\ gts' = [gts EXCEPT ![r.gt] = UpsertedRow(r)]
     /\ ApplySplits(r.gt, r.splits, r.meta)
  /\ Finish(c)
  /\ UNCHANGED <<clock, groupDeleted, members, setts, purging>>

\* A mutant of UpdatedRow: total_amount is left out of the UPDATE.
UpdatedButTotal(r) ==
  [payer |-> IF r.payer = None THEN gts[r.gt].payer ELSE r.payer,
   total |-> gts[r.gt].total,
   meta |-> IF r.meta = None THEN gts[r.gt].meta ELSE r.meta,
   deleted |-> gts[r.gt].deleted, stamp |-> r.stamp]

\* The columns an update leaves; it does not look at is_deleted.
UpdatedRow(r) ==
  LET row == gts[r.gt]
  IN  [payer |-> IF r.payer = None THEN row.payer ELSE r.payer,
       total |-> IF r.total = None THEN row.total ELSE Stored(r.total),
       meta |-> IF r.meta = None THEN row.meta ELSE r.meta,
       deleted |-> row.deleted, stamp |-> r.stamp]

\* Without new splits, the fields that changed go to the live linked rows.
SyncPersonal(g, m) ==
  personal' = [t \in RowIds |->
                 IF m # None /\ RowLive(t) /\ personal[t].gt = g
                 THEN [personal[t] EXCEPT !.meta = m] ELSE personal[t]]

CommitUpdate(c) ==
  /\ pending[c] # None /\ pending[c].op = "update"
  /\ LET r == pending[c] IN
     /\ gts[r.gt] # NoRow /\ ~Stale(r)
     /\ UpdatedRow(r).total > 0
     /\ gts' = [gts EXCEPT ![r.gt] = UpdatedRow(r)]
     /\ \/ /\ r.splits # <<>> /\ ~SplitsFail(r.gt, r.splits)
           /\ ApplySplits(r.gt, r.splits, UpdatedRow(r).meta)
        \/ /\ r.splits = <<>>
           /\ SyncPersonal(r.gt, r.meta)
           /\ UNCHANGED splits
  /\ Finish(c)
  /\ UNCHANGED <<clock, groupDeleted, members, setts, purging>>

\* The delete's transaction begins, which sets NOW(), and its first statement takes
\* the personal rows it can see.
HideRows(c) ==
  /\ pending[c] # None /\ pending[c].op = "delete"
  /\ LET g == pending[c].gt IN
     pending' = [pending EXCEPT ![c] =
       [op |-> "hide", gt |-> g, stamp |-> clock,
        seen |-> {t \in RowIds : personal[t] # NoRow /\ personal[t].gt = g}]]
  /\ UNCHANGED <<clock, tables, purging>>

\* A row that another transaction has changed meanwhile is looked at again.
HiddenRow(r, t) ==
  IF t \in r.seen /\ personal[t] # NoRow /\ personal[t].gt = r.gt
  THEN [personal[t] EXCEPT !.deleted = TRUE] ELSE personal[t]

CommitDelete(c) ==
  /\ pending[c] # None /\ pending[c].op = "hide"
  /\ LET r == pending[c] IN
     /\ personal' = [t \in RowIds |-> HiddenRow(r, t)]
     /\ gts' = IF gts[r.gt] = NoRow THEN gts
               ELSE [gts EXCEPT ![r.gt].deleted = TRUE, ![r.gt].stamp = r.stamp]
  /\ Finish(c)
  /\ UNCHANGED <<clock, groupDeleted, members, splits, setts, purging>>

\* DELETE of a category, /categories or /admin: what its statements find to update.
Moves(to, m) == m # None /\ to[m] # m

ReceiveRecat(c) ==
  \E to \in Reassignments, owners \in {{u} : u \in Users} \cup {Users} :
    Receive(c, [op |-> "recat", to |-> to, owners |-> owners, next |-> "groups", gts |-> {},
      seen |-> {t \in RowIds : /\ personal[t] # NoRow /\ personal[t].user \in owners
                              /\ Moves(to, personal[t].meta)}])

RecatGroups(c) ==
  /\ pending[c] # None /\ pending[c].op = "recat" /\ pending[c].next = "groups"
  /\ LET r == pending[c] IN
     pending' = [pending EXCEPT ![c].next = "commit",
       ![c].gts = {g \in GtIds : /\ gts[g] # NoRow /\ gts[g].payer \in r.owners
                                /\ Moves(r.to, gts[g].meta)}]
  /\ UNCHANGED <<clock, tables, purging>>

\* Rows that others have changed meanwhile are looked at again; no stamp moves.
RecatRow(r, t) ==
  IF t \in r.seen /\ personal[t] # NoRow /\ personal[t].meta # None
  THEN [personal[t] EXCEPT !.meta = r.to[@]] ELSE personal[t]

RecatGt(r, g) ==
  IF g \in r.gts /\ gts[g] # NoRow /\ gts[g].payer \in r.owners
  THEN [gts[g] EXCEPT !.meta = r.to[@]] ELSE gts[g]

CommitRecat(c) ==
  /\ pending[c] # None /\ pending[c].op = "recat" /\ pending[c].next = "commit"
  /\ personal' = [t \in RowIds |-> RecatRow(pending[c], t)]
  /\ gts' = [g \in GtIds |-> RecatGt(pending[c], g)]
  /\ Finish(c)
  /\ UNCHANGED <<clock, groupDeleted, members, splits, setts, purging>>

\* A 404, 409 or 500, a lost connection or a crash: the transaction rolls back.
Abort(c) ==
  /\ pending[c] # None
  /\ Finish(c)
  /\ UNCHANGED <<clock, tables, purging>>

-----------------------------------------------------------------------------
(* POST /transactions with the id of an existing row of the caller.        *)

EditAmounts == {Stored(a) : a \in UNION {{s[i].amt : i \in DOMAIN s} : s \in SplitLists}} \ {0}

UpsertTransaction ==
  /\ DirectEdits
  /\ \E t \in RowIds, kind \in {"expense", "income"}, a \in EditAmounts, m \in Metas :
       /\ personal[t] # NoRow
       /\ personal' = [personal EXCEPT ![t].kind = kind, ![t].amt = a, ![t].meta = m]
  /\ UNCHANGED <<clock, groupDeleted, members, gts, splits, setts, pending, purging>>

-----------------------------------------------------------------------------
(* purgeSoftDeleted: one DELETE statement per table, in this order.  Which *)
(* soft-deleted rows are a day old is left open.                           *)

\* A mutant of Unpointed: no ON DELETE SET NULL on splits.transaction_id.
StillPointed(old) == splits

\* ON DELETE SET NULL of splits.transaction_id.
Unpointed(old) ==
  [g \in GtIds |-> [u \in Users |->
     IF Bound(g, u) /\ splits[g][u].row \in old
     THEN [splits[g][u] EXCEPT !.row = None] ELSE splits[g][u]]]

PurgeTransactions ==
  /\ Purges
  /\ ~purging /\ purging' = TRUE
  /\ \E old \in SUBSET {t \in RowIds : personal[t] # NoRow /\ personal[t].deleted} :
       /\ personal' = [t \in RowIds |-> IF t \in old THEN NoRow ELSE personal[t]]
       /\ splits' = Unpointed(old)
  /\ UNCHANGED <<clock, groupDeleted, members, gts, setts, pending>>

PurgeGroupTransactions ==
  /\ purging /\ purging' = FALSE
  /\ \E old \in SUBSET {g \in GtIds : gts[g] # NoRow /\ gts[g].deleted} :
       /\ gts' = [g \in GtIds |-> IF g \in old THEN NoRow ELSE gts[g]]
       /\ splits' = [g \in GtIds |->                         \* ON DELETE CASCADE
                       IF g \in old THEN [u \in Users |-> NoRow] ELSE splits[g]]
       /\ personal' = [t \in RowIds |->                      \* ON DELETE SET NULL
                         IF personal[t] # NoRow /\ personal[t].gt \in old
                         THEN [personal[t] EXCEPT !.gt = None] ELSE personal[t]]
  /\ UNCHANGED <<clock, groupDeleted, members, setts, pending>>

Tick ==
  /\ clock < MaxTime
  /\ clock' = clock + 1
  /\ UNCHANGED <<tables, pending, purging>>

-----------------------------------------------------------------------------
GtInit ==
  /\ EmptyTables
  /\ pending = [c \in Clients |-> None]
  /\ purging = FALSE

GtNext ==
  \/ \E c \in Clients :
       \/ ReceiveCreate(c) \/ ReceiveUpdate(c) \/ ReceiveDelete(c)
       \/ CommitCreate(c) \/ CommitUpdate(c) \/ HideRows(c) \/ CommitDelete(c) \/ Abort(c)
       \/ ReceiveRecat(c) \/ RecatGroups(c) \/ CommitRecat(c)
  \/ UpsertTransaction
  \/ PurgeTransactions \/ PurgeGroupTransactions
  \/ Tick

GtSpec == GtInit /\ [][GtNext]_gtVars

-----------------------------------------------------------------------------
(* Properties.                                                             *)

\* Every variable holds a value of its table or request type.
GtTypeOK ==
  /\ TablesTypeOK
  /\ pending \in [Clients -> Request \cup {None}]
  /\ purging \in BOOLEAN

\* A split row belongs to a stored group transaction, and the personal row it
\* points at exists, is its user's own and points back at the same group
\* transaction: applySplitsInPlace never hands one member's row to another, and
\* the purge leaves no dangling pointer.
SplitsPointAtOwnRow ==
  \A g \in GtIds, u \in Users :
    HasSplit(g, u) =>
      /\ gts[g] # NoRow
      /\ splits[g][u].row # None =>
           LET row == personal[splits[g][u].row]
           IN  row # NoRow /\ row.user = u /\ row.gt = g

\* A share is counted once in its user's dashboard: a live personal row that is
\* linked to a group transaction is the row the user's split points at, however
\* edits, retries, deletes and purges interleave.
OneLiveRowPerShare ==
  \A t \in RowIds :
    RowLive(t) /\ personal[t].gt # None =>
      /\ Bound(personal[t].gt, personal[t].user)
      /\ splits[personal[t].gt][personal[t].user].row = t

\* While a group transaction is live, every share of it is in its user's
\* dashboard: the personal row is live and shows the split's amount and, as long as no
\* category is deleted, the group transaction's category, date and notes.  (The deletion of
\* a category moves the rows of one user, or one after the other: another member's share
\* keeps the key when the payer's group transaction loses it.)
LiveSharesShown ==
  \A g \in GtIds, u \in Users :
    GtLive(g) /\ HasSplit(g, u) =>
      /\ Bound(g, u) /\ RowLive(splits[g][u].row)
      /\ LET row == personal[splits[g][u].row]
         IN  /\ row.kind = "expense" /\ row.amt = splits[g][u].amt
             /\ Reassignments = {} => row.meta = gts[g].meta

Balanced(g) == GtLive(g) => SplitSum(g) = gts[g].total

\* "splits sum must equal total_amount": what the sum checks of create and update
\* and README.md promise of every stored group transaction.
SplitsSumToTotal == \A g \in GtIds : Balanced(g)

\* The sum can only be broken by a request that names a user twice, or by an
\* update that sends splits without a total and was checked against a total that
\* another request has replaced since.
OnlyKnownImbalance ==
  [][\A g \in GtIds : Balanced(g) /\ ~Balanced(g)' =>
       \E c \in Clients :
         /\ pending[c] # None /\ pending'[c] = None
         /\ pending[c].op \in {"create", "update"} /\ pending[c].gt = g
         /\ \/ Repeats(pending[c].splits)
            \/ pending[c].op = "update" /\ pending[c].total = None
    ]_gtVars

\* "every user involved in the transaction (payer + every split member) must
\* share the same users.currency", for what is stored and not only for one request.
OneCurrency ==
  \A g \in GtIds : GtLive(g) =>
    SameCurrency({gts[g].payer} \cup {u \in Users : HasSplit(g, u)})

DeletedRowShown(g) ==
  /\ gts[g] # NoRow /\ gts[g].deleted
  /\ \E t \in RowIds : RowLive(t) /\ personal[t].gt = g

\* "Soft-deletes the group transaction and its associated personal transaction
\* records": no dashboard shows a share of a deleted group transaction.
DeleteHidesShares == \A g \in GtIds : ~DeletedRowShown(g)

\* A deleted group transaction stays or comes back in a dashboard in two ways only:
\* an update with new splits whose checks ran before the delete, or a delete whose
\* first statement did not see what a concurrent request with splits inserted.  No
\* create, retry, plain edit, category deletion or purge does it, however late it is.  (The
\* deletion of the whole group is in GroupMembership: ClosedGroupHidesShares.)
OnlyLateUpdateRevives ==
  [][\A g \in GtIds : ~DeletedRowShown(g) /\ DeletedRowShown(g)' =>
       \E c \in Clients :
         /\ pending[c] # None /\ pending'[c] = None
         /\ pending[c].op \in {"update", "hide"} /\ pending[c].gt = g
         /\ \/ pending[c].op = "update" /\ pending[c].splits # <<>>
            \/ /\ pending[c].op = "hide"
               /\ \E u \in Users : Bound(g, u) /\ splits[g][u].row \notin pending[c].seen
    ]_gtVars

\* Last write wins: as long as a group transaction is not deleted or purged, what
\* it and its splits hold is never replaced by a write with an older stamp.
LastWriteWins ==
  [][\A g \in GtIds :
       /\ gts[g] # NoRow /\ gts'[g] # NoRow
       /\ ~(gts'[g].deleted /\ ~gts[g].deleted)
       /\ gts'[g].stamp < gts[g].stamp
       => /\ gts[g].deleted
          /\ gts'[g] = [gts[g] EXCEPT !.stamp = gts'[g].stamp]
          /\ splits'[g] = splits[g]
    ]_gtVars

\* "preserving personal transaction IDs across re-syncs": a share that stays keeps
\* its personal row until the purge removes that row.
RowIdsPreserved ==
  [][\A g \in GtIds, u \in Users :
       Bound(g, u) /\ HasSplit(g, u)' =>
         \/ splits'[g][u].row = splits[g][u].row
         \/ splits'[g][u].row = None /\ personal'[splits[g][u].row] = NoRow
    ]_gtVars

\* The group transaction and the splits already are what create request r writes.
AlreadyApplied(r) ==
  /\ gts[r.gt] = UpsertedRow(r)
  /\ \A u \in Users : IF u \in SplitUsers(r.splits)
                      THEN SplitAmount(r.gt, u) = Stored(r.splits[LastEntry(r.splits, u)].amt)
                      ELSE ~HasSplit(r.gt, u)

\* A create that is sent again (the client never saw the answer) changes no row, as long
\* as no deletion of a category has set the shares apart from the group transaction.
RetryChangesNothing ==
  [][\A c \in Clients :
       Reassignments = {} /\ pending[c] # None /\ pending[c].op = "create" /\ AlreadyApplied(pending[c])
         /\ pending'[c] = None => UNCHANGED tables
    ]_gtVars
=============================================================================
