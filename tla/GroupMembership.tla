---------------------------- MODULE GroupMembership ----------------------------
(***************************************************************************)
(* The members of a group come and go while group transactions and         *)
(* settlements are written: AddMember, RemoveMember and LeaveGroup,        *)
(* DeleteGroup, and DeleteMe, composed with the requests of                *)
(* GroupTransactions and Settlements.                                      *)
(*                                                                         *)
(* RemoveMember and LeaveGroup lock the group's row (FOR UPDATE) and read  *)
(* the member's balance with four statements, each with its own snapshot.  *)
(* The lock stops what needs the row for a foreign key, the insert of a    *)
(* group transaction, a settlement, a booked row or a member; it does not  *)
(* stop the change of a row that is there.  DeleteMe reads without a lock. *)
(*                                                                         *)
(* A payer, split user or party whose account is deleted becomes NULL;     *)
(* here it stays and is no longer in "accounts".  The purge, the edits of  *)
(* /transactions and the deletions of categories are left out: no balance  *)
(* depends on them.                                                        *)
(***************************************************************************)
EXTENDS GroupTransactions, Settlements

CONSTANTS
  Creator,  \* groups.created_by
  Callers   \* requests about membership in flight at once

VARIABLES
  accounts,  \* users
  changing   \* the membership request each caller has in flight

memVars == <<clock, tables, pending, purging, settling, accounts, changing>>

AddRequest == [op: {"add"}, user: Users]

\* A leave, a removal or an account deletion.  Statement "next" of the balance comes
\* next: 0 waits for the lock, 5 has read all.  "moved" tells whether one of the four
\* sums has changed since the first statement in a way the lock cannot stop; the balance
\* need not have, for a statement reads a share whose payment the one before missed.
DepartRequest ==
  [op: {"leave", "quit"}, user: Users, next: 0 .. 5, sum: Int, moved: BOOLEAN]

\* A group deletion whose transaction is open.  Statement "next" comes next: 2 on group
\* transactions, 3 on settlements, 4 on the group; with what those before have updated.
CloseRequest ==
  [op: {"close"}, next: 2 .. 4, rows: SUBSET RowIds, gts: SUBSET GtIds, setts: SUBSET SettIds,
   stamp: Nat]

MemRequest == AddRequest \cup DepartRequest \cup CloseRequest

ASSUME MemAssumptions == Creator \in Users /\ None \notin MemRequest

Doing(op) == {c \in Callers : changing[c] # None /\ changing[c].op = op}

\* A mutant of GroupLocked: SELECT ... without FOR UPDATE.
NeverLocked == FALSE

\* A leave or removal holds the FOR UPDATE lock of the group's row.
GroupLocked == \E c \in Doing("leave") : changing[c].next > 0

-----------------------------------------------------------------------------
MemReceive(c, r) ==
  /\ changing[c] = None
  /\ changing' = [changing EXCEPT ![c] = r]
  /\ UNCHANGED <<clock, tables, pending, purging, settling, accounts>>

MemFinish(c) == changing' = [changing EXCEPT ![c] = None]

ReceiveAdd(c) ==
  \E u \in accounts \ members :
    ~groupDeleted /\ members # {} /\ MemReceive(c, [op |-> "add", user |-> u])

\* The primary key and the foreign keys of group_members.
MayAdd(u) == ~GroupLocked /\ u \in accounts /\ u \notin members

\* It does not look at the group again.
CommitAdd(c) ==
  /\ c \in Doing("add") /\ MayAdd(changing[c].user)
  /\ members' = members \cup {changing[c].user}
  /\ MemFinish(c)
  /\ UNCHANGED <<clock, groupDeleted, gts, splits, setts, personal, pending, purging,
                 settling, accounts>>

\* By the member, or by another one: the creator is there as long as the group.
ReceiveLeave(c) ==
  \E u \in members \ {Creator} :
    /\ ~groupDeleted
    /\ MemReceive(c, [op |-> "leave", user |-> u, next |-> 0, sum |-> 0, moved |-> FALSE])

\* FOR UPDATE waits for the lock and for inserts that hold the row's key.
LockGroup(c) ==
  /\ c \in Doing("leave") /\ changing[c].next = 0
  /\ ~GroupLocked /\ InFlight("insert") = {}
  /\ changing' = [changing EXCEPT ![c].next = 1]
  /\ UNCHANGED <<clock, tables, pending, purging, settling, accounts>>

\* DeleteMe reads balances in the active groups the caller is a member of; who owns
\* one is refused.
ReceiveQuit(c) ==
  \E u \in accounts :
    LET reads == u \in members /\ ~groupDeleted
    IN /\ u # Creator \/ groupDeleted
       /\ MemReceive(c, [op |-> "quit", user |-> u, next |-> IF reads THEN 1 ELSE 5,
                         sum |-> 0, moved |-> ~reads])

\* A mutant of BalancePart: settlements received are forgotten.
PartNoReceipts(u, n) ==
  IF n = 1 THEN Total(PaidBy(u))
  ELSE IF n = 2 THEN -Shares({g \in GtIds : GtLive(g)}, u)
  ELSE IF n = 3 THEN Paid({x \in SettIds : SettLive(x) /\ setts[x].from = u})
  ELSE 0

\* The four statements of getUserGroupBalance.
BalancePart(u, n) ==
  IF n = 1 THEN Total(PaidBy(u))
  ELSE IF n = 2 THEN -Shares({g \in GtIds : GtLive(g)}, u)
  ELSE IF n = 3 THEN Paid({x \in SettIds : SettLive(x) /\ setts[x].from = u})
  ELSE -Paid({x \in SettIds : SettLive(x) /\ setts[x].to = u})

ReadBalance(c) ==
  /\ c \in Doing("leave") \cup Doing("quit") /\ changing[c].next \in 1 .. 4
  /\ LET r == changing[c] IN
     changing' = [changing EXCEPT ![c].next = r.next + 1,
                                  ![c].sum = r.sum + BalancePart(r.user, r.next)]
  /\ UNCHANGED <<clock, tables, pending, purging, settling, accounts>>

Depart(c) ==
  /\ c \in Doing("leave") /\ changing[c].next = 5 /\ changing[c].sum = 0
  /\ members' = members \ {changing[c].user}
  /\ MemFinish(c)
  /\ UNCHANGED <<clock, groupDeleted, gts, splits, setts, personal, pending, purging,
                 settling, accounts>>

\* Open transactions whose rows the deletion of u's account has to wait for.
HoldsUser(r, u) ==
  \/ r.op = "insert" /\ u \in {r.from, r.to}
  \/ r.op = "reprice" /\ u \in {setts[r.sett].from, setts[r.sett].to}

\* A mutant of RowsWithout: the personal rows stay, with no owner.
RowsOrphaned(u) == personal

\* ON DELETE CASCADE of transactions.user_id.
RowsWithout(u) ==
  [t \in RowIds |-> IF personal[t] # NoRow /\ personal[t].user = u THEN NoRow ELSE personal[t]]

\* DELETE FROM users: cascades to memberships and personal rows, whose splits lose them.
DeleteAccount(c) ==
  /\ c \in Doing("quit") /\ changing[c].next = 5 /\ changing[c].sum = 0
  /\ LET u == changing[c].user IN
     /\ ~\E q \in Requesters : settling[q] # None /\ HoldsUser(settling[q], u)
     /\ accounts' = accounts \ {u}
     /\ members' = members \ {u}
     /\ personal' = RowsWithout(u)
     /\ splits' = [g \in GtIds |-> [v \in Users |->
                     IF v = u /\ Bound(g, u) THEN [splits[g][u] EXCEPT !.row = None]
                     ELSE splits[g][v]]]
  /\ MemFinish(c)
  /\ UNCHANGED <<clock, groupDeleted, gts, setts, pending, purging, settling>>

\* DeleteGroup by the creator: the first statement hides the linked rows it sees.
CloseGroup(c) ==
  /\ ~groupDeleted /\ Creator \in accounts
  /\ MemReceive(c, [op |-> "close", next |-> 2, gts |-> {}, setts |-> {}, stamp |-> clock,
       rows |-> {t \in RowIds : personal[t] # NoRow /\ personal[t].gt # None}])

CloseGts(c) ==
  /\ c \in Doing("close") /\ changing[c].next = 2
  /\ changing' = [changing EXCEPT ![c].next = 3, ![c].gts = {g \in GtIds : gts[g] # NoRow}]
  /\ UNCHANGED <<clock, tables, pending, purging, settling, accounts>>

CloseSetts(c) ==
  /\ c \in Doing("close") /\ changing[c].next = 3
  /\ changing' = [changing EXCEPT ![c].next = 4, ![c].setts = {x \in SettIds : setts[x] # NoRow}]
  /\ UNCHANGED <<clock, tables, pending, purging, settling, accounts>>

\* Refused for a balance, an error or a lost connection: nothing is kept.
MemAbort(c) ==
  /\ changing[c] # None
  /\ MemFinish(c)
  /\ UNCHANGED <<clock, tables, pending, purging, settling, accounts>>

-----------------------------------------------------------------------------
(* The other requests, with what accounts and the group's lock ask of them. *)

RowInserted ==
  \/ \E g \in GtIds : gts[g] = NoRow /\ gts'[g] # NoRow
  \/ \E x \in SettIds : setts[x] = NoRow /\ setts'[x] # NoRow

\* A write that changes a sum somebody is reading is noted there.
Noted ==
  [c \in Callers |->
     IF /\ c \in Doing("leave") \cup Doing("quit") /\ changing[c].next > 1
        /\ \E u \in {changing[c].user}, n \in 1 .. 4 : BalancePart(u, n)' # BalancePart(u, n)
        /\ changing[c].op = "quit" \/ ~RowInserted
     THEN [changing[c] EXCEPT !.moved = TRUE] ELSE changing[c]]

\* gen_random_uuid never returns the id of a row that an open deletion remembers.
NoneReused ==
  \A c \in Doing("close") : \A t \in changing[c].rows : personal[t] = NoRow => personal'[t] = NoRow

Watched == changing' = Noted /\ NoneReused /\ UNCHANGED accounts

\* Foreign keys to the group, when a row is inserted, and to users.
CreateAllowed(r) ==
  /\ {r.payer} \cup SplitUsers(r.splits) \subseteq accounts
  /\ gts[r.gt] = NoRow => ~GroupLocked

UpdateAllowed(r) == ({r.payer} \ {None}) \cup SplitUsers(r.splits) \subseteq accounts

SomeoneInvolved(g) == \E u \in accounts : Involved(g, u)

GtStep ==
  /\ \E c \in Clients :
       \/ ReceiveCreate(c)
       \/ ReceiveUpdate(c) /\ SomeoneInvolved(pending'[c].gt)
       \/ ReceiveDelete(c)
       \/ CommitCreate(c) /\ CreateAllowed(pending[c])
       \/ CommitUpdate(c) /\ UpdateAllowed(pending[c])
       \/ HideRows(c) \/ CommitDelete(c) \/ Abort(c)
  /\ Watched /\ UNCHANGED settling

\* A party asks, and an update of the amount needs both.
Parties(x) == {setts[x].from, setts[x].to}

SettStep ==
  /\ \E c \in Requesters :
       \/ ReceiveSettlement(c)
       \/ InsertSettlement(c) /\ ~GroupLocked /\ {settling[c].from, settling[c].to} \subseteq accounts
       \/ CommitSettlement(c)
       \/ ReceiveSettUpdate(c) /\ Parties(settling'[c].sett) \cap accounts # {}
       \/ RepriceSettlement(c) /\ Parties(settling[c].sett) \subseteq accounts
       \/ CommitReprice(c) /\ (settling[c].excess > 0 => ~GroupLocked)
       \/ CommitNotes(c)
       \/ ReceiveSettDelete(c) /\ Parties(settling'[c].sett) \cap accounts # {}
       \/ HideSettRows(c) \/ CommitSettDelete(c) \/ SettAbort(c)
  /\ Watched /\ UNCHANGED <<pending, purging>>

\* The last statement of DeleteGroup and its commit.  Rows that others have changed since
\* their statement are looked at again.
CommitClose(c) ==
  /\ c \in Doing("close") /\ changing[c].next = 4 /\ ~GroupLocked
  /\ \A x \in changing[c].setts : ~Locked(x)
  /\ groupDeleted' = TRUE
  /\ personal' = RowsClosed(changing[c].rows)
  /\ gts' = GtsClosed(changing[c].gts, changing[c].stamp)
  /\ setts' = SettsClosed(changing[c].setts)
  /\ changing' = [Noted EXCEPT ![c] = None]
  /\ UNCHANGED <<clock, members, splits, pending, purging, settling, accounts>>

MemStep(c) ==
  \/ ReceiveAdd(c) \/ CommitAdd(c)
  \/ ReceiveLeave(c) \/ LockGroup(c) \/ Depart(c)
  \/ ReceiveQuit(c) \/ ReadBalance(c) \/ DeleteAccount(c)
  \/ CloseGroup(c) \/ CloseGts(c) \/ CloseSetts(c) \/ CommitClose(c)
  \/ MemAbort(c)

-----------------------------------------------------------------------------
\* CreateGroup: the creator is its first member.
MemInit ==
  /\ clock = 0
  /\ groupDeleted = FALSE
  /\ members = {Creator}
  /\ gts = [g \in GtIds |-> NoRow]
  /\ splits = [g \in GtIds |-> [u \in Users |-> NoRow]]
  /\ setts = [x \in SettIds |-> NoRow]
  /\ personal = [t \in RowIds |-> NoRow]
  /\ pending = [c \in Clients |-> None]
  /\ purging = FALSE
  /\ settling = [c \in Requesters |-> None]
  /\ accounts = Users
  /\ changing = [c \in Callers |-> None]

MemNext == GtStep \/ SettStep \/ \E c \in Callers : MemStep(c)

MemSpec == MemInit /\ [][MemNext]_memVars

-----------------------------------------------------------------------------
(* Properties.                                                             *)

\* Every variable holds a value of its table or request type.
MemTypeOK ==
  /\ GtTypeOK /\ SettTypeOK
  /\ accounts \subseteq Users
  /\ changing \in [Callers -> MemRequest \cup {None}]

\* A deleted account leaves nothing behind that acts for it, whatever was in flight
\* when it was deleted: no membership, and no personal row or split that points at one.
DeletedAccountsGone ==
  /\ members \subseteq accounts
  /\ \A t \in RowIds : personal[t] # NoRow => personal[t].user \in accounts
  /\ \A g \in GtIds, u \in Users \ accounts : ~Bound(g, u)

\* What every state keeps: the types, and nothing of a deleted account.
MemInv == MemTypeOK /\ DeletedAccountsGone

\* "cannot leave group with non-zero balance": who leaves, is removed or deletes the
\* account is square with the group at that moment, unless a row that the balance
\* counts was changed between the four statements that read it.  A group transaction
\* or settlement inserted meanwhile cannot get past the lock of a leave or removal.
DepartsSettled ==
  [][\A c \in Doing("leave") \cup Doing("quit") :
       /\ changing'[c] = None /\ changing[c].user \in members \ members'
       /\ Balance(changing[c].user) # 0
       => changing[c].moved]_memVars

\* What a deletion of the group misses: what is live when the group is deleted, or while
\* the deletion is open and its statement on that table has not seen it.
LeftGt(g) ==
  /\ GtLive(g)
  /\ \/ groupDeleted
     \/ \E c \in Doing("close") : changing[c].next > 2 /\ g \notin changing[c].gts

LeftSett(x) ==
  /\ SettLive(x)
  /\ \/ groupDeleted
     \/ \E c \in Doing("close") : changing[c].next > 3 /\ x \notin changing[c].setts

\* DeleteGroup takes everything with it that its statements see: a group transaction can
\* stay in a deleted group, or turn up there, only by a create that finishes when the
\* statement on group transactions has run, whatever its checks saw; a settlement only by
\* an insert that does.
NothingRevivesInDeletedGroup ==
  [][/\ \A g \in GtIds : ~LeftGt(g) /\ LeftGt(g)' =>
          \E c \in Clients : pending[c] # None /\ pending'[c] = None
                               /\ pending[c].op = "create" /\ pending[c].gt = g
     /\ \A x \in SettIds : ~LeftSett(x) /\ LeftSett(x)' =>
          \E c \in InFlight("insert") : settling'[c] = None /\ settling[c].sett = x
    ]_memVars

\* A share of a group transaction of a deleted group shows in a dashboard only if a
\* create, or an update with splits, that was checked before is committed after it, or
\* the row was inserted after the deletion's first statement.
ClosedGroupHidesShares ==
  [][\A t \in RowIds :
       groupDeleted' /\ RowLive(t)' /\ personal'[t].gt # None
         /\ ~(groupDeleted /\ RowLive(t))
       => \/ \E c \in Clients : pending[c] # None /\ pending'[c] = None
                /\ pending[c].op \in {"create", "update"} /\ pending[c].splits # <<>>
          \/ \E c \in Doing("close") : changing'[c] = None /\ t \notin changing[c].rows
    ]_memVars
=============================================================================
