------------------------------ MODULE Categories ------------------------------
(***************************************************************************)
(* Categories and the rows that carry their keys.  A user's own categories *)
(* and his overrides of predefined ones are rows of custom_categories;     *)
(* transactions, recurring rules and group transactions hold a key, and no *)
(* foreign key ties it to a category.  ResolveCategoryKey looks a key up   *)
(* in one statement, the row is written in a later one, and a delete, an   *)
(* admin or another member's request may come in between.                  *)
(*                                                                         *)
(* A deletion takes the rows of one table after the other, each UPDATE     *)
(* with a snapshot of its own (READ COMMITTED), and what others commit     *)
(* after the UPDATE of their table it never sees.  The rows it has taken   *)
(* are locked, and others read them as they were until it commits.  Its    *)
(* last statement, of one row, goes with the commit.                       *)
(*                                                                         *)
(* A row that carries a key is its table, its user (the payer of a group   *)
(* transaction) and the key: how many rows are alike makes no difference.  *)
(* Names, icons and colours are left out; a name that is taken is one of   *)
(* the ways a statement fails.                                             *)
(***************************************************************************)
EXTENDS Integers, FiniteSets

CONSTANTS
  Users,       \* users
  Custom,      \* keys and ids of own categories, cc-...
  Predefined,  \* keys of predefined categories
  Other,       \* ProtectedKey
  Clients,     \* requests in flight at once
  Overriders,  \* bound: the users who override predefined categories
  MaxRefs,     \* bound: rows that carry a key
  MaxCats,     \* bound: rows of custom_categories
  NoRow,       \* the absence of a custom_categories row
  None         \* no request, no deletion (bound: one at a time)

VARIABLES
  predefined,  \* predefined_categories
  cats,        \* custom_categories, by id
  refs,        \* the rows that carry a key, but for those a deletion has taken
  requests,    \* requests past their first statement
  deleting     \* the deletion in flight

catVars == <<predefined, cats, refs, requests, deleting>>

Keys == Predefined \cup Custom

\* virtualPredefinedID: the id of an override follows from the user and the key.
Ids == Custom \cup (Users \X Predefined)

Category == [user: Users, hidden: BOOLEAN, deleted: BOOLEAN]

\* The tables in the order in which a deletion updates them.
Order == <<"transactions", "recurring_transactions", "group_transactions">>

Tables == {"transactions", "recurring_transactions", "group_transactions"}

Ref == [table: Tables, user: Users, key: Keys]

\* A key has been resolved; or the scheduler or a backfill has read a rule; or the
\* transaction of a PATCH without a category has read and locked a group transaction.
Write == [op: {"write", "copy", "regroup"}, user: Users, key: Keys]
\* The predefined category has been found; POST upserts and PATCH inserts.
Override == [op: {"override"}, user: Users, key: Predefined, hidden: BOOLEAN, upsert: BOOLEAN]
\* The row of a PATCH has been found; what became of the guard of "other".
Patch == [op: {"patch"}, id: Ids, hide: {"keep", "show", "hide"},
          guard: {"pending", "passed", "failed"}]

\* The database transaction of a deletion, of an own category or of a predefined one:
\* whose rows it is about, its statements so far, and the rows and overrides they took.
Deletion == [key: Keys, owners: SUBSET Users, done: 0 .. 4,
             moved: SUBSET Ref, gone: SUBSET (Users \X Predefined)]

ASSUME CategoryAssumptions ==
  /\ Other \in Predefined
  /\ Custom \cap Predefined = {} /\ Custom \cap (Users \X Predefined) = {}
  /\ MaxRefs \in Nat /\ MaxCats \in Nat /\ Overriders \subseteq Users
  /\ NoRow \notin Category
  /\ None \notin Write \cup Override \cup Patch /\ None \notin Deletion

-----------------------------------------------------------------------------
\* A mutant of Visible: anybody's category will do.
VisibleToAll(u, k) ==
  IF k \in Predefined THEN predefined[k] = "visible"
  ELSE cats[k] # NoRow /\ ~cats[k].hidden

\* The lookup of ResolveCategoryKey; is_deleted is not looked at.
Visible(u, k) ==
  IF k \in Predefined THEN predefined[k] = "visible"
  ELSE cats[k] # NoRow /\ cats[k].user = u /\ ~cats[k].hidden

\* An error of the statement falls back like a key that is not found.
ResolveCategoryKey(u, k) == IF k # Other /\ Visible(u, k) THEN {k, Other} ELSE {Other}

\* The rows that others read.
Taken == IF deleting = None THEN {} ELSE deleting.moved
Shown == refs \cup Taken

\* A row that a deletion or a PATCH has locked.  A statement that waits for it is taken when
\* it goes on.
Locked(id) == deleting # None /\ id \in deleting.gone
Held(r) ==
  /\ r.table = "group_transactions"
  /\ \E c \in Clients : requests[c] \in Write /\ requests[c].op = "regroup"
                         /\ requests[c].user = r.user /\ requests[c].key = r.key

Asked(k) == \E c \in Clients : requests[c] \in Write /\ requests[c].key = k

\* uuid.New
Fresh(k) == cats[k] = NoRow /\ ~Asked(k) /\ \A r \in Shown : r.key # k

-----------------------------------------------------------------------------
(* Rows that carry a key.                                                  *)

\* POST and PATCH of transactions, recurring rules and group transactions.
Resolve(c, u, k) ==
  /\ requests[c] = None
  /\ \E key \in ResolveCategoryKey(u, k) :
       requests' = [requests EXCEPT ![c] = [op |-> "write", user |-> u, key |-> key]]
  /\ UNCHANGED <<predefined, cats, refs, deleting>>

Land(c, written) ==
  /\ refs' = refs \cup written
  /\ Cardinality(refs' \cup Taken) <= MaxRefs
  /\ requests' = [requests EXCEPT ![c] = None]
  /\ UNCHANGED <<predefined, cats, deleting>>

WriteOwn(c) ==
  /\ requests[c] \in Write /\ requests[c].op = "write"
  /\ \E table \in {"transactions", "recurring_transactions"} :
       Land(c, {[table |-> table, user |-> requests[c].user, key |-> requests[c].key]})

\* The caller's key goes to the row of the payer and to everyone's share.
WriteGroup(c) ==
  /\ requests[c] \in Write /\ requests[c].op = "write"
  /\ \E payer \in Users, split \in SUBSET Users \ {{}} :
       Land(c, {[table |-> "group_transactions", user |-> payer, key |-> requests[c].key]}
               \cup {[table |-> "transactions", user |-> s, key |-> requests[c].key] : s \in split})

\* PATCH of a group transaction without a category: its UPDATE returns the stored key ...
LoadGroup(c, r) ==
  /\ requests[c] = None
  /\ r \in refs /\ r.table = "group_transactions"
  /\ requests' = [requests EXCEPT ![c] = [op |-> "regroup", user |-> r.user, key |-> r.key]]
  /\ UNCHANGED <<predefined, cats, refs, deleting>>

\* ... and new shares, or another payer, get it without a lookup.
WriteRegrouped(c) ==
  /\ requests[c] \in Write /\ requests[c].op = "regroup"
  /\ \E payer \in Users, split \in SUBSET Users :
       Land(c, {[table |-> "group_transactions", user |-> payer, key |-> requests[c].key]}
               \cup {[table |-> "transactions", user |-> s, key |-> requests[c].key] : s \in split})

\* GenerateDueTransactions and the backfill load the rules ...
LoadRule(c, r) ==
  /\ requests[c] = None
  /\ r \in Shown /\ r.table = "recurring_transactions"
  /\ requests' = [requests EXCEPT ![c] = [op |-> "copy", user |-> r.user, key |-> r.key]]
  /\ UNCHANGED <<predefined, cats, refs, deleting>>

\* ... and insert occurrences of the category they have read.
WriteOccurrence(c) ==
  /\ requests[c] \in Write /\ requests[c].op = "copy"
  /\ Land(c, {[table |-> "transactions", user |-> requests[c].user, key |-> requests[c].key]})

\* Rows are deleted, or get another category.
Drop(r) ==
  /\ r \in refs /\ ~Held(r)
  /\ refs' = refs \ {r}
  /\ UNCHANGED <<predefined, cats, requests, deleting>>

-----------------------------------------------------------------------------
(* Deletions.                                                              *)

Delete(k, owners) ==
  /\ deleting = None
  /\ deleting' = [key |-> k, owners |-> owners, done |-> 0, moved |-> {}, gone |-> {}]

\* A mutant of RowsOf: the recurring rules are forgotten.
RowsButRules(d, table) ==
  {r \in refs : r.table = table /\ r.key = d.key /\ r.user \in d.owners
                /\ table # "recurring_transactions"}

\* The rows of a table that a deletion is about, and that it has not taken.
RowsOf(d, table) == {r \in refs : r.table = table /\ r.key = d.key /\ r.user \in d.owners}

\* UPDATE ... SET category = 'other', of one table.
Reassign ==
  /\ deleting # None /\ deleting.done < 3
  /\ LET rows == RowsOf(deleting, Order[deleting.done + 1]) IN
     /\ \A r \in rows : ~Held(r)
     /\ refs' = refs \ rows
     /\ deleting' = [deleting EXCEPT !.done = @ + 1, !.moved = @ \cup rows]
  /\ UNCHANGED <<predefined, cats, requests>>

\* The rows that were taken are of "other" from here on.
CommitRows ==
  /\ refs' = refs \cup {[r EXCEPT !.key = Other] : r \in deleting.moved}
  /\ deleting' = None

\* A statement fails, the client goes away or the server restarts.
AbortDeletion ==
  /\ deleting # None
  /\ refs' = Shown
  /\ deleting' = None
  /\ UNCHANGED <<predefined, cats, requests>>

-----------------------------------------------------------------------------
(* /categories                                                             *)

Bounded(rows) == Cardinality({id \in Ids : rows[id] # NoRow}) <= MaxCats

CreateCategory(u, k) ==
  /\ Fresh(k)
  /\ \E h \in BOOLEAN : cats' = [cats EXCEPT ![k] = [user |-> u, hidden |-> h, deleted |-> FALSE]]
  /\ Bounded(cats')
  /\ UNCHANGED <<predefined, refs, requests, deleting>>

MayHide(k) == k # Other

\* POST with predefined_key, or PATCH of an id that has no row.
FindPredefined(c, u, k) ==
  /\ requests[c] = None /\ u \in Overriders
  /\ predefined[k] = "visible"
  /\ \E hidden, upsert \in BOOLEAN :
       /\ hidden => MayHide(k)
       /\ upsert \/ cats[<<u, k>>] = NoRow
       /\ requests' = [requests EXCEPT ![c] =
            [op |-> "override", user |-> u, key |-> k, hidden |-> hidden, upsert |-> upsert]]
  /\ UNCHANGED <<predefined, cats, refs, deleting>>

\* The plain insert fails if there is a row by now.
InsertOverride(c) ==
  /\ requests[c] \in Override /\ ~Locked(<<requests[c].user, requests[c].key>>)
  /\ requests' = [requests EXCEPT ![c] = None]
  /\ LET q == requests[c] IN
       cats' = IF q.upsert \/ cats[<<q.user, q.key>>] = NoRow
               THEN [cats EXCEPT ![<<q.user, q.key>>] =
                       [user |-> q.user, hidden |-> q.hidden, deleted |-> FALSE]]
               ELSE cats
  /\ Bounded(cats')
  /\ UNCHANGED <<predefined, refs, deleting>>

FindCategory(c, u, id) ==
  /\ requests[c] = None
  /\ cats[id] # NoRow /\ cats[id].user = u
  /\ \E hide \in {"keep", "show", "hide"} :
       requests' = [requests EXCEPT ![c] =
         [op |-> "patch", id |-> id, hide |-> hide,
          guard |-> IF hide = "hide" THEN "pending" ELSE "passed"]]
  /\ UNCHANGED <<predefined, cats, refs, deleting>>

\* The key an override's row stands for.
PredefinedKeyOf(id) == IF id \in Custom THEN NoRow ELSE id[2]

\* A mutant of Guarded: no guard.
GuardedNot(id) == TRUE

Guarded(id) == cats[id] = NoRow \/ MayHide(PredefinedKeyOf(id))

\* The guard reads the row again, and an error of the read is thrown away.
Guard(c) ==
  /\ requests[c] \in Patch /\ requests[c].guard = "pending"
  /\ \/ requests' = [requests EXCEPT ![c] = IF Guarded(@.id) THEN [@ EXCEPT !.guard = "passed"] ELSE None]
     \/ requests' = [requests EXCEPT ![c].guard = "failed"]
  /\ UNCHANGED <<predefined, cats, refs, deleting>>

\* Whatever the PATCH is about, it brings a deleted row back.
UpdateCategory(c) ==
  /\ requests[c] \in Patch /\ requests[c].guard # "pending" /\ ~Locked(requests[c].id)
  /\ requests' = [requests EXCEPT ![c] = None]
  /\ LET id == requests[c].id
         hide == requests[c].hide
     IN  cats' = IF cats[id] = NoRow THEN cats
                 ELSE [cats EXCEPT ![id].deleted = FALSE,
                                   ![id].hidden = IF hide = "keep" THEN @ ELSE hide = "hide"]
  /\ UNCHANGED <<predefined, refs, deleting>>

\* DELETE of an own category: one database transaction.
DeleteCategory(u, k) ==
  /\ cats[k] # NoRow /\ cats[k].user = u
  /\ Delete(k, {u})
  /\ UNCHANGED <<predefined, cats, refs, requests>>

CommitDelete ==
  /\ deleting # None /\ deleting.key \in Custom /\ deleting.done = 3
  /\ CommitRows
  /\ cats' = [cats EXCEPT ![deleting.key].deleted = TRUE]
  /\ UNCHANGED <<predefined, requests>>

\* DELETE of an override: one statement.
ResetOverride(u, k) ==
  /\ cats[<<u, k>>] # NoRow /\ cats[<<u, k>>].user = u
  /\ ~Locked(<<u, k>>)
  /\ cats' = [cats EXCEPT ![<<u, k>>].deleted = TRUE]
  /\ UNCHANGED <<predefined, refs, requests, deleting>>

\* purgeCategoryTombstones: after days, which no request outlives.
PurgeCategoryTombstone(id) ==
  /\ deleting = None /\ \A c \in Clients : requests[c] = None
  /\ cats[id] # NoRow /\ cats[id].deleted
  /\ cats' = [cats EXCEPT ![id] = NoRow]
  /\ UNCHANGED <<predefined, refs, requests, deleting>>

-----------------------------------------------------------------------------
(* /admin/categories                                                       *)

AdminCreate(k) ==
  /\ predefined[k] = "absent"
  /\ predefined' = [predefined EXCEPT ![k] = "visible"]
  /\ UNCHANGED <<cats, refs, requests, deleting>>

AdminSetHidden(k, hidden) ==
  /\ predefined[k] # "absent"
  /\ ~ (hidden /\ k = Other)
  /\ predefined' = [predefined EXCEPT ![k] = IF hidden THEN "hidden" ELSE "visible"]
  /\ UNCHANGED <<cats, refs, requests, deleting>>

AdminHardDelete(k) ==
  /\ predefined[k] # "absent" /\ k # Other
  /\ Delete(k, Users)
  /\ UNCHANGED <<predefined, cats, refs, requests>>

\* A mutant of OverridesOf: the overrides stay.
OverridesKept(k) == {}

OverridesOf(k) == {id \in Users \X {k} : cats[id] # NoRow}

\* DELETE FROM custom_categories, after the three tables.
DeleteOverrides ==
  /\ deleting # None /\ deleting.key \in Predefined /\ deleting.done = 3
  /\ deleting' = [deleting EXCEPT !.done = 4, !.gone = OverridesOf(deleting.key)]
  /\ UNCHANGED <<predefined, cats, refs, requests>>

CommitHardDelete ==
  /\ deleting # None /\ deleting.done = 4
  /\ CommitRows
  /\ cats' = [id \in Ids |-> IF id \in deleting.gone THEN NoRow ELSE cats[id]]
  /\ predefined' = [predefined EXCEPT ![deleting.key] = "absent"]
  /\ UNCHANGED requests

\* The client goes away, a statement fails or the server restarts.
Abort(c) ==
  /\ requests[c] # None
  /\ requests' = [requests EXCEPT ![c] = None]
  /\ UNCHANGED <<predefined, cats, refs, deleting>>

-----------------------------------------------------------------------------
CatInit ==
  /\ predefined = [k \in Predefined |-> "visible"]
  /\ cats = [id \in Ids |-> NoRow]
  /\ refs = {}
  /\ requests = [c \in Clients |-> None]
  /\ deleting = None

ClientStep(c) ==
  \/ \E u \in Users : \/ \E k \in Keys : Resolve(c, u, k)
                      \/ \E k \in Predefined : FindPredefined(c, u, k)
                      \/ \E id \in Ids : FindCategory(c, u, id)
  \/ \E r \in Shown : LoadRule(c, r) \/ LoadGroup(c, r)
  \/ WriteOwn(c) \/ WriteGroup(c) \/ WriteRegrouped(c) \/ WriteOccurrence(c)
  \/ InsertOverride(c) \/ Guard(c) \/ UpdateCategory(c) \/ Abort(c)

CatNext ==
  \/ \E c \in Clients : ClientStep(c)
  \/ \E u \in Users : \/ \E k \in Custom : CreateCategory(u, k) \/ DeleteCategory(u, k)
                      \/ \E k \in Predefined : ResetOverride(u, k)
  \/ Reassign \/ CommitDelete \/ DeleteOverrides \/ CommitHardDelete \/ AbortDeletion
  \/ \E id \in Ids : PurgeCategoryTombstone(id)
  \/ \E r \in refs : Drop(r)
  \/ \E k \in Predefined : \/ AdminCreate(k)
                           \/ \E hidden \in BOOLEAN : AdminSetHidden(k, hidden)
                           \/ AdminHardDelete(k)

CatSpec == CatInit /\ [][CatNext]_catVars

-----------------------------------------------------------------------------
(* Properties.                                                             *)

\* A deletion under way is of a category that is there and of its owner's rows, or of a
\* predefined one but "other" and of everybody's.
DeletionTypeOK ==
  /\ deleting \in Deletion \cup {None}
  /\ deleting # None =>
       IF deleting.key \in Custom
       THEN /\ cats[deleting.key] # NoRow /\ deleting.owners = {cats[deleting.key].user}
            /\ deleting.done < 4
       ELSE /\ deleting.key # Other /\ deleting.owners = Users
            /\ deleting.gone \subseteq Users \X {deleting.key}

\* Every row carries a key, and an override is its user's own.
CatTypeOK ==
  /\ predefined \in [Predefined -> {"absent", "visible", "hidden"}]
  /\ predefined[Other] = "visible"
  /\ cats \in [Ids -> Category \cup {NoRow}]
  /\ refs \subseteq Ref
  /\ requests \in [Clients -> Write \cup Override \cup Patch \cup {None}]
  /\ \A u \in Users, k \in Predefined : cats[<<u, k>>] # NoRow => cats[<<u, k>>].user = u
  /\ DeletionTypeOK

Usable(u, k) ==
  IF k \in Predefined THEN predefined[k] # "absent"
  ELSE cats[k] # NoRow /\ cats[k].user = u /\ ~cats[k].deleted

\* The tables whose UPDATE a deletion has behind it.
Passed(d) == {Order[i] : i \in {j \in 1 .. 3 : j <= d.done}}

\* Rows on a key that is not their user's, and rows that a deletion under way has missed
\* and will leave there.
Missed ==
  {r \in refs : deleting # None /\ r.key = deleting.key /\ r.user \in deleting.owners
                /\ r.table \in Passed(deleting)}
Strays == {r \in Shown : ~Usable(r.user, r.key)} \cup Missed

\* "cascade transactions to 'other' before soft-deleting so no transaction references
\* a dangling key": a row comes to carry a key that is not its user's, or to be passed
\* over by a deletion, only by being written with a key that was looked up or copied
\* before; no statement or commit of a delete of a category or of a predefined one, no
\* purge and no hiding leaves a row on a key that is gone.
StrayOnlyByWrite ==
  [][\A r \in Strays' \ Strays :
       \E c \in Clients : requests[c] \in Write /\ requests'[c] = None
                          /\ requests[c].key = r.key]_catVars

\* The key of another user reaches the shares of a group transaction, which its
\* author writes for everyone, but never a recurring rule, however the lookups,
\* deletes and revivals interleave.
RecurringKeysAreOwn ==
  \A r \in Shown :
    r.table = "recurring_transactions" /\ r.key \in Custom /\ cats[r.key] # NoRow =>
      cats[r.key].user = r.user

\* What every state keeps.
CatInv == CatTypeOK /\ RecurringKeysAreOwn

\* "The 'other' category is the catch-all bucket and cannot be hidden": no POST and no
\* PATCH hides it for a user, but for one whose guard could not read the row.
OtherHiddenOnlyUnguarded ==
  [][\A u \in Users :
       LET row == cats[<<u, Other>>] IN
       /\ cats'[<<u, Other>>] # NoRow /\ cats'[<<u, Other>>].hidden
       /\ row = NoRow \/ ~row.hidden
       => \E c \in Clients : requests[c] \in Patch /\ requests[c].guard = "failed"]_catVars

\* Overrides without their predefined category, and those that a deletion under way has
\* missed and will leave so.
Orphans ==
  {id \in Users \X Predefined :
     cats[id] # NoRow /\ \/ predefined[id[2]] = "absent"
                         \/ /\ deleting # None /\ deleting.done = 4 /\ deleting.key = id[2]
                            /\ id \notin deleting.gone}

\* An admin's delete takes every override with it: only one that is inserted after its
\* DELETE of the overrides, by a request that found the category before, is left without
\* its predefined category.
OrphanOnlyByLateInsert ==
  [][\A id \in Orphans' \ Orphans :
       \E c \in Clients : requests[c] \in Override /\ requests'[c] = None
                          /\ id = <<requests[c].user, requests[c].key>>]_catVars
=============================================================================
