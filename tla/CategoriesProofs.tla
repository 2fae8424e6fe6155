--------------------------- MODULE CategoriesProofs ---------------------------
(***************************************************************************)
(* Proofs about Categories, for any number of users, categories, requests  *)
(* and rows, beside one deletion at a time.                                *)
(***************************************************************************)
EXTENDS Categories, TLAPS

\* A request is of one kind, which its op tells, and None is of no kind.
LEMMA Kinds ==
  ASSUME NEW q
  PROVE  /\ q \in Write => /\ q \notin Override /\ q \notin Patch /\ q # None
                           /\ q.op \in {"write", "copy", "regroup"}
         /\ q \in Override => /\ q \notin Write /\ q \notin Patch /\ q # None
                              /\ q.op = "override"
         /\ q \in Patch => /\ q \notin Write /\ q \notin Override /\ q # None
                           /\ q.op = "patch"
BY CategoryAssumptions DEF Write, Override, Patch

\* One request's step keeps the requests' type.
LEMMA RequestType ==
  ASSUME CatTypeOK, NEW c \in Clients,
         NEW q \in Write \cup Override \cup Patch \cup {None},
         requests' = [requests EXCEPT ![c] = q]
  PROVE  /\ requests' \in [Clients -> Write \cup Override \cup Patch \cup {None}]
         /\ requests'[c] = q
         /\ \A d \in Clients \ {c} : requests'[d] = requests[d]
BY DEF CatTypeOK

-----------------------------------------------------------------------------
(* The type.                                                               *)

LEMMA TypeInit == CatInit => CatTypeOK
BY CategoryAssumptions DEF CatInit, CatTypeOK, DeletionTypeOK, Ids

\* A deletion under way is not disturbed by what leaves the own categories their users.
LEMMA DeletionKept ==
  ASSUME DeletionTypeOK, UNCHANGED deleting,
         \A k \in Custom : cats[k] # NoRow => cats'[k] # NoRow /\ cats'[k].user = cats[k].user
  PROVE  DeletionTypeOK'
BY DEF DeletionTypeOK

\* What a deletion is made of.
LEMMA DeletionType ==
  ASSUME CatTypeOK, deleting # None
  PROVE  /\ deleting \in Deletion /\ deleting.key \in Keys /\ deleting.owners \subseteq Users
         /\ deleting.done \in 0 .. 4 /\ deleting.moved \subseteq Ref
         /\ deleting.gone \subseteq Users \X Predefined
BY DEF CatTypeOK, DeletionTypeOK, Deletion

\* A deletion that begins.
LEMMA DeleteType ==
  ASSUME NEW k \in Keys, NEW owners \in SUBSET Users, Delete(k, owners)
  PROVE  /\ deleting' \in Deletion /\ deleting'.key = k /\ deleting'.owners = owners
         /\ deleting'.done = 0 /\ deleting'.moved = {} /\ deleting'.gone = {}
         /\ deleting = None /\ deleting' # None
BY CategoryAssumptions DEF Delete, Deletion

\* The table that the next UPDATE of a deletion is about.
LEMMA OrderIs ==
  /\ Order[1] = "transactions" /\ Order[2] = "recurring_transactions"
  /\ Order[3] = "group_transactions"
BY DEF Order

\* The next UPDATE of a deletion.
LEMMA ReassignType ==
  ASSUME CatTypeOK, Reassign
  PROVE  /\ deleting # None /\ deleting.done \in 0 .. 2
         /\ RowsOf(deleting, Order[deleting.done + 1]) \subseteq refs
         /\ refs' = refs \ RowsOf(deleting, Order[deleting.done + 1])
         /\ deleting' \in Deletion /\ deleting' # None
         /\ deleting'.key = deleting.key /\ deleting'.owners = deleting.owners
         /\ deleting'.done = deleting.done + 1 /\ deleting'.gone = deleting.gone
         /\ deleting'.moved = deleting.moved \cup RowsOf(deleting, Order[deleting.done + 1])
<1> DEFINE G == SUBSET (Users \X Predefined)
           R == SUBSET Ref
           O == SUBSET Users
           D == 0 .. 4
<1>1. deleting # None /\ deleting.done < 3
  BY DEF Reassign
<1>2. PICK rows \in SUBSET refs : rows = RowsOf(deleting, Order[deleting.done + 1])
  BY DEF RowsOf
<1>3. /\ refs' = refs \ rows
      /\ deleting' = [deleting EXCEPT !.done = @ + 1, !.moved = @ \cup rows]
  BY <1>2 DEF Reassign
<1>4. /\ deleting \in [key: Keys, owners: O, done: D, moved: R, gone: G]
      /\ deleting.done \in 0 .. 2 /\ rows \in R
  BY <1>1, DeletionType DEF Deletion, CatTypeOK
<1>5. deleting.moved \cup rows \in R /\ deleting.done + 1 \in D
  BY <1>1, <1>4, DeletionType
<1> HIDE DEF G, R, O, D
<1>6. deleting' \in [key: Keys, owners: O, done: D, moved: R, gone: G]
  BY <1>3, <1>4, <1>5
<1>7. /\ deleting'.key = deleting.key /\ deleting'.owners = deleting.owners
      /\ deleting'.done = deleting.done + 1 /\ deleting'.gone = deleting.gone
      /\ deleting'.moved = deleting.moved \cup rows
  BY <1>3, <1>4
<1>8. deleting' \in Deletion
  BY <1>6 DEF G, R, O, D, Deletion
<1>9. QED BY <1>1, <1>2, <1>3, <1>4, <1>7, <1>8, CategoryAssumptions

\* The DELETE of the overrides.
LEMMA DeleteOverridesType ==
  ASSUME CatTypeOK, DeleteOverrides
  PROVE  /\ deleting # None /\ deleting.key \in Predefined /\ deleting.done = 3
         /\ deleting' \in Deletion /\ deleting' # None /\ deleting'.key = deleting.key
         /\ deleting'.owners = deleting.owners /\ deleting'.done = 4
         /\ deleting'.moved = deleting.moved /\ deleting'.gone = OverridesOf(deleting.key)
<1> DEFINE G == SUBSET (Users \X Predefined)
           R == SUBSET Ref
           O == SUBSET Users
           D == 0 .. 4
<1>1. /\ deleting # None /\ deleting.key \in Predefined /\ deleting.done = 3
      /\ deleting' = [deleting EXCEPT !.done = 4, !.gone = OverridesOf(deleting.key)]
  BY DEF DeleteOverrides
<1>2. deleting \in [key: Keys, owners: O, done: D, moved: R, gone: G]
  BY <1>1, DeletionType DEF Deletion
<1>3. OverridesOf(deleting.key) \in G /\ 4 \in D
  BY <1>1 DEF OverridesOf
<1> HIDE DEF G, R, O, D
<1>4. deleting' \in [key: Keys, owners: O, done: D, moved: R, gone: G]
  BY <1>1, <1>2, <1>3
<1>5. /\ deleting'.key = deleting.key /\ deleting'.owners = deleting.owners
      /\ deleting'.done = 4 /\ deleting'.moved = deleting.moved
      /\ deleting'.gone = OverridesOf(deleting.key)
  BY <1>1, <1>2
<1>6. deleting' \in Deletion
  BY <1>4 DEF G, R, O, D, Deletion
<1>7. QED BY <1>1, <1>5, <1>6, CategoryAssumptions

\* Rows that get the catch-all key stay rows, and leave no other ones.
LEMMA CommitType ==
  ASSUME CatTypeOK, deleting # None, CommitRows
  PROVE  /\ refs' \subseteq Ref /\ deleting' = None /\ refs \subseteq refs'
         /\ \A r \in refs' : r \in refs \/ r.key = Other
<1>1. \A x \in deleting.moved : [x EXCEPT !.key = Other] \in Ref /\ [x EXCEPT !.key = Other].key = Other
  BY DeletionType, CategoryAssumptions DEF Ref, Keys
<1>2. QED BY <1>1 DEF CommitRows, CatTypeOK

LEMMA LandType ==
  ASSUME CatTypeOK, NEW c \in Clients, NEW written \in SUBSET Ref, Land(c, written)
  PROVE  CatTypeOK'
<1>1. None \in Write \cup Override \cup Patch \cup {None}
  OBVIOUS
<1>2. DeletionTypeOK'
  BY DeletionKept DEF Land, CatTypeOK
<1>3. QED BY <1>1, <1>2, RequestType DEF Land, CatTypeOK

\* The key that a lookup yields is a key.
LEMMA ResolvedType ==
  ASSUME NEW u \in Users, NEW k \in Keys, NEW key \in ResolveCategoryKey(u, k)
  PROVE  key \in Keys
BY CategoryAssumptions DEF ResolveCategoryKey, Keys

\* The rows that are shown are rows.
LEMMA ShownType ==
  ASSUME CatTypeOK
  PROVE  Shown \subseteq Ref
BY DeletionType DEF Shown, Taken, CatTypeOK

LEMMA TypeStep == CatTypeOK /\ [CatNext]_catVars => CatTypeOK'
<1> SUFFICES ASSUME CatTypeOK, [CatNext]_catVars PROVE CatTypeOK'
  OBVIOUS
<1>n. None \in Write \cup Override \cup Patch \cup {None}
  OBVIOUS
<1>d. ASSUME UNCHANGED <<cats, deleting>> PROVE DeletionTypeOK'
  BY <1>d, DeletionKept DEF CatTypeOK
<1>1. CASE UNCHANGED catVars
  BY <1>1, <1>d DEF CatTypeOK, catVars
<1>2. ASSUME NEW c \in Clients, NEW u \in Users, NEW k \in Keys, Resolve(c, u, k)
      PROVE  CatTypeOK'
  <2>1. PICK key \in ResolveCategoryKey(u, k) :
          requests' = [requests EXCEPT ![c] = [op |-> "write", user |-> u, key |-> key]]
    BY <1>2 DEF Resolve
  <2>2. [op |-> "write", user |-> u, key |-> key] \in Write
    BY ResolvedType DEF Write
  <2>3. QED BY <1>d, <1>2, <2>1, <2>2, RequestType DEF Resolve, CatTypeOK
<1>3. ASSUME NEW c \in Clients, NEW u \in Users, NEW k \in Predefined, FindPredefined(c, u, k)
      PROVE  CatTypeOK'
  <2>1. PICK h \in BOOLEAN, up \in BOOLEAN :
          requests' = [requests EXCEPT ![c] =
            [op |-> "override", user |-> u, key |-> k, hidden |-> h, upsert |-> up]]
    BY <1>3 DEF FindPredefined
  <2>2. [op |-> "override", user |-> u, key |-> k, hidden |-> h, upsert |-> up] \in Override
    BY DEF Override
  <2>3. QED BY <1>d, <1>3, <2>1, <2>2, RequestType DEF FindPredefined, CatTypeOK
<1>4. ASSUME NEW c \in Clients, NEW u \in Users, NEW id \in Ids, FindCategory(c, u, id)
      PROVE  CatTypeOK'
  <2>1. PICK h \in {"keep", "show", "hide"} :
          requests' = [requests EXCEPT ![c] =
            [op |-> "patch", id |-> id, hide |-> h,
             guard |-> IF h = "hide" THEN "pending" ELSE "passed"]]
    BY <1>4 DEF FindCategory
  <2>2. [op |-> "patch", id |-> id, hide |-> h,
         guard |-> IF h = "hide" THEN "pending" ELSE "passed"] \in Patch
    BY DEF Patch
  <2>3. QED BY <1>d, <1>4, <2>1, <2>2, RequestType DEF FindCategory, CatTypeOK
<1>5. ASSUME NEW c \in Clients, NEW r \in Shown, LoadRule(c, r)
      PROVE  CatTypeOK'
  <2>1. [op |-> "copy", user |-> r.user, key |-> r.key] \in Write
    BY ShownType DEF Write, Ref
  <2>2. QED BY <1>d, <1>5, <2>1, RequestType DEF LoadRule, CatTypeOK
<1>5a. ASSUME NEW c \in Clients, NEW r \in Shown, LoadGroup(c, r)
      PROVE  CatTypeOK'
  <2>1. [op |-> "regroup", user |-> r.user, key |-> r.key] \in Write
    BY ShownType DEF Write, Ref
  <2>2. QED BY <1>5a, <1>d, <2>1, RequestType DEF LoadGroup, CatTypeOK
<1>6. ASSUME NEW c \in Clients, WriteOwn(c)
      PROVE  CatTypeOK'
  <2>1. PICK table \in {"transactions", "recurring_transactions"} :
          Land(c, {[table |-> table, user |-> requests[c].user, key |-> requests[c].key]})
    BY <1>6 DEF WriteOwn
  <2>2. {[table |-> table, user |-> requests[c].user, key |-> requests[c].key]} \subseteq Ref
    BY <1>6 DEF WriteOwn, Write, Ref, Tables
  <2>3. QED BY <2>1, <2>2, LandType
<1>7. ASSUME NEW c \in Clients, WriteGroup(c)
      PROVE  CatTypeOK'
  <2>1. PICK payer \in Users, split \in SUBSET Users \ {{}} :
          Land(c, {[table |-> "group_transactions", user |-> payer, key |-> requests[c].key]}
                  \cup {[table |-> "transactions", user |-> s, key |-> requests[c].key] : s \in split})
    BY <1>7 DEF WriteGroup
  <2>2. {[table |-> "group_transactions", user |-> payer, key |-> requests[c].key]}
        \cup {[table |-> "transactions", user |-> s, key |-> requests[c].key] : s \in split}
        \subseteq Ref
    BY <1>7 DEF WriteGroup, Write, Ref, Tables
  <2>3. QED BY <2>1, <2>2, LandType
<1>7a. ASSUME NEW c \in Clients, WriteRegrouped(c)
      PROVE  CatTypeOK'
  <2>1. PICK payer \in Users, split \in SUBSET Users :
          Land(c, {[table |-> "group_transactions", user |-> payer, key |-> requests[c].key]}
                  \cup {[table |-> "transactions", user |-> s, key |-> requests[c].key] : s \in split})
    BY <1>7a DEF WriteRegrouped
  <2>2. {[table |-> "group_transactions", user |-> payer, key |-> requests[c].key]}
        \cup {[table |-> "transactions", user |-> s, key |-> requests[c].key] : s \in split}
        \subseteq Ref
    BY <1>7a DEF WriteRegrouped, Write, Ref, Tables
  <2>3. QED BY <2>1, <2>2, LandType
<1>8. ASSUME NEW c \in Clients, WriteOccurrence(c)
      PROVE  CatTypeOK'
  <2>1. {[table |-> "transactions", user |-> requests[c].user, key |-> requests[c].key]}
        \subseteq Ref
    BY <1>8 DEF WriteOccurrence, Write, Ref, Tables
  <2>2. QED BY <1>8, <2>1, LandType DEF WriteOccurrence
<1>9. ASSUME NEW c \in Clients, InsertOverride(c)
      PROVE  CatTypeOK'
  <2>1. PICK q \in Override : q = requests[c]
    BY <1>9 DEF InsertOverride
  <2>2. /\ q.user \in Users /\ q.key \in Predefined /\ q.hidden \in BOOLEAN
        /\ <<q.user, q.key>> \in Ids
        /\ [user |-> q.user, hidden |-> q.hidden, deleted |-> FALSE] \in Category
    BY <2>1 DEF Override, Ids, Category
  <2>3. \/ cats' = cats
        \/ cats' = [cats EXCEPT ![<<q.user, q.key>>] =
                      [user |-> q.user, hidden |-> q.hidden, deleted |-> FALSE]]
    BY <1>9, <2>1 DEF InsertOverride
  <2>4. cats' \in [Ids -> Category \cup {NoRow}]
    BY <2>2, <2>3 DEF CatTypeOK
  <2>5. \A u \in Users, k \in Predefined : cats'[<<u, k>>] # NoRow => cats'[<<u, k>>].user = u
    <3> SUFFICES ASSUME NEW u \in Users, NEW k \in Predefined, cats'[<<u, k>>] # NoRow
                 PROVE  cats'[<<u, k>>].user = u
      OBVIOUS
    <3>1. <<u, k>> \in Ids
      BY DEF Ids
    <3>2. CASE cats'[<<u, k>>] = cats[<<u, k>>]
      BY <3>2 DEF CatTypeOK
    <3>3. CASE <<u, k>> = <<q.user, q.key>> /\ cats' # cats
      BY <2>2, <2>3, <3>1, <3>3 DEF CatTypeOK
    <3>4. QED BY <2>3, <3>1, <3>2, <3>3 DEF CatTypeOK
  <2>6. \A k \in Custom : cats'[k] = cats[k]
    BY <2>2, <2>3, CategoryAssumptions DEF CatTypeOK, Ids
  <2>7. DeletionTypeOK'
    BY <1>9, <2>6, DeletionKept DEF InsertOverride, CatTypeOK
  <2>8. QED BY <1>9, <1>n, <2>4, <2>5, <2>7, RequestType DEF InsertOverride, CatTypeOK
<1>10. ASSUME NEW c \in Clients, Guard(c)
       PROVE  CatTypeOK'
  <2>1. PICK q \in Patch : q = requests[c]
    BY <1>10 DEF Guard
  <2>2. [q EXCEPT !.guard = "passed"] \in Patch /\ [q EXCEPT !.guard = "failed"] \in Patch
    BY DEF Patch
  <2>3. PICK p \in Write \cup Override \cup Patch \cup {None} :
          requests' = [requests EXCEPT ![c] = p]
    BY <1>10, <2>1, <2>2 DEF Guard
  <2>4. QED BY <1>10, <1>d, <2>3, RequestType DEF Guard, CatTypeOK
<1>11. ASSUME NEW c \in Clients, UpdateCategory(c)
       PROVE  CatTypeOK'
  <2>1. PICK q \in Patch : q = requests[c]
    BY <1>11 DEF UpdateCategory
  <2>2. q.id \in Ids
    BY DEF Patch
  <2>r. requests' = [requests EXCEPT ![c] = None] /\ UNCHANGED <<predefined, refs, deleting>>
    BY <1>11 DEF UpdateCategory
  <2>3. CASE cats' = cats
    BY <1>n, <1>d, <2>r, <2>3, RequestType DEF CatTypeOK
  <2>4. CASE cats' # cats
    <3>1. cats[q.id] # NoRow /\ cats[q.id] \in Category
      BY <1>11, <2>1, <2>2, <2>4 DEF UpdateCategory, CatTypeOK
    <3>2. PICK h \in BOOLEAN : cats' = [cats EXCEPT ![q.id].deleted = FALSE, ![q.id].hidden = h]
      BY <1>11, <2>1, <2>2, <2>4, <3>1 DEF UpdateCategory, Category, CatTypeOK
    <3>3. /\ cats'[q.id] \in Category /\ cats'[q.id].user = cats[q.id].user
          /\ cats' \in [Ids -> Category \cup {NoRow}]
          /\ \A id \in Ids \ {q.id} : cats'[id] = cats[id]
      BY <2>2, <3>1, <3>2 DEF Category, CatTypeOK
    <3>4. \A u \in Users, k \in Predefined : cats'[<<u, k>>] # NoRow => cats'[<<u, k>>].user = u
      BY <3>1, <3>3 DEF CatTypeOK, Ids
    <3>5. \A k \in Custom : cats[k] # NoRow => cats'[k] # NoRow /\ cats'[k].user = cats[k].user
      BY <3>1, <3>3, CategoryAssumptions DEF Ids
    <3>6. DeletionTypeOK'
      BY <2>r, <3>5, DeletionKept DEF CatTypeOK
    <3>7. QED BY <1>n, <2>r, <3>3, <3>4, <3>6, RequestType DEF CatTypeOK
  <2>5. QED BY <2>3, <2>4
<1>12. ASSUME NEW c \in Clients, Abort(c)
       PROVE  CatTypeOK'
  BY <1>12, <1>n, <1>d, RequestType DEF Abort, CatTypeOK
<1>13. ASSUME NEW u \in Users, NEW k \in Custom, CreateCategory(u, k)
       PROVE  CatTypeOK'
  <2>1. PICK h \in BOOLEAN : cats' = [cats EXCEPT ![k] = [user |-> u, hidden |-> h, deleted |-> FALSE]]
    BY <1>13 DEF CreateCategory
  <2>2. [user |-> u, hidden |-> h, deleted |-> FALSE] \in Category
    BY DEF Category
  <2>3. cats' \in [Ids -> Category \cup {NoRow}] /\ \A id \in Ids \ {k} : cats'[id] = cats[id]
    BY <2>1, <2>2 DEF CatTypeOK, Ids
  <2>4. \A v \in Users, p \in Predefined : <<v, p>> \in Ids \ {k}
    BY CategoryAssumptions DEF Ids
  <2>5. DeletionTypeOK'
    BY <1>13, <2>3, DeletionKept DEF CreateCategory, Fresh, CatTypeOK, Ids
  <2>6. QED BY <1>13, <2>3, <2>4, <2>5 DEF CreateCategory, CatTypeOK
<1>14. ASSUME NEW u \in Users, NEW k \in Custom, DeleteCategory(u, k)
       PROVE  CatTypeOK'
  <2>1. /\ deleting' \in Deletion /\ deleting'.key = k /\ deleting'.owners = {u} /\ deleting'.done = 0
    BY <1>14, DeleteType DEF DeleteCategory, Keys
  <2>2. DeletionTypeOK'
    BY <1>14, <2>1 DEF DeleteCategory, DeletionTypeOK
  <2>3. QED BY <1>14, <2>2 DEF DeleteCategory, CatTypeOK
<1>14a. ASSUME NEW u \in Users, NEW k \in Predefined, ResetOverride(u, k)
       PROVE  CatTypeOK'
  <2>1. /\ <<u, k>> \in Ids /\ <<u, k>> \notin Custom /\ cats[<<u, k>>] \in Category
        /\ cats' = [cats EXCEPT ![<<u, k>>].deleted = TRUE]
    BY <1>14a, CategoryAssumptions DEF ResetOverride, CatTypeOK, Ids
  <2>2. /\ cats'[<<u, k>>].user = cats[<<u, k>>].user
        /\ cats' \in [Ids -> Category \cup {NoRow}]
        /\ \A i \in Ids \ {<<u, k>>} : cats'[i] = cats[i]
    BY <2>1 DEF Category, CatTypeOK
  <2>3. \A v \in Users, p \in Predefined : cats'[<<v, p>>] # NoRow => cats'[<<v, p>>].user = v
    BY <1>14a, <2>2 DEF ResetOverride, CatTypeOK, Ids
  <2>4. DeletionTypeOK'
    BY <1>14a, <2>1, <2>2, DeletionKept DEF ResetOverride, CatTypeOK, Ids
  <2>5. QED BY <1>14a, <2>2, <2>3, <2>4 DEF ResetOverride, CatTypeOK
<1>14b. CASE Reassign
  <2>1. deleting # None /\ deleting \in Deletion /\ deleting.done \in 0 .. 2
    BY <1>14b, ReassignType, DeletionType
  <2>2. refs' \subseteq Ref
    BY <1>14b, ReassignType DEF CatTypeOK
  <2>3. DeletionTypeOK'
    BY <1>14b, <2>1, ReassignType DEF Reassign, DeletionTypeOK, CatTypeOK
  <2>4. QED BY <1>14b, <2>2, <2>3 DEF Reassign, CatTypeOK
<1>14c. CASE CommitDelete
  <2>1. /\ deleting # None /\ deleting.key \in Custom /\ CommitRows
        /\ cats' = [cats EXCEPT ![deleting.key].deleted = TRUE]
    BY <1>14c DEF CommitDelete
  <2>2. PICK k \in Custom : k = deleting.key
    BY <2>1
  <2>3. k \in Ids /\ cats[k] \in Category
    BY <2>1, <2>2 DEF CatTypeOK, DeletionTypeOK, Ids
  <2>4. cats' \in [Ids -> Category \cup {NoRow}] /\ \A i \in Ids \ {k} : cats'[i] = cats[i]
    BY <2>1, <2>2, <2>3 DEF Category, CatTypeOK
  <2>5. \A v \in Users, p \in Predefined : <<v, p>> \in Ids \ {k}
    BY CategoryAssumptions DEF Ids
  <2>6. refs' \subseteq Ref /\ DeletionTypeOK'
    BY <2>1, CommitType DEF DeletionTypeOK
  <2>7. QED BY <1>14c, <2>4, <2>5, <2>6 DEF CommitDelete, CatTypeOK
<1>14d. CASE DeleteOverrides
  <2>1. OverridesOf(deleting.key) \subseteq Users \X {deleting.key}
    BY DEF OverridesOf
  <2>2. deleting.key \notin Custom
    BY <1>14d, DeleteOverridesType, CategoryAssumptions
  <2>3. DeletionTypeOK'
    BY <1>14d, <2>1, <2>2, DeleteOverridesType DEF DeletionTypeOK, CatTypeOK
  <2>4. QED BY <1>14d, <2>3 DEF DeleteOverrides, CatTypeOK
<1>14e. CASE CommitHardDelete
  <2>1. /\ deleting # None /\ deleting.done = 4 /\ CommitRows
        /\ cats' = [id \in Ids |-> IF id \in deleting.gone THEN NoRow ELSE cats[id]]
        /\ predefined' = [predefined EXCEPT ![deleting.key] = "absent"] /\ UNCHANGED requests
    BY <1>14e DEF CommitHardDelete
  <2>2. refs' \subseteq Ref /\ DeletionTypeOK'
    BY <2>1, CommitType DEF DeletionTypeOK
  <2>3. cats' \in [Ids -> Category \cup {NoRow}]
    BY <2>1 DEF CatTypeOK
  <2>4. \A u \in Users, p \in Predefined : cats'[<<u, p>>] # NoRow => cats'[<<u, p>>].user = u
    BY <2>1 DEF CatTypeOK, Ids
  <2>5. deleting.key # Other
    BY <2>1, CategoryAssumptions DEF CatTypeOK, DeletionTypeOK
  <2>6. QED BY <2>1, <2>2, <2>3, <2>4, <2>5, CategoryAssumptions DEF CatTypeOK
<1>14f. CASE AbortDeletion
  BY <1>14f, ShownType DEF AbortDeletion, CatTypeOK, DeletionTypeOK
<1>15. ASSUME NEW id \in Ids, PurgeCategoryTombstone(id)
       PROVE  CatTypeOK'
  BY <1>15 DEF PurgeCategoryTombstone, CatTypeOK, DeletionTypeOK, Ids
<1>16. ASSUME NEW r \in refs, Drop(r)
       PROVE  CatTypeOK'
  BY <1>16, <1>d DEF Drop, CatTypeOK
<1>17. ASSUME NEW k \in Predefined, AdminCreate(k)
       PROVE  CatTypeOK'
  BY <1>17, <1>d, CategoryAssumptions DEF AdminCreate, CatTypeOK
<1>18. ASSUME NEW k \in Predefined, NEW h \in BOOLEAN, AdminSetHidden(k, h)
       PROVE  CatTypeOK'
  BY <1>18, <1>d, CategoryAssumptions DEF AdminSetHidden, CatTypeOK
<1>19. ASSUME NEW k \in Predefined, AdminHardDelete(k)
       PROVE  CatTypeOK'
  <2>1. /\ deleting' \in Deletion /\ deleting'.key = k /\ deleting'.owners = Users
        /\ deleting'.gone = {}
    BY <1>19, DeleteType DEF AdminHardDelete, Keys
  <2>2. DeletionTypeOK'
    BY <1>19, <2>1, CategoryAssumptions DEF AdminHardDelete, DeletionTypeOK
  <2>3. QED BY <1>19, <2>2 DEF AdminHardDelete, CatTypeOK
<1>20. QED
  BY <1>1, <1>2, <1>3, <1>4, <1>5, <1>5a, <1>6, <1>7, <1>7a, <1>8, <1>9, <1>10, <1>11, <1>12,
     <1>13, <1>14, <1>14a, <1>14b, <1>14c, <1>14d, <1>14e, <1>14f, <1>15, <1>16, <1>17, <1>18,
     <1>19
  DEF CatNext, ClientStep

\* Tables, overrides and requests keep their types: an override is always its own
\* user's, and "other" stays visible, whatever users and admins do concurrently.
THEOREM CatTypeCorrect == CatSpec => []CatTypeOK
BY TypeInit, TypeStep, PTL DEF CatSpec

-----------------------------------------------------------------------------
(* Whose keys the recurring rules carry.                                   *)

\* A key that was looked up for a write is the writer's own, or nobody's any more.
WritesAreOwn ==
  \A c \in Clients :
    requests[c] \in Write /\ requests[c].op = "write" /\ requests[c].key \in Custom
      /\ cats[requests[c].key] # NoRow
    => cats[requests[c].key].user = requests[c].user

OwnKeysInv == CatTypeOK /\ WritesAreOwn /\ RecurringKeysAreOwn

\* No step gives a category to another user, and none enters one under a key that a
\* row or a request mentions.
LEMMA OwnersStay ==
  ASSUME CatTypeOK, [CatNext]_catVars, NEW k \in Custom, cats'[k] # NoRow
  PROVE  \/ cats[k] # NoRow /\ cats'[k].user = cats[k].user
         \/ Fresh(k) /\ UNCHANGED <<refs, requests, deleting>>
<1>k. k \in Ids /\ (cats[k] # NoRow => cats[k] \in Category)
  BY DEF Ids, CatTypeOK
<1>0. CASE cats'[k] = cats[k]
  BY <1>0
<1>1. ASSUME NEW c \in Clients, InsertOverride(c) PROVE cats'[k] = cats[k]
  <2>1. <<requests[c].user, requests[c].key>> \in Users \X Predefined
    BY <1>1 DEF InsertOverride, Override
  <2>2. <<requests[c].user, requests[c].key>> # k
    BY <2>1, CategoryAssumptions
  <2>3. QED BY <1>1, <1>k, <2>1, <2>2 DEF InsertOverride, CatTypeOK, Ids
<1>2. ASSUME NEW c \in Clients, UpdateCategory(c), cats'[k] # cats[k]
      PROVE  cats[k] # NoRow /\ cats'[k].user = cats[k].user
  <2>1. requests[c].id = k /\ cats[k] # NoRow
    BY <1>2, <1>k DEF UpdateCategory, Patch, CatTypeOK
  <2>2. PICK h \in BOOLEAN : cats' = [cats EXCEPT ![k].deleted = FALSE, ![k].hidden = h]
    BY <1>2, <1>k, <2>1 DEF UpdateCategory, Category, CatTypeOK
  <2>3. QED BY <1>k, <2>1, <2>2 DEF Category, CatTypeOK
<1>3. CASE CommitDelete
  BY <1>3, <1>k DEF CommitDelete, Category, CatTypeOK, DeletionTypeOK
<1>3a. ASSUME NEW u \in Users, NEW p \in Predefined, ResetOverride(u, p) PROVE cats'[k] = cats[k]
  BY <1>3a, <1>k, CategoryAssumptions DEF ResetOverride, CatTypeOK, Ids
<1>4. ASSUME NEW u \in Users, NEW i \in Custom, CreateCategory(u, i), cats'[k] # cats[k]
      PROVE  Fresh(k) /\ UNCHANGED <<refs, requests, deleting>>
  BY <1>4, <1>k DEF CreateCategory, CatTypeOK
<1>5. ASSUME NEW id \in Ids, PurgeCategoryTombstone(id) PROVE cats'[k] = cats[k]
  BY <1>5, <1>k DEF PurgeCategoryTombstone, CatTypeOK
<1>6. CASE CommitHardDelete
  <2>1. deleting.gone \subseteq Users \X Predefined
    BY <1>6, DeletionType DEF CommitHardDelete
  <2>2. QED BY <1>6, <1>k, <2>1, CategoryAssumptions DEF CommitHardDelete
<1>7. CASE UNCHANGED cats
  BY <1>7, <1>0
<1>8. QED
  BY <1>0, <1>1, <1>2, <1>3, <1>3a, <1>4, <1>5, <1>6, <1>7
  DEF CatNext, catVars, ClientStep, Resolve, FindPredefined, FindCategory, LoadRule, LoadGroup,
      WriteOwn, WriteGroup, WriteRegrouped, WriteOccurrence, Land, Guard, Abort, Drop, Reassign,
      DeleteCategory, DeleteOverrides, AbortDeletion, AdminCreate, AdminSetHidden, AdminHardDelete

\* A request for a write is an old one, or its key has just been found its user's.
LEMMA NewWrites ==
  ASSUME CatTypeOK, [CatNext]_catVars, NEW c \in Clients,
         requests'[c] \in Write, requests'[c].op = "write", requests'[c].key \in Custom
  PROVE  \/ requests'[c] = requests[c]
         \/ UNCHANGED cats /\ cats[requests'[c].key].user = requests'[c].user
<1>0. CASE UNCHANGED requests
  BY <1>0
<1>1. ASSUME NEW d \in Clients, NEW u \in Users, NEW k \in Keys, Resolve(d, u, k), d = c
      PROVE  UNCHANGED cats /\ cats[requests'[c].key].user = requests'[c].user
  <2>1. PICK key \in ResolveCategoryKey(u, k) :
          requests' = [requests EXCEPT ![c] = [op |-> "write", user |-> u, key |-> key]]
    BY <1>1 DEF Resolve
  <2>2. requests'[c] = [op |-> "write", user |-> u, key |-> key]
    BY <2>1 DEF CatTypeOK
  <2>3. key \in Custom
    BY <2>2
  <2>4. cats[key].user = u
    BY <2>1, <2>3, CategoryAssumptions DEF ResolveCategoryKey, Visible
  <2>5. QED BY <1>1, <2>2, <2>4 DEF Resolve
<1>2. ASSUME NEW d \in Clients, NEW q, requests' = [requests EXCEPT ![d] = q], d # c
      PROVE  requests'[c] = requests[c]
  BY <1>2 DEF CatTypeOK
<1>3. ASSUME NEW q, q \notin Write \/ q.op # "write", requests' = [requests EXCEPT ![c] = q]
      PROVE  FALSE
  BY <1>3 DEF CatTypeOK
<1>n. None \notin Write
  BY Kinds
<1>4. ASSUME NEW d \in Clients, NEW u \in Users, NEW k \in Predefined, FindPredefined(d, u, k)
      PROVE  requests'[c] = requests[c]
  <2>1. PICK h \in BOOLEAN, up \in BOOLEAN :
          requests' = [requests EXCEPT ![d] =
            [op |-> "override", user |-> u, key |-> k, hidden |-> h, upsert |-> up]]
    BY <1>4 DEF FindPredefined
  <2>2. CASE d = c
    BY <1>3, <2>1, <2>2
  <2>3. QED BY <1>2, <2>1, <2>2
<1>5. ASSUME NEW d \in Clients, NEW u \in Users, NEW id \in Ids, FindCategory(d, u, id)
      PROVE  requests'[c] = requests[c]
  <2>1. PICK h \in {"keep", "show", "hide"} :
          requests' = [requests EXCEPT ![d] =
            [op |-> "patch", id |-> id, hide |-> h,
             guard |-> IF h = "hide" THEN "pending" ELSE "passed"]]
    BY <1>5 DEF FindCategory
  <2>2. CASE d = c
    BY <1>3, <2>1, <2>2
  <2>3. QED BY <1>2, <2>1, <2>2
<1>6. ASSUME NEW d \in Clients, NEW r \in Shown, LoadRule(d, r) \/ LoadGroup(d, r)
      PROVE  requests'[c] = requests[c]
  <2>1. PICK op \in {"copy", "regroup"} :
          requests' = [requests EXCEPT ![d] = [op |-> op, user |-> r.user, key |-> r.key]]
    BY <1>6 DEF LoadRule, LoadGroup
  <2>2. CASE d = c
    BY <1>3, <2>1, <2>2
  <2>3. QED BY <1>2, <2>1, <2>2
<1>7. ASSUME NEW d \in Clients, requests' = [requests EXCEPT ![d] = None]
      PROVE  requests'[c] = requests[c]
  BY <1>n, <1>2, <1>3, <1>7
<1>8. ASSUME NEW d \in Clients, Guard(d)
      PROVE  requests'[c] = requests[c]
  <2>1. PICK q \in Patch : q = requests[d]
    BY <1>8 DEF Guard
  <2>2. [q EXCEPT !.guard = "passed"] \in Patch /\ [q EXCEPT !.guard = "failed"] \in Patch
    BY DEF Patch
  <2>3. PICK p \in Patch \cup {None} : requests' = [requests EXCEPT ![d] = p]
    BY <1>8, <2>1, <2>2 DEF Guard
  <2>4. p \notin Write
    BY <2>3, Kinds
  <2>5. QED BY <1>2, <1>3, <2>3, <2>4
<1>9. ASSUME NEW d \in Clients,
             \/ WriteOwn(d) \/ WriteGroup(d) \/ WriteRegrouped(d) \/ WriteOccurrence(d)
             \/ InsertOverride(d) \/ UpdateCategory(d) \/ Abort(d)
      PROVE  requests'[c] = requests[c]
  BY <1>7, <1>9
  DEF WriteOwn, WriteGroup, WriteRegrouped, WriteOccurrence, Land, InsertOverride, UpdateCategory,
      Abort
<1>10. ASSUME NEW d \in Clients, NEW u \in Users, NEW k \in Keys, Resolve(d, u, k), d # c
       PROVE  requests'[c] = requests[c]
  BY <1>2, <1>10 DEF Resolve
<1>11. QED
  BY <1>0, <1>1, <1>4, <1>5, <1>6, <1>8, <1>9, <1>10
  DEF CatNext, catVars, ClientStep, CreateCategory, DeleteCategory, ResetOverride, Reassign,
      CommitDelete, DeleteOverrides, CommitHardDelete, AbortDeletion, PurgeCategoryTombstone, Drop,
      AdminCreate, AdminSetHidden, AdminHardDelete

\* A recurring rule has its key from before, from "other", or from a write.
LEMMA NewRules ==
  ASSUME CatTypeOK, [CatNext]_catVars, NEW r \in Shown',
         r.table = "recurring_transactions", r.key \in Custom
  PROVE  \/ r \in Shown
         \/ /\ UNCHANGED cats
            /\ \E c \in Clients : /\ requests[c] \in Write /\ requests[c].op = "write"
                                  /\ requests[c].key = r.key /\ requests[c].user = r.user
<1>o. r.key # Other
  BY CategoryAssumptions
<1>0. CASE UNCHANGED <<refs, deleting>>
  BY <1>0 DEF Shown, Taken
<1>1. ASSUME NEW c \in Clients, WriteOwn(c), r \notin Shown
      PROVE  /\ UNCHANGED cats /\ requests[c] \in Write /\ requests[c].op = "write"
             /\ requests[c].key = r.key /\ requests[c].user = r.user
  BY <1>1 DEF WriteOwn, Land, Shown, Taken
<1>2. ASSUME NEW c \in Clients, WriteGroup(c) \/ WriteRegrouped(c) \/ WriteOccurrence(c)
      PROVE  r \in Shown
  BY <1>2 DEF WriteGroup, WriteRegrouped, WriteOccurrence, Land, Shown, Taken
<1>3. CASE Reassign
  BY <1>3, ReassignType DEF Shown, Taken
<1>4. CASE CommitDelete \/ CommitHardDelete
  BY <1>4, <1>o, CommitType DEF CommitDelete, CommitHardDelete, Shown, Taken
<1>5. CASE AbortDeletion
  BY <1>5 DEF AbortDeletion, Shown, Taken
<1>6. ASSUME NEW k \in Keys, NEW owners \in SUBSET Users, Delete(k, owners), UNCHANGED refs
      PROVE  r \in Shown
  BY <1>6, DeleteType DEF Shown, Taken
<1>7. ASSUME NEW u \in Users, NEW k \in Custom, DeleteCategory(u, k) PROVE r \in Shown
  BY <1>6, <1>7 DEF DeleteCategory, Keys
<1>8. ASSUME NEW k \in Predefined, AdminHardDelete(k) PROVE r \in Shown
  BY <1>6, <1>8 DEF AdminHardDelete, Keys
<1>9. ASSUME NEW x \in refs, Drop(x) PROVE r \in Shown
  BY <1>9 DEF Drop, Shown, Taken
<1>10. CASE DeleteOverrides
  BY <1>10, DeleteOverridesType DEF DeleteOverrides, Shown, Taken
<1>11. QED
  BY <1>0, <1>1, <1>2, <1>3, <1>4, <1>5, <1>7, <1>8, <1>9, <1>10
  DEF CatNext, catVars, ClientStep, Resolve, FindPredefined, FindCategory, LoadRule, LoadGroup,
      InsertOverride, Guard, UpdateCategory, Abort, CreateCategory, ResetOverride,
      PurgeCategoryTombstone, AdminCreate, AdminSetHidden

LEMMA OwnKeysInit == CatInit => OwnKeysInv
BY TypeInit, Kinds DEF CatInit, OwnKeysInv, WritesAreOwn, RecurringKeysAreOwn, Shown, Taken

LEMMA OwnKeysStep == OwnKeysInv /\ [CatNext]_catVars => OwnKeysInv'
<1> SUFFICES ASSUME OwnKeysInv, [CatNext]_catVars PROVE OwnKeysInv'
  OBVIOUS
<1>0. CatTypeOK /\ WritesAreOwn /\ RecurringKeysAreOwn
  BY DEF OwnKeysInv
<1>1. CatTypeOK'
  BY <1>0, TypeStep
<1>2. WritesAreOwn'
  <2> SUFFICES ASSUME NEW c \in Clients, requests'[c] \in Write, requests'[c].op = "write",
                      requests'[c].key \in Custom, cats'[requests'[c].key] # NoRow
               PROVE  cats'[requests'[c].key].user = requests'[c].user
    BY DEF WritesAreOwn
  <2>1. CASE requests'[c] = requests[c]
    <3>1. cats[requests[c].key] # NoRow /\ cats'[requests[c].key].user = cats[requests[c].key].user
      BY <1>0, <2>1, OwnersStay DEF Fresh, Asked
    <3>2. QED BY <1>0, <2>1, <3>1 DEF WritesAreOwn
  <2>2. QED BY <1>0, <2>1, NewWrites
<1>3. RecurringKeysAreOwn'
  <2> SUFFICES ASSUME NEW r \in Shown', r.table = "recurring_transactions", r.key \in Custom,
                      cats'[r.key] # NoRow
               PROVE  cats'[r.key].user = r.user
    BY DEF RecurringKeysAreOwn
  <2>1. CASE r \in Shown
    <3>1. cats[r.key] # NoRow /\ cats'[r.key].user = cats[r.key].user
      BY <1>0, <2>1, OwnersStay DEF Fresh, Shown, Taken
    <3>2. QED BY <1>0, <2>1, <3>1 DEF RecurringKeysAreOwn
  <2>2. CASE r \notin Shown
    BY <1>0, <2>2, NewRules DEF WritesAreOwn
  <2>3. QED BY <2>1, <2>2
<1>4. QED BY <1>1, <1>2, <1>3 DEF OwnKeysInv

\* The key of another user's category never gets into a recurring rule, however the
\* lookups, deletes, purges and revivals of any number of requests interleave.
THEOREM KeysAreOwn == CatSpec => []CatInv
<1>1. OwnKeysInv => CatInv
  BY DEF OwnKeysInv, CatInv
<1>2. QED BY OwnKeysInit, OwnKeysStep, <1>1, PTL DEF CatSpec

-----------------------------------------------------------------------------
(* Rows whose category is gone.                                            *)

\* A row that was no stray and becomes one has just been written.
StrayWritten ==
  \A r \in Strays' \ Strays :
    \E c \in Clients : requests[c] \in Write /\ requests'[c] = None /\ requests[c].key = r.key

\* A step makes no stray if every row that is shown afterwards was a stray or is fit, and
\* the deletion under way misses no row that was none.
LEMMA NoStray ==
  ASSUME \A r \in Shown' : r \in Strays \/ Usable(r.user, r.key)',
         Missed' \subseteq Strays
  PROVE  StrayWritten
BY DEF Strays, StrayWritten

\* The rows of "other" are fit.
LEMMA OtherIsUsable ==
  ASSUME CatTypeOK, NEW u
  PROVE  Usable(u, Other)
BY CategoryAssumptions DEF CatTypeOK, Usable

\* A row that is shown and is no stray is fit.
LEMMA FitOrStray == \A r \in Shown : r \in Strays \/ Usable(r.user, r.key)
BY DEF Strays

LEMMA LandStray ==
  ASSUME CatTypeOK, NEW c \in Clients, requests[c] \in Write, NEW written,
         \A r \in written : r.key = requests[c].key, Land(c, written)
  PROVE  StrayWritten
<1>1. requests'[c] = None /\ \A r \in refs' \ refs : requests[c].key = r.key
  BY DEF Land, CatTypeOK
<1>2. UNCHANGED <<predefined, cats, deleting>>
  BY DEF Land
<1>3. \A r \in Shown' \ (refs' \ refs) : r \in Shown
  BY <1>2 DEF Shown, Taken
<1>4. \A r \in Missed' \ (refs' \ refs) : r \in Missed
  BY <1>2 DEF Missed, Passed
<1>5. \A r : Usable(r.user, r.key)' <=> Usable(r.user, r.key)
  BY <1>2 DEF Usable
<1>6. \A r \in Strays' \ Strays : r \in refs' \ refs
  BY <1>3, <1>4, <1>5 DEF Strays
<1>7. QED BY <1>1, <1>6 DEF StrayWritten

\* A step that leaves the deletion alone, adds no row and takes no row's category away.
LEMMA KeptStray ==
  ASSUME CatTypeOK, UNCHANGED deleting, refs' \subseteq refs,
         \A r \in Shown : Usable(r.user, r.key) => Usable(r.user, r.key)'
  PROVE  StrayWritten
<1>1. Shown' \subseteq Shown
  BY DEF Shown, Taken
<1>2. Missed' \subseteq Missed
  BY DEF Missed, Passed
<1>3. QED BY <1>1, <1>2, FitOrStray, NoStray DEF Strays

\* A deletion that begins has passed no table.
LEMMA DeleteStray ==
  ASSUME NEW k \in Keys, NEW owners \in SUBSET Users, Delete(k, owners),
         UNCHANGED <<predefined, cats, refs>>
  PROVE  StrayWritten
<1>1. Shown' = Shown
  BY DeleteType DEF Shown, Taken
<1>2. Passed(deleting)' = {}
  BY DeleteType DEF Passed
<1>3. Missed' = {}
  BY <1>2 DEF Missed
<1>4. \A r : Usable(r.user, r.key)' <=> Usable(r.user, r.key)
  BY DEF Usable
<1>5. QED BY <1>1, <1>3, <1>4, FitOrStray, NoStray

\* After three statements every table has been passed.
LEMMA AllPassed ==
  ASSUME NEW d, d.done \in 3 .. 4, NEW table \in Tables
  PROVE  table \in Passed(d)
BY OrderIs DEF Passed, Tables

\* The rows that a commit leaves on the key of the deletion were missed before.
LEMMA CommitStray ==
  ASSUME CatTypeOK, CatTypeOK', deleting # None, deleting.done \in 3 .. 4, CommitRows,
         \A r \in refs : /\ Usable(r.user, r.key)
                         /\ r.key # deleting.key \/ r.user \notin deleting.owners
                         => Usable(r.user, r.key)'
  PROVE  StrayWritten
<1>1. deleting' = None /\ \A r \in refs' : r \in refs \/ r.key = Other
  BY CommitType
<1>2. Missed' = {} /\ Shown' = refs'
  BY <1>1 DEF Missed, Shown, Taken
<1>3. \A r \in refs : r.key = deleting.key /\ r.user \in deleting.owners => r \in Missed
  BY AllPassed DEF Missed, CatTypeOK, Ref
<1>4. refs \subseteq Shown
  BY DEF Shown
<1>5. \A r \in refs : r \in Strays \/ Usable(r.user, r.key)'
  BY <1>3, <1>4, FitOrStray DEF Strays
<1>6. \A u : Usable(u, Other)'
  BY OtherIsUsable, CategoryAssumptions DEF CatTypeOK, Usable
<1>7. QED BY <1>1, <1>2, <1>5, <1>6, NoStray

LEMMA StrayStep == CatTypeOK /\ [CatNext]_catVars => StrayWritten
<1> SUFFICES ASSUME CatTypeOK, [CatNext]_catVars PROVE StrayWritten
  OBVIOUS
<1>t. CatTypeOK'
  BY TypeStep
<1>r. \A r \in Shown : r.user \in Users /\ r.key \in Keys
  BY ShownType DEF Ref
<1>1. CASE UNCHANGED <<predefined, cats, deleting>> /\ refs' \subseteq refs
  BY <1>1, KeptStray DEF Usable
<1>2. ASSUME NEW c \in Clients, WriteOwn(c) PROVE StrayWritten
  BY <1>2, LandStray DEF WriteOwn
<1>3. ASSUME NEW c \in Clients, WriteGroup(c) \/ WriteRegrouped(c) PROVE StrayWritten
  <2>1. PICK payer \in Users, split \in SUBSET Users :
          Land(c, {[table |-> "group_transactions", user |-> payer, key |-> requests[c].key]}
                  \cup {[table |-> "transactions", user |-> s, key |-> requests[c].key] : s \in split})
    BY <1>3 DEF WriteGroup, WriteRegrouped
  <2>2. QED BY <1>3, <2>1, LandStray DEF WriteGroup, WriteRegrouped
<1>4. ASSUME NEW c \in Clients, WriteOccurrence(c) PROVE StrayWritten
  BY <1>4, LandStray DEF WriteOccurrence
<1>5. ASSUME NEW c \in Clients, InsertOverride(c) PROVE StrayWritten
  <2>1. \A k \in Custom : cats'[k] = cats[k]
    <3>1. <<requests[c].user, requests[c].key>> \in Users \X Predefined
      BY <1>5 DEF InsertOverride, Override
    <3>2. QED BY <1>5, <3>1, CategoryAssumptions DEF InsertOverride, CatTypeOK, Ids
  <2>2. QED BY <1>5, <1>r, <2>1, KeptStray DEF InsertOverride, Usable, Keys
<1>6. ASSUME NEW c \in Clients, UpdateCategory(c) PROVE StrayWritten
  <2>1. \A k \in Custom : cats[k] # NoRow =>
          \/ cats'[k] = cats[k]
          \/ cats'[k] # NoRow /\ cats'[k].user = cats[k].user /\ ~cats'[k].deleted
    <3> SUFFICES ASSUME NEW k \in Custom, cats[k] # NoRow
                 PROVE  \/ cats'[k] = cats[k]
                        \/ cats'[k] # NoRow /\ cats'[k].user = cats[k].user /\ ~cats'[k].deleted
      OBVIOUS
    <3>1. k \in Ids /\ cats[k] \in Category
      BY DEF Ids, CatTypeOK
    <3>2. CASE cats'[k] = cats[k]
      BY <3>2
    <3>3. CASE requests[c].id = k
      <4>1. PICK h \in BOOLEAN : cats' = [cats EXCEPT ![k].deleted = FALSE, ![k].hidden = h]
        BY <1>6, <3>1, <3>3 DEF UpdateCategory, Category, CatTypeOK
      <4>2. cats'[k] = [cats[k] EXCEPT !.deleted = FALSE, !.hidden = h]
        BY <3>1, <4>1 DEF CatTypeOK
      <4>3. cats'[k] \in Category /\ cats'[k].user = cats[k].user /\ cats'[k].deleted = FALSE
        BY <3>1, <4>2 DEF Category
      <4>4. QED BY <4>3, CategoryAssumptions
    <3>4. CASE requests[c].id # k
      BY <1>6, <3>1, <3>2, <3>4 DEF UpdateCategory, CatTypeOK
    <3>5. QED BY <3>3, <3>4
  <2>2. UNCHANGED <<predefined, refs, deleting>>
    BY <1>6 DEF UpdateCategory
  <2>3. \A r \in Shown : Usable(r.user, r.key) => Usable(r.user, r.key)'
    <3> SUFFICES ASSUME NEW r \in Shown, Usable(r.user, r.key)
                 PROVE  Usable(r.user, r.key)'
      OBVIOUS
    <3>1. CASE r.key \in Predefined
      BY <2>2, <3>1 DEF Usable
    <3>2. CASE r.key \notin Predefined
      <4>1. r.key \in Custom
        BY <1>r, <3>2 DEF Keys
      <4>2. cats[r.key] # NoRow /\ cats[r.key].user = r.user /\ ~cats[r.key].deleted
        BY <3>2 DEF Usable
      <4>3. cats'[r.key] # NoRow /\ cats'[r.key].user = r.user /\ ~cats'[r.key].deleted
        <5>1. CASE cats'[r.key] = cats[r.key]
          BY <4>2, <5>1
        <5>2. CASE cats'[r.key] # cats[r.key]
          BY <2>1, <4>1, <4>2, <5>2, Zenon
        <5>3. QED BY <5>1, <5>2
      <4>4. QED BY <3>2, <4>3 DEF Usable
    <3>3. QED BY <3>1, <3>2
  <2>4. QED BY <2>2, <2>3, KeptStray
<1>7. ASSUME NEW u \in Users, NEW k \in Custom, CreateCategory(u, k) PROVE StrayWritten
  <2>1. /\ UNCHANGED <<predefined, refs, deleting>> /\ \A r \in Shown : r.key # k
        /\ \A i \in Custom \ {k} : cats'[i] = cats[i]
    BY <1>7 DEF CreateCategory, Fresh, CatTypeOK, Ids
  <2>2. QED BY <1>r, <2>1, KeptStray DEF Usable, Keys
<1>8. ASSUME NEW u \in Users, NEW k \in Custom, DeleteCategory(u, k) PROVE StrayWritten
  BY <1>8, DeleteStray DEF DeleteCategory, Keys
<1>8a. ASSUME NEW u \in Users, NEW k \in Predefined, ResetOverride(u, k) PROVE StrayWritten
  <2>1. <<u, k>> \in Ids /\ \A i \in Custom : cats'[i] = cats[i]
    BY <1>8a, CategoryAssumptions DEF ResetOverride, CatTypeOK, Ids
  <2>2. QED BY <1>8a, <1>r, <2>1, KeptStray DEF ResetOverride, Usable, Keys
<1>8b. CASE Reassign
  <2>1. PICK n \in 0 .. 2 : n = deleting.done
    BY <1>8b, ReassignType
  <2>2. Shown' = Shown
    BY <1>8b, ReassignType DEF Shown, Taken
  <2>3. \A t \in Passed(deleting)' : t \in Passed(deleting) \/ t = Order[n + 1]
    <3>1. \A i \in 1 .. 3 : i <= n + 1 => i <= n \/ i = n + 1
      OBVIOUS
    <3>2. deleting'.done = n + 1
      BY <1>8b, <2>1, ReassignType
    <3>3. QED BY <2>1, <3>1, <3>2 DEF Passed
  <2>4. \A r \in Missed' : r \in Missed
    <3> SUFFICES ASSUME NEW r \in Missed' PROVE r \in Missed
      OBVIOUS
    <3>1. /\ r \in refs /\ r \notin RowsOf(deleting, Order[n + 1])
          /\ r.key = deleting.key /\ r.user \in deleting.owners /\ r.table \in Passed(deleting)'
      BY <1>8b, <2>1, ReassignType DEF Missed
    <3>2. r.table # Order[n + 1]
      BY <3>1 DEF RowsOf
    <3>3. QED BY <1>8b, <2>3, <3>1, <3>2, ReassignType DEF Missed
  <2>5. \A r : Usable(r.user, r.key)' <=> Usable(r.user, r.key)
    BY <1>8b DEF Reassign, Usable
  <2>6. QED BY <2>2, <2>4, <2>5, FitOrStray, NoStray DEF Strays
<1>8c. CASE CommitDelete
  <2>1. /\ deleting # None /\ deleting.key \in Custom /\ deleting.done = 3 /\ CommitRows
        /\ UNCHANGED predefined
    BY <1>8c DEF CommitDelete
  <2>2. PICK k \in Custom : k = deleting.key /\ cats[k] # NoRow /\ deleting.owners = {cats[k].user}
    BY <2>1 DEF CatTypeOK, DeletionTypeOK
  <2>3. \A i \in Custom \ {k} : cats'[i] = cats[i]
    BY <1>8c, <2>2 DEF CommitDelete, CatTypeOK, Ids
  <2>4. \A r \in refs : r.key = k /\ Usable(r.user, r.key) => r.user \in deleting.owners
    BY <2>2, CategoryAssumptions DEF Usable
  <2>5. \A r \in refs : /\ Usable(r.user, r.key)
                        /\ r.key # deleting.key \/ r.user \notin deleting.owners
                        => Usable(r.user, r.key)'
    <3> SUFFICES ASSUME NEW r \in refs, Usable(r.user, r.key),
                        r.key # deleting.key \/ r.user \notin deleting.owners
                 PROVE  Usable(r.user, r.key)'
      OBVIOUS
    <3>1. r.key # k /\ r.key \in Keys
      BY <1>r, <2>2, <2>4 DEF Shown
    <3>2. QED BY <2>1, <2>3, <3>1 DEF Usable, Keys
  <2>6. QED BY <1>t, <2>1, <2>5, CommitStray
<1>8d. CASE DeleteOverrides
  <2>1. UNCHANGED <<predefined, cats, refs>>
    BY <1>8d DEF DeleteOverrides
  <2>2. Shown' = Shown
    BY <1>8d, <2>1, DeleteOverridesType DEF Shown, Taken
  <2>3. Missed' \subseteq Missed
    BY <1>8d, <2>1, DeleteOverridesType, AllPassed DEF Missed, CatTypeOK, Ref
  <2>4. \A r : Usable(r.user, r.key)' <=> Usable(r.user, r.key)
    BY <2>1 DEF Usable
  <2>5. QED BY <2>2, <2>3, <2>4, FitOrStray, NoStray DEF Strays
<1>8e. CASE AbortDeletion
  <2>1. Shown' = Shown /\ Missed' = {}
    BY <1>8e DEF AbortDeletion, Shown, Taken, Missed
  <2>2. \A r : Usable(r.user, r.key)' <=> Usable(r.user, r.key)
    BY <1>8e DEF AbortDeletion, Usable
  <2>3. QED BY <2>1, <2>2, FitOrStray, NoStray
<1>9. ASSUME NEW id \in Ids, PurgeCategoryTombstone(id) PROVE StrayWritten
  <2>1. /\ UNCHANGED <<predefined, refs, deleting>> /\ cats[id].deleted
        /\ \A i \in Ids \ {id} : cats'[i] = cats[i]
    BY <1>9 DEF PurgeCategoryTombstone, CatTypeOK
  <2>2. \A r \in Shown : Usable(r.user, r.key) => Usable(r.user, r.key)'
    <3>1. \A i \in Custom : cats[i] # NoRow /\ ~cats[i].deleted => cats'[i] = cats[i]
      BY <2>1 DEF Ids
    <3>2. QED BY <1>r, <2>1, <3>1 DEF Usable, Keys
  <2>3. QED BY <2>1, <2>2, KeptStray
<1>10. ASSUME NEW k \in Predefined, AdminHardDelete(k) PROVE StrayWritten
  BY <1>10, DeleteStray DEF AdminHardDelete, Keys
<1>10a. CASE CommitHardDelete
  <2>1. /\ deleting # None /\ deleting.done = 4 /\ CommitRows
        /\ cats' = [id \in Ids |-> IF id \in deleting.gone THEN NoRow ELSE cats[id]]
        /\ predefined' = [predefined EXCEPT ![deleting.key] = "absent"]
    BY <1>10a DEF CommitHardDelete
  <2>2. deleting.owners = Users
    BY <2>1 DEF CatTypeOK, DeletionTypeOK
  <2>3. \A i \in Custom : cats'[i] = cats[i]
    BY <2>1, DeletionType, CategoryAssumptions DEF Ids
  <2>4. \A p \in Predefined : p # deleting.key => predefined'[p] = predefined[p]
    BY <2>1 DEF CatTypeOK
  <2>5. \A r \in refs : /\ Usable(r.user, r.key)
                        /\ r.key # deleting.key \/ r.user \notin deleting.owners
                        => Usable(r.user, r.key)'
    <3> SUFFICES ASSUME NEW r \in refs, Usable(r.user, r.key),
                        r.key # deleting.key \/ r.user \notin deleting.owners
                 PROVE  Usable(r.user, r.key)'
      OBVIOUS
    <3>1. r.key # deleting.key /\ r.key \in Keys
      BY <1>r, <2>2 DEF Shown
    <3>2. QED BY <2>3, <2>4, <3>1 DEF Usable, Keys
  <2>6. QED BY <1>t, <2>1, <2>5, CommitStray
<1>11. ASSUME NEW k \in Predefined, AdminCreate(k) PROVE StrayWritten
  BY <1>11, <1>r, KeptStray DEF AdminCreate, Usable, Keys, CatTypeOK
<1>12. ASSUME NEW k \in Predefined, NEW h \in BOOLEAN, AdminSetHidden(k, h) PROVE StrayWritten
  BY <1>12, <1>r, KeptStray DEF AdminSetHidden, Usable, Keys, CatTypeOK
<1>13. QED
  BY <1>1, <1>2, <1>3, <1>4, <1>5, <1>6, <1>7, <1>8, <1>8a, <1>8b, <1>8c, <1>8d, <1>8e, <1>9, <1>10,
     <1>10a, <1>11, <1>12
  DEF CatNext, catVars, ClientStep, Resolve, FindPredefined, FindCategory, LoadRule, LoadGroup,
      Guard, Abort, Drop

\* No statement and no commit of a delete, no purge and no hiding leaves a row on a
\* category that is gone, or passes one over: a row goes astray only when it is written
\* with a key that was looked up or copied before.
THEOREM StraysAreWritten == CatSpec => StrayOnlyByWrite
<1>1. CatTypeOK /\ [CatNext]_catVars
      => [\A r \in Strays' \ Strays :
            \E c \in Clients : requests[c] \in Write /\ requests'[c] = None
                               /\ requests[c].key = r.key]_catVars
  BY StrayStep DEF StrayWritten
<1>2. QED BY CatTypeCorrect, <1>1, PTL DEF CatSpec, StrayOnlyByWrite

-----------------------------------------------------------------------------
(* "other" and the overrides of what an admin deletes.                     *)

\* POST and the PATCH that inserts have refused to hide "other" before.
OverridesGuarded ==
  \A c \in Clients : requests[c] \in Override /\ requests[c].hidden => requests[c].key # Other

\* A PATCH of somebody's override of "other" has found its row, which is not purged
\* under it; so its guard can only have failed if it is to hide it.
PatchesOther ==
  \A c \in Clients, u \in Users :
    requests[c] \in Patch /\ requests[c].id = <<u, Other>> =>
      cats[<<u, Other>>] # NoRow /\ (requests[c].hide = "hide" => requests[c].guard # "passed")

OtherInv == CatTypeOK /\ OverridesGuarded /\ PatchesOther

\* No deletion takes an override of "other".
LEMMA OthersStay ==
  ASSUME CatTypeOK, deleting # None, deleting.done = 4, NEW u
  PROVE  <<u, Other>> \notin deleting.gone
BY DEF CatTypeOK, DeletionTypeOK

\* A row of the table stays while a request is in flight, unless an admin deletes the
\* predefined category it overrides.
LEMMA RowsStay ==
  ASSUME CatTypeOK, [CatNext]_catVars, NEW c \in Clients, requests[c] # None,
         NEW u \in Users, cats[<<u, Other>>] # NoRow
  PROVE  cats'[<<u, Other>>] # NoRow
<1>i. <<u, Other>> \in Ids /\ <<u, Other>> \notin Custom
  BY CategoryAssumptions DEF Ids
<1>n. NoRow \notin Category
  BY CategoryAssumptions
<1>1. ASSUME NEW d \in Clients, InsertOverride(d) PROVE cats'[<<u, Other>>] # NoRow
  <2>1. requests[d].user \in Users /\ requests[d].key \in Predefined
    BY <1>1 DEF InsertOverride, Override
  <2>2. [user |-> requests[d].user, hidden |-> requests[d].hidden, deleted |-> FALSE] \in Category
    BY <1>1 DEF InsertOverride, Override, Category
  <2>3. QED BY <1>1, <1>i, <1>n, <2>1, <2>2 DEF InsertOverride, CatTypeOK, Ids
<1>2. ASSUME NEW d \in Clients, UpdateCategory(d) PROVE cats'[<<u, Other>>] # NoRow
  <2>1. CASE requests[d].id # <<u, Other>>
    BY <1>2, <1>i, <2>1 DEF UpdateCategory, CatTypeOK
  <2>2. CASE requests[d].id = <<u, Other>>
    <3>1. cats[<<u, Other>>] \in Category
      BY <1>i DEF CatTypeOK
    <3>2. PICK h \in BOOLEAN :
            cats' = [cats EXCEPT ![<<u, Other>>].deleted = FALSE, ![<<u, Other>>].hidden = h]
      BY <1>2, <2>2, <3>1 DEF UpdateCategory, Category
    <3>3. cats'[<<u, Other>>] = [cats[<<u, Other>>] EXCEPT !.deleted = FALSE, !.hidden = h]
      BY <1>i, <3>2 DEF CatTypeOK
    <3>4. cats'[<<u, Other>>] \in Category
      BY <3>1, <3>3 DEF Category
    <3>5. QED BY <1>n, <3>4
  <2>3. QED BY <2>1, <2>2
<1>3. ASSUME NEW v \in Users, NEW k \in Custom, CreateCategory(v, k)
      PROVE  cats'[<<u, Other>>] # NoRow
  BY <1>3, <1>i DEF CreateCategory, CatTypeOK
<1>4. ASSUME NEW v \in Users, NEW k \in Predefined, ResetOverride(v, k)
      PROVE  cats'[<<u, Other>>] # NoRow
  <2>1. <<v, k>> \in Ids
    BY DEF Ids
  <2>2. QED BY <1>4, <1>i, <1>n, <2>1 DEF ResetOverride, Category, CatTypeOK
<1>4a. CASE CommitDelete
  BY <1>4a, <1>i DEF CommitDelete, CatTypeOK
<1>5. ASSUME NEW id \in Ids, PurgeCategoryTombstone(id) PROVE FALSE
  BY <1>5 DEF PurgeCategoryTombstone
<1>6. CASE CommitHardDelete
  <2>1. <<u, Other>> \notin deleting.gone
    BY <1>6, OthersStay DEF CommitHardDelete
  <2>2. QED BY <1>6, <1>i, <2>1 DEF CommitHardDelete
<1>7. CASE UNCHANGED cats
  BY <1>7
<1>8. QED
  BY <1>1, <1>2, <1>3, <1>4, <1>4a, <1>5, <1>6, <1>7
  DEF CatNext, catVars, ClientStep, Resolve, FindPredefined, FindCategory, LoadRule, LoadGroup,
      WriteOwn, WriteGroup, WriteRegrouped, WriteOccurrence, Land, Guard, Abort, Drop, Reassign,
      DeleteCategory, DeleteOverrides, AbortDeletion, AdminCreate, AdminSetHidden, AdminHardDelete

\* A request is an old one or none, or an action has just made it.
LEMMA NewRequests ==
  ASSUME CatTypeOK, [CatNext]_catVars, NEW c \in Clients
  PROVE  \/ requests'[c] \in {requests[c], None} \cup Write
         \/ \E u \in Users, k \in Predefined : FindPredefined(c, u, k)
         \/ \E u \in Users, id \in Ids : FindCategory(c, u, id)
         \/ Guard(c)
<1>1. ASSUME NEW d \in Clients, NEW q, requests' = [requests EXCEPT ![d] = q],
             d = c => q \in {None} \cup Write
      PROVE  requests'[c] \in {requests[c], None} \cup Write
  BY <1>1 DEF CatTypeOK
<1>2. ASSUME NEW d \in Clients, NEW u \in Users, NEW k \in Keys, Resolve(d, u, k)
      PROVE  requests'[c] \in {requests[c], None} \cup Write
  <2>1. PICK key \in ResolveCategoryKey(u, k) :
          requests' = [requests EXCEPT ![d] = [op |-> "write", user |-> u, key |-> key]]
    BY <1>2 DEF Resolve
  <2>2. [op |-> "write", user |-> u, key |-> key] \in Write
    BY ResolvedType DEF Write
  <2>3. QED BY <1>1, <2>1, <2>2
<1>3. ASSUME NEW d \in Clients, NEW r \in Shown, LoadRule(d, r) \/ LoadGroup(d, r)
      PROVE  requests'[c] \in {requests[c], None} \cup Write
  <2>1. PICK op \in {"copy", "regroup"} :
          requests' = [requests EXCEPT ![d] = [op |-> op, user |-> r.user, key |-> r.key]]
    BY <1>3 DEF LoadRule, LoadGroup
  <2>2. [op |-> op, user |-> r.user, key |-> r.key] \in Write
    BY ShownType DEF Write, Ref
  <2>3. QED BY <1>1, <2>1, <2>2
<1>4. ASSUME NEW d \in Clients, d # c,
             \/ \E u \in Users, k \in Predefined : FindPredefined(d, u, k)
             \/ \E u \in Users, id \in Ids : FindCategory(d, u, id)
             \/ Guard(d)
      PROVE  requests'[c] = requests[c]
  BY <1>4 DEF FindPredefined, FindCategory, Guard, CatTypeOK
<1>5. ASSUME NEW d \in Clients, requests' = [requests EXCEPT ![d] = None]
      PROVE  requests'[c] \in {requests[c], None} \cup Write
  BY <1>5 DEF CatTypeOK
<1>6. ASSUME NEW d \in Clients,
             \/ WriteOwn(d) \/ WriteGroup(d) \/ WriteRegrouped(d) \/ WriteOccurrence(d)
             \/ InsertOverride(d) \/ UpdateCategory(d) \/ Abort(d)
      PROVE  requests'[c] \in {requests[c], None} \cup Write
  BY <1>5, <1>6
  DEF WriteOwn, WriteGroup, WriteRegrouped, WriteOccurrence, Land, InsertOverride, UpdateCategory,
      Abort
<1>7. CASE UNCHANGED requests
  BY <1>7
<1>8. QED
  BY <1>2, <1>3, <1>4, <1>6, <1>7
  DEF CatNext, catVars, ClientStep, CreateCategory, DeleteCategory, ResetOverride, Reassign,
      CommitDelete, DeleteOverrides, CommitHardDelete, AbortDeletion, PurgeCategoryTombstone, Drop,
      AdminCreate, AdminSetHidden, AdminHardDelete

LEMMA OtherInit == CatInit => OtherInv
BY TypeInit, Kinds DEF CatInit, OtherInv, OverridesGuarded, PatchesOther

LEMMA OtherStep == OtherInv /\ [CatNext]_catVars => OtherInv'
<1> SUFFICES ASSUME OtherInv, [CatNext]_catVars PROVE OtherInv'
  OBVIOUS
<1>0. CatTypeOK /\ OverridesGuarded /\ PatchesOther
  BY DEF OtherInv
<1>1. CatTypeOK'
  BY <1>0, TypeStep
<1>2. OverridesGuarded'
  <2> SUFFICES ASSUME NEW c \in Clients, requests'[c] \in Override, requests'[c].hidden
               PROVE  requests'[c].key # Other
    BY DEF OverridesGuarded
  <2>1. CASE requests'[c] = requests[c]
    BY <1>0, <2>1 DEF OverridesGuarded
  <2>2. ASSUME NEW u \in Users, NEW k \in Predefined, FindPredefined(c, u, k)
        PROVE  requests'[c].key # Other
    BY <1>0, <2>2 DEF FindPredefined, MayHide, CatTypeOK
  <2>3. ASSUME NEW u \in Users, NEW id \in Ids, FindCategory(c, u, id) PROVE FALSE
    <3>1. PICK h \in {"keep", "show", "hide"} :
            requests'[c] = [op |-> "patch", id |-> id, hide |-> h,
                            guard |-> IF h = "hide" THEN "pending" ELSE "passed"]
      BY <1>0, <2>3 DEF FindCategory, CatTypeOK
    <3>2. QED BY <3>1, Kinds
  <2>4. CASE Guard(c)
    <3>1. PICK q \in Patch : q = requests[c]
      BY <2>4 DEF Guard
    <3>2. [q EXCEPT !.guard = "passed"] \in Patch /\ [q EXCEPT !.guard = "failed"] \in Patch
      BY DEF Patch
    <3>3. requests'[c] \in Patch \cup {None}
      BY <1>0, <2>4, <3>1, <3>2 DEF Guard, CatTypeOK
    <3>4. QED BY <3>3, Kinds
  <2>5. QED BY <1>0, <2>1, <2>2, <2>3, <2>4, NewRequests, Kinds
<1>3. PatchesOther'
  <2> SUFFICES ASSUME NEW c \in Clients, NEW u \in Users,
                      requests'[c] \in Patch, requests'[c].id = <<u, Other>>
               PROVE  /\ cats'[<<u, Other>>] # NoRow
                      /\ requests'[c].hide = "hide" => requests'[c].guard # "passed"
    BY DEF PatchesOther
  <2>1. CASE requests'[c] = requests[c]
    BY <1>0, <2>1, RowsStay, Kinds DEF PatchesOther
  <2>2. ASSUME NEW v \in Users, NEW k \in Predefined, FindPredefined(c, v, k) PROVE FALSE
    <3>1. PICK h \in BOOLEAN, up \in BOOLEAN :
            requests'[c] = [op |-> "override", user |-> v, key |-> k, hidden |-> h, upsert |-> up]
      BY <1>0, <2>2 DEF FindPredefined, CatTypeOK
    <3>2. QED BY <3>1, Kinds
  <2>3. ASSUME NEW v \in Users, NEW id \in Ids, FindCategory(c, v, id)
        PROVE  /\ cats'[<<u, Other>>] # NoRow
               /\ requests'[c].hide = "hide" => requests'[c].guard # "passed"
    <3>1. PICK h \in {"keep", "show", "hide"} :
            requests'[c] = [op |-> "patch", id |-> id, hide |-> h,
                            guard |-> IF h = "hide" THEN "pending" ELSE "passed"]
      BY <1>0, <2>3 DEF FindCategory, CatTypeOK
    <3>2. QED BY <2>3, <3>1 DEF FindCategory
  <2>4. CASE Guard(c)
    <3>1. PICK q \in Patch : q = requests[c] /\ q.guard = "pending"
      BY <2>4 DEF Guard
    <3>2. \A g \in {"passed", "failed"} :
            [q EXCEPT !.guard = g].id = q.id /\ [q EXCEPT !.guard = g].guard = g
      BY DEF Patch
    <3>3. UNCHANGED cats
      BY <2>4 DEF Guard
    <3>4. requests'[c] = [q EXCEPT !.guard = "failed"]
          \/ requests'[c] = (IF Guarded(q.id) THEN [q EXCEPT !.guard = "passed"] ELSE None)
      BY <1>0, <2>4, <3>1 DEF Guard, CatTypeOK
    <3>5. q.id = <<u, Other>>
      BY <3>2, <3>4, Kinds
    <3>6. cats[<<u, Other>>] # NoRow
      BY <1>0, <3>1, <3>5 DEF PatchesOther
    <3>7. ~Guarded(q.id)
      BY <3>5, <3>6, CategoryAssumptions DEF Guarded, MayHide, PredefinedKeyOf
    <3>8. requests'[c] = [q EXCEPT !.guard = "failed"]
      BY <3>4, <3>7, Kinds
    <3>9. QED BY <3>2, <3>3, <3>6, <3>8
  <2>5. QED BY <1>0, <2>1, <2>2, <2>3, <2>4, NewRequests, Kinds
<1>4. QED BY <1>1, <1>2, <1>3 DEF OtherInv

\* A user's "other" that gets hidden.
Hides(u) ==
  LET row == cats[<<u, Other>>] IN
  /\ cats'[<<u, Other>>] # NoRow /\ cats'[<<u, Other>>].hidden
  /\ row = NoRow \/ ~row.hidden

LEMMA HideStep ==
  ASSUME OtherInv, [CatNext]_catVars, NEW u \in Users, Hides(u)
  PROVE  \E c \in Clients : requests[c] \in Patch /\ requests[c].guard = "failed"
<1>0. CatTypeOK /\ OverridesGuarded /\ PatchesOther
  BY DEF OtherInv
<1>i. <<u, Other>> \in Ids /\ <<u, Other>> \notin Custom
  BY CategoryAssumptions DEF Ids
<1>c. cats[<<u, Other>>] # NoRow => cats[<<u, Other>>] \in Category
  BY <1>0, <1>i DEF CatTypeOK
<1>u. CASE cats'[<<u, Other>>] = cats[<<u, Other>>]
  BY <1>u DEF Hides
<1>1. ASSUME NEW c \in Clients, InsertOverride(c) PROVE cats'[<<u, Other>>] = cats[<<u, Other>>]
  <2>1. PICK q \in Override : q = requests[c]
    BY <1>1 DEF InsertOverride
  <2>2. CASE <<q.user, q.key>> = <<u, Other>>
    <3>1. q.hidden \in BOOLEAN /\ ~q.hidden
      BY <1>0, <2>1, <2>2 DEF OverridesGuarded, Override
    <3>2. \/ cats' = cats
          \/ cats' = [cats EXCEPT ![<<u, Other>>] =
                        [user |-> q.user, hidden |-> q.hidden, deleted |-> FALSE]]
      BY <1>1, <2>1, <2>2 DEF InsertOverride
    <3>3. cats' = cats \/ cats'[<<u, Other>>].hidden = q.hidden
      BY <1>0, <1>i, <3>2 DEF CatTypeOK
    <3>4. QED BY <3>1, <3>3 DEF Hides
  <2>3. CASE <<q.user, q.key>> # <<u, Other>>
    <3>1. <<q.user, q.key>> \in Ids
      BY <2>1 DEF Override, Ids
    <3>2. QED BY <1>0, <1>1, <1>i, <2>1, <2>3, <3>1 DEF InsertOverride, CatTypeOK
  <2>4. QED BY <2>2, <2>3
<1>2. ASSUME NEW c \in Clients, UpdateCategory(c), cats'[<<u, Other>>] # cats[<<u, Other>>]
      PROVE  requests[c] \in Patch /\ requests[c].guard = "failed"
  <2>1. PICK q \in Patch : q = requests[c] /\ q.guard # "pending"
    BY <1>2 DEF UpdateCategory
  <2>2. q.id = <<u, Other>> /\ cats[<<u, Other>>] # NoRow
    BY <1>0, <1>2, <1>i, <2>1 DEF UpdateCategory, CatTypeOK
  <2>3. cats' = [cats EXCEPT ![<<u, Other>>].deleted = FALSE,
                             ![<<u, Other>>].hidden = IF q.hide = "keep" THEN @ ELSE q.hide = "hide"]
    BY <1>2, <2>1, <2>2 DEF UpdateCategory
  <2>4. cats'[<<u, Other>>].hidden =
          IF q.hide = "keep" THEN cats[<<u, Other>>].hidden ELSE q.hide = "hide"
    BY <1>0, <1>c, <1>i, <2>2, <2>3 DEF Category, CatTypeOK
  <2>5. q.hide = "hide"
    <3>1. CASE q.hide = "keep"
      <4>1. cats'[<<u, Other>>].hidden = cats[<<u, Other>>].hidden
        BY <2>4, <3>1
      <4>2. QED BY <2>2, <4>1 DEF Hides
    <3>2. CASE q.hide # "keep"
      <4>1. cats'[<<u, Other>>].hidden = (q.hide = "hide")
        BY <2>4, <3>2
      <4>2. QED BY <4>1 DEF Hides
    <3>3. QED BY <3>1, <3>2
  <2>6. q.guard # "passed"
    BY <1>0, <2>1, <2>2, <2>5 DEF PatchesOther
  <2>7. QED BY <2>1, <2>6 DEF Patch
<1>3. ASSUME NEW v \in Users, NEW k \in Custom, CreateCategory(v, k)
      PROVE  cats'[<<u, Other>>] = cats[<<u, Other>>]
  BY <1>0, <1>3, <1>i DEF CreateCategory, CatTypeOK
<1>4. ASSUME NEW v \in Users, NEW k \in Predefined, ResetOverride(v, k)
      PROVE  cats'[<<u, Other>>] = cats[<<u, Other>>]
  <2>1. CASE <<v, k>> # <<u, Other>>
    <3>1. <<v, k>> \in Ids
      BY DEF Ids
    <3>2. QED BY <1>0, <1>4, <1>i, <2>1, <3>1 DEF ResetOverride, CatTypeOK
  <2>2. CASE <<v, k>> = <<u, Other>>
    <3>1. /\ cats[<<u, Other>>] # NoRow
          /\ cats' = [cats EXCEPT ![<<u, Other>>].deleted = TRUE]
      BY <1>4, <2>2 DEF ResetOverride
    <3>2. cats'[<<u, Other>>].hidden = cats[<<u, Other>>].hidden
      BY <1>0, <1>c, <1>i, <3>1 DEF Category, CatTypeOK
    <3>3. QED BY <3>1, <3>2 DEF Hides
  <2>3. QED BY <2>1, <2>2
<1>4a. CASE CommitDelete
  BY <1>0, <1>4a, <1>i, <1>u DEF CommitDelete, CatTypeOK
<1>5. ASSUME NEW id \in Ids, PurgeCategoryTombstone(id)
      PROVE  cats'[<<u, Other>>] = cats[<<u, Other>>]
  BY <1>0, <1>5, <1>i DEF PurgeCategoryTombstone, CatTypeOK, Hides
<1>6. CASE CommitHardDelete
  <2>1. <<u, Other>> \notin deleting.gone
    BY <1>0, <1>6, OthersStay DEF CommitHardDelete
  <2>2. QED BY <1>6, <1>i, <1>u, <2>1 DEF CommitHardDelete
<1>7. CASE UNCHANGED cats
  BY <1>7, <1>u
<1>8. QED
  BY <1>u, <1>1, <1>2, <1>3, <1>4, <1>4a, <1>5, <1>6, <1>7
  DEF CatNext, catVars, ClientStep, Resolve, FindPredefined, FindCategory, LoadRule, LoadGroup,
      WriteOwn, WriteGroup, WriteRegrouped, WriteOccurrence, Land, Guard, Abort, Drop, Reassign,
      DeleteCategory, DeleteOverrides, AbortDeletion, AdminCreate, AdminSetHidden, AdminHardDelete

\* "other" is hidden for a user by no POST and by no PATCH whose guard could read the
\* row it guards, whatever happens to that row between the statements.
THEOREM OtherIsGuarded == CatSpec => OtherHiddenOnlyUnguarded
<1>1. OtherInv /\ [CatNext]_catVars
      => [\A u \in Users :
            LET row == cats[<<u, Other>>] IN
            /\ cats'[<<u, Other>>] # NoRow /\ cats'[<<u, Other>>].hidden
            /\ row = NoRow \/ ~row.hidden
            => \E c \in Clients : requests[c] \in Patch /\ requests[c].guard = "failed"]_catVars
  BY HideStep DEF Hides
<1>2. QED BY OtherInit, OtherStep, <1>1, PTL DEF CatSpec, OtherHiddenOnlyUnguarded

\* An override that is left without its predefined category has just been inserted.
OrphanInserted ==
  \A id \in Orphans' \ Orphans :
    \E c \in Clients : requests[c] \in Override /\ requests'[c] = None
                       /\ id = <<requests[c].user, requests[c].key>>

LEMMA OrphanStep == CatTypeOK /\ [CatNext]_catVars => OrphanInserted
<1> DEFINE Passing(id) == /\ deleting # None /\ deleting.done = 4 /\ deleting.key = id[2]
                          /\ id \notin deleting.gone
<1> SUFFICES ASSUME CatTypeOK, [CatNext]_catVars, NEW id \in Orphans' \ Orphans
             PROVE  \E c \in Clients : requests[c] \in Override /\ requests'[c] = None
                                       /\ id = <<requests[c].user, requests[c].key>>
  BY DEF OrphanInserted
<1>i. /\ id \in Users \X Predefined /\ id \in Ids /\ id[2] \in Predefined
      /\ cats'[id] # NoRow /\ (predefined'[id[2]] = "absent" \/ Passing(id)')
      /\ cats[id] = NoRow \/ (predefined[id[2]] # "absent" /\ ~Passing(id))
  BY DEF Orphans, Ids
<1>c. id \notin Custom
  BY <1>i, CategoryAssumptions
<1>d. ASSUME UNCHANGED deleting PROVE Passing(id)' => Passing(id)
  BY <1>d
<1>1. ASSUME NEW c \in Clients, InsertOverride(c)
      PROVE  requests[c] \in Override /\ requests'[c] = None
             /\ id = <<requests[c].user, requests[c].key>>
  <2>1. requests[c] \in Override /\ requests'[c] = None /\ UNCHANGED <<predefined, deleting>>
    BY <1>1 DEF InsertOverride, CatTypeOK
  <2>2. cats'[id] # cats[id]
    BY <1>i, <1>d, <2>1
  <2>3. <<requests[c].user, requests[c].key>> \in Ids
    BY <2>1 DEF Override, Ids
  <2>4. QED BY <1>1, <1>i, <2>1, <2>2, <2>3 DEF InsertOverride, CatTypeOK
<1>2. ASSUME NEW c \in Clients, UpdateCategory(c) PROVE FALSE
  <2>1. UNCHANGED <<predefined, deleting>>
    BY <1>2 DEF UpdateCategory
  <2>2. CASE requests[c].id = id
    BY <1>2, <1>i, <1>d, <2>1, <2>2 DEF UpdateCategory
  <2>3. CASE requests[c].id # id
    BY <1>2, <1>i, <1>d, <2>1, <2>3 DEF UpdateCategory, CatTypeOK
  <2>4. QED BY <2>2, <2>3
<1>3. ASSUME NEW v \in Users, NEW k \in Custom, CreateCategory(v, k) PROVE FALSE
  BY <1>3, <1>i, <1>c, <1>d DEF CreateCategory, CatTypeOK
<1>4. ASSUME NEW v \in Users, NEW k \in Predefined, ResetOverride(v, k) PROVE FALSE
  <2>1. cats'[id] # NoRow => cats[id] # NoRow
    BY <1>4, <1>i DEF ResetOverride, CatTypeOK
  <2>2. QED BY <1>4, <1>i, <1>d, <2>1 DEF ResetOverride
<1>5. ASSUME NEW i \in Ids, PurgeCategoryTombstone(i) PROVE FALSE
  BY <1>5, <1>i, <1>d DEF PurgeCategoryTombstone, CatTypeOK
<1>6. ASSUME NEW k \in Keys, NEW owners \in SUBSET Users, Delete(k, owners),
             UNCHANGED <<predefined, cats>>
      PROVE  FALSE
  BY <1>6, <1>i, DeleteType
<1>6a. ASSUME NEW u \in Users, NEW k \in Custom, DeleteCategory(u, k) PROVE FALSE
  BY <1>6, <1>6a DEF DeleteCategory, Keys
<1>6b. ASSUME NEW k \in Predefined, AdminHardDelete(k) PROVE FALSE
  BY <1>6, <1>6b DEF AdminHardDelete, Keys
<1>6c. CASE Reassign
  <2>1. deleting'.done # 4
    BY <1>6c, ReassignType
  <2>2. QED BY <1>6c, <1>i, <2>1 DEF Reassign
<1>6d. CASE CommitDelete
  <2>1. deleting' = None /\ UNCHANGED predefined
    BY <1>6d DEF CommitDelete, CommitRows
  <2>2. deleting.key # id /\ deleting.key \in Custom
    BY <1>6d, <1>c DEF CommitDelete
  <2>3. cats'[id] = cats[id]
    BY <1>6d, <1>i, <2>2 DEF CommitDelete, CatTypeOK
  <2>4. QED BY <1>i, <2>1, <2>3
<1>6e. CASE DeleteOverrides
  <2>1. UNCHANGED <<predefined, cats>>
    BY <1>6e DEF DeleteOverrides
  <2>2. deleting.key = id[2] => id \in Users \X {deleting.key}
    BY <1>i
  <2>3. Passing(id)' => id \in OverridesOf(deleting.key)
    BY <1>6e, <1>i, <2>1, <2>2, DeleteOverridesType DEF OverridesOf
  <2>4. QED BY <1>6e, <1>i, <2>1, <2>3, DeleteOverridesType
<1>6f. CASE CommitHardDelete
  <2>1. /\ deleting # None /\ deleting.done = 4 /\ deleting' = None
        /\ cats' = [i \in Ids |-> IF i \in deleting.gone THEN NoRow ELSE cats[i]]
        /\ predefined' = [predefined EXCEPT ![deleting.key] = "absent"]
    BY <1>6f DEF CommitHardDelete, CommitRows
  <2>2. id \notin deleting.gone /\ cats'[id] = cats[id]
    BY <1>i, <2>1
  <2>3. deleting.key # id[2]
    BY <1>i, <2>1, <2>2
  <2>4. QED BY <1>i, <2>1, <2>2, <2>3 DEF CatTypeOK
<1>6g. CASE AbortDeletion
  BY <1>6g, <1>i DEF AbortDeletion
<1>7. ASSUME NEW k \in Predefined, AdminCreate(k) PROVE FALSE
  BY <1>7, <1>i, <1>d DEF AdminCreate, CatTypeOK
<1>8. ASSUME NEW k \in Predefined, NEW h \in BOOLEAN, AdminSetHidden(k, h) PROVE FALSE
  BY <1>8, <1>i, <1>d DEF AdminSetHidden, CatTypeOK
<1>9. CASE UNCHANGED <<predefined, cats, deleting>>
  BY <1>9, <1>i
<1>10. QED
  BY <1>1, <1>2, <1>3, <1>4, <1>5, <1>6a, <1>6b, <1>6c, <1>6d, <1>6e, <1>6f, <1>6g, <1>7, <1>8, <1>9
  DEF CatNext, catVars, ClientStep, Resolve, FindPredefined, FindCategory, LoadRule, LoadGroup,
      WriteOwn, WriteGroup, WriteRegrouped, WriteOccurrence, Land, Guard, Abort, Drop

\* An admin's delete of a predefined category takes every override with it; one is left,
\* or passed over, only by an insert that was under way, never by a commit.
THEOREM OrphansAreLate == CatSpec => OrphanOnlyByLateInsert
<1>1. CatTypeOK /\ [CatNext]_catVars
      => [\A id \in Orphans' \ Orphans :
            \E c \in Clients : requests[c] \in Override /\ requests'[c] = None
                               /\ id = <<requests[c].user, requests[c].key>>]_catVars
  BY OrphanStep DEF OrphanInserted
<1>2. QED BY CatTypeCorrect, <1>1, PTL DEF CatSpec, OrphanOnlyByLateInsert
=============================================================================
