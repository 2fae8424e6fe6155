\* One request at a time with the purge job, edits of rows by hand and deletions of a category.
CONSTANTS
  alice = alice  bob = bob  c1 = c1  c2 = c2  r1 = r1  r2 = r2  r3 = r3
  m2 = m2  NoRow = NoRow  None = None
  Users = {alice, bob}
  GtIds = {g1}
  SettIds = {}
  RowIds = {r1, r2, r3}
  Metas = {m1, m2}
  Currency <- MCOneCurrency
  Unit = 1
  Clients = {c1}
  SplitLists <- MCTwoSplits
  Totals = {1, 2}
  Payers = {alice}
  Reassignments <- MCToOther
  MaxTime = 0
  ClientLead = 0
  DirectEdits = TRUE
  Purges = TRUE
SPECIFICATION GtSpec
SYMMETRY MCSymmetry
INVARIANTS SplitsPointAtOwnRow OneLiveRowPerShare
PROPERTY RowIdsPreserved
CHECK_DEADLOCK FALSE
