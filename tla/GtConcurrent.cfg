\* Two requests in flight on one group transaction; no user named twice.
CONSTANTS
  alice = alice  bob = bob  c1 = c1  c2 = c2  r1 = r1  r2 = r2  r3 = r3
  m2 = m2  NoRow = NoRow  None = None
  Users = {alice, bob}
  GtIds = {g1}
  SettIds = {}
  RowIds = {r1, r2, r3}
  Metas = {m1, m2}
  Currency <- MCOneCurrency
  Unit = 1
  Clients = {c1, c2}
  SplitLists <- MCTwoSplits
  Totals = {1, 2}
  Payers = {alice}
  Reassignments = {}
  MaxTime = 1
  ClientLead = 0
  DirectEdits = FALSE
  Purges = FALSE
SPECIFICATION GtSpec
SYMMETRY MCSymmetryOfMetas
INVARIANT LiveSharesShown
PROPERTIES OnlyLateUpdateRevives LastWriteWins OnlyKnownImbalance RetryChangesNothing
CHECK_DEADLOCK FALSE
