\* One request of each kind in flight, on one group transaction and one settlement.
CONSTANTS
  alice = alice  bob = bob
  NoRow = NoRow  None = None
  Users = {alice, bob}
  Creator = alice
  GtIds = {g1}
  SettIds = {s1}
  RowIds = {r1, r2, r3}
  Metas = {m1}
  Currency <- MCOneCurrency
  Unit = 1
  DirectEdits = FALSE
  Purges = FALSE
  Clients = {c1}
  SplitLists <- MCShareOfBob
  Totals = {1}
  Payers = {alice, bob}
  Reassignments = {}
  MaxTime = 0
  ClientLead = 0
  Requesters = {q1}
  SettAmounts = {1}
  Settlers <- MCAll
  Openings <- MCNoOpening
  Callers = {a1}
SPECIFICATION MemSpec
SYMMETRY MCSymmetry
INVARIANT MemInv
PROPERTIES DepartsSettled NothingRevivesInDeletedGroup ClosedGroupHidesShares
CHECK_DEADLOCK FALSE
