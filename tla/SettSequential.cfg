\* One request at a time, two settlements among three members; clients change or
\* delete booked rows.
CONSTANTS
  alice = alice  bob = bob  carol = carol  g1 = g1  g2 = g2  m1 = m1
  c1 = c1  c2 = c2  c3 = c3  s1 = s1  s2 = s2  s3 = s3
  t1 = t1  t2 = t2  r1 = r1  r2 = r2  r3 = r3  r4 = r4
  NoRow = NoRow  None = None
  Users = {alice, bob, carol}
  GtIds = {g1}
  SettIds = {s1, s2}
  RowIds = {t1, r1, r2}
  Metas = {m1}
  Currency <- MCOneCurrency
  Unit = 1
  DirectEdits = TRUE
  Purges = FALSE
  Requesters = {c1}
  SettAmounts = {1, 2}
  Settlers <- MCThreeWays
  Openings <- MCDebtOfThree
SPECIFICATION SettSpec
SYMMETRY MCSymmetry
INVARIANT BalanceIsSumOfDebts
PROPERTIES ClearsOnlyDebt UpdateBooksExcess
CHECK_DEADLOCK FALSE
