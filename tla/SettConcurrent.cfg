\* Two requests in flight on one settlement.
CONSTANTS
  alice = alice  bob = bob  carol = carol  g1 = g1  g2 = g2  m1 = m1
  c1 = c1  c2 = c2  c3 = c3  s1 = s1  s2 = s2  s3 = s3
  t1 = t1  t2 = t2  r1 = r1  r2 = r2  r3 = r3  r4 = r4
  NoRow = NoRow  None = None
  Users = {alice, bob}
  GtIds = {g1}
  SettIds = {s1}
  RowIds = {t1, r1, r2, r3, r4}
  Metas = {m1}
  Currency <- MCOneCurrency
  Unit = 1
  DirectEdits = FALSE
  Purges = TRUE
  Requesters = {c1, c2}
  SettAmounts = {1, 3}
  Settlers <- MCAll
  Openings <- MCDebtOfTwo
SPECIFICATION SettSpec
SYMMETRY MCSymmetry
INVARIANT PairedRows
PROPERTY OnlyRepriceRevives
CHECK_DEADLOCK FALSE
