\* One rule, two days, one request in flight beside the scheduler and the backfill,
\* west of UTC.
CONSTANTS
  NoRow = NoRow  None = None
  Rules = {r1}
  TxIds = {t1,t2}
  Clients = {c1}
  Schedules = {{1}}
  LastDay = 2
  Offset <- NewYork
  Backfills = TRUE
SPECIFICATION RecSpec
INVARIANT RecInv
PROPERTIES DeletedStaysAway DueIsEntered
CHECK_DEADLOCK FALSE
