\* Two requests in flight, two users, two sessions that may idle for a day.
CONSTANTS
  Users = {u1, u2}
  Sessions = {s1, s2}
  Clients = {c1, c2}
  IdleDays = 1
  KeepDays = 0
  OneLogin = TRUE
  NoRow = NoRow  None = None
SPECIFICATION SyncSpec
PROPERTIES LoginLeavesOneSession DeadStaysDead EndedByOwner IdleEnds
