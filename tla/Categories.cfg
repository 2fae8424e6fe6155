\* Two users, one own category at a time, one request between its statements.
CONSTANTS
  Users = {u1, u2}
  Custom = {k1}
  Predefined = {food, other}
  Other = other
  Clients = {c1}
  Overriders = {u1}
  MaxRefs = 2
  MaxCats = 1
  NoRow = NoRow  None = None
SPECIFICATION CatSpec
INVARIANT CatInv
PROPERTIES StrayOnlyByWrite OtherHiddenOnlyUnguarded OrphanOnlyByLateInsert
CHECK_DEADLOCK FALSE
