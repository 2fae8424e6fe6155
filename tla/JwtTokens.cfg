\* Two requests in flight across the end of a second.
CONSTANTS
  Requests = {r1, r2}
  None = None
  Second = 2
  TTL = 1
  MaxTime = 4
SPECIFICATION JwtSpec
PROPERTIES OnlyLateStoreGoesStale OnlyYoungTokensRevive QuickLoginKeepsToken RevokedTokenDies ValidTokenIsHeard
