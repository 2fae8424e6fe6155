\* Two logins in flight from two addresses to one account.
CONSTANTS
  Ips = {ip1, ip2}
  Limit = 2
  Window = 3
  Users = {u1}
  Clients = {c1, c2}
  MaxAttempts = 3
  LockTime = 2
  Release = TRUE
  None = None
SPECIFICATION GateSpec
INVARIANT ThrottleIsExact
PROPERTIES IsSlidingWindow LoginsAnswered
