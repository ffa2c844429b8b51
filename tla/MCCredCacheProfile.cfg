\* A profile edit writes back the role and flag it read.
SPECIFICATION Spec
CONSTANTS
  Tokens <- None
  Keys = {k1, k2}
  Requests = {r1, r2}
  Roles = {user, admin}
  FirstRole = user
  TTL = 1
  Life = 1
  RenewGrace = 1
  SessionLimit = 1
  LastFill = 1
  MaxTime = 1
  NoEntry = NoEntry
PROPERTIES ProfileEditKeepsAccount
