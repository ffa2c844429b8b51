\* Two requests over a session token and two API keys.
SPECIFICATION Spec
CONSTANTS
  Tokens = {t1}
  Keys = {k1, k2}
  Requests = {r1, r2}
  Roles = {user, admin}
  FirstRole = user
  TTL = 1
  Life = 1
  RenewGrace = 1
  SessionLimit = 1
  LastFill = 1
  MaxTime = 2
  NoEntry = NoEntry
SYMMETRY Symmetry
INVARIANTS TypeOK EntryBounded StaleOnlyByRace
