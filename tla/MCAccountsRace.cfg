\* Two requests of each part at a time, with its sweeps, its clock and its restarts.
SPECIFICATION AccountsSpec
CONSTANTS
  Regs = {r1}
  Users = {a1, a2}
  Invites = {c1, c2}
  Visitors = {b1, b2}
  Addrs = {mail}
  NoAddr = NoAddr
  Nobody = Nobody
  Nothing = Nothing
  MaxLate = 1
  MaxRequests = 4
  Entrants = {a1, a2}
  Secrets = {b1, b2}
  Keys = {k1}
  Links = {l1}
  Blanks = {plain, padded}
  NoBlanks = plain
  NoSecret = NoSecret
  NoKey = NoKey
  NoLink = NoLink
  LoginMaxFailures = 2
  Window = 2
  Memory = 4
  LinkLife = 1
  MaxEntries = 3
  MaxStep = 2
  Hooks = {h1}
  Deliveries = {a1, a2}
  Owners = {b1, b2}
  NoHook = NoHook
  DisableAfter = 2
  Backoffs = 1
  MaxHooks = 1
  MaxPosts = 3
  MaxPatches = 3
  MaxCrashes = 1
SYMMETRY Symmetry
CHECK_DEADLOCK FALSE
INVARIANTS AccountsTypeOK EnabledOnlyIfAdmitted LockExact LockEndsSessions ProofsSpentOnce LastMethodKept PauseExplained
PROPERTIES SpentInviteStaysSpent ApprovedLostOnlyEarly FactorKept
