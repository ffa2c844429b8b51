\* A registration and an invitee begin a passkey, both give up, and the sweep runs.
SPECIFICATION RegSpec
CONSTANTS
  Regs = {r1}
  Users = {a1, a2}
  Invites = {c1, c2}
  Visitors = {b1, b2}
  Addrs = {mail}
  NoAddr = NoAddr
  Nobody = Nobody
  Nothing = Nothing
  MaxLate = 2
  MaxRequests = 4
SYMMETRY Symmetry
CHECK_DEADLOCK FALSE
PROPERTIES AbandonedInviteesSwept
