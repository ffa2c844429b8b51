\* An event that returns to an organisation it left.
SPECIFICATION Spec
CONSTANTS
  Events = {e1}
  Orgs = {a, b}
  Relay = relay
  RelayOn = FALSE
  Followers = {f1}
  Poller = poller
  Workers = {w1}
  MaxAttempts = 2
  MaxFailures = 2
  MaxEdits = 4
  FirstFollowers <- Nobody
  MaxChanges = 0
  MaxRestarts = 0
  Ping = ping
  Hidden = hidden
  Deleted = deleted
  Start <- OneByOne
  PageLimit = 1
  MaxUnheard = 1
PROPERTIES TransferAnnounced
