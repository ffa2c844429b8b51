\* The poll over two events, one of which the page holds: whatever fails, it ends.
SPECIFICATION FairSpec
CONSTANTS
  Events = {e1, e2}
  Orgs = {a}
  Relay = relay
  RelayOn = TRUE
  Followers = {f1}
  Poller = poller
  Workers = {w1}
  MaxAttempts = 2
  MaxFailures = 2
  MaxEdits = 0
  FirstFollowers <- OrgsOnly
  MaxChanges = 1
  MaxRestarts = 1
  Ping = ping
  Hidden = hidden
  Deleted = deleted
  Start <- OneByOne
  PageLimit = 1
  MaxUnheard = 1
PROPERTIES FailuresResolved EventuallyDelivered
