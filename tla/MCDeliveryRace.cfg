\* The poll, one goroutine of the admin pages and a change from outside over one event.
SPECIFICATION Spec
CONSTANTS
  Events = {e1}
  Orgs = {a, b}
  Relay = relay
  RelayOn = FALSE
  Followers = {f1}
  Poller = poller
  Workers = {w1}
  MaxAttempts = 1
  MaxFailures = 2
  MaxEdits = 1
  FirstFollowers <- Everyone
  MaxChanges = 1
  MaxRestarts = 1
  Ping = ping
  Hidden = hidden
  Deleted = deleted
  Start <- OneByOne
  PageLimit = 1
  MaxUnheard = 1
SYMMETRY Symmetry
INVARIANTS TypeOK NothingForgotten DuplicatesExplained DroppedOnlyWhenDead
