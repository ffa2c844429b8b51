\* Two requests at once over three rows of one address.
SPECIFICATION Spec
CONSTANTS
  Bookings = {b1, b2, b3}
  Handlers = {h1, h2}
  NoQR = NoQR
  MaxOpen = 1
  VerifySpan = 1
  Retention = 0
  Opening = 0
  Grace = 0
  LastBooking = 0
  MaxTime = 1
  MaxRestarts = 0
  FirstEvent <- OpenHouse
  Puts <- None
  Patches <- None
SYMMETRY Symmetry
INVARIANTS OpenPendingBound
