\* A booking approved before it was verified keeps its short expiry.
SPECIFICATION FairSpec
CONSTANTS
  Bookings = {b1}
  Handlers = {h1}
  NoQR = NoQR
  MaxOpen = 1
  VerifySpan = 1
  Retention = 1
  Opening = 1
  Grace = 1
  LastBooking = 1
  MaxTime = 3
  MaxRestarts = 0
  FirstEvent <- SmallEvent
  Puts <- None
  Patches <- None
PROPERTIES RetentionHonoured
