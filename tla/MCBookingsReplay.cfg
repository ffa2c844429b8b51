\* Two scans and an approval: one ticket, two admissions.
SPECIFICATION Spec
CONSTANTS
  Bookings = {b1}
  Handlers = {h1, h2}
  NoQR = NoQR
  MaxOpen = 1
  VerifySpan = 1
  Retention = 1
  Opening = 1
  Grace = 1
  LastBooking = 1
  MaxTime = 3
  MaxRestarts = 0
  FirstEvent <- SmallEvent
  Puts <- None
  Patches <- None
INVARIANTS AdmittedOnce
