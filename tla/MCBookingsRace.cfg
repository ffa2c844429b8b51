\* Two requests race over one booking: every handler, edit, sweep and restart.
SPECIFICATION FairSpec
CONSTANTS
  Bookings = {b1}
  Handlers = {h1, h2}
  NoQR = NoQR
  MaxOpen = 1
  VerifySpan = 0
  Retention = 0
  Opening = 0
  Grace = 0
  LastBooking = 0
  MaxTime = 2
  MaxRestarts = 1
  FirstEvent <- SmallEvent
  Puts <- OnePut
  Patches <- TitlePatch
INVARIANTS TypeOK OneTicket AdmissionsAccounted AvailabilityExplained
PROPERTIES SpentTicketStaysSpent VerifiedRetained ImplementsTicketOffice EventuallyErased
