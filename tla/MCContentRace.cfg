\* Two requests or runs of each part at a time, with its sweeps, its clock and its crashes.
SPECIFICATION ContentSpec
CONSTANTS
  Editors = {a1, a2}
  Proposals = {p1}
  OwnLink = own
  NoProposal = NoProposal
  MaxEdits = 3
  MaxVersion = 3
  MaxSecond = 3
  Jobs = {a1, a2}
  Runs = {b1, b2}
  NoJob = NoJob
  AlertAfter = 2
  MaxRuns = 3
  MaxTurns = 1
  Posts = {a1, a2}
  Identities = {mail, name}
  Mails = {mail}
  Accounts = {}
  Categories = {lost, ride}
  LostFound = lost
  Pictures = {i1}
  Letters = {l1}
  Guests = {b1, b2}
  NoPost = NoPost
  NoPicture = NoPicture
  NoLetter = NoLetter
  Cap = 1
  MaxOpenPosts = 1
  PictureCap = 1
  MaxVisits = 3
  Images = {i1}
  Runners = {a1, a2}
  BackupKeep = 1
  MaxArchives = 3
  MaxContents = 2
SYMMETRY Symmetry
CHECK_DEADLOCK FALSE
INVARIANTS ContentTypeOK LostUpdatesExplained PublicOnlyReviewed RegistrySound AlertOncePerStreak DisallowedOnlyAcknowledged CapOnlyByOverlap PicturesWhole ChainsWhole
PROPERTIES FeedNeverGoesBack LinkWorksOnce RestoreExact
