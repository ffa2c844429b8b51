# dansal in TLA+

Specifications of [dansal](../src/README.md), a calendar for folk dance events:
an API server (`cmd/dansal`) over one SQLite database, a web front end
(`cmd/dansal_web`) that also speaks ActivityPub and has a database of its own,
a maintenance UI and a command line tool.

The tests of the repository run one request after the other, or many of the same
kind at once. The modules here are about what such tests hardly reach: the order
in which different handlers, tickers and goroutines execute their SQL statements,
crashes between two statements, answers that come late, and state that was read
before and is used after another process changed it.

Contents: [the system](#the-system), [modules](#the-modules), [runs](#the-runs),
[fairness](#fairness), [proofs](#proofs), [what the checks found](#what-the-checks-found),
[limits](#what-is-left-out), [not modelled](#not-modelled).

To check a model or a proof: `tlc -config MCBookingsRace.cfg MCBookings.tla`,
`tlapm BookingsProofs.tla`.

## The system

`dansal` handles every HTTP request in a goroutine, over a pool of connections to
one SQLite file in WAL mode (`main.go:4728`). A statement is atomic and a
transaction takes the write lock when it begins (`_txlock=immediate`), but most
handlers are a sequence of single statements without a transaction, and nothing
orders two handlers. Tickers sweep expired rows every hour. State in memory (the
credential cache, rate limits, feed jobs) is lost in a restart; there is no
recovery beyond what the rows say. `dansal_web` keeps followers, deliveries and
settings in `web.db`, and reads everything else through the API.

| component | state | operations | hard behaviour | what makes it correct |
|---|---|---|---|---|
| **Bookings and check-in** (`bookings.go`) | `bookings` rows with status, QR token and expiry; `events.availability` | request, verify by link, approve, cancel, scan, delete; hourly sweep | racing verifications and scans; status changed in between; availability computed from an old count; rows that outlive or miss their retention | one ticket per booking, one admission per ticket, capacity shown truthfully, data kept as long as promised and no longer |
| **Credential cache** (`credcache.go`, `auth.go`, `apikeys.go`, `publishers.go`, `sessions.go`, `users.go`, `admin.go`) | `tokens`, `api_keys`, the account row; an in-memory map | login, validate, revoke, renew, regenerate, pin, disable, edit | a validation fills the cache behind a revocation; an edit writes back what it read | a revoked credential stops working; nothing outlives its row or its time to live |
| **ActivityPub delivery** (`delivery.go`, `db.go` of the web) | `delivered`, `delivery_failures`, `followers`; an inbox per follower | poll, retry, announce an edit, a transfer, a deletion; follow, undo, purge | two goroutines post the same activity; a crash between the answer and its row; an answer that is lost; retries that race deliveries; a lost actor | no follower is forgotten or removed while alive; duplicates have a reason; failures end |
| **Registration and invites** (`register.go`, `invites.go`, `verify.go`, part of `webauthn.go`, `users.go`) | `pending_registrations`, `invite_links`, `users`, `webauthn_sessions` | register, verify, set a password or a passkey, approve, reject, withdraw, expire; invite, redeem, renew, revoke | placeholder accounts that several handlers insert, name and delete; approvals that race them; an invite validated outside the transaction that marks it | nobody is enabled who was not admitted; a redeemed invite stays redeemed; what nobody finished goes |
| **Logins** (`auth.go`, `totp.go`, `magic.go`, `oidc.go`, part of `webauthn.go`) | failed-login counter, lock, TOTP secret and used codes, login links, passkeys, sessions | password, code, link, key; set up, confirm, remove a factor; remove a method; lock, unlock | what was read before bcrypt is written after it | the lock counts and ends the sessions; a code and a link work once; a factor goes only with a code; the last method stays |
| **Webhooks** (`webhooks.go`) | subscriptions with a failure counter | dispatch, deliver with pauses, switch off; create, patch, delete | deliveries share a counter, patches write back what they read | off only for its failures or by its owner |
| **Events** (`events.go`, `etag.go`, `suggest.go`, `suggest_manage.go`, import part of `fetchurl.go`) | a row of `events` with its pending edit | PUT, PATCH with If-Match, cancel, publish, decline, delete; suggest, edit by link, review; import | read, compare, write; writers that move no stamp; imports that overlap | no lost update that If-Match could see; nothing unreviewed is public; a feed does not go back |
| **Feeds** (`fetch_jobs.go`, `fetchurl.go`, `robotstxt_import.go`, `fetchurl_suggest_approve.go`, `admin.go`) | job registry, `fetch_sources`, the robots.txt cache, suggested feeds | start a job, poll, bulk and periodic run, save, acknowledge, approve | kinds of runs that know nothing of each other; copies of the row and of robots.txt | one job per source; one alert per streak; robots.txt respected |
| **Contact board** (`contact_posts.go`, `contact_post_images.go`, `board_sessions.go`) | posts, pictures with their files, replies, renew links | post, verify, edit, delete, upload, reply, confirm, renew; hourly sweep | caps counted before the insert; a row and a file; links read and then consumed | caps hold; a picture is whole; a link works once |
| **Backup and restore** (`backup_modes.go`, `restore_chain.go`, `internal/backuparchive`) | archives and manifests, the images | full, incremental, cumulative; prune by chain, and file by file after the other kinds of backups; restore | files change while they are archived; a chain is pruned while one adds to it; half a pruning; a pruner that knows nothing of chains | a chain that is complete restores what its manifest says; who took what it misses is known |
| Web caches, form guard, throttles (`ap_cache.go`, `sitecache.go`, `formguard.go`, `*_throttle.go`) | maps with a time to live, one-time form tokens and their count | fill, drop, issue, consume, clean up | a fill behind an invalidation; a token cleaned up while it is consumed | a form token works once, the cap counts what is there |
| Rendering, formats, media, mail, migrations, CLIs | | | mostly pure I/O or conversions | |

The components meet in few places. Every request with a credential goes through
the credential cache. An event edit writes an availability of its
own beside the one that the bookings recount.
The web calls the API with the visitor's token and starts a delivery goroutine
after a save; the poll learns of API writes only by listing the events.
`dansal_admin` writes to the same databases beside the running servers. A change of
an event starts a delivery per webhook; an import is one more writer of the event's
row; the hourly sweep deletes rows of bookings, accounts and the board.

`PROJECT.json` lists every component with the files it is in, and every hazard
with the line where it bites.

## The modules

Each component has one module with its state, one action per atomic step, its
specification and its properties; an `MC` module with values for the constants that a
`.cfg` cannot write; and a `Proofs` module (`AccountsProofs` is the one of
`Registration`, `Logins` and `Webhooks`, `ContentProofs` the one of `Backups`). The
convention is the same throughout: **a process is cut at the statements that another one
can fall between**. A record (`req[h]`, `job[p]`) has a field `at` that names the
statement the process executes next, and holds what it has read so far; `Goto` moves it.
Variables that the code has no counterpart for (history that the properties speak of)
are marked as ghosts.

### `Bookings`

`rows[b]` is a `bookings` row and `event` the columns of the event that bookings
read or write; `req[h]` is a running request and `sweeper` the ticker goroutine.

| actions | code |
|---|---|
| `CreateCheck`, `CreateInsert` | `createBooking`: the count of open requests, then the INSERT |
| `VerifySelect`, `VerifyDropExpired`, `VerifyConfirm` | `verifyBooking`: SELECT, then the DELETE of an expired link, or the UPDATE guarded by `status='pending'` |
| `StatusCheck`, `StatusUpdate` | PATCH of the status: no guard on the old one |
| `ScanSelect`, `ScanAdmit` | `checkin`: SELECT by QR token, then the UPDATE guarded by the status and not by the token |
| `DeleteCheck`, `DeleteRow` | deletion by the guest or by staff |
| `Recount`, `PublishAvailability` | `updateEventAvailability`: the count, then the UPDATE; PATCH of the status, check-in and deletion end in it, booking and verification do not |
| `PutEvent`, `PatchRead`, `PatchWrite`, `DeleteEvent` | event edits, which write back an availability of their own |
| `SweepPending`, `SweepRetention` | the two statements of the hourly sweep |
| `Tick`, `Restart` | the clock; a restart loses requests and keeps rows |

The ghost `drift` is set when something happens that the newest count of seats does not
cover, and cleared by a count that nothing older is going to overwrite.

### `CredCache`

One account, its `rows[c]` of `tokens` and `api_keys`, and `cache[c]`. A
validation that misses reads the row and the account (`ValidateRead`) and fills
the cache in a later step (`ValidateFill`); each revocation changes the database
first and evicts in a later step (`EvictStep`): `Revoke`, `DeleteKey`,
`RegenerateKey`, `RenewRead`/`RenewCommit`, `Disable`/`DropTokens`, and the
read-modify-write of a profile edit (`PutRead`, `PutProfile`, `PutByAdmin`).
`TrimTokens` and `PinDelete` delete rows and evict nothing, as the code does.
The ghost `overtaken` collects the credentials whose entry no eviction is going
to remove.

### `Delivery`

`job[Poller]` is the goroutine of `startDelivery`, `job[w]` one that a save in
the admin pages started. `deliverActivityToFollowers` is shared by both:
`Delivering` lists the followers, `Post` sends to one inbox, `Record` stores its
answer and `Reset` clears the follower's count after a success, a statement of its
own; the caller goes on when `todo` is empty. A post that failed may have been
accepted: the answer is lost, late or an error (`unheard` counts these).

| actions | code |
|---|---|
| `PollTick`, `RetryPost`, `RetryRecord`, `RetryReset` | `retryFailedDeliveries`, whose answer is `Cleared`, `GiveUp` or `TryLater` |
| `Bump`, `Drop` | `bumpFollowerFailCount`: the guarded UPDATE, then the DELETE that asks for no count |
| `Fetch`, `FetchFails`, `Visit`, `OrgMark`, `RelayVisit`, `RelayMark`, `PollEnds` | `pollAndDeliver`; the API lists the first `PageLimit` events by start time |
| `SaveEvent`, `UpdateRead`, `UpdateSend` | a save, and `deliverUpdateToFollowers` |
| `TransferFound`, `MoveDone`, `TransferCreate`, `CreateDone`, `MarkMoved`, `MarkNew` | `handleEventTransfer` |
| `DeleteRead`, `DeleteSend`, `SentToAll` | `adminEventDeleteHandler`, which sends the Delete whether or not the API deleted the event |
| `ApiChange`, `Follow`, `Undo`, `Purge`, `LoseActor`, `Restart` | what happens around it |

Ghosts: `promised` (who was listed in a delivery that was marked done), `got`
(announcements an inbox accepted), `unheard` (those the sender was not told of),
`settled`, `streak`, `overtaken` (the follower about to be dropped was reached, or
followed again, meanwhile), `home`.

### `TicketOffice`

What bookings promise, without requests, rows or races: a ticket is issued, admits,
is re-opened, is erased. `Bookings!ImplementsTicketOffice` is the refinement:
`TicketOf` reads the ticket of a booking off its row and the tokens that were handed
out, being inside is the status `checked_in`, and the admissions are the ghost.

### `Registration`

`regs`, `users`, `invites` and `wa` are the four tables; `visit[v]` is a running
request, `sweep` the hourly goroutine.

| actions | code |
|---|---|
| `RegisterCheck`, `RegisterInsert`, `VerifyRead`, `SetVerified` | the form and the mail link |
| `PasswordRead`, `AddAccount`, `LinkAccount` | a password: the account is inserted, disabled, and named by the registration in a second statement |
| `PasskeyBegin`, `DropPlaceholder`, `FinishRead`, `FinishTake`, `FinishCheck`, `Bind`, `ClearUser` | a passkey: placeholder, ceremony, credential |
| `WithdrawRead`, `DropReg`, `DropUser` | withdrawal and rejection |
| `ApproveRead`, `ApproveAccount`, `ApproveInvite`, `EnableByHand`, `FindReg` | approval, by the registration or by editing the account |
| `CreateInvite`, `InviteRead`, `Redeem`, `AddInvitee`, `BindInvitee`, `Reconnect`, `RevokeRead`, `DeleteInvite`, `Reissue` | invites |
| `SweepList`, `SweepReg`, `SweepUser`, `SweepInvites`, `SweepCeremonies` | the hourly sweeps; the last one refuses its whole DELETE when a foreign key protects one of the accounts |

### `Logins`

One account, its `sessions`, `links` and `used` codes; `entry[e]` is a request.
`RecordFailure` writes the count it computed from what it had read before bcrypt;
`DropSessions` is the second statement of a lock. A code is a secret, a
time step and the blanks it was typed with: `totpValid` trims them, the row of
`totp_used_codes` keeps them, and of its callers only `totpDisableHandler` trims.
`CheckCode` and the handlers after it (`EnterAccount`, `Activate`, `TurnOff`) are
apart, and so are `SelectLink`, `ConsumeLink` and `AdmitByLink`.
`CheckRemoval`/`RemoveKey` and `CheckClearing`/`WritePassword` remove login methods.

### `Webhooks`

`delivery[d]` is a goroutine of `deliverWebhook`: `Select`, `PostWebhook`, then
`ResetFailures`, or `CountFailure`, `CompareCount`, `DisableHook`. Owners' requests
are `CreateHook`/`InsertHook`, `PatchRead`/`PatchWrite` and `DeleteHook`.

### `Events`

The row with its text, link, pending edit and stamps. A request under If-Match opens
the form (`OpenForm`), submits (`SubmitForm`: read and compare) and writes
(`WriteForm`: the transaction); it may give a new link or keep the one there is, and
publish or unpublish. `TouchText`/`StampEvent`, `PublishEvent`,
`ReviewWrite` and `Merged` are the writers that stamp late or never. `ImportEntry` is
`insertEventCore` with its four outcomes.

### `Feeds`

`run[r]` is a run of any kind: a job (`StartJob` to `FinishJob`), `BulkFetch`, the
periodic `ListAll`/`KeepListed`, or the end of `CheckSave`/`SaveFeed`. All go through
`Gate` (robots.txt), `Import` and `RecordResult`.

### `Board`

`posts`, `pictures` (row and file), `letters` (replies and renew links). Deleting a post
is `UnlinkPictures` then `WipePost`; an upload is `CheckUpload`, `ReservePicture`,
`SavePicture`; a link is `OpenLetter`, `SpendLetter`, `ServeLetter`. `SameVisitor` is
how the caps recognise one: by address or account; by the Telegram name only a visitor
who gives neither, and only in posts without an address.

### `Backups`

`archive[a]` with its manifest's image state (`images`) and what it holds (`stored`).
A backup is `StartBackup`, `HashImages`, `StoreImages`, `ListArchive`, `ListChains`
and one `PruneArchive` per archive; a restoration `StartRestore`, `ExtractArchive`
per archive, `TrimImages`. Between the rename of its file and its manifest an archive
is a "file": a crash leaves it so. `OtherBackup` and `CleanArchive` are `pruneBackups`,
which ends the backups of the configuration and of credentials in the same directory:
it keeps the newest `BackupKeep` files whose name says incremental and removes the
others, whatever is based on them (ghost `aged`).

### Composites

`MCAccounts` (Registration, Logins, Webhooks) and `MCContent` (Events, Feeds, Board,
Backups) run modules that share no state side by side: each behaviour is one of a
single part, chosen in the initial state. That is a matter of economy and no
abstraction: no part reads a variable of another, so that a product of them would
reach nothing new. As no two parts run together, their constants share model values,
so that one small symmetry group serves them all.

## The runs

| run | instance | properties |
|---|---|---|
| `bookings_race` | one row, two requests, a PUT and a PATCH of the event, one restart, fair clock and ticker | `TypeOK`, `OneTicket`, `AdmissionsAccounted`, `AvailabilityExplained`, `SpentTicketStaysSpent`, `VerifiedRetained`, `ImplementsTicketOffice`, `EventuallyErased` |
| `bookings_crowd` | three rows of one address, two requests, a limit of one | `OpenPendingBound` |
| `bookings_replay` | one row, two requests | `AdmittedOnce` is violated |
| `bookings_early` | one row, one request | `RetentionHonoured` is violated |
| `creds_race` | a session token, two keys, two requests | `TypeOK`, `EntryBounded`, `StaleOnlyByRace` |
| `creds_profile` | two keys, two requests | `ProfileEditKeepsAccount` is violated |
| `delivery_race` | two organisations, one follower, the poll and one goroutine, one save or deletion, one change from outside, one restart, one acceptance unheard | `TypeOK`, `NothingForgotten`, `DuplicatesExplained`, `DroppedOnlyWhenDead` |
| `delivery_poll` | two events of which the page holds one, one organisation with a relay, the poll alone, one change from outside, one restart, one acceptance unheard | `FailuresResolved`, `EventuallyDelivered` |
| `delivery_transfer` | two organisations, no follower, four saves | `TransferAnnounced` is violated |
| `accounts_race` | one registration, two accounts, two invites, four requests, one deadline; one account with two secrets, codes typed with and without blanks, a key and a link, three requests over three time steps; one subscription, two deliveries, two requests of its owner, one restart; two requests at a time | `AccountsTypeOK`, `EnabledOnlyIfAdmitted`, `SpentInviteStaysSpent`, `ApprovedLostOnlyEarly`; `LockExact`, `LockEndsSessions`, `ProofsSpentOnce`, `LastMethodKept`, `FactorKept`; `PauseExplained` |
| `invitees_swept` | the registration part with two deadlines | `AbandonedInviteesSwept` is violated |
| `content_race` | one event, two versions of a proposal or of the feed and three edits in three seconds; one feed, three runs, one restart, expiry or change of robots.txt; two posts, an address and a Telegram name, a picture and a link, three requests; one image with two changes, three archives, two backups of either kind and a restoration; two processes at a time | `ContentTypeOK`, `LostUpdatesExplained`, `PublicOnlyReviewed`, `FeedNeverGoesBack`; `RegistrySound`, `AlertOncePerStreak`, `DisallowedOnlyAcknowledged`; `CapOnlyByOverlap`, `PicturesWhole`, `LinkWorksOnce`; `ChainsWhole`, `RestoreExact` |

Several properties have the form "X, unless Y": the code does not promise X without
races, and a property that said so would be false. What Y names is the whole list of
ways the code has of getting it wrong, kept in a ghost that only those ways set: a
second failure that overlaps (`LockExact`), a seat or a capacity that changed behind the
newest count (`AvailabilityExplained`), an acceptance nobody heard of
(`DuplicatesExplained`), a follower reached between two statements
(`DroppedOnlyWhenDead`), a change the stamp cannot show (`LostUpdatesExplained`), a
count that was outrun (`CapOnlyByOverlap`), a file that a sweep left (`PicturesWhole`),
a link that `pruneBackups` took (`ChainsWhole`), an archive made of images that were
changing (`RestoreExact`). TLC finds each ghost set and, without the exception, each
property violated.

Why the bounds are enough:

* *Two processes.* Every race in the table of hazards is between two: one
  that has read and one that writes. A third adds a second writer, and the proofs
  cover any number.
* *Requests.* `MaxRequests`, `MaxEntries`, `MaxEdits`, `MaxRuns` and `MaxVisits`
  count the requests that are begun one after the other: four take a registration
  from the form past its approval with one in between; three let a login lock the
  account, another one be in flight, and a third come after.
* *Clock.* Every span is 0 or 1 (`VerifySpan`, `Retention`, `Opening`, `Grace`, `TTL`,
  `Life`), so each deadline passes within `MaxTime`, one after the other and in either
  order with a read and a write. In `bookings_race` the spans are 0 and the event ends
  at 1: a booking's verification deadline is over before the event, as in the code.
  `LastBooking` and `LastFill` stop new rows early enough that every horizon still
  passes before the clock stops. In `Logins` a failure window of two steps and a link of
  one both end within `MaxStep`; codes are remembered for longer than the clock runs, as
  the code remembers them for longer than they are accepted. `MaxSecond = 3` has edits
  in the same second, the next one and the one after.
* *Capacity and limits.* `SmallEvent` has room for one, so one row takes it from free to
  sold out; the PUT that gives it room for two has the state in between.
  `LoginMaxFailures`, `DisableAfter` and `AlertAfter` are 2: one failure stays below,
  the second one counts on from it. Caps of the board are 1 with two posts, `BackupKeep`
  is 1 with three archives: two chains, one of them with a dependent archive.
* *Attempts.* `MaxFailures = 2`: a follower survives one give-up. In `delivery_poll`
  `MaxAttempts = 2`: a row is retried once before it is given up; in `delivery_race` it
  is 1, which gives up at the first retry. `MaxUnheard = 1` is one acceptance that the
  sender does not hear of, per inbox and event. `PageLimit = 1` of two events leaves
  one beyond the page; it is 100 in the code.
* *Changes.* `MaxChanges` counts API writes, follows, undos, purges and lost actors
  together; `MaxEdits` saves and deletions (in `Delivery`); `MaxRestarts`,
  `MaxCrashes` and `MaxTurns` restarts. In `delivery_transfer` the finding needs
  three moves, and a save before them.
* *Availability.* In `bookings_race` two requests recount beside each other, beside
  edits of the capacity and a restart, and a row that was approved unverified is swept
  before the event is over, so that each cause of a stale availability occurs.
  `bookings_crowd` has two requests, of which both count before either inserts: the
  limit of one is overshot by one. Its third row is the one that would break the bound.
* `creds_race` has one token and a limit of one session, so `TrimTokens` has nothing
  to drop there; `StaleTheorem` covers it for every number.

The symmetric runs permute rows, requests, credentials or organisations, which no
constant tells apart; runs with liveness use no symmetry.

The two composites turn the deadlock check off: when their bounds on requests are
used up and nothing is under way, nothing is left to do. The other runs keep it on: a
tick, a restart or a sweep that finds nothing can always be taken (`CredCache`,
`Bookings`), and the poll runs on for ever (`Delivery`). `invitees_swept` ends at its
violation.

## Fairness

`Bookings!FairSpec` assumes that the clock advances and that the hourly goroutine
of `startTokenCleanup` is scheduled: a loop over a ticker that nothing stops. No
client is obliged to send a request or to see one through.

`Delivery!FairSpec` assumes the same of the goroutine of `startDelivery`
(`WF_vars(PollStep)`), which handles one tick after the other and ends none of them
early but by an error; that a backoff ends (`WF_vars(Elapse)`); and that an API
that is asked again and again answers some time (`SF_vars(Fetch)`: `FetchFails` is
enabled in the same states, so weak fairness would let every poll fail).
Nothing is assumed of inboxes: an inbox may refuse for ever, and `FailuresResolved`
holds since attempts run out. Nor does a goroutine of the admin pages have to
finish.

The modules of the two composites state safety only. What should happen in the end
there is the work of the hourly ticker on rows that only it deletes, which is the
argument of `EventuallyErased` again, or of a client, who owes nobody a step.

## Proofs

TLC decides the small instances above; the proofs hold for every number of rows,
requests, runs, events, organisations, followers and goroutines and every value of the
limits. They rest on the named assumptions `BookingsAssumption`, `CredCacheAssumption`,
`DeliveryAssumption`, `RegistrationAssumption`, `LoginsAssumption`,
`WebhooksAssumption`, `EventsAssumption`, `FeedsAssumption`, `BoardAssumption` and
`BackupsAssumption`. They say what kind of values the constants are, and one of them
says more: `Memory >= 2` in `LoginsAssumption`. A TOTP code is valid for three steps and
remembered for two minutes, which is four. TLC evaluates them all in the runs.

| theorem | statement |
|---|---|
| `BookingsProofs!TypeCorrect` | `Spec => []TypeOK` |
| `BookingsProofs!OneTicketTheorem` | `Spec => []OneTicket` |
| `BookingsProofs!AdmissionsTheorem` | `Spec => []AdmissionsAccounted` |
| `BookingsProofs!SpentTheorem` | `Spec => SpentTicketStaysSpent` |
| `BookingsProofs!RefinementTheorem` | `Spec => ImplementsTicketOffice` |
| `BookingsProofs!OpenPendingTheorem` | `Spec => []OpenPendingBound` |
| `BookingsProofs!EventInvariant` | `Spec => []EventInv` |
| `BookingsProofs!RetainedTheorem` | `Spec /\ [][event'.end = event.end]_vars => VerifiedRetained` |
| `BookingsProofs!EditsRetainTheorem` | `EditsKeepEnd` proves `Spec => VerifiedRetained` |
| `BookingsProofs!AvailabilityTheorem` | `Spec => []AvailabilityExplained` |
| `CredCacheProofs!TypeCorrect` | `Spec => []TypeOK` |
| `CredCacheProofs!EntriesBoundedTheorem` | `Spec => []EntryBounded` |
| `CredCacheProofs!StaleTheorem` | `Spec => []StaleOnlyByRace` |
| `DeliveryProofs!TypeCorrect` | `Spec => []TypeOK` |
| `DeliveryProofs!DroppedTheorem` | `Spec => []DroppedOnlyWhenDead` |
| `DeliveryProofs!ForgottenTheorem` | `Spec => []NothingForgotten` |
| `DeliveryProofs!DuplicatesTheorem` | `Spec => []DuplicatesExplained` |
| `AccountsProofs!RegTypeCorrect` | `RegSpec => []RegTypeOK` |
| `AccountsProofs!EnabledTheorem` | `RegSpec => []EnabledOnlyIfAdmitted` |
| `AccountsProofs!SpentInviteTheorem` | `RegSpec => SpentInviteStaysSpent` |
| `AccountsProofs!ApprovedTheorem` | `RegSpec => ApprovedLostOnlyEarly` |
| `AccountsProofs!LogTypeCorrect` | `LogSpec => []LogTypeOK` |
| `AccountsProofs!LockTheorem` | `LogSpec => []LockExact` |
| `AccountsProofs!LockEndsSessionsTheorem` | `LogSpec => []LockEndsSessions` |
| `AccountsProofs!SpentOnceTheorem` | `LogSpec => []ProofsSpentOnce` |
| `AccountsProofs!LastMethodTheorem` | `LogSpec => []LastMethodKept` |
| `AccountsProofs!FactorTheorem` | `LogSpec => FactorKept` |
| `AccountsProofs!WhTypeCorrect` | `WhSpec => []WhTypeOK` |
| `AccountsProofs!PauseTheorem` | `WhSpec => []PauseExplained` |
| `AccountsProofs!AccountsParts` | `AccountsSpec => RegSpec /\ LogSpec /\ WhSpec` |
| `AccountsProofs!AccountsTypeCorrect` | `AccountsSpec => []AccountsTypeOK` |
| `EventsProofs!EvTypeCorrect` | `EvSpec => []EvTypeOK` |
| `EventsProofs!ReviewedTheorem` | `EvSpec => []PublicOnlyReviewed` |
| `EventsProofs!LostUpdatesTheorem` | `EvSpec => []LostUpdatesExplained` |
| `EventsProofs!NeverBackTheorem` | `EvSpec => FeedNeverGoesBack` |
| `FeedsProofs!FeedTypeCorrect` | `FeedSpec => []FeedTypeOK` |
| `FeedsProofs!RegistryTheorem` | `FeedSpec => []RegistrySound` |
| `FeedsProofs!AcknowledgedTheorem` | `FeedSpec => []DisallowedOnlyAcknowledged` |
| `FeedsProofs!AlertTheorem` | `FeedSpec => []AlertOncePerStreak` |
| `BoardProofs!BoardTypeCorrect` | `BoardSpec => []BoardTypeOK` |
| `BoardProofs!LinkTheorem` | `BoardSpec => LinkWorksOnce` |
| `BoardProofs!PicturesTheorem` | `BoardSpec => []PicturesWhole` |
| `BoardProofs!CapTheorem` | `BoardSpec => []CapOnlyByOverlap` |
| `ContentProofs!BackupTypeCorrect` | `BackupSpec => []BackupTypeOK` |
| `ContentProofs!ChainsWholeTheorem` | `BackupSpec => []ChainsWhole` |
| `ContentProofs!RestoreExactTheorem` | `BackupSpec => RestoreExact` |
| `ContentProofs!ContentParts` | `ContentSpec => EvSpec /\ FeedSpec /\ BoardSpec /\ BackupSpec` |
| `ContentProofs!ContentTypeCorrect` | `ContentSpec => []ContentTypeOK` |

`AccountsParts` and `ContentParts` carry the theorems about the parts over to the
specifications that `accounts_race` and `content_race` check.

*Bookings.* `History(b)` ties each status to the ghosts: a pending row has no
ticket and no admission, a row that holds a token was handed exactly that one, and
the admissions of a row are counted against its re-openings by status. `OneTicket` and
`AdmissionsAccounted` are not inductive without it: nothing in them says that a
pending row has no ticket yet. The argument for the tickets is the predicate
`status='pending'` of the confirming UPDATE, and no step returns a row to pending.

*Bookings, the ticket office.* The refinement maps a row to its ticket. Each action is
a step of `TicketOffice` or a stutter; the one that needs an invariant of its own is
the scan, which admits after it has selected: `AdmitsTickets` says that a request at
that point has seen a ticket that was handed out.

*Bookings, the limit and the retention.* `OpenInv` counts the open requests of an
address together with the requests that have counted and not inserted yet: a request
that counts fewer than `MaxOpen` adds itself to a sum that is still below the bound,
and its INSERT only moves it from one set to the other. A verified row carries the
horizon it was given, and a confirmation in flight carries the same one
(`HorizonInv`), while the end of the event stands; edits may move it, which is why
`RetainedTheorem` says so. `EditsKeepEnd` is one way to have it: no edit of the instance
gives another end, so that a stale PATCH writes back the one that is there.

*Bookings, availability.* `AvailabilityExplained` is false while a recount is under
way, so the invariant `DriftInv` speaks of the recounts: as long as `drift` is not set,
whoever is about to publish holds the availability of the seats as they are
(`Publishes`), and with nobody recounting the event shows it. A seat that moves sends its
request to recount; another one that holds an older count is what sets `drift`
(`Overtake`). The theorem has no hypothesis: requests, edits, sweeps and restarts may
overlap in any number.

*CredCache.* `CacheInv` adds to the two properties that an entry in the cache belongs
to a row that was issued, that a fill in flight carries the expiry of such a row, and
that every entry still matches the database, or its row has expired, or the entry was
overtaken, or an eviction of it is under way. The core is
`BackedUntilExplained`: a step that makes the database stop backing a credential
either leaves an eviction of it under way or puts it among the overtaken.

*Delivery, removals.* `StreakInv`: `fail_count` never runs ahead of the give-ups
since the last recorded success, and a follower that the DELETE is about to take has
`MaxFailures` of them, unless it was overtaken. What a step may do to one follower's
count is one of five things (`Counts`: leave it, end the follow, clear it, raise it, find
it full), each of which keeps the invariant; the rest is to say which action does which.

*Delivery, nobody forgotten.* `Has(e, t, f)` says that a follower has the
announcement, a failure row of it, or a settlement. `NothingForgotten` says so of
deliveries that were marked done and is not inductive: `KeptInv` says it of every
delivery under way, for the followers it has dealt with, and adds that an accepted
answer is in `got` before it is recorded. `Lasting` is what a step owes to others:
it takes nobody's row away unless the inbox has accepted the activity, or the row
was given up or erased. That holds although several processes work on the rows of
one activity, since a success deletes the row of its own follower only.

*Delivery, duplicates.* `KeyInv`: of each failure there is one row, and the poll retries
it from one copy. `DebtInv` adds up, for an event and a follower, what an inbox has
accepted and said so (`Heard`), the rows that wait to be retried, the goroutines that
have the follower before them, and the visit the poll still owes. The sum is at most one
plus the restarts and the saves; an acceptance that nobody heard of is outside of it,
and adds itself to the bound of `DuplicatesExplained`. Each step trades one of these for
another: a post that fails turns a goroutine into a row, a retry a row into a post, a
visit becomes a goroutine.

*Registration.* An invite that was used has left the state "open" for good, and who is
about to redeem one holds it (`SpentInv`). That an approved account is deleted only by
who read it early takes four parts (`LostInv`): an open registration names no approved
account and no account is named by two of them; a request about to link an account is
the only one that names it; an approval under way is of the registration that names
its account; and so every deletion under way was read before the approval.

*Logins.* A lemma lists what a step does to the request that takes it (`Moves`); the
others keep theirs, or are marked as overtaken. `LockExact` is inductive. For
`LockEndsSessions` the invariant is `ReadBefore`: while the account is disabled,
every request under way read it before the last lock. A code that was accepted is too
old or still remembered for as long as it is valid (`CodesInv`), which is where
`Memory` comes in; a link is deleted before its holder gets to the point where he can
enter (`LinksInv`). The last login method stays since without crossing one removal at
a time is under way, and what it was checked against is still there (`RemovalInv`).
Whoever holds a TOTP secret and was not overtaken holds the one in the column
(`FactorInv`).

*Webhooks.* `PauseInv`: who is about to switch a subscription off has counted as many
failures, and the row still has them, unless it is in doubt.

*Events.* Nothing is public before there is a row (`PublicInv`). For the updates, a
request under If-Match has seen the row as it is, or is excused, or still has its form
open and a stamp older than the row's (`Aware`). For the feed, the row's stamp is no
older than the version it has, and imports under way carry versions in the order in
which they can be written (`Stamped`).

*Feeds.* The shape of a run says which steps each kind may be at; the registry has an
entry exactly while the goroutine of its job runs. A run past the gate with a blocked
feed has read an acknowledgement, and no step takes one back (`RobotsInv`). `AlertInv`
numbers the streaks and counts the runs about to alert: one if the counter has reached
the threshold and nobody was told, else none.

*Board.* `LinkInv`: a link that was served is used, and who is about to serve it has
consumed it. `PicturesInv` is about both halves of a picture: a file without a row or
a row without a file is in the hands of one request, or a stray. `CapInv`: without
overlap, who counted less than the cap still finds so when it inserts.

*Backups, chains.* What `ResolveChain` collects is a recursive function over bases, and
chains are as long as the runs make them. That it is defined is not free: `ChainsExist`
builds it, as what every set of archives that is closed under bases and holds `a` has in
common. What is said of all chains is then proved by induction on the number of an
archive: `NoneBad` says that a set of archives each of which has a smaller one in it is
empty. That is well-foundedness of `<` on the naturals, which the library proves as a
fact about a relation, so no operator has to be instantiated. `ChainsDescend`: a chain
goes down from its last archive base by base and skips none. `ChainsAgree`: archives
whose kinds and bases stand keep their chains.

*Backups, restorable.* `WholeInv`: the base of an archive that has begun is older, of
the same chain, and was on the list (`Rooted`); each run under way has an archive of
its own; and an archive whose base is gone is marked as raced, or the base as removed
by `pruneBackups` (`RacedInv`). The last one is where
the order of removals matters: a run that prunes a chain takes the newest archive of
it first, so whatever is based on the one it removes is not on its list, and was
added while it pruned. A file without a manifest is on no list and nothing is based
on it (`Unlisted`).

*Backups, exact.* `StoreInv`: unless an archive is torn it stores exactly the images
that differ from its base's. `RestoreInv`: what is left to extract is the whole chain,
or the part above an archive `d` whose images are all there. The archive that is
extracted next is based on `d`, since chains skip none.

*The composites.* A step of one part leaves the variables of the others, so that the
others stutter.

One thing came out of the proofs: the CASE of `PruneArchive` had two arms that both
held for the archive that is removed, which TLC resolves by taking the first; the arms
are disjoint now.

Only model-checked: the liveness properties (`EventuallyErased`, `FailuresResolved`,
`EventuallyDelivered`), which need fairness and ENABLED and are out of the prover's
reach. Every other property of a passing run has a theorem; that of `VerifiedRetained`
has the hypothesis that the table names, since an edit may move the end of the event.

## What the checks found

Runs that show a disagreement between the code and what it or its documents say:

* `bookings_replay`: the UPDATE that admits a guest compares the status and not the
  QR token (`bookings.go:539`). A scan that read the row, a check-in, and a PATCH
  back to approved in between admit a ticket twice, although the comment says a
  photographed ticket cannot be replayed.
* `bookings_early`: approving a booking that is still pending leaves its 24-hour
  verification deadline as its retention horizon; the sweep deletes it before the
  event. Nothing recounts then, so that the availability counts a seat that is gone
  even when no two requests overlap.
* `creds_profile`: `updateUser` writes back every column it read, so that a member's
  profile edit enables an account that was disabled in between.
* `delivery_transfer`: a row whose `transferred_to` is set is never an origin again;
  an event that returns to an organisation it had left is not announced as a move.
* `invitees_swept`: the sweep of abandoned invitees (`main.go:415`) is one DELETE over
  all of them, and takes the placeholders of registrations for invitees too, since
  their ceremonies are stored with invite 0 and not NULL. One that its registration
  still names makes the foreign key refuse the DELETE; the next statement deletes the
  ceremonies all the same, and the invitees' accounts stay, enabled.

Seen in the code while it was modelled, without a run.

* *Bookings, credentials, delivery.* The expired-link branch deletes by id what may
  have been confirmed meanwhile (`bookings.go:370`). Tokens that the session limit or
  a new pinned token deletes stay cached (`auth.go:194`, `auth.go:218`). A key's
  second request is answered as a session (`auth.go:549`). Two renewals of a key leave
  two successors (`apikeys.go:299`). A crash in `adminDisableUser` leaves the tokens
  behind (`admin.go:584`). A Delete can overtake a Create that waits for its retry,
  and is sent although the API refused the deletion (`admin_events.go:308`). The poll
  sends `start_time_after` as RFC 3339 where the API parses seconds; the table
  `delivered` makes that harmless.
* *Delivery, followers.* `bumpFollowerFailCount` is an UPDATE that is guarded and a
  DELETE that is not (`db.go:744`, `db.go:756`). A success recorded in between, or an
  Undo and a new Follow, and the DELETE removes a follower who is alive, although the
  comment (`db.go:751`) says that without a count to raise there is either a threshold
  passed or no row. An acceptance whose answer is lost is retried and accepted again
  (`delivery.go:417`). The poll asks for events without a limit (`dansal.go:1347`) and
  gets the first hundred (`events.go:2064`, `API.md:123`), so that an event behind them
  waits until enough of those before it are over.
* *Registration.* Enabling an account by hand beside a registration that founds an
  organisation leaves the registration open; after a week the sweep deletes it and the
  active account (TLC finds it). Two approvals that overlap create two organisations;
  redemptions of one invite that overlap create two accounts, where `API.md:445` calls
  it single-use. A crash between the INSERT of an account and its link strands the
  address.
* *Logins.* A code is compared without the blanks around it (`totp.go:53`) and
  remembered with them (`totp.go:77`); sign-in by password and by passkey
  (`auth.go:419`, `webauthn.go:621`) hand over what was typed. The same code with
  another blank is accepted a second time within its validity, where `totp.go:66` says
  that it is recorded to prevent replay. `ProofsSpentOnce` therefore speaks of a code as
  it was typed; without the blanks TLC finds it violated. The lock is permanent where
  `ADMIN_GUIDE.md:470` says to wait for the window. The migration of an old password
  hash writes back a password that was changed meanwhile. Two confirmations of one
  set-up set the secret to NULL. A PUT that disables an account keeps its tokens.
* *Events.* If-Match has a resolution of a second and is compared outside the
  transaction; publishing, reviews and merges do not move `changed_at`
  (`API.md:144`). Approving a pending edit clears a newer one unseen; declining can
  delete an event that was published meanwhile. A newer revision of an event whose
  feed has no LAST-MODIFIED is never imported. A full update by a feed publishes a
  suggestion that nobody has published.
* *Feeds.* Bulk and periodic runs bypass the registry (`API.md:1216`). All runs but
  jobs record a refusal by robots.txt as a failure. Two reviewers of a suggested feed
  overwrite each other.
* *Webhooks.* A patch in flight writes back the old switch and count over an automatic
  disable; the limit of five is checked outside of a transaction.
* *Board.* The hourly sweep of posts leaves the files of their pictures.
* *Backups.* `write.go:21` says a file that changed since it was hashed is reported by
  the caller's re-hash; no caller hashes again, and incrementals after it take the
  image as stored. A chain that another run prunes while an incremental is added to it
  leaves that one unrestorable. So does `pruneBackups` without any race: a backup of the
  configuration (`backup.go:149`) or with credentials (`backup.go:251`) removes the older
  incrementals of live chains, as their names have the prefix of the single-file
  incrementals (`backup.go:656`). The comment and `ADMIN_GUIDE.md:271` say that retention
  is counted per kind; `pruneChains` keeps a chain with every archive that depends on it.

## What is left out

* Wording, formats, parsing, cryptography, rendering. A follower is an inbox, a
  credential is its row, a password is right or wrong.
* Time is a small clock (`Bookings`, `CredCache`, `Logins`, `Events`) or a flag that
  may be set at any moment (`due` and `over` in `Delivery`, `Registration`, `Board`):
  no property depends on the lengths.
* `Bookings`: the guest's data. Availability counts rows, as the code does, and not
  persons. Mail is not modelled: no state depends on its outcome.
* `CredCache`: the idle-session timeout, signing secrets, deletion of a publisher.
* `Delivery`: tag followers and IndexNow are reduced to the mark the poll sets;
  the retry's LIMIT of 100 rows; activities that are about no event. Each
  follower has an inbox of its own.
* `Registration`: the organisation an approval creates or joins is the flag `member`.
* `Logins`: administrators, whom the lock spares; rate limits by address; a request
  that stalls between checking a code and marking it for longer than a code is
  remembered.
* `Webhooks`: payload, signature, test pings.
* `Events`: the other tables of an event; SEQUENCE, which skips what LAST-MODIFIED
  would skip; the fuzzy match that finds the event of an entry.
* `Feeds`: a feed that is deleted and saved again, which is a new row.
* `Board`: the limit of unconfirmed replies per address, and what is forwarded.
* `Backups`: databases and configuration, which are complete in every archive; the
  single-file archives of older versions, which `pruneBackups` counts with the
  incrementals of a chain.
* A failing SQL statement in the middle of a handler, other than by a restart or a
  request that is given up.

## Not modelled

Organisations, locations, people and duplicates are record keeping in single
statements or one transaction each. Images, mail, messengers, formats, rendering and
search are I/O and conversions without a state that another component reads back.
Watchdog, heartbeat and metrics watch services outside of the code. The form guard,
the throttles and the caches of the web are local maps: the race they are exposed to,
a fill or a count that is outrun, is the one of `CredCache` and `Board`. The
maintenance UI, the CLI and the offline tools call the same statements, one at a time.
`PROJECT.json` gives the reason for each.
