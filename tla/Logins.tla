------------------------------- MODULE Logins -------------------------------
(***************************************************************************)
(* Signing in to one account of cmd/dansal that is not an admin's: password *)
(* and TOTP (auth.go, totp.go), login links (magic.go), passkeys and SSO    *)
(* (webauthn.go, oidc.go); the lock after failed logins; the removal of     *)
(* login methods (users.go, webauthn.go, oidc.go).                          *)
(*                                                                         *)
(* A password is checked with bcrypt, which takes long: what a handler read *)
(* before it is old when it writes.  The clock counts the 30-second steps   *)
(* of TOTP; a code as it was typed is a secret, a step and the blanks around *)
(* it, which the comparison ignores and the table of used codes does not.    *)
(* A check of a code and its mark are one action: no request stalls for      *)
(* longer than a code is remembered.                                         *)
(***************************************************************************)
EXTENDS Naturals

CONSTANTS
  Entrants,  \* concurrently running requests
  Secrets,   \* TOTP secrets
  Keys,      \* passkeys and linked identities
  Links,     \* rows of magic_login_tokens
  Blanks,    \* what may be typed around a code, NoBlanks among it
  NoBlanks, NoSecret, NoKey, NoLink,
  LoginMaxFailures, \* login_max_failures
  Window,    \* login_failure_window_secs, in steps
  Memory,    \* steps a used code is remembered
  LinkLife,  \* magic_login_expiry_secs, in steps
  MaxEntries, \* bound: requests that are begun
  MaxStep    \* bound: the clock

ASSUME LoginsAssumption ==
  /\ NoSecret \notin Secrets /\ NoKey \notin Keys /\ NoLink \notin Links
  /\ NoBlanks \in Blanks
  /\ LoginMaxFailures \in Nat \ {0}
  /\ Window \in Nat \ {0} /\ LinkLife \in Nat
  /\ Memory \in Nat /\ Memory >= 2   \* a code is valid for three steps; it is remembered for two minutes
  /\ MaxEntries \in Nat /\ MaxStep \in Nat

Never == MaxStep + 1    \* failed_login_since is NULL
Passwords == {"none", "legacy", "hash"}
Codes == Secrets \X (0 .. MaxStep + 1) \X Blanks  \* as they are typed
Session == [read : Nat, made : Nat]
EntrySteps == {"idle", "fail", "drop tokens", "migrate", "reset", "factor", "code", "enter",
               "replace", "new link", "send", "consume", "spoil", "admit",
               "activate", "turn off", "remove", "clear password", "set password"}
Entry == [at : EntrySteps, next : {"enter", "turn off"}, failed : Nat, since : 0 .. Never,
          read : Nat, secret : Secrets \cup {NoSecret},
          key : Keys \cup {NoKey}, link : Links \cup {NoLink}, late : BOOLEAN]

VARIABLES
  account,   \* the row of users, and the keys that belong to it
  sessions,  \* rows of tokens: the number of locks when the login read the
             \* account, and when the row was inserted
  used,      \* rows of totp_used_codes
  links,     \* rows of magic_login_tokens
  entry,     \* entry[e]: the step request e executes next, and what it has read
             \* (late is a ghost: another request changed the TOTP columns since)
  clock,     \* [step, entries]: TOTP step, and requests begun
  locks,     \* ghost: how often the account was disabled
  history    \* ghosts: see LogInit

logVars == <<account, sessions, used, links, entry, clock, locks, history>>

Resting == [at |-> "idle", next |-> "enter", failed |-> 0, since |-> Never, read |-> 0,
            secret |-> NoSecret, key |-> NoKey, link |-> NoLink, late |-> FALSE]

Go(e, step) == entry' = [entry EXCEPT ![e] = step]
GoAt(e, at) == Go(e, [entry[e] EXCEPT !.at = at])
Enters(e, step) ==
  /\ entry[e] = Resting
  /\ clock.entries < MaxEntries
  /\ clock' = [clock EXCEPT !.entries = @ + 1]
  /\ Go(e, step)
At(e, at) == entry[e].at = at /\ UNCHANGED clock

LogInit ==
  /\ \E p \in Passwords, ks \in SUBSET Keys, s \in Secrets \cup {NoSecret} :
       /\ p = "none" => ks # {}
       /\ account = [failed |-> 0, since |-> Never, disabled |-> FALSE, password |-> p,
                     secret |-> s, pending |-> NoSecret, keys |-> ks]
       /\ history = [accepted |-> {},       \* codes that were accepted, as typed
                     replayed |-> FALSE,    \* one of them was accepted again
                     links |-> {},          \* links that someone entered with
                     relinked |-> FALSE,    \* one of them let in a request that came after
                     streak |-> 0,          \* wrong passwords since the last reset, in the window
                     overtaken |-> FALSE,   \* a count was written over one it had not read
                     crossed |-> FALSE,     \* a removal was checked while another was under way
                     leftover |-> FALSE,    \* an account was disabled and kept its tokens
                     seen |-> IF s = NoSecret THEN {} ELSE {s}]  \* secrets that were set up
  /\ sessions = {} /\ used = {}
  /\ links = [l \in Links |-> [st |-> "none", until |-> 0]]
  /\ entry = [e \in Entrants |-> Resting]
  /\ clock = [step |-> 0, entries |-> 0]
  /\ locks = 0

-----------------------------------------------------------------------------
(* Password and second factor                                              *)

\* login: a disabled account and one without a password are refused; then bcrypt.
PasswordLogin(e, right) ==
  /\ ~account.disabled /\ account.password # "none"
  /\ Enters(e, [Resting EXCEPT
       !.at = IF ~right THEN "fail" ELSE IF account.password = "legacy" THEN "migrate" ELSE "reset",
       !.failed = account.failed, !.since = account.since, !.read = locks])
  /\ UNCHANGED <<account, sessions, used, links, locks, history>>

\* recordFailedLogin counts on from what the login read.
Running(since) == since # Never /\ clock.step - since < Window
CountedForever(e) == entry[e].failed + 1  \* mutant: the window is not asked
Counted(e) == IF Running(entry[e].since) THEN entry[e].failed + 1 ELSE 1
Locked(n) == n >= LoginMaxFailures
RecordFailure(e) ==
  /\ At(e, "fail")
  /\ LET n == Counted(e) IN
       /\ account' = [account EXCEPT !.failed = n, !.disabled = @ \/ Locked(n),
                        !.since = IF Running(entry[e].since) THEN @ ELSE clock.step]
       /\ locks' = IF Locked(n) THEN locks + 1 ELSE locks
       /\ IF Locked(n) THEN GoAt(e, "drop tokens") ELSE Go(e, Resting)
  /\ history' = [history EXCEPT
       !.streak = IF Running(account.since) THEN @ + 1 ELSE 1,
       !.overtaken = @ \/ <<entry[e].failed, entry[e].since>> # <<account.failed, account.since>>]
  /\ UNCHANGED <<sessions, used, links>>

\* A lock deletes the sessions, in a statement of its own.
DropSessions(e) ==
  /\ At(e, "drop tokens")
  /\ sessions' = {}
  /\ Go(e, Resting)
  /\ UNCHANGED <<account, used, links, locks, history>>

\* The login with a legacy hash stores a bcrypt hash of the password it checked.
Migrate(e) ==
  /\ At(e, "migrate")
  /\ account' = [account EXCEPT !.password = "hash"]
  /\ GoAt(e, "reset")
  /\ UNCHANGED <<sessions, used, links, locks, history>>

ResetCount(e) ==
  /\ At(e, "reset")
  /\ account' = [account EXCEPT !.failed = 0, !.since = Never]
  /\ history' = [history EXCEPT !.streak = 0]
  /\ GoAt(e, IF entry[e].link = NoLink THEN "factor" ELSE "admit")
  /\ UNCHANGED <<sessions, used, links, locks>>

\* getUserTOTPSecret.
ReadFactor(e) ==
  /\ At(e, "factor")
  /\ IF account.secret = NoSecret THEN GoAt(e, "enter")
     ELSE Go(e, [entry[e] EXCEPT !.at = "code", !.secret = account.secret])
  /\ UNCHANGED <<account, sessions, used, links, locks, history>>

\* totpCheckAndMark: a code of the step before, this one or the next, whatever
\* the blanks around it, that was not yet used with the same blanks.  Only
\* totpDisableHandler has trimmed what it hands over.
Valid(c, secret) == c[1] = secret /\ c[2] <= clock.step + 1 /\ clock.step <= c[2] + 1
Remembered == {m \in used : m.until >= clock.step}
MarkBriefly(c) == [code |-> c, until |-> clock.step]  \* mutant: forgotten within its validity
Mark(c) == [code |-> c, until |-> clock.step + Memory]
CheckCode(e, c) ==
  /\ At(e, "code")
  /\ Valid(c, entry[e].secret)
  /\ entry[e].next = "turn off" => c[3] = NoBlanks
  /\ used' = Remembered \cup (IF \E m \in Remembered : m.code = c THEN {} ELSE {Mark(c)})
  /\ IF \E m \in Remembered : m.code = c
     THEN Go(e, Resting) /\ history' = history
     ELSE /\ GoAt(e, entry[e].next)
          /\ history' = [history EXCEPT !.accepted = @ \cup {c},
                                        !.replayed = @ \/ c \in history.accepted]
  /\ UNCHANGED <<account, sessions, links, locks>>

\* createTokenInDB.
EnterAccount(e) ==
  /\ At(e, "enter")
  /\ sessions' = sessions \cup {[read |-> entry[e].read, made |-> locks]}
  /\ history' = IF entry[e].link = NoLink THEN history
                ELSE [history EXCEPT !.links = @ \cup {entry[e].link}]
  /\ Go(e, Resting)
  /\ UNCHANGED <<account, used, links, locks>>

\* webauthnLoginFinish goes on to the second factor, oidcLoginExisting does not.
KeyLogin(e, at) ==
  /\ at \in {"factor", "enter"}
  /\ ~account.disabled /\ account.keys # {}
  /\ Enters(e, [Resting EXCEPT !.at = at, !.read = locks])
  /\ UNCHANGED <<account, sessions, used, links, locks, history>>

-----------------------------------------------------------------------------
(* Login links                                                             *)

\* requestMagicLogin and the two ways to generate a link: createMagicToken
\* deletes the earlier ones, then inserts; a failed dispatch deletes it.
RequestLink(e) ==
  /\ Enters(e, [Resting EXCEPT !.at = "replace"])
  /\ UNCHANGED <<account, sessions, used, links, locks, history>>

Closed(ls) == [l \in Links |-> IF l \in ls /\ links[l].st = "open"
                               THEN [links[l] EXCEPT !.st = "gone"] ELSE links[l]]
ReplaceLinks(e) ==
  /\ At(e, "replace")
  /\ links' = Closed(Links)
  /\ GoAt(e, "new link")
  /\ UNCHANGED <<account, sessions, used, locks, history>>

InsertLink(e, l) ==
  /\ At(e, "new link")
  /\ links[l].st = "none"
  /\ links' = [links EXCEPT ![l] = [st |-> "open", until |-> clock.step + LinkLife]]
  /\ Go(e, [entry[e] EXCEPT !.at = "send", !.link = l])
  /\ UNCHANGED <<account, sessions, used, locks, history>>

SendLink(e) ==
  /\ At(e, "send")
  /\ \E sent \in BOOLEAN : links' = IF sent THEN links ELSE Closed({entry[e].link})
  /\ Go(e, Resting)
  /\ UNCHANGED <<account, sessions, used, locks, history>>

\* useMagicLogin: SELECT, DELETE, reset, and only then whether it is disabled.
SelectLink(e, l) ==
  /\ links[l].st = "open"
  /\ Enters(e, [Resting EXCEPT !.link = l,
                  !.at = IF clock.step > links[l].until THEN "spoil" ELSE "consume"])
  /\ history' = [history EXCEPT !.relinked = @ \/ l \in history.links]
  /\ UNCHANGED <<account, sessions, used, links, locks>>

ConsumeLink(e) ==
  /\ At(e, "consume") \/ At(e, "spoil")
  /\ links' = Closed({entry[e].link})
  /\ IF entry[e].at = "spoil" THEN Go(e, Resting) ELSE GoAt(e, "reset")
  /\ UNCHANGED <<account, sessions, used, locks, history>>

\* Mutant: a link lets in whoever has it.
AdmitAnyByLink(e) ==
  /\ At(e, "admit")
  /\ Go(e, [entry[e] EXCEPT !.at = "enter", !.read = locks])
  /\ UNCHANGED <<account, sessions, used, links, locks, history>>

AdmitByLink(e) ==
  /\ At(e, "admit")
  /\ IF account.disabled THEN Go(e, Resting)
     ELSE Go(e, [entry[e] EXCEPT !.at = "enter", !.read = locks])
  /\ UNCHANGED <<account, sessions, used, links, locks, history>>

-----------------------------------------------------------------------------
(* Setting up and removing                                                 *)

\* Requests that have read a TOTP column now hold an old one.
Overtake(e, step) ==
  entry' = [x \in Entrants |->
    IF x = e THEN step
    ELSE IF entry[x].secret # NoSecret THEN [entry[x] EXCEPT !.late = TRUE] ELSE entry[x]]

\* Mutant: the set-up replaces the active secret.
SetUpAtOnce(e, s) ==
  /\ entry[e] = Resting
  /\ s \notin history.seen
  /\ account' = [account EXCEPT !.secret = s]
  /\ history' = [history EXCEPT !.seen = @ \cup {s}]
  /\ Overtake(e, Resting)
  /\ UNCHANGED <<sessions, used, links, clock, locks>>

SetUp(e, s) ==
  /\ entry[e] = Resting
  /\ s \notin history.seen
  /\ account' = [account EXCEPT !.pending = s]
  /\ history' = [history EXCEPT !.seen = @ \cup {s}]
  /\ Overtake(e, Resting)
  /\ UNCHANGED <<sessions, used, links, clock, locks>>

\* totpConfirmHandler: reads the pending secret, checks a code of it without
\* marking it, and activates whatever is pending by then.
ConfirmPending(e) ==
  /\ account.pending # NoSecret
  /\ Enters(e, [Resting EXCEPT !.at = "activate", !.secret = account.pending])
  /\ UNCHANGED <<account, sessions, used, links, locks, history>>

Activate(e) ==
  /\ At(e, "activate")
  /\ account' = [account EXCEPT !.secret = account.pending, !.pending = NoSecret]
  /\ Overtake(e, Resting)
  /\ UNCHANGED <<sessions, used, links, locks, history>>

\* totpDisableHandler asks for a code of the secret it read.
DisableFactor(e) ==
  /\ account.secret # NoSecret
  /\ Enters(e, [Resting EXCEPT !.at = "code", !.next = "turn off", !.secret = account.secret])
  /\ UNCHANGED <<account, sessions, used, links, locks, history>>

TurnOff(e) ==
  /\ At(e, "turn off")
  /\ account' = [account EXCEPT !.secret = NoSecret, !.pending = NoSecret]
  /\ Overtake(e, Resting)
  /\ UNCHANGED <<sessions, used, links, locks, history>>

\* webauthnUserRegisterFinish, oidcLinkIdentity.
AddKey(k) ==
  /\ k \notin account.keys
  /\ \A e \in Entrants : entry[e].key # k
  /\ account' = [account EXCEPT !.keys = @ \cup {k}]
  /\ UNCHANGED <<sessions, used, links, entry, clock, locks, history>>

\* hasOtherLoginMethod, before webauthnUserCredentialDelete and deleteUserOIDCIdentity.
HasAnyLoginMethod(k) == account.password # "none" \/ k \in account.keys  \* mutant: counts itself
HasOtherLoginMethod(k) == account.password # "none" \/ account.keys \ {k} # {}
Removing(e) == entry[e].at \in {"remove", "clear password"}
Crossing == [history EXCEPT !.crossed = @ \/ \E e \in Entrants : Removing(e)]
CheckRemoval(e, k) ==
  /\ k \in account.keys
  /\ HasOtherLoginMethod(k)
  /\ Enters(e, [Resting EXCEPT !.at = "remove", !.key = k])
  /\ history' = Crossing
  /\ UNCHANGED <<account, sessions, used, links, locks>>

RemoveKey(e) ==
  /\ At(e, "remove")
  /\ account' = [account EXCEPT !.keys = @ \ {entry[e].key}]
  /\ Go(e, Resting)
  /\ UNCHANGED <<sessions, used, links, locks, history>>

\* changeOwnPassword without a new password, and with one.
CheckClearing(e) ==
  /\ account.password # "none" /\ account.keys # {}
  /\ Enters(e, [Resting EXCEPT !.at = "clear password"])
  /\ history' = Crossing
  /\ UNCHANGED <<account, sessions, used, links, locks>>

WritePassword(e) ==
  /\ At(e, "clear password") \/ At(e, "set password")
  /\ account' = [account EXCEPT
                   !.password = IF entry[e].at = "set password" THEN "hash" ELSE "none"]
  /\ Go(e, Resting)
  /\ UNCHANGED <<sessions, used, links, locks, history>>

CheckPasswordChange(e) ==
  /\ Enters(e, [Resting EXCEPT !.at = "set password"])
  /\ UNCHANGED <<account, sessions, used, links, locks, history>>

-----------------------------------------------------------------------------
(* Administration, time                                                    *)

\* adminDisableUser; updateUser, which keeps the tokens.
DisableAccount(e, at) ==
  /\ at \in {"drop tokens", "idle"}
  /\ Enters(e, [Resting EXCEPT !.at = at])
  /\ account' = [account EXCEPT !.disabled = TRUE]
  /\ locks' = locks + 1
  /\ history' = [history EXCEPT !.leftover = @ \/ at = "idle"]
  /\ UNCHANGED <<sessions, used, links>>

\* adminEnableUser.
EnableAccount(e) ==
  /\ account.disabled
  /\ Enters(e, Resting)
  /\ account' = [account EXCEPT !.disabled = FALSE, !.failed = 0, !.since = Never]
  /\ history' = [history EXCEPT !.streak = 0]
  /\ UNCHANGED <<sessions, used, links, locks>>

\* The client goes away, a pending passkey login expires, the server restarts.
Drop(e) ==
  /\ entry[e] # Resting
  /\ history' = [history EXCEPT !.leftover = @ \/ entry[e].at = "drop tokens"]
  /\ Go(e, Resting)
  /\ UNCHANGED <<account, sessions, used, links, clock, locks>>

LogTick ==
  /\ clock.step < MaxStep
  /\ clock' = [clock EXCEPT !.step = @ + 1]
  /\ UNCHANGED <<account, sessions, used, links, entry, locks, history>>

Signing(e) ==
  \/ \E right \in BOOLEAN : PasswordLogin(e, right)
  \/ RecordFailure(e) \/ DropSessions(e) \/ Migrate(e) \/ ResetCount(e) \/ ReadFactor(e)
  \/ \E c \in Codes : CheckCode(e, c)
  \/ EnterAccount(e)
  \/ \E at \in {"factor", "enter"} : KeyLogin(e, at)
  \/ RequestLink(e) \/ ReplaceLinks(e) \/ SendLink(e) \/ ConsumeLink(e) \/ AdmitByLink(e)
  \/ \E l \in Links : InsertLink(e, l) \/ SelectLink(e, l)

Managing(e) ==
  \/ \E s \in Secrets : SetUp(e, s)
  \/ ConfirmPending(e) \/ Activate(e) \/ DisableFactor(e) \/ TurnOff(e)
  \/ \E k \in Keys : CheckRemoval(e, k)
  \/ RemoveKey(e) \/ CheckClearing(e) \/ WritePassword(e) \/ CheckPasswordChange(e)
  \/ \E at \in {"drop tokens", "idle"} : DisableAccount(e, at)
  \/ EnableAccount(e) \/ Drop(e)

LogNext ==
  \/ \E e \in Entrants : Signing(e) \/ Managing(e)
  \/ \E k \in Keys : AddKey(k)
  \/ LogTick

LogSpec == LogInit /\ [][LogNext]_logVars

-----------------------------------------------------------------------------
(* Properties                                                              *)

LogTypeOK ==
  /\ account \in [failed : Nat, since : 0 .. Never, disabled : BOOLEAN, password : Passwords,
                  secret : Secrets \cup {NoSecret}, pending : Secrets \cup {NoSecret},
                  keys : SUBSET Keys]
  /\ sessions \subseteq Session
  /\ used \subseteq [code : Codes, until : Nat]
  /\ links \in [Links -> [st : {"none", "open", "gone"}, until : Nat]]
  /\ entry \in [Entrants -> Entry]
  /\ clock \in [step : 0 .. MaxStep, entries : 0 .. MaxEntries]
  /\ locks \in Nat

\* The lock of recordFailedLogin counts what it should: unless two failures
\* overlapped, the counter is the number of wrong passwords since the last reset
\* in the window, and the account is disabled when they are too many.
LockExact ==
  ~history.overtaken =>
    /\ account.failed = history.streak
    /\ Locked(history.streak) => account.disabled

\* A session row that a disabled account still has belongs to a login that read
\* the account before it was disabled and inserted the row after the sessions
\* were deleted.
Dropping == \E e \in Entrants : entry[e].at = "drop tokens"
LockEndsSessions ==
  account.disabled /\ ~Dropping /\ ~history.leftover =>
    \A s \in sessions : s.read < locks /\ s.made = locks

\* What proves an identity proves it once: a TOTP code starts one session or
\* removes one factor unless it comes back with other blanks around it, and a
\* login link lets in only requests that had selected it before the first of
\* them entered.
ProofsSpentOnce == ~history.replayed /\ ~history.relinked

\* An active second factor gives way to one that the owner has shown a code of,
\* or to a removal with a code of its own, unless another set-up, confirmation
\* or removal came in between.
FactorKept ==
  [][account.secret # NoSecret /\ account'.secret # account.secret =>
       \E e \in Entrants :
         \/ entry[e].late
         \/ entry[e].at = "activate" /\ account'.secret = entry[e].secret
         \/ entry[e].at = "turn off" /\ account.secret = entry[e].secret]_logVars

\* Nobody removes his last login method, unless two removals overlap.
NoLoginMethod == account.password = "none" /\ account.keys = {}
LastMethodKept == NoLoginMethod => history.crossed

=============================================================================
