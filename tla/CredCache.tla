----------------------------- MODULE CredCache ------------------------------
(***************************************************************************)
(* Authentication of one account in cmd/dansal: the rows of tokens and      *)
(* api_keys, the account row they hang on, and the process-wide cache of    *)
(* validated credentials in credcache.go that requests are served from.     *)
(*                                                                         *)
(* A validation that misses the cache reads the database and fills the      *)
(* cache in a second step; a revocation changes the database and evicts in  *)
(* a second step.  The interleavings of the two are what this module is     *)
(* about.  A credential that authenticates is one the cache accepts: a      *)
(* database validation always fills the cache before it returns.            *)
(***************************************************************************)
EXTENDS Integers, FiniteSets, FiniteSetsExt

CONSTANTS
  Tokens,      \* session tokens (rows of tokens)
  Keys,        \* API keys (rows of api_keys)
  Requests,    \* concurrently running requests
  Roles,       \* the roles an admin may give the account
  FirstRole,
  TTL,         \* credCacheTTL
  Life,        \* the lifetime of a token or key
  RenewGrace,  \* api_key_renew_grace_hours
  SessionLimit,\* tokens kept per user by createTokenInDB
  LastFill,    \* bound: nothing is issued or cached after this time
  MaxTime,     \* bound: the clock stops here
  NoEntry      \* not in the cache

Creds == Tokens \cup Keys

ASSUME CredCacheAssumption ==
  /\ Tokens \cap Keys = {}
  /\ FirstRole \in Roles
  /\ {TTL, Life, RenewGrace, SessionLimit, LastFill, MaxTime} \subseteq Nat

Row == [state : {"none", "live", "gone"}, pinned : BOOLEAN, expires : Nat]
Entry == [role : Roles, until : Nat]
Account == [role : Roles, disabled : BOOLEAN]

Request ==
  {[at |-> a] : a \in {"idle", "drop_tokens", "trim", "pin"}}
    \cup [at : {"fill"}, c : Creds, role : Roles, expires : Nat]
    \cup [at : {"evict"}, cs : SUBSET Creds, then : {"idle", "drop_tokens"}]
    \cup [at : {"put"}, account : Account]
    \cup [at : {"renew"}, k : Keys]

VARIABLES
  account,   \* the role and disabled columns of the users row
  rows,      \* rows[c]: the tokens or api_keys row of credential c
  cache,     \* cache[c]: credCache.entries, keyed by the raw credential
  req,       \* req[r]: the step request r executes next
  now,
  overtaken  \* ghost: credentials whose entry no eviction is going to remove:
             \* filled after the revocation, or dropped by code that evicts nothing

vars == <<account, rows, cache, req, now, overtaken>>

Idle == [at |-> "idle"]
Goto(r, s) == req' = [req EXCEPT ![r] = s]
Evict(cs) == cache' = [c \in Creds |-> IF c \in cs THEN NoEntry ELSE cache[c]]
Evicting(c) == \E r \in Requests : req[r].at = "evict" /\ c \in req[r].cs
Live(c) == rows[c].state = "live"
Drop(cs) == rows' = [c \in Creds |-> IF c \in cs /\ Live(c)
                                     THEN [rows[c] EXCEPT !.state = "gone"] ELSE rows[c]]
Free(cs) == now <= LastFill /\ \E c \in cs : rows[c].state = "none" \* the model has a row left
NewRow(pinned) == [state |-> "live", pinned |-> pinned, expires |-> now + Life]

\* What the database would answer: the row, its expiry and the account.
Validates(c) == Live(c) /\ now <= rows[c].expires /\ ~account.disabled

\* credCache.get finds a live entry.
Accepts(c) == cache[c] # NoEntry /\ now <= cache[c].until

Backed(c) == Validates(c) /\ cache[c].role = account.role

Init ==
  /\ account = [role |-> FirstRole, disabled |-> FALSE]
  /\ rows = [c \in Creds |-> [state |-> "none", pinned |-> FALSE, expires |-> 0]]
  /\ cache = [c \in Creds |-> NoEntry]
  /\ req = [r \in Requests |-> Idle]
  /\ now = 0
  /\ overtaken = {}

-----------------------------------------------------------------------------
(* Issuing and validating                                                  *)

\* createAPIKey with an expiry: one INSERT.
IssueKey(k) ==
  /\ rows[k].state = "none"
  /\ ~account.disabled
  /\ now <= LastFill
  /\ rows' = [rows EXCEPT ![k] = NewRow(FALSE)]
  /\ UNCHANGED <<account, cache, req, now, overtaken>>

\* createTokenInDB inserts the token of a login ...
IssueToken(r, t) ==
  /\ req[r] = Idle
  /\ rows[t].state = "none"
  /\ ~account.disabled
  /\ now <= LastFill
  /\ rows' = [rows EXCEPT ![t] = NewRow(FALSE)]
  /\ Goto(r, [at |-> "trim"])
  /\ UNCHANGED <<account, cache, now, overtaken>>

\* ... and deletes all but the SessionLimit newest, evicting none.  Rows live
\* equally long, so the newest expires last; created_at ties fall either way.
TrimTokens(r) ==
  /\ req[r].at = "trim"
  /\ LET live == {t \in Tokens : Live(t)} IN
       \E old \in SUBSET live :
         /\ Cardinality(live \ old) = Min({SessionLimit, Cardinality(live)})
         /\ \A t \in live \ old, u \in old : rows[t].expires >= rows[u].expires
         /\ Drop(old)
         /\ overtaken' = overtaken \cup old
  /\ Goto(r, Idle)
  /\ UNCHANGED <<account, cache, now>>

\* validateToken and validateAPIKey miss the cache and read the database.
ValidateRead(r, c) ==
  /\ req[r] = Idle
  /\ now <= LastFill
  /\ ~Accepts(c)
  /\ Validates(c)
  /\ Goto(r, [at |-> "fill", c |-> c, role |-> account.role, expires |-> rows[c].expires])
  /\ UNCHANGED <<account, rows, cache, now, overtaken>>

\* credCache.set: the entry lives TTL from now, and no longer than the row.
FillUntil(r, until) ==
  /\ req[r].at = "fill"
  /\ now <= LastFill
  /\ LET c == req[r].c IN
       /\ cache' = [cache EXCEPT ![c] = [role |-> req[r].role, until |-> until]]
       /\ overtaken' = IF Validates(c) /\ req[r].role = account.role
                       THEN overtaken ELSE overtaken \cup {c}
  /\ Goto(r, Idle)
  /\ UNCHANGED <<account, rows, now>>

ValidateFillPastExpiry(r) == FillUntil(r, now + TTL)
ValidateFill(r) == FillUntil(r, Min({now + TTL, req[r].expires}))

-----------------------------------------------------------------------------
(* Revoking a credential                                                   *)

\* deleteSession, adminRevokeSession, logout and revokeCurrentAPIKey delete
\* the row; invalidateByTokenID or invalidate then evicts this one entry.
RevokeEvicting(r, c, cs) ==
  /\ req[r] = Idle
  /\ Live(c)
  /\ Drop({c})
  /\ Goto(r, [at |-> "evict", cs |-> cs, then |-> "idle"])
  /\ UNCHANGED <<account, cache, now, overtaken>>

RevokeByHash(r, c) == RevokeEvicting(r, c, {})
Revoke(r, c) == RevokeEvicting(r, c, {c})

\* deleteAPIKey evicts everything the account has cached (pruneByUserID).
DeleteKey(r, k) == RevokeEvicting(r, k, Creds)

\* regeneratePublisherKey: one transaction replaces every key by a new one.
RegenerateEvicting(r, k, cs) ==
  /\ req[r] = Idle
  /\ rows[k].state = "none"
  /\ now <= LastFill
  /\ rows' = [c \in Creds |->
                IF c = k THEN NewRow(FALSE)
                ELSE IF c \in Keys /\ Live(c) THEN [rows[c] EXCEPT !.state = "gone"]
                ELSE rows[c]]
  /\ Goto(r, [at |-> "evict", cs |-> cs, then |-> "idle"])
  /\ UNCHANGED <<account, cache, now, overtaken>>

RegenerateKeyEvictsNew(r, k) == RegenerateEvicting(r, k, {k})
RegenerateKey(r, k) == RegenerateEvicting(r, k, Creds)

\* renewAPIKey reads the presented key, a little late at most ...
RenewRead(r, k) ==
  /\ req[r] = Idle
  /\ Free(Keys)
  /\ Live(k) /\ ~account.disabled
  /\ now <= rows[k].expires + RenewGrace
  /\ Goto(r, [at |-> "renew", k |-> k])
  /\ UNCHANGED <<account, rows, cache, now, overtaken>>

\* ... and exchanges it for a new one, whether the DELETE found it or not.
RenewCommit(r, new) ==
  /\ req[r].at = "renew"
  /\ rows[new].state = "none"
  /\ now <= LastFill
  /\ rows' = [c \in Creds |->
                IF c = new THEN NewRow(FALSE)
                ELSE IF c = req[r].k /\ Live(c) THEN [rows[c] EXCEPT !.state = "gone"]
                ELSE rows[c]]
  /\ Goto(r, [at |-> "evict", cs |-> {req[r].k}, then |-> "idle"])
  /\ UNCHANGED <<account, cache, now, overtaken>>

\* createPinnedTokenInDB deletes the account's pinned tokens, evicting none ...
PinDelete(r) ==
  /\ req[r] = Idle
  /\ Free(Tokens)
  /\ ~account.disabled
  /\ LET old == {t \in Tokens : Live(t) /\ rows[t].pinned} IN
       /\ Drop(old)
       /\ overtaken' = overtaken \cup old
  /\ Goto(r, [at |-> "pin"])
  /\ UNCHANGED <<account, cache, now>>

\* ... and inserts the new one.
InsertPinned(r, t, row) ==
  /\ req[r].at = "pin"
  /\ rows[t].state = "none"
  /\ now <= LastFill
  /\ rows' = [rows EXCEPT ![t] = row]
  /\ Goto(r, Idle)
  /\ UNCHANGED <<account, cache, now, overtaken>>

PinInsertNoExpiry(r, t) == InsertPinned(r, t, [NewRow(TRUE) EXCEPT !.expires = NoEntry])
PinInsert(r, t) == InsertPinned(r, t, NewRow(TRUE))

-----------------------------------------------------------------------------
(* Account edits                                                           *)

\* adminDisableUser, and recordFailedLogin at its threshold.
Disable(r) ==
  /\ req[r] = Idle
  /\ account' = [account EXCEPT !.disabled = TRUE]
  /\ Goto(r, [at |-> "evict", cs |-> Creds, then |-> "drop_tokens"])
  /\ UNCHANGED <<rows, cache, now, overtaken>>

\* DELETE FROM tokens WHERE user_id=?, after the eviction.
DropTokens(r) ==
  /\ req[r].at = "drop_tokens"
  /\ Drop(Tokens)
  /\ overtaken' = overtaken \cup {t \in Tokens : Live(t)}
  /\ Goto(r, Idle)
  /\ UNCHANGED <<account, cache, now>>

\* adminEnableUser
Enable ==
  /\ account.disabled
  /\ account' = [account EXCEPT !.disabled = FALSE]
  /\ UNCHANGED <<rows, cache, req, now, overtaken>>

\* PUT /api/v1/users/{id} reads the row ...
PutRead(r) ==
  /\ req[r] = Idle
  /\ Goto(r, [at |-> "put", account |-> account])
  /\ UNCHANGED <<account, rows, cache, now, overtaken>>

\* ... changes the fields the request gives, writes every column, and evicts.
PutWrite(r, a) ==
  /\ req[r].at = "put"
  /\ account' = a
  /\ Goto(r, [at |-> "evict", cs |-> Creds, then |-> "idle"])
  /\ UNCHANGED <<rows, cache, now, overtaken>>

\* A member edits the profile: role and disabled go back as they were read.
PutProfile(r) == PutWrite(r, req[r].account)

\* An admin sets the role or the disabled flag.
PutByAdmin(r, a) ==
  /\ req[r].at = "put"
  /\ a.role = req[r].account.role \/ a.disabled = req[r].account.disabled
  /\ PutWrite(r, a)

\* The second step of every revocation.
EvictStep(r) ==
  /\ req[r].at = "evict"
  /\ Evict(req[r].cs)
  /\ Goto(r, [at |-> req[r].then])
  /\ overtaken' = overtaken \ req[r].cs
  /\ UNCHANGED <<account, rows, now>>

-----------------------------------------------------------------------------
(* Background work                                                         *)

\* startTokenCleanup deletes expired tokens.
SweepTokens ==
  /\ Drop({t \in Tokens : rows[t].expires < now})
  /\ UNCHANGED <<account, cache, req, now, overtaken>>

\* sweepLoop drops expired entries.
SweepCache ==
  /\ Evict({c \in Creds : cache[c] # NoEntry /\ now > cache[c].until})
  /\ UNCHANGED <<account, rows, req, now, overtaken>>

Tick ==
  /\ now < MaxTime
  /\ now' = now + 1
  /\ UNCHANGED <<account, rows, cache, req, overtaken>>

\* The cache lives in memory and is empty after a restart.
Restart ==
  /\ Evict(Creds)
  /\ req' = [r \in Requests |-> Idle]
  /\ overtaken' = {}
  /\ UNCHANGED <<account, rows, now>>

-----------------------------------------------------------------------------
Handler(r) ==
  \/ \E c \in Creds : ValidateRead(r, c) \/ Revoke(r, c)
  \/ ValidateFill(r) \/ EvictStep(r)
  \/ \E k \in Keys :
       DeleteKey(r, k) \/ RegenerateKey(r, k) \/ RenewRead(r, k) \/ RenewCommit(r, k)
  \/ (\E t \in Tokens : IssueToken(r, t) \/ PinInsert(r, t))
  \/ TrimTokens(r) \/ PinDelete(r)
  \/ Disable(r) \/ DropTokens(r)
  \/ PutRead(r) \/ PutProfile(r) \/ (\E a \in Account : PutByAdmin(r, a))

Next ==
  \/ \E r \in Requests : Handler(r)
  \/ \E k \in Keys : IssueKey(k)
  \/ Enable
  \/ SweepTokens \/ SweepCache \/ Tick \/ Restart

Spec == Init /\ [][Next]_vars

-----------------------------------------------------------------------------
(* Properties                                                              *)

\* Every step keeps the row, the entry and the request in their domains.
TypeOK ==
  /\ account \in Account
  /\ rows \in [Creds -> Row]
  /\ cache \in [Creds -> Entry \cup {NoEntry}]
  /\ req \in [Requests -> Request]
  /\ now \in Nat
  /\ overtaken \in SUBSET Creds

\* credCache.set: no entry outlives the credential or credCacheTTL, however
\* late the fill came after the read.
EntryBounded ==
  \A c \in Creds : cache[c] # NoEntry =>
    cache[c].until <= Min({now + TTL, rows[c].expires})

\* The cache answers differently from the database only while a revocation is
\* between its two steps, or for a credential whose entry was filled behind the
\* eviction's back or dropped by code that evicts nothing (#1004).
StaleOnlyByRace ==
  \A c \in Creds : Accepts(c) /\ ~Backed(c) => c \in overtaken \/ Evicting(c)

\* Claim of updateUser: only an admin changes the role or the disabled flag.
ProfileEditKeepsAccount ==
  [][\A r \in Requests : PutProfile(r) => account' = account]_vars

=============================================================================
