---------------------------- MODULE Registration ----------------------------
(***************************************************************************)
(* How an account comes to be in cmd/dansal: self-registration with an      *)
(* e-mail check, a password or a passkey and an approval (register.go,      *)
(* webauthn.go), invite links (invites.go, users.go, oidc.go), and the      *)
(* hourly sweeps that remove what was never finished.                       *)
(*                                                                         *)
(* Every handler reads a row, decides, and writes in later statements; only *)
(* an approval and the redemption of an invite write in one transaction.    *)
(* What can fall between the statements of one handler is therefore any     *)
(* statement of another.  SELECTs before one decision are one step.         *)
(***************************************************************************)
EXTENDS Naturals, FiniteSets

CONSTANTS
  Regs,      \* rows of pending_registrations
  Users,     \* rows of users that these handlers create
  Invites,   \* rows of invite_links
  Visitors,  \* concurrently running requests
  Addrs,     \* e-mail addresses
  NoAddr,    \* no address was given
  Nobody,    \* NULL in pending_registrations.user_id
  Nothing,   \* a request that is about no row
  MaxRequests, \* bound: requests that are begun
  MaxLate      \* bound: deadlines that pass (registrations, invites, ceremonies)

ASSUME RegistrationAssumption ==
  /\ NoAddr \notin Addrs
  /\ Nobody \notin Users
  /\ Nothing \notin Regs \cup Invites
  /\ Regs \cap Invites = {}
  /\ MaxRequests \in Nat /\ MaxLate \in Nat

Addresses == Addrs \cup {NoAddr}
Reg == [st : {"none", "open", "approved", "gone"}, addr : Addresses,
        verified : BOOLEAN, user : Users \cup {Nobody}, due : BOOLEAN]
Account == [st : {"none", "disabled", "enabled", "gone"}, addr : Addresses,
            auth : {"none", "password", "passkey"}, member : BOOLEAN]
Invite == [st : {"none", "open", "used", "gone"}, preset : Addresses, due : BOOLEAN]
Ceremony == [st : {"none", "open", "done"}, on : Regs \cup Invites \cup {Nothing}, due : BOOLEAN]

Steps == {"idle", "insert", "verify", "drop", "drop user", "add", "freshen", "clear old",
          "link", "take", "check", "bind", "clear", "approve",
          "redeem", "find", "add invitee", "bind invitee", "revoke", "renew", "reissue"}
Request == [at : Steps, on : Regs \cup Invites \cup {Nothing}, user : Users \cup {Nobody},
            addr : Addresses, auth : {"none", "password", "passkey"}, early : BOOLEAN,
            ceremony : {"", "lost", "failed"}]

VARIABLES
  regs, users, invites,
  wa,        \* wa[u]: the webauthn_sessions row of the ceremony that created u
  visit,     \* visit[v]: the step request v executes next, and what it has read
             \* (early is a ghost: it read the account before the approval)
  sweep,     \* processExpiredRegistrations: the rows it listed, the user it deletes next
  limits,    \* what has been used of the two bounds
  admitted,  \* ghost: accounts an approval enabled
  byHand,    \* ghost: accounts an admin enabled beside the registration
  invited,   \* ghost: accounts an invite created
  uses       \* ghost: uses[i]: accounts created with invite i

regVars == <<regs, users, invites, wa, visit, sweep, limits, admitted, byHand, invited, uses>>

Idle == [at |-> "idle", on |-> Nothing, user |-> Nobody, addr |-> NoAddr, auth |-> "none",
         early |-> FALSE, ceremony |-> ""]
Goto(v, step) == visit' = [visit EXCEPT ![v] = step]
Begin(v, step) ==
  /\ visit[v] = Idle
  /\ limits.requests < MaxRequests
  /\ limits' = [limits EXCEPT !.requests = @ + 1]
  /\ Goto(v, step)
GotoAt(v, at) == Goto(v, [visit[v] EXCEPT !.at = at])
Present(r) == regs[r].st \in {"open", "approved"}
Exists(u) == u \in Users /\ users[u].st \in {"disabled", "enabled"}

\* users.email is UNIQUE; NULLs are not compared.
Free(a) == a = NoAddr \/ ~ \E u \in Users : Exists(u) /\ users[u].addr = a

\* A foreign key with NO ACTION: the row of a user a registration names stays.
Referenced(u) == \E r \in Regs : Present(r) /\ regs[r].user = u

\* deletePendingRegistration; deleteUserByID, which clears the references first.
WithoutReg(r) == IF Present(r) THEN [regs EXCEPT ![r].st = "gone"] ELSE regs
WithoutUser(u) ==
  IF Exists(u) THEN [users EXCEPT ![u].st = "gone"] ELSE users
Unreferenced(u) ==
  [r \in Regs |-> IF Present(r) /\ regs[r].user = u THEN [regs[r] EXCEPT !.user = Nobody]
                  ELSE regs[r]]

RegInit ==
  /\ regs = [r \in Regs |-> [st |-> "none", addr |-> NoAddr, verified |-> FALSE,
                             user |-> Nobody, due |-> FALSE]]
  /\ users = [u \in Users |-> [st |-> "none", addr |-> NoAddr, auth |-> "none",
                              member |-> FALSE]]
  /\ invites = [i \in Invites |-> [st |-> "none", preset |-> NoAddr, due |-> FALSE]]
  /\ wa = [u \in Users |-> [st |-> "none", on |-> Nothing, due |-> FALSE]]
  /\ visit = [v \in Visitors |-> Idle]
  /\ sweep = [todo |-> {}, user |-> Nobody, early |-> TRUE]
  /\ limits = [requests |-> 0, late |-> 0]
  /\ admitted = {} /\ byHand = {} /\ invited = {}
  /\ uses = [i \in Invites |-> 0]

-----------------------------------------------------------------------------
(* The applicant                                                           *)

\* registerHandler: no account and no registration has the address yet.
RegisterCheck(v, a) ==
  /\ a # NoAddr => Free(a) /\ ~ \E r \in Regs : Present(r) /\ regs[r].addr = a
  /\ Begin(v, [Idle EXCEPT !.at = "insert", !.addr = a])
  /\ UNCHANGED <<regs, users, invites, wa, sweep, admitted, byHand, invited, uses>>

\* A registration without an address, or with a board session for it, is verified.
RegisterInsert(v, r) ==
  /\ visit[v].at = "insert"
  /\ regs[r].st = "none"
  /\ \E sure \in BOOLEAN :
       /\ visit[v].addr = NoAddr => sure
       /\ regs' = [regs EXCEPT ![r] = [st |-> "open", addr |-> visit[v].addr,
                                       verified |-> sure, user |-> Nobody, due |-> FALSE]]
  /\ Goto(v, Idle)
  /\ UNCHANGED <<users, invites, wa, sweep, limits, admitted, byHand, invited, uses>>

\* verifyEmailRegHandler, and registerResendHandler for a link that is over.
VerifyRead(v, r) ==
  /\ Present(r) /\ ~regs[r].verified
  /\ Begin(v, [Idle EXCEPT !.at = IF regs[r].due THEN "drop" ELSE "verify", !.on = r])
  /\ UNCHANGED <<regs, users, invites, wa, sweep, admitted, byHand, invited, uses>>

SetVerified(v) ==
  /\ visit[v].at = "verify"
  /\ regs' = IF Present(visit[v].on) THEN [regs EXCEPT ![visit[v].on].verified = TRUE] ELSE regs
  /\ Goto(v, Idle)
  /\ UNCHANGED <<users, invites, wa, sweep, limits, admitted, byHand, invited, uses>>

\* registerCancelHandler and rejectRegHandler leave an approved registration alone.
WithdrawableAlways(r) == Present(r)  \* mutant: approved or not
Withdrawable(r) == regs[r].st = "open"
WithdrawRead(v, r) ==
  /\ Withdrawable(r)
  /\ Begin(v, [Idle EXCEPT !.at = "drop", !.on = r, !.user = regs[r].user,
                          !.early = regs[r].user \notin admitted])
  /\ UNCHANGED <<regs, users, invites, wa, sweep, admitted, byHand, invited, uses>>

\* deletePendingRegistration ...
DropReg(v) ==
  /\ visit[v].at = "drop"
  /\ regs' = WithoutReg(visit[v].on)
  /\ IF visit[v].user = Nobody THEN Goto(v, Idle) ELSE GotoAt(v, "drop user")
  /\ UNCHANGED <<users, invites, wa, sweep, limits, admitted, byHand, invited, uses>>

\* ... and deleteUserByID.  A failed ceremony also detaches the registration.
DropUser(v) ==
  /\ visit[v].at = "drop user"
  /\ users' = WithoutUser(visit[v].user)
  /\ regs' = Unreferenced(visit[v].user)
  /\ IF visit[v].ceremony = "failed" /\ visit[v].on \in Regs THEN GotoAt(v, "clear") ELSE Goto(v, Idle)
  /\ UNCHANGED <<invites, wa, sweep, limits, admitted, byHand, invited, uses>>

\* clearPendingRegistrationUser.
Detached(r) == IF Present(r) THEN [regs EXCEPT ![r].user = Nobody] ELSE regs
ClearUser(v) ==
  /\ visit[v].at \in {"clear", "clear old"}
  /\ regs' = Detached(visit[v].on)
  /\ IF visit[v].at = "clear" THEN Goto(v, Idle) ELSE GotoAt(v, "add")
  /\ UNCHANGED <<users, invites, wa, sweep, limits, admitted, byHand, invited, uses>>

\* registerPasswordHandler: a verified registration without an account.
PasswordRead(v, r) ==
  /\ Present(r) /\ regs[r].verified /\ ~regs[r].due /\ regs[r].user = Nobody
  /\ Begin(v, [Idle EXCEPT !.at = "add", !.on = r, !.addr = regs[r].addr, !.auth = "password"])
  /\ UNCHANGED <<regs, users, invites, wa, sweep, admitted, byHand, invited, uses>>

\* webauthnRegBegin: an earlier placeholder is deleted first ...
PasskeyBegin(v, r) ==
  /\ Present(r) /\ regs[r].verified /\ ~regs[r].due
  /\ Begin(v, [Idle EXCEPT !.at = IF regs[r].user = Nobody THEN "add" ELSE "freshen",
                          !.on = r, !.addr = regs[r].addr, !.user = regs[r].user])
  /\ UNCHANGED <<regs, users, invites, wa, sweep, admitted, byHand, invited, uses>>

\* ... by a plain DELETE, which the foreign key refuses while the row is named.
DropPlaceholder(v) ==
  /\ visit[v].at = "freshen"
  /\ LET u == visit[v].user IN
       users' = IF users[u].st = "disabled" /\ users[u].auth # "password" /\ ~Referenced(u)
                THEN [users EXCEPT ![u].st = "gone"] ELSE users
  /\ GotoAt(v, "clear old")
  /\ UNCHANGED <<regs, invites, wa, sweep, limits, admitted, byHand, invited, uses>>

\* The INSERT of a disabled account; it fails when the address is taken.
\* Mutant: inserted enabled.
NewAccountEnabled(v) ==
  [st |-> "enabled", addr |-> visit[v].addr, auth |-> visit[v].auth, member |-> FALSE]
NewAccount(v) ==
  [st |-> "disabled", addr |-> visit[v].addr, auth |-> visit[v].auth, member |-> FALSE]
AddAccount(v, u) ==
  /\ visit[v].at = "add"
  /\ users[u].st = "none"
  /\ users' = IF Free(visit[v].addr) THEN [users EXCEPT ![u] = NewAccount(v)] ELSE users
  /\ Goto(v, IF Free(visit[v].addr) THEN [visit[v] EXCEPT !.at = "link", !.user = u] ELSE Idle)
  /\ UNCHANGED <<regs, invites, wa, sweep, limits, admitted, byHand, invited, uses>>

\* The UPDATE that names it; a passkey's ceremony is stored right after it.
LinkAccount(v) ==
  /\ visit[v].at = "link"
  /\ LET r == visit[v].on
         u == visit[v].user IN
       /\ regs' = IF Present(r) /\ Exists(u) THEN [regs EXCEPT ![r].user = u] ELSE regs
       /\ wa' = IF visit[v].auth = "none"
                THEN [wa EXCEPT ![u] = [st |-> "open", on |-> r, due |-> FALSE]] ELSE wa
  /\ Goto(v, Idle)
  /\ UNCHANGED <<users, invites, sweep, limits, admitted, byHand, invited, uses>>

\* loadWASession: SELECT, then DELETE; two requests may hold one ceremony.
FinishRead(v, u) ==
  /\ wa[u].st = "open" /\ ~wa[u].due
  /\ wa[u].on \in Invites => invites[wa[u].on].st = "open" /\ ~invites[wa[u].on].due
  /\ Begin(v, [Idle EXCEPT !.at = "take", !.on = wa[u].on, !.user = u])
  /\ UNCHANGED <<regs, users, invites, wa, sweep, admitted, byHand, invited, uses>>

FinishTake(v) ==
  /\ visit[v].at = "take"
  /\ wa' = [wa EXCEPT ![visit[v].user].st = "done"]
  /\ GotoAt(v, IF visit[v].on \in Invites THEN "bind invitee" ELSE "check")
  /\ UNCHANGED <<regs, users, invites, sweep, limits, admitted, byHand, invited, uses>>

\* webauthnRegFinish: a registration that is gone or approved ends in a deletion.
FinishCheck(v) ==
  /\ visit[v].at = "check"
  /\ LET r == visit[v].on IN
       IF regs[r].st = "open" /\ regs[r].user = visit[v].user
       THEN GotoAt(v, "bind")
       ELSE Goto(v, [visit[v] EXCEPT !.at = "drop user", !.ceremony = "lost"])
  /\ UNCHANGED <<regs, users, invites, wa, sweep, limits, admitted, byHand, invited, uses>>

\* The credential is stored, or the ceremony, the foreign key or UNIQUE fails it.
Bindable(u) == Exists(u) /\ users[u].auth # "passkey"
Fails(v) == Goto(v, [visit[v] EXCEPT !.at = "drop user", !.ceremony = "failed"])
Bind(v) ==
  /\ visit[v].at = "bind"
  /\ \E ok \in BOOLEAN :
       IF ok /\ Bindable(visit[v].user)
       THEN users' = [users EXCEPT ![visit[v].user].auth = "passkey"] /\ Goto(v, Idle)
       ELSE users' = users /\ Fails(v)
  /\ UNCHANGED <<regs, invites, wa, sweep, limits, admitted, byHand, invited, uses>>

-----------------------------------------------------------------------------
(* Approvals and invites                                                   *)

\* approveRegHandler reads the row; whether it expired is not asked.
ApproveRead(v, r) ==
  /\ regs[r].st = "open"
  /\ Begin(v, [Idle EXCEPT !.at = "approve", !.on = r, !.user = regs[r].user,
                          !.addr = regs[r].addr])
  /\ UNCHANGED <<regs, users, invites, wa, sweep, admitted, byHand, invited, uses>>

\* The transaction that enables the account, makes it a member of the organisation
\* and keeps the row for a week.
Approved(r) == IF Present(r) THEN [regs EXCEPT ![r].st = "approved", ![r].due = FALSE] ELSE regs
Joined(u) == IF Exists(u) THEN [users EXCEPT ![u].member = TRUE] ELSE users
EnabledNever(u) == Joined(u)  \* mutant: approved, but not enabled
Enabled(u) == IF Exists(u) THEN [users EXCEPT ![u].st = "enabled", ![u].member = TRUE] ELSE users
ApproveAccount(v) ==
  /\ visit[v].at = "approve" /\ visit[v].user # Nobody
  /\ LET u == visit[v].user IN
       /\ users' = Enabled(u)
       /\ admitted' = IF Exists(u) THEN admitted \cup {u} ELSE admitted
  /\ regs' = Approved(visit[v].on)
  /\ Goto(v, Idle)
  /\ UNCHANGED <<invites, wa, sweep, limits, byHand, invited, uses>>

\* updateUser by an admin: the switch that enables an account by hand also ends
\* a registration that asked to join an organisation.
EnableByHand(v, u) ==
  /\ users[u].st = "disabled"
  /\ Begin(v, [Idle EXCEPT !.at = "find", !.user = u])
  /\ users' = [users EXCEPT ![u].st = "enabled"]
  /\ byHand' = byHand \cup {u}
  /\ UNCHANGED <<regs, invites, wa, sweep, admitted, invited, uses>>

FindReg(v) ==
  /\ visit[v].at = "find"
  /\ \/ Goto(v, Idle) /\ users' = users
     \/ \E r \in Regs : /\ Present(r) /\ regs[r].user = visit[v].user
                        /\ Goto(v, [Idle EXCEPT !.at = "drop", !.on = r])
                        /\ users' = Joined(visit[v].user)
  /\ UNCHANGED <<regs, invites, wa, sweep, limits, admitted, byHand, invited, uses>>

\* Without an account: an invite for the address; only a row without one stays.
ApproveInvite(v, i) ==
  /\ visit[v].at = "approve" /\ visit[v].user = Nobody
  /\ invites[i].st = "none"
  /\ invites' = [invites EXCEPT ![i] = [st |-> "open", preset |-> visit[v].addr, due |-> FALSE]]
  /\ LET r == visit[v].on IN
       regs' = IF visit[v].addr # NoAddr THEN WithoutReg(r)
               ELSE IF Present(r) THEN [regs EXCEPT ![r].st = "approved"] ELSE regs
  /\ Goto(v, Idle)
  /\ UNCHANGED <<users, wa, sweep, limits, admitted, byHand, invited, uses>>

\* createInvite: members invite without naming an address.
CreateInvite(i) ==
  /\ invites[i].st = "none"
  /\ invites' = [invites EXCEPT ![i] = [st |-> "open", preset |-> NoAddr, due |-> FALSE]]
  /\ UNCHANGED <<regs, users, wa, visit, sweep, limits, admitted, byHand, invited, uses>>

\* loadValidInvite, outside of every transaction.
Redeemable(i) == invites[i].st = "open" /\ ~invites[i].due
InviteRead(v, i, at, a) ==
  /\ at \in {"redeem", "add invitee"}
  /\ Redeemable(i)
  /\ invites[i].preset # NoAddr => a = invites[i].preset
  /\ Begin(v, [Idle EXCEPT !.at = at, !.on = i, !.addr = a])
  /\ UNCHANGED <<regs, users, invites, wa, sweep, admitted, byHand, invited, uses>>

MarkedNever(i) == invites  \* mutant: the link stays open
Marked(i) == IF invites[i].st = "open" THEN [invites EXCEPT ![i].st = "used"] ELSE invites

\* useInvite, redeemPublisherInvite, oidcRedeemInvite: account and mark in one
\* transaction, which a taken address rolls back.
Redeem(v, u) ==
  /\ visit[v].at = "redeem"
  /\ users[u].st = "none"
  /\ LET i == visit[v].on
         a == visit[v].addr IN
       IF ~Free(a) THEN UNCHANGED <<users, invites, invited, uses>>
       ELSE /\ users' = [users EXCEPT ![u] =
                         [st |-> "enabled", addr |-> a, auth |-> "password", member |-> FALSE]]
            /\ invites' = Marked(i)
            /\ invited' = invited \cup {u}
            /\ uses' = [uses EXCEPT ![i] = @ + 1]
  /\ Goto(v, Idle)
  /\ UNCHANGED <<regs, wa, sweep, limits, admitted, byHand>>

\* redeemPublisherReconnectInvite: no account, the mark alone.
Reconnect(v) ==
  /\ visit[v].at = "redeem" /\ visit[v].addr = NoAddr
  /\ invites' = Marked(visit[v].on)
  /\ uses' = [uses EXCEPT ![visit[v].on] = @ + 1]
  /\ Goto(v, Idle)
  /\ UNCHANGED <<regs, users, wa, sweep, limits, admitted, byHand, invited>>

\* webauthnInviteBegin: the account exists, enabled, before the ceremony.
AddInvitee(v, u) ==
  /\ visit[v].at = "add invitee"
  /\ users[u].st = "none"
  /\ IF ~Free(visit[v].addr) THEN UNCHANGED <<users, wa, invited>>
     ELSE /\ users' = [users EXCEPT ![u] =
                         [st |-> "enabled", addr |-> visit[v].addr, auth |-> "none", member |-> FALSE]]
          /\ wa' = [wa EXCEPT ![u] = [st |-> "open", on |-> visit[v].on, due |-> FALSE]]
          /\ invited' = invited \cup {u}
  /\ Goto(v, Idle)
  /\ UNCHANGED <<regs, invites, sweep, limits, admitted, byHand, uses>>

\* webauthnInviteFinish: credential, membership and mark in one transaction.
BindInvitee(v) ==
  /\ visit[v].at = "bind invitee"
  /\ LET u == visit[v].user
         i == visit[v].on IN
       \E ok \in BOOLEAN :
         IF ok /\ Bindable(u)
         THEN /\ users' = [users EXCEPT ![u].auth = "passkey"]
              /\ invites' = Marked(i)
              /\ uses' = [uses EXCEPT ![i] = @ + 1]
              /\ Goto(v, Idle)
         ELSE UNCHANGED <<users, invites, uses>> /\ Fails(v)
  /\ UNCHANGED <<regs, wa, sweep, limits, admitted, byHand, invited>>

\* revokeInvite and resendInvite read an unused link and delete it by its key.
RevokeRead(v, i, at) ==
  /\ at \in {"revoke", "renew"}
  /\ invites[i].st = "open"
  /\ at = "renew" => invites[i].preset # NoAddr
  /\ Begin(v, [Idle EXCEPT !.at = at, !.on = i, !.addr = invites[i].preset])
  /\ UNCHANGED <<regs, users, invites, wa, sweep, admitted, byHand, invited, uses>>

DeleteInvite(v) ==
  /\ visit[v].at \in {"revoke", "renew"}
  /\ invites' = IF invites[visit[v].on].st \in {"open", "used"}
                THEN [invites EXCEPT ![visit[v].on].st = "gone"] ELSE invites
  /\ IF visit[v].at = "renew" THEN GotoAt(v, "reissue") ELSE Goto(v, Idle)
  /\ UNCHANGED <<regs, users, wa, sweep, limits, admitted, byHand, invited, uses>>

\* The second half of resendInvite: a fresh link for the same address.
Reissue(v, i) ==
  /\ visit[v].at = "reissue"
  /\ invites[i].st = "none"
  /\ invites' = [invites EXCEPT ![i] = [st |-> "open", preset |-> visit[v].addr, due |-> FALSE]]
  /\ Goto(v, Idle)
  /\ UNCHANGED <<regs, users, wa, sweep, limits, admitted, byHand, invited, uses>>

-----------------------------------------------------------------------------
(* Deadlines and sweeps                                                    *)

Sweeping == sweep.todo # {} \/ sweep.user # Nobody

\* processExpiredRegistrations lists what is over and not approved, then
\* deletes the approved rows whose week is over.
Overdue == {r \in Regs : regs[r].st = "open" /\ regs[r].due}
SweepList ==
  /\ ~Sweeping
  /\ \E r \in Regs : Present(r) /\ regs[r].due
  /\ sweep' = [sweep EXCEPT !.todo =
                 {<<r, regs[r].user, regs[r].user \notin admitted>> : r \in Overdue}]
  /\ regs' = [r \in Regs |-> IF regs[r].st = "approved" /\ regs[r].due
                             THEN [regs[r] EXCEPT !.st = "gone"] ELSE regs[r]]
  /\ UNCHANGED <<users, invites, wa, visit, limits, admitted, byHand, invited, uses>>

SweepReg ==
  /\ sweep.user = Nobody
  /\ \E p \in sweep.todo :
       /\ regs' = WithoutReg(p[1])
       /\ sweep' = [todo |-> sweep.todo \ {p}, user |-> p[2], early |-> p[3]]
  /\ UNCHANGED <<users, invites, wa, visit, limits, admitted, byHand, invited, uses>>

SweepUser ==
  /\ sweep.user # Nobody
  /\ users' = WithoutUser(sweep.user)
  /\ regs' = Unreferenced(sweep.user)
  /\ sweep' = [sweep EXCEPT !.user = Nobody]
  /\ UNCHANGED <<invites, wa, visit, limits, admitted, byHand, invited, uses>>

\* processExpiredInviteLinks.
SweepInvites ==
  /\ \E i \in Invites : invites[i].st = "open" /\ invites[i].due
  /\ invites' = [i \in Invites |-> IF invites[i].st = "open" /\ invites[i].due
                                   THEN [invites[i] EXCEPT !.st = "gone"] ELSE invites[i]]
  /\ UNCHANGED <<regs, users, wa, visit, sweep, limits, admitted, byHand, invited, uses>>

\* startTokenCleanup: the accounts of ceremonies that expired, without a credential
\* and a membership, then the ceremonies.  The DELETE asks that invite_id is not
\* NULL, but a registration's ceremony has the invite_id 0; the foreign key refuses
\* the whole statement when one of the accounts is named by a registration.
CeremonyOver(u) == wa[u].st = "open" /\ wa[u].due
Abandoned(u) == Exists(u) /\ CeremonyOver(u) /\ users[u].auth # "passkey" /\ ~users[u].member
SweepCeremonies ==
  /\ \E u \in Users : CeremonyOver(u)
  /\ users' = IF \E u \in Users : Abandoned(u) /\ Referenced(u) THEN users
              ELSE [u \in Users |-> IF Abandoned(u) THEN [users[u] EXCEPT !.st = "gone"]
                                   ELSE users[u]]
  /\ wa' = [u \in Users |-> IF CeremonyOver(u) THEN [wa[u] EXCEPT !.st = "done"] ELSE wa[u]]
  /\ UNCHANGED <<regs, invites, visit, sweep, limits, admitted, byHand, invited, uses>>

\* A deadline passes.
Late == limits.late < MaxLate /\ limits' = [limits EXCEPT !.late = @ + 1]
RegExpires(r) ==
  /\ Late /\ Present(r) /\ ~regs[r].due
  /\ regs' = [regs EXCEPT ![r].due = TRUE]
  /\ UNCHANGED <<users, invites, wa, visit, sweep, admitted, byHand, invited, uses>>
InviteExpires(i) ==
  /\ Late /\ invites[i].st = "open" /\ ~invites[i].due
  /\ invites' = [invites EXCEPT ![i].due = TRUE]
  /\ UNCHANGED <<regs, users, wa, visit, sweep, admitted, byHand, invited, uses>>
CeremonyExpires(u) ==
  /\ Late /\ wa[u].st = "open" /\ ~wa[u].due
  /\ wa' = [wa EXCEPT ![u].due = TRUE]
  /\ UNCHANGED <<regs, users, invites, visit, sweep, admitted, byHand, invited, uses>>

\* The client goes away or the server restarts: a handler is left half done.
Abort(v) ==
  /\ visit[v] # Idle
  /\ Goto(v, Idle)
  /\ UNCHANGED <<regs, users, invites, wa, sweep, limits, admitted, byHand, invited, uses>>

Applicant(v) ==
  \/ \E a \in Addresses : RegisterCheck(v, a)
  \/ \E r \in Regs : \/ RegisterInsert(v, r) \/ VerifyRead(v, r) \/ WithdrawRead(v, r)
                     \/ PasswordRead(v, r) \/ PasskeyBegin(v, r)
  \/ SetVerified(v) \/ DropReg(v) \/ DropUser(v) \/ ClearUser(v) \/ DropPlaceholder(v)
  \/ \E u \in Users : AddAccount(v, u) \/ FinishRead(v, u)
  \/ LinkAccount(v) \/ FinishTake(v) \/ FinishCheck(v) \/ Bind(v)

Inviting(v) ==
  \/ \E r \in Regs : ApproveRead(v, r)
  \/ ApproveAccount(v) \/ FindReg(v) \/ Reconnect(v) \/ BindInvitee(v) \/ DeleteInvite(v) \/ Abort(v)
  \/ \E i \in Invites :
       \/ ApproveInvite(v, i) \/ Reissue(v, i)
       \/ \E at \in {"revoke", "renew"} : RevokeRead(v, i, at)
       \/ \E at \in {"redeem", "add invitee"}, a \in Addresses : InviteRead(v, i, at, a)
  \/ \E u \in Users : EnableByHand(v, u) \/ Redeem(v, u) \/ AddInvitee(v, u)

Housekeeping ==
  \/ SweepList \/ SweepReg \/ SweepUser \/ SweepInvites \/ SweepCeremonies
  \/ \E i \in Invites : CreateInvite(i) \/ InviteExpires(i)
  \/ \E r \in Regs : RegExpires(r)
  \/ \E u \in Users : CeremonyExpires(u)

RegNext == (\E v \in Visitors : Applicant(v) \/ Inviting(v)) \/ Housekeeping

RegSpec == RegInit /\ [][RegNext]_regVars

-----------------------------------------------------------------------------
(* Properties                                                              *)

\* The shape of the rows; nobody is admitted or invited without having existed.
RegTypeOK ==
  /\ regs \in [Regs -> Reg]
  /\ users \in [Users -> Account]
  /\ invites \in [Invites -> Invite]
  /\ wa \in [Users -> Ceremony]
  /\ visit \in [Visitors -> Request]
  /\ sweep.todo \subseteq Regs \X (Users \cup {Nobody}) \X BOOLEAN
  /\ sweep.user \in Users \cup {Nobody} /\ sweep.early \in BOOLEAN
  /\ limits \in [requests : 0 .. MaxRequests, late : 0 .. MaxLate]
  /\ admitted \cup byHand \cup invited \subseteq {u \in Users : users[u].st \in {"enabled", "gone"}}
  /\ uses \in [Invites -> Nat]

\* Whoever can sign in was approved, invited or enabled by an admin: none of the steps of a
\* registration, in any order and with any of them repeated or lost, enables
\* the account it works on (registerPasswordHandler and webauthnRegBegin insert
\* it disabled, only the transaction of approveRegHandler lifts that).
EnabledOnlyIfAdmitted ==
  \A u \in Users : users[u].st = "enabled" => u \in admitted \cup byHand \cup invited

\* Once a link was redeemed and no request that validated it is still under way,
\* nobody redeems it again: not by password, passkey or SSO, not by a ceremony
\* begun before, and not after a renewal (loadValidInvite is repeated in
\* webauthnInviteFinish, the mark is in the transaction of the account).
Held(i) == \E v \in Visitors : visit[v].on = i /\ visit[v].at \in {"redeem", "take", "bind invitee"}
SpentInviteStaysSpent ==
  [][\A i \in Invites : uses[i] > 0 /\ ~Held(i) => uses'[i] = uses[i] /\ ~Held(i)']_regVars

\* An approved account is deleted by nobody who could know of the approval: only
\* by a withdrawal, rejection or sweep that read the registration before, or by
\* the applicant's own passkey ceremony.
ApprovedLostOnlyEarly ==
  [][\A u \in admitted : Exists(u) /\ ~Exists(u)' =>
       \/ \E v \in Visitors : /\ visit[v].at = "drop user" /\ visit[v].user = u
                              /\ visit[v].early \/ visit[v].ceremony # ""
       \/ sweep.user = u /\ sweep.early]_regVars

\* What main.go says of its sweep of ceremonies: it deletes the accounts that
\* webauthnInviteBegin created and nobody completed.
AbandonedInviteesSwept ==
  [][SweepCeremonies =>
       \A u \in Users : Abandoned(u) /\ wa[u].on \in Invites => ~Exists(u)']_regVars

=============================================================================
