---------------------------- MODULE AccountsProofs ----------------------------
(* Machine-checked proofs about Registration, Webhooks and Logins, for     *)
(* every value of their constants.                                         *)
EXTENDS MCAccounts, TLAPS

-----------------------------------------------------------------------------
(* Registration: types, and what a request is about at which step.          *)

OnReg == {"verify", "drop", "clear", "clear old", "freshen", "add", "link", "check", "bind", "approve"}
OnInvite == {"redeem", "add invitee", "bind invitee", "revoke", "renew"}
OnUser == {"drop user", "freshen", "link", "take", "check", "bind", "bind invitee", "find"}
Fits(x) ==
  /\ x \in Request
  /\ x.at \in OnReg => x.on \in Regs
  /\ x.at \in OnInvite => x.on \in Invites
  /\ x.at = "take" => x.on \in Regs \cup Invites
  /\ x.at \in OnUser => x.user \in Users
Sweep == [todo : SUBSET (Regs \X (Users \cup {Nobody}) \X BOOLEAN), user : Users \cup {Nobody},
          early : BOOLEAN]
RegTypeInv ==
  /\ RegTypeOK
  /\ sweep \in Sweep
  /\ \A v \in Visitors : Fits(visit[v])
  /\ \A u \in Users : wa[u].st = "open" => wa[u].on \in Regs \cup Invites

LEMMA IdleFits == Fits(Idle) /\ Idle.at = "idle" /\ Idle.on = Nothing /\ Idle.user = Nobody
  BY DEF Fits, Idle, Request, Steps, Addresses, OnReg, OnInvite, OnUser

\* The steps that a request begins with.
LEMMA FirstSteps ==
  /\ \A a \in Addresses : Fits([Idle EXCEPT !.at = "insert", !.addr = a])
  /\ \A at \in {"verify", "drop"}, r \in Regs : Fits([Idle EXCEPT !.at = at, !.on = r])
  /\ \A r \in Regs, u \in Users \cup {Nobody}, b \in BOOLEAN :
       Fits([Idle EXCEPT !.at = "drop", !.on = r, !.user = u, !.early = b])
  /\ \A r \in Regs, a \in Addresses :
       Fits([Idle EXCEPT !.at = "add", !.on = r, !.addr = a, !.auth = "password"])
  /\ \A r \in Regs, a \in Addresses, u \in Users \cup {Nobody}, at \in {"add", "freshen"} :
       (at = "freshen" => u # Nobody) => Fits([Idle EXCEPT !.at = at, !.on = r, !.addr = a, !.user = u])
  /\ \A o \in Regs \cup Invites, u \in Users : Fits([Idle EXCEPT !.at = "take", !.on = o, !.user = u])
  /\ \A r \in Regs, a \in Addresses, u \in Users \cup {Nobody} :
       Fits([Idle EXCEPT !.at = "approve", !.on = r, !.user = u, !.addr = a])
  /\ \A u \in Users : Fits([Idle EXCEPT !.at = "find", !.user = u])
  /\ \A i \in Invites, a \in Addresses, at \in {"redeem", "add invitee", "revoke", "renew"} :
       Fits([Idle EXCEPT !.at = at, !.on = i, !.addr = a])
<1> USE DEF Fits, Idle, Request, Steps, OnReg, OnInvite, OnUser
<1>a. NoAddr \in Addresses
  BY DEF Addresses
<1>1. ASSUME NEW a \in Addresses PROVE Fits([Idle EXCEPT !.at = "insert", !.addr = a])
  OBVIOUS
<1>2. ASSUME NEW at \in {"verify", "drop"}, NEW r \in Regs PROVE Fits([Idle EXCEPT !.at = at, !.on = r])
  BY <1>a
<1>3. ASSUME NEW r \in Regs, NEW u \in Users \cup {Nobody}, NEW b \in BOOLEAN
      PROVE  Fits([Idle EXCEPT !.at = "drop", !.on = r, !.user = u, !.early = b])
  BY <1>a
<1>4. ASSUME NEW r \in Regs, NEW a \in Addresses
      PROVE  Fits([Idle EXCEPT !.at = "add", !.on = r, !.addr = a, !.auth = "password"])
  OBVIOUS
<1>5. ASSUME NEW r \in Regs, NEW a \in Addresses, NEW u \in Users \cup {Nobody}, NEW at \in {"add", "freshen"},
             at = "freshen" => u # Nobody
      PROVE  Fits([Idle EXCEPT !.at = at, !.on = r, !.addr = a, !.user = u])
  BY <1>5
<1>6. ASSUME NEW o \in Regs \cup Invites, NEW u \in Users
      PROVE  Fits([Idle EXCEPT !.at = "take", !.on = o, !.user = u])
  BY <1>a
<1>7. ASSUME NEW r \in Regs, NEW a \in Addresses, NEW u \in Users \cup {Nobody}
      PROVE  Fits([Idle EXCEPT !.at = "approve", !.on = r, !.user = u, !.addr = a])
  OBVIOUS
<1>8. ASSUME NEW u \in Users PROVE Fits([Idle EXCEPT !.at = "find", !.user = u])
  BY <1>a
<1>9. ASSUME NEW i \in Invites, NEW a \in Addresses, NEW at \in {"redeem", "add invitee", "revoke", "renew"}
      PROVE  Fits([Idle EXCEPT !.at = at, !.on = i, !.addr = a])
  OBVIOUS
<1> QED
  BY <1>1, <1>2, <1>3, <1>4, <1>5, <1>6, <1>7, <1>8, <1>9

\* The steps that it goes on with.
LEMMA NextSteps ==
  ASSUME NEW x, Fits(x)
  PROVE  /\ x.at = "drop" /\ x.user # Nobody => Fits([x EXCEPT !.at = "drop user"])
         /\ x.at = "drop user" /\ x.on \in Regs => Fits([x EXCEPT !.at = "clear"])
         /\ x.at = "clear old" => Fits([x EXCEPT !.at = "add"])
         /\ x.at = "freshen" => Fits([x EXCEPT !.at = "clear old"])
         /\ \A u \in Users : x.at = "add" => Fits([x EXCEPT !.at = "link", !.user = u])
         /\ x.at = "take" /\ x.on \in Invites => Fits([x EXCEPT !.at = "bind invitee"])
         /\ x.at = "take" /\ x.on \notin Invites => Fits([x EXCEPT !.at = "check"])
         /\ x.at = "check" => Fits([x EXCEPT !.at = "bind"])
         /\ x.at = "check" => Fits([x EXCEPT !.at = "drop user", !.ceremony = "lost"])
         /\ x.at \in {"bind", "bind invitee"} => Fits([x EXCEPT !.at = "drop user", !.ceremony = "failed"])
         /\ x.at = "renew" => Fits([x EXCEPT !.at = "reissue"])
<1> USE DEF Fits, Request, Steps, OnReg, OnInvite, OnUser
<1>1. x.at = "drop" /\ x.user # Nobody => Fits([x EXCEPT !.at = "drop user"])
  OBVIOUS
<1>2. x.at = "drop user" /\ x.on \in Regs => Fits([x EXCEPT !.at = "clear"])
  OBVIOUS
<1>3. /\ x.at = "clear old" => Fits([x EXCEPT !.at = "add"])
      /\ x.at = "freshen" => Fits([x EXCEPT !.at = "clear old"])
  OBVIOUS
<1>4. ASSUME NEW u \in Users, x.at = "add" PROVE Fits([x EXCEPT !.at = "link", !.user = u])
  BY <1>4
<1>5. /\ x.at = "take" /\ x.on \in Invites => Fits([x EXCEPT !.at = "bind invitee"])
      /\ x.at = "take" /\ x.on \notin Invites => Fits([x EXCEPT !.at = "check"])
  OBVIOUS
<1>6. /\ x.at = "check" => Fits([x EXCEPT !.at = "bind"])
      /\ x.at = "check" => Fits([x EXCEPT !.at = "drop user", !.ceremony = "lost"])
  OBVIOUS
<1>7. x.at \in {"bind", "bind invitee"} => Fits([x EXCEPT !.at = "drop user", !.ceremony = "failed"])
  OBVIOUS
<1>8. x.at = "renew" => Fits([x EXCEPT !.at = "reissue"])
  OBVIOUS
<1> QED
  BY <1>1, <1>2, <1>3, <1>4, <1>5, <1>6, <1>7, <1>8

LEMMA RowTypes ==
  ASSUME RegTypeInv
  PROVE  /\ \A r \in Regs : /\ regs[r] \in Reg /\ regs[r].addr \in Addresses
                            /\ regs[r].user \in Users \cup {Nobody}
         /\ \A u \in Users : users[u] \in Account /\ wa[u] \in Ceremony
         /\ \A i \in Invites : invites[i] \in Invite /\ invites[i].preset \in Addresses
         /\ \A v \in Visitors : /\ visit[v] \in Request /\ visit[v].addr \in Addresses
                                /\ visit[v].user \in Users \cup {Nobody} /\ Fits(visit[v])
<1>1. /\ \A r \in Regs : regs[r] \in Reg
      /\ \A u \in Users : users[u] \in Account /\ wa[u] \in Ceremony
      /\ \A i \in Invites : invites[i] \in Invite
      /\ \A v \in Visitors : visit[v] \in Request /\ Fits(visit[v])
  BY DEF RegTypeInv, RegTypeOK
<1> QED
  BY <1>1 DEF Reg, Invite, Request

\* What the handlers do to a registration leaves rows of registrations.
LEMMA RegForms ==
  ASSUME RegTypeInv, NEW r \in Regs, NEW u
  PROVE  /\ WithoutReg(r) \in [Regs -> Reg] /\ Detached(r) \in [Regs -> Reg]
         /\ Unreferenced(u) \in [Regs -> Reg] /\ Approved(r) \in [Regs -> Reg]
         /\ [regs EXCEPT ![r].verified = TRUE] \in [Regs -> Reg]
         /\ [regs EXCEPT ![r].due = TRUE] \in [Regs -> Reg]
         /\ [regs EXCEPT ![r].st = "approved"] \in [Regs -> Reg]
<1>a. regs \in [Regs -> Reg] /\ \A q \in Regs : regs[q] \in Reg
  BY DEF RegTypeInv, RegTypeOK
<1>1. WithoutReg(r) \in [Regs -> Reg] /\ Detached(r) \in [Regs -> Reg]
  BY <1>a DEF WithoutReg, Detached, Reg
<1>2. Unreferenced(u) \in [Regs -> Reg]
  <2>1. \A q \in Regs : [regs[q] EXCEPT !.user = Nobody] \in Reg
    BY <1>a DEF Reg
  <2> QED
    BY <1>a, <2>1 DEF Unreferenced
<1>3. Approved(r) \in [Regs -> Reg]
  BY <1>a DEF Approved, Reg
<1>4. /\ [regs EXCEPT ![r].verified = TRUE] \in [Regs -> Reg]
      /\ [regs EXCEPT ![r].due = TRUE] \in [Regs -> Reg]
      /\ [regs EXCEPT ![r].st = "approved"] \in [Regs -> Reg]
  BY <1>a DEF Reg
<1> QED
  BY <1>1, <1>2, <1>3, <1>4

\* Accounts after a step that enables none and brings none back.
Settled(u) == users[u].st \in {"enabled", "gone"}
Quiet(us) ==
  /\ us \in [Users -> Account]
  /\ \A u \in Users : /\ Settled(u) => us[u].st \in {"enabled", "gone"}
                      /\ us[u].st = "enabled" => users[u].st = "enabled"
LEMMA UserForms ==
  ASSUME RegTypeInv, NEW u \in Users
  PROVE  /\ Quiet(users) /\ Quiet(WithoutUser(u)) /\ Quiet(Joined(u))
         /\ Quiet([users EXCEPT ![u].st = "gone"]) /\ Quiet([users EXCEPT ![u].auth = "passkey"])
         /\ Enabled(u) \in [Users -> Account] /\ [users EXCEPT ![u].st = "enabled"] \in [Users -> Account]
         /\ \A x \in Users \ {u} : Enabled(u)[x] = users[x]
         /\ Exists(u) => Enabled(u)[u].st = "enabled"
         /\ ~Exists(u) => Enabled(u) = users
<1>a. users \in [Users -> Account] /\ \A x \in Users : users[x] \in Account
  BY DEF RegTypeInv, RegTypeOK
<1>1. Quiet(users)
  BY <1>a DEF Quiet, Settled
<1>2. Quiet([users EXCEPT ![u].st = "gone"])
  BY <1>a DEF Quiet, Settled, Account
<1>3. Quiet(WithoutUser(u))
  BY <1>1, <1>2 DEF WithoutUser
<1>4. Quiet([users EXCEPT ![u].auth = "passkey"])
  BY <1>a DEF Quiet, Settled, Account
<1>5. Quiet(Joined(u))
  BY <1>a DEF Quiet, Settled, Account, Joined
<1>6. /\ Enabled(u) \in [Users -> Account] /\ [users EXCEPT ![u].st = "enabled"] \in [Users -> Account]
      /\ \A x \in Users \ {u} : Enabled(u)[x] = users[x]
      /\ Exists(u) => Enabled(u)[u].st = "enabled"
      /\ ~Exists(u) => Enabled(u) = users
  BY <1>a DEF Enabled, Account
<1> QED
  BY <1>1, <1>2, <1>3, <1>4, <1>5, <1>6

LEMMA RegInitTypes == RegInit => RegTypeInv
<1> SUFFICES ASSUME RegInit PROVE RegTypeInv
  OBVIOUS
<1>1. regs \in [Regs -> Reg] /\ users \in [Users -> Account] /\ invites \in [Invites -> Invite]
  BY DEF RegInit, Reg, Account, Invite, Addresses
<1>2. wa \in [Users -> Ceremony] /\ \A u \in Users : wa[u].st # "open"
  BY DEF RegInit, Ceremony
<1>3. visit \in [Visitors -> Request] /\ \A v \in Visitors : Fits(visit[v])
  BY IdleFits DEF RegInit, Fits
<1>4. sweep \in Sweep
  BY DEF RegInit, Sweep
<1>5. limits \in [requests : 0 .. MaxRequests, late : 0 .. MaxLate] /\ uses \in [Invites -> Nat]
      /\ admitted = {} /\ byHand = {} /\ invited = {}
  BY RegistrationAssumption DEF RegInit
<1> QED
  BY <1>1, <1>2, <1>3, <1>4, <1>5 DEF RegTypeInv, RegTypeOK, Sweep

\* The tables, and what was counted, after a step.
RegTables ==
  /\ regs \in [Regs -> Reg] /\ users \in [Users -> Account] /\ invites \in [Invites -> Invite]
  /\ wa \in [Users -> Ceremony] /\ \A u \in Users : wa[u].st = "open" => wa[u].on \in Regs \cup Invites
  /\ sweep \in Sweep /\ limits \in [requests : 0 .. MaxRequests, late : 0 .. MaxLate]
  /\ admitted \cup byHand \cup invited \subseteq {u \in Users : users[u].st \in {"enabled", "gone"}}
  /\ uses \in [Invites -> Nat]

LEMMA RegTablesNow == RegTypeInv => RegTables
  BY DEF RegTypeInv, RegTypeOK, RegTables

LEMMA TypeByGoto ==
  ASSUME RegTypeInv, NEW v \in Visitors, NEW step, Fits(step), Goto(v, step), RegTables'
  PROVE  RegTypeInv'
<1>1. visit' \in [Visitors -> Request] /\ \A x \in Visitors : Fits(visit'[x])
  BY DEF RegTypeInv, RegTypeOK, Goto, Fits
<1>2. sweep' \in Sweep => sweep'.todo \subseteq Regs \X (Users \cup {Nobody}) \X BOOLEAN
                          /\ sweep'.user \in Users \cup {Nobody} /\ sweep'.early \in BOOLEAN
  BY DEF Sweep
<1> QED
  BY <1>1, <1>2 DEF RegTypeInv, RegTypeOK, RegTables

LEMMA TypeByRest ==
  ASSUME RegTypeInv, visit' = visit, RegTables'
  PROVE  RegTypeInv'
<1>1. sweep' \in Sweep => sweep'.todo \subseteq Regs \X (Users \cup {Nobody}) \X BOOLEAN
                          /\ sweep'.user \in Users \cup {Nobody} /\ sweep'.early \in BOOLEAN
  BY DEF Sweep
<1> QED
  BY <1>1 DEF RegTypeInv, RegTypeOK, RegTables

LEMMA Begun ==
  ASSUME RegTypeInv, NEW v \in Visitors, NEW step, Begin(v, step)
  PROVE  Goto(v, step) /\ visit[v] = Idle /\ limits' \in [requests : 0 .. MaxRequests, late : 0 .. MaxLate]
  BY RegistrationAssumption DEF RegTypeInv, RegTypeOK, Begin

LEMMA TypeByBegin ==
  ASSUME RegTypeInv, NEW v \in Visitors, NEW step, Fits(step), Begin(v, step),
         UNCHANGED <<regs, users, invites, wa, sweep, admitted, byHand, invited, uses>>
  PROVE  RegTypeInv'
<1>1. RegTables'
  BY Begun, RegTablesNow DEF RegTables
<1> QED
  BY <1>1, Begun, TypeByGoto

\* Most handlers write rows and change nobody's standing.
QuietRows ==
  /\ regs' \in [Regs -> Reg] /\ Quiet(users') /\ invites' \in [Invites -> Invite]
  /\ uses' \in [Invites -> Nat]
  /\ UNCHANGED <<admitted, byHand, invited>>
LEMMA QuietTables ==
  ASSUME RegTypeInv, QuietRows, UNCHANGED <<wa, sweep, limits>>
  PROVE  RegTables'
  BY RegTablesNow DEF RegTables, QuietRows, Quiet, Settled

LEMMA UsesGrow ==
  ASSUME RegTypeInv, NEW i \in Invites
  PROVE  [uses EXCEPT ![i] = @ + 1] \in [Invites -> Nat]
  BY DEF RegTypeInv, RegTypeOK

LEMMA InviteForms ==
  ASSUME RegTypeInv, NEW i \in Invites
  PROVE  /\ Marked(i) \in [Invites -> Invite] /\ [invites EXCEPT ![i].st = "gone"] \in [Invites -> Invite]
         /\ [invites EXCEPT ![i].due = TRUE] \in [Invites -> Invite]
         /\ \A a \in Addresses :
              [invites EXCEPT ![i] = [st |-> "open", preset |-> a, due |-> FALSE]] \in [Invites -> Invite]
<1>a. invites \in [Invites -> Invite] /\ \A j \in Invites : invites[j] \in Invite
  BY DEF RegTypeInv, RegTypeOK
<1>1. [invites EXCEPT ![i].st = "gone"] \in [Invites -> Invite]
      /\ [invites EXCEPT ![i].due = TRUE] \in [Invites -> Invite]
  BY <1>a DEF Invite
<1>2. Marked(i) \in [Invites -> Invite]
  BY <1>a DEF Marked, Invite
<1>3. ASSUME NEW a \in Addresses
      PROVE  [invites EXCEPT ![i] = [st |-> "open", preset |-> a, due |-> FALSE]] \in [Invites -> Invite]
  BY <1>a DEF Invite
<1> QED
  BY <1>1, <1>2, <1>3

LEMMA ApplicantTypes ==
  ASSUME RegTypeInv, NEW v \in Visitors, Applicant(v)
  PROVE  RegTypeInv'
<1>b. Fits(visit[v]) /\ visit[v] \in Request /\ visit[v].user \in Users \cup {Nobody}
      /\ visit[v].addr \in Addresses
  BY RowTypes
<1>c. /\ visit[v].at \in OnReg => visit[v].on \in Regs
      /\ visit[v].at \in OnUser => visit[v].user \in Users
  BY <1>b DEF Fits
<1>d. RegTables /\ Quiet(users)
  BY RegTablesNow DEF Quiet, RegTables, Settled
<1>e. regs \in [Regs -> Reg] /\ users \in [Users -> Account] /\ invites \in [Invites -> Invite]
      /\ wa \in [Users -> Ceremony] /\ uses \in [Invites -> Nat]
  BY <1>d DEF RegTables
<1>1. ASSUME NEW a \in Addresses, RegisterCheck(v, a) PROVE RegTypeInv'
  BY <1>1, FirstSteps, TypeByBegin DEF RegisterCheck
<1>2. ASSUME NEW r \in Regs, RegisterInsert(v, r) PROVE RegTypeInv'
  <2>1. regs' \in [Regs -> Reg]
    <3>1. PICK sure \in BOOLEAN :
            regs' = [regs EXCEPT ![r] = [st |-> "open", addr |-> visit[v].addr,
                                         verified |-> sure, user |-> Nobody, due |-> FALSE]]
      BY <1>2 DEF RegisterInsert
    <3> QED
      BY <1>b, <1>e, <3>1 DEF Reg
  <2>2. QuietRows
    BY <1>2, <1>d, <1>e, <2>1 DEF RegisterInsert, QuietRows
  <2> QED
    BY <1>2, <2>2, IdleFits, QuietTables, TypeByGoto DEF RegisterInsert
<1>3. ASSUME NEW r \in Regs, VerifyRead(v, r) PROVE RegTypeInv'
  BY <1>3, FirstSteps, TypeByBegin DEF VerifyRead
<1>4. ASSUME NEW r \in Regs, WithdrawRead(v, r) PROVE RegTypeInv'
  <2>1. regs[r].user \in Users \cup {Nobody} /\ (regs[r].user \notin admitted) \in BOOLEAN
    BY RowTypes
  <2> QED
    BY <1>4, <2>1, FirstSteps, TypeByBegin DEF WithdrawRead
<1>5. ASSUME NEW r \in Regs, PasswordRead(v, r) PROVE RegTypeInv'
  BY <1>5, RowTypes, FirstSteps, TypeByBegin DEF PasswordRead
<1>6. ASSUME NEW r \in Regs, PasskeyBegin(v, r) PROVE RegTypeInv'
  <2> DEFINE at == IF regs[r].user = Nobody THEN "add" ELSE "freshen"
  <2>1. at \in {"add", "freshen"} /\ (at = "freshen" => regs[r].user # Nobody)
    OBVIOUS
  <2>2. Begin(v, [Idle EXCEPT !.at = at, !.on = r, !.addr = regs[r].addr, !.user = regs[r].user])
    BY <1>6 DEF PasskeyBegin
  <2> HIDE DEF at
  <2>3. Fits([Idle EXCEPT !.at = at, !.on = r, !.addr = regs[r].addr, !.user = regs[r].user])
    BY <2>1, RowTypes, FirstSteps
  <2> QED
    BY <1>6, <2>2, <2>3, TypeByBegin DEF PasskeyBegin
<1>7. CASE SetVerified(v)
  <2>1. regs' \in [Regs -> Reg]
    BY <1>7, <1>c, <1>e, RegForms DEF SetVerified, OnReg
  <2>2. QuietRows
    BY <1>7, <1>d, <1>e, <2>1 DEF SetVerified, QuietRows
  <2> QED
    BY <1>7, <2>2, IdleFits, QuietTables, TypeByGoto DEF SetVerified
<1>8. CASE DropReg(v)
  <2>1. regs' \in [Regs -> Reg]
    BY <1>8, <1>c, RegForms DEF DropReg, OnReg
  <2>2. QuietRows
    BY <1>8, <1>d, <1>e, <2>1 DEF DropReg, QuietRows
  <2>3. Goto(v, Idle) \/ (visit[v].user # Nobody /\ Goto(v, [visit[v] EXCEPT !.at = "drop user"]))
    BY <1>8 DEF DropReg, GotoAt
  <2>4. UNCHANGED <<wa, sweep, limits>> /\ visit[v].at = "drop"
    BY <1>8 DEF DropReg
  <2> QED
    BY <1>b, <2>2, <2>3, <2>4, IdleFits, NextSteps, QuietTables, TypeByGoto
<1>9. CASE DropUser(v)
  <2>a. visit[v].user \in Users
    BY <1>9, <1>c DEF DropUser, OnUser
  <2>1. regs' \in [Regs -> Reg]
    BY <1>9, <1>e DEF DropUser, Unreferenced, Reg
  <2>2. QuietRows
    BY <1>9, <1>e, <2>a, <2>1, UserForms DEF DropUser, QuietRows
  <2>3. Goto(v, Idle) \/ (visit[v].on \in Regs /\ Goto(v, [visit[v] EXCEPT !.at = "clear"]))
    BY <1>9 DEF DropUser, GotoAt
  <2>4. UNCHANGED <<wa, sweep, limits>> /\ visit[v].at = "drop user"
    BY <1>9 DEF DropUser
  <2> QED
    BY <1>b, <2>2, <2>3, <2>4, IdleFits, NextSteps, QuietTables, TypeByGoto
<1>10. CASE ClearUser(v)
  <2>1. regs' \in [Regs -> Reg]
    BY <1>10, <1>c, RegForms DEF ClearUser, OnReg
  <2>2. QuietRows
    BY <1>10, <1>d, <1>e, <2>1 DEF ClearUser, QuietRows
  <2>3. Goto(v, Idle) \/ (visit[v].at = "clear old" /\ Goto(v, [visit[v] EXCEPT !.at = "add"]))
    BY <1>10 DEF ClearUser, GotoAt
  <2> QED
    BY <1>10, <1>b, <2>2, <2>3, IdleFits, NextSteps, QuietTables, TypeByGoto DEF ClearUser
<1>11. CASE DropPlaceholder(v)
  <2>1. Quiet(users')
    BY <1>11, <1>c, UserForms DEF DropPlaceholder, OnUser
  <2>2. QuietRows
    BY <1>11, <1>e, <2>1 DEF DropPlaceholder, QuietRows
  <2>3. visit[v].at = "freshen" /\ Goto(v, [visit[v] EXCEPT !.at = "clear old"])
    BY <1>11 DEF DropPlaceholder, GotoAt
  <2> QED
    BY <1>11, <1>b, <2>2, <2>3, NextSteps, QuietTables, TypeByGoto DEF DropPlaceholder
<1>12. ASSUME NEW u \in Users, AddAccount(v, u) PROVE RegTypeInv'
  <2>1. NewAccount(v) \in Account /\ NewAccount(v).st = "disabled"
    BY <1>b DEF NewAccount, Account, Request
  <2>2. Quiet(users')
    BY <1>12, <1>d, <1>e, <2>1 DEF AddAccount, Quiet, Settled
  <2>3. QuietRows
    BY <1>12, <1>e, <2>2 DEF AddAccount, QuietRows
  <2>4. visit[v].at = "add" /\ (Goto(v, Idle) \/ Goto(v, [visit[v] EXCEPT !.at = "link", !.user = u]))
    BY <1>12 DEF AddAccount
  <2> QED
    BY <1>12, <1>b, <2>3, <2>4, IdleFits, NextSteps, QuietTables, TypeByGoto DEF AddAccount
<1>13. ASSUME NEW u \in Users, FinishRead(v, u) PROVE RegTypeInv'
  <2>1. wa[u].on \in Regs \cup Invites
    BY <1>13 DEF FinishRead, RegTypeInv
  <2> QED
    BY <1>13, <2>1, FirstSteps, TypeByBegin DEF FinishRead
<1>14. CASE LinkAccount(v)
  <2>a. visit[v].on \in Regs /\ visit[v].user \in Users
    BY <1>14, <1>c DEF LinkAccount, OnReg, OnUser
  <2>1. regs' \in [Regs -> Reg]
    BY <1>14, <1>e, <2>a DEF LinkAccount, Reg
  <2>2. wa' \in [Users -> Ceremony] /\ \A u \in Users : wa'[u].st = "open" => wa'[u].on \in Regs \cup Invites
    <3>1. [st |-> "open", on |-> visit[v].on, due |-> FALSE] \in Ceremony
      BY <2>a DEF Ceremony
    <3> QED
      BY <1>14, <1>d, <2>a, <3>1 DEF LinkAccount, RegTables
  <2>3. RegTables'
    BY <1>14, <1>d, <2>1, <2>2 DEF LinkAccount, RegTables
  <2> QED
    BY <1>14, <2>3, IdleFits, TypeByGoto DEF LinkAccount
<1>15. CASE FinishTake(v)
  <2>a. visit[v].user \in Users /\ visit[v].at = "take"
    BY <1>15, <1>c DEF FinishTake, OnUser
  <2>2. wa' \in [Users -> Ceremony] /\ \A u \in Users : wa'[u].st = "open" => wa'[u].on \in Regs \cup Invites
    <3>1. \A u \in Users : wa[u] \in Ceremony
      BY RowTypes
    <3>2. wa' = [wa EXCEPT ![visit[v].user].st = "done"]
      BY <1>15 DEF FinishTake
    <3>3. wa' \in [Users -> Ceremony]
      BY <1>e, <2>a, <3>1, <3>2 DEF Ceremony
    <3>4. \A u \in Users : wa'[u].st = "open" => wa'[u] = wa[u]
      BY <1>e, <2>a, <3>1, <3>2 DEF Ceremony
    <3> QED
      BY <1>d, <3>3, <3>4 DEF RegTables
  <2>3. RegTables'
    BY <1>15, <1>d, <2>2 DEF FinishTake, RegTables
  <2>4. \/ visit[v].on \in Invites /\ Goto(v, [visit[v] EXCEPT !.at = "bind invitee"])
        \/ visit[v].on \notin Invites /\ Goto(v, [visit[v] EXCEPT !.at = "check"])
    BY <1>15 DEF FinishTake, GotoAt
  <2> QED
    BY <1>b, <2>a, <2>3, <2>4, NextSteps, TypeByGoto
<1>16. CASE FinishCheck(v)
  <2>1. visit[v].at = "check" /\ (\/ Goto(v, [visit[v] EXCEPT !.at = "bind"])
                                  \/ Goto(v, [visit[v] EXCEPT !.at = "drop user", !.ceremony = "lost"]))
    BY <1>16 DEF FinishCheck, GotoAt
  <2>2. RegTables'
    BY <1>16, <1>d DEF FinishCheck, RegTables
  <2> QED
    BY <1>b, <2>1, <2>2, NextSteps, TypeByGoto
<1>17. CASE Bind(v)
  <2>1. visit[v].at = "bind" /\ (\/ Goto(v, Idle)
                                 \/ Goto(v, [visit[v] EXCEPT !.at = "drop user", !.ceremony = "failed"]))
        /\ (users' = users \/ users' = [users EXCEPT ![visit[v].user].auth = "passkey"])
    BY <1>17 DEF Bind, Fails
  <2>2. QuietRows
    BY <1>17, <1>c, <1>d, <1>e, <2>1, UserForms DEF Bind, QuietRows, OnUser
  <2>3. RegTables'
    BY <1>17, <2>2, QuietTables DEF Bind
  <2> QED
    BY <1>b, <2>1, <2>3, IdleFits, NextSteps, TypeByGoto
<1> QED
  BY <1>1, <1>2, <1>3, <1>4, <1>5, <1>6, <1>7, <1>8, <1>9, <1>10, <1>11, <1>12, <1>13, <1>14, <1>15,
     <1>16, <1>17 DEF Applicant

\* An account that becomes enabled is recorded with those who enabled it.
LEMMA StandingKept ==
  ASSUME RegTypeInv, NEW u \in Users, users' \in [Users -> Account], users'[u].st = "enabled",
         \A x \in Users \ {u} : users'[x] = users[x],
         admitted' \cup byHand' \cup invited' \subseteq admitted \cup byHand \cup invited \cup {u}
  PROVE  admitted' \cup byHand' \cup invited' \subseteq {x \in Users : users'[x].st \in {"enabled", "gone"}}
  BY DEF RegTypeInv, RegTypeOK

LEMMA InvitingTypes ==
  ASSUME RegTypeInv, NEW v \in Visitors, Inviting(v)
  PROVE  RegTypeInv'
<1>b. Fits(visit[v]) /\ visit[v] \in Request /\ visit[v].user \in Users \cup {Nobody}
      /\ visit[v].addr \in Addresses
  BY RowTypes
<1>c. /\ visit[v].at \in OnReg => visit[v].on \in Regs
      /\ visit[v].at \in OnInvite => visit[v].on \in Invites
      /\ visit[v].at \in OnUser => visit[v].user \in Users
  BY <1>b DEF Fits
<1>d. RegTables /\ Quiet(users)
  BY RegTablesNow DEF Quiet, RegTables, Settled
<1>e. regs \in [Regs -> Reg] /\ users \in [Users -> Account] /\ invites \in [Invites -> Invite]
      /\ wa \in [Users -> Ceremony] /\ uses \in [Invites -> Nat]
  BY <1>d DEF RegTables
<1>1. ASSUME NEW r \in Regs, ApproveRead(v, r) PROVE RegTypeInv'
  <2>1. regs[r].user \in Users \cup {Nobody} /\ regs[r].addr \in Addresses
    BY RowTypes
  <2>2. Fits([Idle EXCEPT !.at = "approve", !.on = r, !.user = regs[r].user, !.addr = regs[r].addr])
    BY <2>1, FirstSteps
  <2> QED
    BY <1>1, <2>2, TypeByBegin DEF ApproveRead
<1>2. CASE ApproveAccount(v)
  <2>a. visit[v].on \in Regs /\ visit[v].user \in Users
    BY <1>2, <1>b, <1>c DEF ApproveAccount, OnReg
  <2>1. regs' \in [Regs -> Reg]
    BY <1>2, <2>a, RegForms DEF ApproveAccount
  <2>2. users' = Enabled(visit[v].user) /\ users' \in [Users -> Account]
    BY <1>2, <2>a, UserForms DEF ApproveAccount
  <2>3. admitted' \cup byHand' \cup invited' \subseteq {x \in Users : users'[x].st \in {"enabled", "gone"}}
    <3>1. CASE Exists(visit[v].user)
      <4>1. users'[visit[v].user].st = "enabled" /\ \A x \in Users \ {visit[v].user} : users'[x] = users[x]
        BY <2>a, <2>2, <3>1, UserForms
      <4>2. admitted' = admitted \cup {visit[v].user} /\ byHand' = byHand /\ invited' = invited
        BY <1>2, <3>1 DEF ApproveAccount
      <4> QED
        BY <2>a, <2>2, <4>1, <4>2, StandingKept
    <3>2. CASE ~Exists(visit[v].user)
      <4>1. users' = users /\ admitted' = admitted /\ byHand' = byHand /\ invited' = invited
        BY <1>2, <2>a, <2>2, <3>2, UserForms DEF ApproveAccount
      <4> QED
        BY <1>d, <4>1 DEF RegTables
    <3> QED
      BY <3>1, <3>2
  <2>4. RegTables'
    BY <1>2, <1>d, <2>1, <2>2, <2>3 DEF ApproveAccount, RegTables
  <2> QED
    BY <1>2, <2>4, IdleFits, TypeByGoto DEF ApproveAccount
<1>3. CASE FindReg(v)
  <2>1. visit[v].at = "find" /\ Quiet(users')
    BY <1>3, <1>c, <1>d, UserForms DEF FindReg, OnUser
  <2>2. \E step : Fits(step) /\ Goto(v, step)
    BY <1>3, IdleFits, FirstSteps DEF FindReg
  <2>3. QuietRows
    BY <1>3, <1>e, <2>1 DEF FindReg, QuietRows
  <2> QED
    BY <1>3, <2>2, <2>3, QuietTables, TypeByGoto DEF FindReg
<1>4. CASE Reconnect(v)
  <2>a. visit[v].on \in Invites
    BY <1>4, <1>c DEF Reconnect, OnInvite
  <2>1. QuietRows
    BY <1>4, <1>d, <1>e, <2>a, InviteForms, UsesGrow DEF Reconnect, QuietRows
  <2> QED
    BY <1>4, <2>1, IdleFits, QuietTables, TypeByGoto DEF Reconnect
<1>5. CASE BindInvitee(v)
  <2>a. visit[v].on \in Invites /\ visit[v].user \in Users /\ visit[v].at = "bind invitee"
    BY <1>5, <1>c DEF BindInvitee, OnInvite, OnUser
  <2>1. \/ /\ users' = [users EXCEPT ![visit[v].user].auth = "passkey"]
           /\ invites' = Marked(visit[v].on)
           /\ uses' = [uses EXCEPT ![visit[v].on] = @ + 1]
           /\ Goto(v, Idle)
        \/ UNCHANGED <<users, invites, uses>>
           /\ Goto(v, [visit[v] EXCEPT !.at = "drop user", !.ceremony = "failed"])
    BY <1>5 DEF BindInvitee, Fails
  <2>2. QuietRows
    <3>1. Quiet(users') /\ invites' \in [Invites -> Invite] /\ uses' \in [Invites -> Nat]
      <4>1. Quiet(users')
        BY <1>d, <2>a, <2>1, UserForms
      <4>2. invites' \in [Invites -> Invite]
        <5>1. Marked(visit[v].on) \in [Invites -> Invite]
          BY <2>a, InviteForms
        <5>2. invites' = invites \/ invites' = Marked(visit[v].on)
          BY <2>1
        <5> QED
          BY <1>e, <5>1, <5>2
      <4>3. uses' \in [Invites -> Nat]
        BY <1>e, <2>a, <2>1, UsesGrow
      <4> QED
        BY <4>1, <4>2, <4>3
    <3> QED
      BY <1>5, <1>e, <3>1 DEF BindInvitee, QuietRows
  <2>3. RegTables'
    BY <1>5, <2>2, QuietTables DEF BindInvitee
  <2> QED
    BY <1>b, <2>a, <2>1, <2>3, IdleFits, NextSteps, TypeByGoto
<1>6. CASE DeleteInvite(v)
  <2>a. visit[v].on \in Invites
    BY <1>6, <1>c DEF DeleteInvite, OnInvite
  <2>1. QuietRows
    BY <1>6, <1>d, <1>e, <2>a, InviteForms DEF DeleteInvite, QuietRows
  <2>2. Goto(v, Idle) \/ (visit[v].at = "renew" /\ Goto(v, [visit[v] EXCEPT !.at = "reissue"]))
    BY <1>6 DEF DeleteInvite, GotoAt
  <2> QED
    BY <1>6, <1>b, <2>1, <2>2, IdleFits, NextSteps, QuietTables, TypeByGoto DEF DeleteInvite
<1>7. CASE Abort(v)
  <2>1. RegTables'
    BY <1>7, <1>d DEF Abort, RegTables
  <2> QED
    BY <1>7, <2>1, IdleFits, TypeByGoto DEF Abort
<1>8. ASSUME NEW i \in Invites, ApproveInvite(v, i) PROVE RegTypeInv'
  <2>a. visit[v].on \in Regs
    BY <1>8, <1>c DEF ApproveInvite, OnReg
  <2>1. regs' \in [Regs -> Reg]
    BY <1>8, <1>e, <2>a, RegForms DEF ApproveInvite
  <2>2. QuietRows
    BY <1>8, <1>b, <1>d, <1>e, <2>1, InviteForms DEF ApproveInvite, QuietRows
  <2> QED
    BY <1>8, <2>2, IdleFits, QuietTables, TypeByGoto DEF ApproveInvite
<1>9. ASSUME NEW i \in Invites, Reissue(v, i) PROVE RegTypeInv'
  <2>1. QuietRows
    BY <1>9, <1>b, <1>d, <1>e, InviteForms DEF Reissue, QuietRows
  <2> QED
    BY <1>9, <2>1, IdleFits, QuietTables, TypeByGoto DEF Reissue
<1>10. ASSUME NEW i \in Invites, NEW at \in {"revoke", "renew"}, RevokeRead(v, i, at) PROVE RegTypeInv'
  BY <1>10, RowTypes, FirstSteps, TypeByBegin DEF RevokeRead
<1>11. ASSUME NEW i \in Invites, NEW at \in {"redeem", "add invitee"}, NEW a \in Addresses, InviteRead(v, i, at, a)
       PROVE  RegTypeInv'
  BY <1>11, FirstSteps, TypeByBegin DEF InviteRead
<1>12. ASSUME NEW u \in Users, EnableByHand(v, u) PROVE RegTypeInv'
  <2>1. Goto(v, [Idle EXCEPT !.at = "find", !.user = u])
        /\ limits' \in [requests : 0 .. MaxRequests, late : 0 .. MaxLate]
    BY <1>12, Begun DEF EnableByHand
  <2>2. users' = [users EXCEPT ![u].st = "enabled"] /\ users' \in [Users -> Account]
    BY <1>12, UserForms DEF EnableByHand
  <2>3. users'[u].st = "enabled" /\ \A x \in Users \ {u} : users'[x] = users[x]
    BY <1>e, <2>2 DEF Account
  <2>4. admitted' \cup byHand' \cup invited' \subseteq {x \in Users : users'[x].st \in {"enabled", "gone"}}
    BY <1>12, <2>2, <2>3, StandingKept DEF EnableByHand
  <2>5. RegTables'
    BY <1>12, <1>d, <2>1, <2>2, <2>4 DEF EnableByHand, RegTables
  <2> QED
    BY <2>1, <2>5, FirstSteps, TypeByGoto
<1>13. ASSUME NEW u \in Users, Redeem(v, u) PROVE RegTypeInv'
  <2>a. visit[v].on \in Invites
    BY <1>13, <1>c DEF Redeem, OnInvite
  <2>1. CASE Free(visit[v].addr)
    <3>1. users' = [users EXCEPT ![u] = [st |-> "enabled", addr |-> visit[v].addr, auth |-> "password",
                                         member |-> FALSE]]
          /\ invites' = Marked(visit[v].on) /\ invited' = invited \cup {u}
          /\ uses' = [uses EXCEPT ![visit[v].on] = @ + 1]
      BY <1>13, <2>1 DEF Redeem
    <3>2. users' \in [Users -> Account] /\ users'[u].st = "enabled" /\ \A x \in Users \ {u} : users'[x] = users[x]
      BY <1>b, <1>e, <3>1 DEF Account
    <3>3. admitted' \cup byHand' \cup invited' \subseteq {x \in Users : users'[x].st \in {"enabled", "gone"}}
      BY <1>13, <3>1, <3>2, StandingKept DEF Redeem
    <3> QED
      BY <1>13, <1>d, <2>a, <3>1, <3>2, <3>3, InviteForms, UsesGrow, IdleFits, TypeByGoto DEF Redeem, RegTables
  <2>2. CASE ~Free(visit[v].addr)
    <3>1. RegTables'
      BY <1>13, <1>d, <2>2 DEF Redeem, RegTables
    <3> QED
      BY <1>13, <3>1, IdleFits, TypeByGoto DEF Redeem
  <2> QED
    BY <2>1, <2>2
<1>14. ASSUME NEW u \in Users, AddInvitee(v, u) PROVE RegTypeInv'
  <2>a. visit[v].on \in Invites
    BY <1>14, <1>c DEF AddInvitee, OnInvite
  <2>1. CASE Free(visit[v].addr)
    <3>1. users' = [users EXCEPT ![u] = [st |-> "enabled", addr |-> visit[v].addr, auth |-> "none",
                                         member |-> FALSE]]
          /\ wa' = [wa EXCEPT ![u] = [st |-> "open", on |-> visit[v].on, due |-> FALSE]]
          /\ invited' = invited \cup {u}
      BY <1>14, <2>1 DEF AddInvitee
    <3>2. users' \in [Users -> Account] /\ users'[u].st = "enabled" /\ \A x \in Users \ {u} : users'[x] = users[x]
      BY <1>b, <1>e, <3>1 DEF Account
    <3>3. admitted' \cup byHand' \cup invited' \subseteq {x \in Users : users'[x].st \in {"enabled", "gone"}}
      BY <1>14, <3>1, <3>2, StandingKept DEF AddInvitee
    <3>4. wa' \in [Users -> Ceremony] /\ \A x \in Users : wa'[x].st = "open" => wa'[x].on \in Regs \cup Invites
      <4>1. [st |-> "open", on |-> visit[v].on, due |-> FALSE] \in Ceremony
        BY <2>a DEF Ceremony
      <4> QED
        BY <1>d, <2>a, <3>1, <4>1 DEF RegTables
    <3>5. RegTables'
      BY <1>14, <1>d, <3>2, <3>3, <3>4 DEF AddInvitee, RegTables
    <3> QED
      BY <1>14, <3>5, IdleFits, TypeByGoto DEF AddInvitee
  <2>2. CASE ~Free(visit[v].addr)
    <3>1. RegTables'
      BY <1>14, <1>d, <2>2 DEF AddInvitee, RegTables
    <3> QED
      BY <1>14, <3>1, IdleFits, TypeByGoto DEF AddInvitee
  <2> QED
    BY <2>1, <2>2
<1> QED
  BY <1>1, <1>2, <1>3, <1>4, <1>5, <1>6, <1>7, <1>8, <1>9, <1>10, <1>11, <1>12, <1>13, <1>14 DEF Inviting

LEMMA HousekeepingTypes ==
  ASSUME RegTypeInv, Housekeeping
  PROVE  RegTypeInv'
<1>d. RegTables /\ Quiet(users)
  BY RegTablesNow DEF Quiet, RegTables, Settled
<1>e. /\ regs \in [Regs -> Reg] /\ \A r \in Regs : regs[r] \in Reg
      /\ users \in [Users -> Account] /\ \A u \in Users : users[u] \in Account
      /\ invites \in [Invites -> Invite] /\ \A i \in Invites : invites[i] \in Invite
      /\ wa \in [Users -> Ceremony] /\ \A u \in Users : wa[u] \in Ceremony
      /\ uses \in [Invites -> Nat] /\ sweep \in Sweep
  BY <1>d, RowTypes DEF RegTables
<1>f. Late => limits' \in [requests : 0 .. MaxRequests, late : 0 .. MaxLate]
  BY <1>d, RegistrationAssumption DEF Late, RegTables
<1>1. CASE SweepList
  <2>1. regs' \in [Regs -> Reg]
    <3>1. \A r \in Regs : [regs[r] EXCEPT !.st = "gone"] \in Reg
      BY <1>e DEF Reg
    <3> QED
      BY <1>1, <1>e, <3>1 DEF SweepList
  <2>2. {<<r, regs[r].user, regs[r].user \notin admitted>> : r \in Overdue}
          \in SUBSET (Regs \X (Users \cup {Nobody}) \X BOOLEAN)
    <3>1. ASSUME NEW r \in Overdue
          PROVE  <<r, regs[r].user, regs[r].user \notin admitted>> \in Regs \X (Users \cup {Nobody}) \X BOOLEAN
      <4>1. r \in Regs /\ regs[r].user \in Users \cup {Nobody} /\ (regs[r].user \notin admitted) \in BOOLEAN
        BY RowTypes DEF Overdue
      <4> QED
        BY <4>1
    <3> QED
      BY <3>1
  <2>3. sweep' \in Sweep
    BY <1>1, <1>e, <2>2 DEF SweepList, Sweep
  <2>4. RegTables'
    BY <1>1, <1>d, <2>1, <2>3 DEF SweepList, RegTables
  <2> QED
    BY <1>1, <2>4, TypeByRest DEF SweepList
<1>2. CASE SweepReg
  <2>1. PICK p \in sweep.todo :
          regs' = WithoutReg(p[1]) /\ sweep' = [todo |-> sweep.todo \ {p}, user |-> p[2], early |-> p[3]]
    BY <1>2 DEF SweepReg
  <2>2. p[1] \in Regs /\ p[2] \in Users \cup {Nobody} /\ p[3] \in BOOLEAN
    BY <1>e, <2>1 DEF Sweep
  <2>3. regs' \in [Regs -> Reg] /\ sweep' \in Sweep
    BY <1>e, <2>1, <2>2, RegForms DEF Sweep
  <2>4. RegTables'
    BY <1>2, <1>d, <2>3 DEF SweepReg, RegTables
  <2> QED
    BY <1>2, <2>4, TypeByRest DEF SweepReg
<1>3. CASE SweepUser
  <2>1. sweep.user \in Users
    BY <1>3, <1>e DEF SweepUser, Sweep
  <2>2. regs' \in [Regs -> Reg]
    <3>1. \A r \in Regs : [regs[r] EXCEPT !.user = Nobody] \in Reg
      BY <1>e DEF Reg
    <3> QED
      BY <1>3, <1>e, <3>1 DEF SweepUser, Unreferenced
  <2>3. Quiet(users')
    BY <1>3, <2>1, UserForms DEF SweepUser
  <2>4. sweep' \in Sweep
    BY <1>3, <1>e DEF SweepUser, Sweep
  <2>5. RegTables'
    BY <1>3, <1>d, <2>2, <2>3, <2>4 DEF SweepUser, RegTables, Quiet, Settled
  <2> QED
    BY <1>3, <2>5, TypeByRest DEF SweepUser
<1>4. CASE SweepInvites
  <2>1. invites' \in [Invites -> Invite]
    <3>1. \A i \in Invites : [invites[i] EXCEPT !.st = "gone"] \in Invite
      BY <1>e DEF Invite
    <3> QED
      BY <1>4, <1>e, <3>1 DEF SweepInvites
  <2>2. RegTables'
    BY <1>4, <1>d, <2>1 DEF SweepInvites, RegTables
  <2> QED
    BY <1>4, <2>2, TypeByRest DEF SweepInvites
<1>5. CASE SweepCeremonies
  <2>1. Quiet(users')
    <3>1. \A u \in Users : [users[u] EXCEPT !.st = "gone"] \in Account /\ [users[u] EXCEPT !.st = "gone"].st = "gone"
      BY <1>e DEF Account
    <3> QED
      BY <1>5, <1>d, <1>e, <3>1 DEF SweepCeremonies, Quiet, Settled
  <2>2. wa' \in [Users -> Ceremony] /\ \A u \in Users : wa'[u].st = "open" => wa'[u].on \in Regs \cup Invites
    <3>1. \A u \in Users : /\ [wa[u] EXCEPT !.st = "done"] \in Ceremony
                           /\ [wa[u] EXCEPT !.st = "done"].st = "done"
      BY <1>e DEF Ceremony
    <3> QED
      BY <1>5, <1>d, <1>e, <3>1 DEF SweepCeremonies, RegTables
  <2>3. RegTables'
    BY <1>5, <1>d, <2>1, <2>2 DEF SweepCeremonies, RegTables, Quiet, Settled
  <2> QED
    BY <1>5, <2>3, TypeByRest DEF SweepCeremonies
<1>6. ASSUME NEW i \in Invites, CreateInvite(i) PROVE RegTypeInv'
  <2>1. invites' \in [Invites -> Invite]
    BY <1>6, InviteForms DEF CreateInvite, Addresses
  <2>2. RegTables'
    BY <1>6, <1>d, <2>1 DEF CreateInvite, RegTables
  <2> QED
    BY <1>6, <2>2, TypeByRest DEF CreateInvite
<1>7. ASSUME NEW i \in Invites, InviteExpires(i) PROVE RegTypeInv'
  <2>1. RegTables'
    BY <1>7, <1>d, <1>f, InviteForms DEF InviteExpires, RegTables
  <2> QED
    BY <1>7, <2>1, TypeByRest DEF InviteExpires
<1>8. ASSUME NEW r \in Regs, RegExpires(r) PROVE RegTypeInv'
  <2>1. RegTables'
    BY <1>8, <1>d, <1>f, RegForms DEF RegExpires, RegTables
  <2> QED
    BY <1>8, <2>1, TypeByRest DEF RegExpires
<1>9. ASSUME NEW u \in Users, CeremonyExpires(u) PROVE RegTypeInv'
  <2>1. wa' \in [Users -> Ceremony] /\ \A x \in Users : wa'[x].st = wa[x].st /\ wa'[x].on = wa[x].on
    BY <1>9, <1>e DEF CeremonyExpires, Ceremony
  <2>2. RegTables'
    BY <1>9, <1>d, <1>f, <2>1 DEF CeremonyExpires, RegTables
  <2> QED
    BY <1>9, <2>2, TypeByRest DEF CeremonyExpires
<1> QED
  BY <1>1, <1>2, <1>3, <1>4, <1>5, <1>6, <1>7, <1>8, <1>9 DEF Housekeeping

LEMMA RegStepTypes == RegTypeInv /\ [RegNext]_regVars => RegTypeInv'
<1>1. ASSUME RegTypeInv, UNCHANGED regVars PROVE RegTypeInv'
  <2>1. RegTables'
    BY <1>1, RegTablesNow DEF regVars, RegTables
  <2> QED
    BY <1>1, <2>1, TypeByRest DEF regVars
<1> QED
  BY <1>1, ApplicantTypes, InvitingTypes, HousekeepingTypes DEF RegNext

\* Registrations, accounts, invites, ceremonies and requests keep the types that
\* RegTypeOK gives them, and nobody is admitted or invited without having existed.
THEOREM RegTypeCorrect == RegSpec => []RegTypeOK
<1>1. RegTypeInv => RegTypeOK
  BY DEF RegTypeInv
<1> QED
  BY <1>1, RegInitTypes, RegStepTypes, PTL DEF RegSpec

-----------------------------------------------------------------------------
(* Registration: who can sign in, and links that were redeemed.             *)

EnabledInv == EnabledOnlyIfAdmitted

\* Nobody but an approval, an admin and an invite enables an account.
LEMMA EnabledStep == RegTypeInv /\ EnabledInv /\ [RegNext]_regVars => EnabledInv'
<1> SUFFICES ASSUME RegTypeInv, EnabledInv, [RegNext]_regVars PROVE EnabledInv'
  OBVIOUS
<1>a. users \in [Users -> Account] /\ \A u \in Users : users[u] \in Account
  BY DEF RegTypeInv, RegTypeOK
<1>b. \A v \in Visitors : visit[v].at \in OnUser => visit[v].user \in Users
  BY RowTypes DEF Fits
<1>c. sweep.user \in Users \cup {Nobody}
  BY DEF RegTypeInv, RegTypeOK
<1>1. ASSUME \A u \in Users : users'[u].st = "enabled" => users[u].st = "enabled",
             UNCHANGED <<admitted, byHand, invited>>
      PROVE  EnabledInv'
  BY <1>1 DEF EnabledInv, EnabledOnlyIfAdmitted
<1>2. CASE UNCHANGED <<users, admitted, byHand, invited>>
  BY <1>1, <1>2
<1>d. ASSUME Quiet(users'), UNCHANGED <<admitted, byHand, invited>> PROVE EnabledInv'
  BY <1>1, <1>d DEF Quiet
<1>e. ASSUME NEW u \in Users, users' = [users EXCEPT ![u].auth = "passkey"] PROVE Quiet(users')
  BY <1>e, UserForms
<1>3. ASSUME NEW v \in Visitors, Applicant(v), users' # users PROVE EnabledInv'
  <2>1. CASE DropUser(v)
    BY <1>1, <1>b, <2>1, UserForms DEF DropUser, Quiet, OnUser
  <2>2. CASE DropPlaceholder(v)
    <3>1. visit[v].user \in Users /\ users' = [users EXCEPT ![visit[v].user].st = "gone"]
      BY <1>3, <1>b, <2>2 DEF DropPlaceholder, OnUser
    <3>2. Quiet(users')
      BY <3>1, UserForms
    <3> QED
      BY <1>d, <2>2, <3>2 DEF DropPlaceholder
  <2>3. ASSUME NEW u \in Users, AddAccount(v, u) PROVE EnabledInv'
    <3>1. NewAccount(v).st = "disabled"
      BY DEF NewAccount
    <3> QED
      BY <1>1, <1>3, <1>a, <2>3, <3>1 DEF AddAccount
  <2>4. CASE Bind(v)
    <3>1. visit[v].user \in Users /\ users' = [users EXCEPT ![visit[v].user].auth = "passkey"]
      BY <1>3, <1>b, <2>4 DEF Bind, OnUser
    <3> QED
      BY <1>d, <1>e, <2>4, <3>1 DEF Bind
  <2> QED
    BY <1>3, <2>1, <2>2, <2>3, <2>4
       DEF Applicant, RegisterCheck, RegisterInsert, VerifyRead, WithdrawRead, PasswordRead, PasskeyBegin,
           SetVerified, DropReg, ClearUser, FinishRead, LinkAccount, FinishTake, FinishCheck
<1>4. ASSUME NEW v \in Visitors, Applicant(v), users' = users PROVE EnabledInv'
  <2>1. UNCHANGED <<admitted, byHand, invited>>
    BY <1>4 DEF Applicant, RegisterCheck, RegisterInsert, VerifyRead, WithdrawRead, PasswordRead, PasskeyBegin,
           SetVerified, DropReg, ClearUser, FinishRead, LinkAccount, FinishTake, FinishCheck,
           DropUser, DropPlaceholder, AddAccount, Bind
  <2> QED
    BY <1>2, <1>4, <2>1
<1>5. ASSUME NEW v \in Visitors, Inviting(v) PROVE EnabledInv'
  <2>1. CASE ApproveAccount(v)
    <3>1. visit[v].user \in Users
      BY <2>1, RowTypes DEF ApproveAccount
    <3>2. users' = Enabled(visit[v].user) /\ UNCHANGED <<byHand, invited>>
          /\ admitted' = IF Exists(visit[v].user) THEN admitted \cup {visit[v].user} ELSE admitted
      BY <2>1 DEF ApproveAccount
    <3> QED
      BY <3>1, <3>2, UserForms DEF EnabledInv, EnabledOnlyIfAdmitted
  <2>2. CASE FindReg(v)
    <3>1. visit[v].user \in Users /\ (users' = users \/ users' = Joined(visit[v].user))
      BY <1>b, <2>2 DEF FindReg, OnUser
    <3>2. Quiet(users')
      BY <3>1, UserForms
    <3> QED
      BY <1>d, <2>2, <3>2 DEF FindReg
  <2>3. CASE BindInvitee(v)
    <3>1. visit[v].user \in Users /\ (users' = users \/ users' = [users EXCEPT ![visit[v].user].auth = "passkey"])
      BY <1>b, <2>3 DEF BindInvitee, OnUser
    <3>2. Quiet(users')
      BY <1>e, <3>1, UserForms
    <3> QED
      BY <1>d, <2>3, <3>2 DEF BindInvitee
  <2>4. ASSUME NEW u \in Users, EnableByHand(v, u) PROVE EnabledInv'
    BY <1>a, <2>4 DEF EnableByHand, EnabledInv, EnabledOnlyIfAdmitted
  <2>5. ASSUME NEW u \in Users, Redeem(v, u) PROVE EnabledInv'
    BY <1>2, <1>a, <2>5 DEF Redeem, EnabledInv, EnabledOnlyIfAdmitted
  <2>6. ASSUME NEW u \in Users, AddInvitee(v, u) PROVE EnabledInv'
    BY <1>2, <1>a, <2>6 DEF AddInvitee, EnabledInv, EnabledOnlyIfAdmitted
  <2> QED
    BY <1>2, <1>5, <2>1, <2>2, <2>3, <2>4, <2>5, <2>6
       DEF Inviting, ApproveRead, Reconnect, DeleteInvite, Abort, ApproveInvite, Reissue, RevokeRead, InviteRead
<1>6. CASE Housekeeping
  <2>1. CASE SweepUser
    BY <1>1, <1>c, <2>1, UserForms DEF SweepUser, Quiet
  <2>2. CASE SweepCeremonies
    BY <1>1, <1>a, <2>2 DEF SweepCeremonies, Account
  <2> QED
    BY <1>2, <1>6, <2>1, <2>2
       DEF Housekeeping, SweepList, SweepReg, SweepInvites, CreateInvite, InviteExpires, RegExpires, CeremonyExpires
<1> QED
  BY <1>2, <1>3, <1>4, <1>5, <1>6 DEF RegNext, regVars

\* Whoever can sign in was approved, invited or enabled by an admin, for any number of
\* applicants, invites, approvals and sweeps at once.
THEOREM EnabledTheorem == RegSpec => []EnabledOnlyIfAdmitted
<1>1. RegInit => EnabledInv
  BY DEF RegInit, EnabledInv, EnabledOnlyIfAdmitted
<1>2. EnabledInv => EnabledOnlyIfAdmitted
  BY DEF EnabledInv
<1> QED
  BY <1>1, <1>2, RegInitTypes, RegStepTypes, EnabledStep, PTL DEF RegSpec

\* A link that was redeemed is used or gone, and who redeems one has seen it open.
Redeemers == {"redeem", "take", "bind invitee"}
Seen == Redeemers \cup {"add invitee"}
SpentInv ==
  /\ \A i \in Invites : uses[i] > 0 => invites[i].st \in {"used", "gone"}
  /\ \A v \in Visitors : visit[v].at \in Seen /\ visit[v].on \in Invites => invites[visit[v].on].st # "none"
  /\ \A u \in Users : wa[u].on \in Invites => invites[wa[u].on].st # "none"

\* A link is opened once and never opened again.
LinksForward ==
  \A i \in Invites : /\ invites[i].st # "none" => invites'[i].st # "none"
                     /\ invites[i].st \in {"used", "gone"} => invites'[i].st \in {"used", "gone"}
\* Who holds a link has held it, or finds it open.
HeldBefore(x) ==
  visit'[x].at \in Seen /\ visit'[x].on \in Invites =>
    \/ invites[visit'[x].on].st = "open"
    \/ /\ visit[x].at \in Seen /\ visit[x].on = visit'[x].on
       /\ visit'[x].at \in Redeemers => visit[x].at \in Redeemers
CeremonyBefore(u) ==
  wa'[u].on \in Invites => wa'[u].on = wa[u].on \/ invites[wa'[u].on].st # "none"
Redeems(i) ==
  /\ \E v \in Visitors : visit[v].at \in {"redeem", "bind invitee"} /\ visit[v].on = i
  /\ invites' = Marked(i)

LEMMA StepLinks == RegTypeInv /\ [RegNext]_regVars => LinksForward
<1> SUFFICES ASSUME RegTypeInv, [RegNext]_regVars PROVE LinksForward
  OBVIOUS
<1>a. invites \in [Invites -> Invite] /\ \A i \in Invites : invites[i] \in Invite
  BY DEF RegTypeInv, RegTypeOK
<1>b. \A v \in Visitors : visit[v].at \in OnInvite => visit[v].on \in Invites
  BY RowTypes DEF Fits
<1>1. CASE invites' = invites
  BY <1>1 DEF LinksForward
<1>2. ASSUME NEW i \in Invites, invites[i].st = "none", NEW a,
             invites' = [invites EXCEPT ![i] = [st |-> "open", preset |-> a, due |-> FALSE]]
      PROVE  LinksForward
  BY <1>2, <1>a DEF LinksForward
<1>3. ASSUME NEW i \in Invites, invites' = Marked(i) PROVE LinksForward
  BY <1>3, <1>a DEF LinksForward, Marked, Invite
<1>4. ASSUME NEW i \in Invites, invites' = [invites EXCEPT ![i].st = "gone"] PROVE LinksForward
  BY <1>4, <1>a DEF LinksForward, Invite
<1>5. ASSUME NEW v \in Visitors, Inviting(v) PROVE LinksForward
  <2>1. CASE Reconnect(v) \/ BindInvitee(v) \/ (\E u \in Users : Redeem(v, u))
    <3>1. visit[v].on \in Invites
      BY <1>b, <2>1 DEF Reconnect, BindInvitee, Redeem, OnInvite
    <3>2. invites' = invites \/ invites' = Marked(visit[v].on)
      BY <2>1 DEF Reconnect, BindInvitee, Redeem
    <3> QED
      BY <1>1, <1>3, <3>1, <3>2
  <2>2. CASE DeleteInvite(v)
    <3>1. visit[v].on \in Invites
      BY <1>b, <2>2 DEF DeleteInvite, OnInvite
    <3>2. invites' = invites \/ invites' = [invites EXCEPT ![visit[v].on].st = "gone"]
      BY <2>2 DEF DeleteInvite
    <3> QED
      BY <1>1, <1>4, <3>1, <3>2
  <2>3. ASSUME NEW i \in Invites, ApproveInvite(v, i) \/ Reissue(v, i) PROVE LinksForward
    BY <1>2, <2>3 DEF ApproveInvite, Reissue
  <2> QED
    BY <1>1, <1>5, <2>1, <2>2, <2>3
       DEF Inviting, ApproveRead, ApproveAccount, FindReg, Abort, RevokeRead, InviteRead, EnableByHand, AddInvitee
<1>6. CASE Housekeeping
  <2>1. CASE SweepInvites
    <3>1. \A i \in Invites : invites'[i] = invites[i] \/ invites'[i] = [invites[i] EXCEPT !.st = "gone"]
      BY <2>1 DEF SweepInvites
    <3> QED
      BY <1>a, <3>1 DEF LinksForward, Invite
  <2>2. ASSUME NEW i \in Invites, CreateInvite(i) PROVE LinksForward
    BY <1>2, <2>2 DEF CreateInvite
  <2>3. ASSUME NEW i \in Invites, InviteExpires(i) PROVE LinksForward
    BY <1>a, <2>3 DEF InviteExpires, LinksForward, Invite
  <2> QED
    BY <1>1, <1>6, <2>1, <2>2, <2>3
       DEF Housekeeping, SweepList, SweepReg, SweepUser, SweepCeremonies, RegExpires, CeremonyExpires
<1>7. ASSUME NEW v \in Visitors, Applicant(v) PROVE LinksForward
  BY <1>1, <1>7 DEF Applicant, RegisterCheck, RegisterInsert, VerifyRead, WithdrawRead, PasswordRead, PasskeyBegin,
     SetVerified, DropReg, DropUser, ClearUser, DropPlaceholder, AddAccount, FinishRead, LinkAccount, FinishTake,
     FinishCheck, Bind
<1> QED
  BY <1>1, <1>5, <1>6, <1>7 DEF RegNext, regVars

\* The steps after which a request holds no link.
LetsGo(v) == \E step : Goto(v, step) /\ step.at \notin Seen
LEMMA HeldByGoto ==
  ASSUME RegTypeInv, NEW v \in Visitors, LetsGo(v), NEW x \in Visitors
  PROVE  HeldBefore(x)
<1>1. PICK step : Goto(v, step) /\ step.at \notin Seen
  BY DEF LetsGo
<1>2. visit'[v] = step /\ (x # v => visit'[x] = visit[x])
  BY <1>1 DEF RegTypeInv, RegTypeOK, Goto
<1> QED
  BY <1>1, <1>2 DEF HeldBefore

LEMMA LettingGo ==
  ASSUME RegTypeInv, NEW v \in Visitors
  PROVE  /\ Goto(v, Idle) => LetsGo(v)
         /\ \A at : at \notin Seen /\ GotoAt(v, at) => LetsGo(v)
         /\ Fails(v) => LetsGo(v)
<1>1. visit[v] \in Request
  BY RowTypes
<1>2. Goto(v, Idle) => LetsGo(v)
  BY IdleFits DEF LetsGo, Seen, Redeemers
<1>3. ASSUME NEW at, at \notin Seen, GotoAt(v, at) PROVE LetsGo(v)
  <2>1. [visit[v] EXCEPT !.at = at].at = at
    BY <1>1 DEF Request
  <2> QED
    BY <1>3, <2>1 DEF LetsGo, GotoAt
<1>4. Fails(v) => LetsGo(v)
  <2>1. [visit[v] EXCEPT !.at = "drop user", !.ceremony = "failed"].at = "drop user"
    BY <1>1 DEF Request
  <2> QED
    BY <2>1 DEF Fails, LetsGo, Seen, Redeemers
<1> QED
  BY <1>2, <1>3, <1>4

LEMMA StepHeld == RegTypeInv /\ [RegNext]_regVars => \A x \in Visitors : HeldBefore(x)
<1> SUFFICES ASSUME RegTypeInv, [RegNext]_regVars, NEW x \in Visitors PROVE HeldBefore(x)
  OBVIOUS
<1>a. visit \in [Visitors -> Request]
  BY DEF RegTypeInv, RegTypeOK
<1>1. CASE visit' = visit
  BY <1>1 DEF HeldBefore
<1>2. ASSUME NEW v \in Visitors, LetsGo(v) PROVE HeldBefore(x)
  BY <1>2, HeldByGoto
<1>3. ASSUME NEW v \in Visitors, Applicant(v) PROVE HeldBefore(x)
  <2>1. ASSUME NEW a \in Addresses, RegisterCheck(v, a) PROVE LetsGo(v)
    <3>1. [Idle EXCEPT !.at = "insert", !.addr = a].at \notin Seen
      BY DEF Idle, Seen, Redeemers
    <3> QED
      BY <2>1, <3>1, Begun DEF RegisterCheck, LetsGo
  <2>2. ASSUME NEW r \in Regs, VerifyRead(v, r) PROVE LetsGo(v)
    <3>1. \A at \in {"drop", "verify"} : [Idle EXCEPT !.at = at, !.on = r].at \notin Seen
      BY DEF Idle, Seen, Redeemers
    <3> QED
      BY <2>2, <3>1, Begun DEF VerifyRead, LetsGo
  <2>3. ASSUME NEW r \in Regs, WithdrawRead(v, r) PROVE LetsGo(v)
    <3>1. [Idle EXCEPT !.at = "drop", !.on = r, !.user = regs[r].user,
                       !.early = regs[r].user \notin admitted].at \notin Seen
      BY DEF Idle, Seen, Redeemers
    <3> QED
      BY <2>3, <3>1, Begun DEF WithdrawRead, LetsGo
  <2>4. ASSUME NEW r \in Regs, PasswordRead(v, r) PROVE LetsGo(v)
    <3>1. [Idle EXCEPT !.at = "add", !.on = r, !.addr = regs[r].addr, !.auth = "password"].at \notin Seen
      BY DEF Idle, Seen, Redeemers
    <3> QED
      BY <2>4, <3>1, Begun DEF PasswordRead, LetsGo
  <2>5. ASSUME NEW r \in Regs, PasskeyBegin(v, r) PROVE LetsGo(v)
    <3>1. \A at \in {"add", "freshen"} :
            [Idle EXCEPT !.at = at, !.on = r, !.addr = regs[r].addr, !.user = regs[r].user].at \notin Seen
      BY DEF Idle, Seen, Redeemers
    <3> QED
      BY <2>5, <3>1, Begun DEF PasskeyBegin, LetsGo
  <2>6. CASE SetVerified(v) \/ LinkAccount(v) \/ \E r \in Regs : RegisterInsert(v, r)
    BY <2>6, LettingGo, <1>2 DEF SetVerified, LinkAccount, RegisterInsert
  <2>7. CASE DropReg(v) \/ DropUser(v) \/ ClearUser(v) \/ DropPlaceholder(v)
    <3>1. {"drop user", "clear", "add", "clear old"} \cap Seen = {}
      BY DEF Seen, Redeemers
    <3> QED
      BY <1>2, <2>7, <3>1, LettingGo DEF DropReg, DropUser, ClearUser, DropPlaceholder
  <2>8. ASSUME NEW u \in Users, AddAccount(v, u) PROVE LetsGo(v)
    <3>1. [visit[v] EXCEPT !.at = "link", !.user = u].at \notin Seen
      BY RowTypes DEF Request, Seen, Redeemers
    <3> QED
      BY <2>8, <3>1, LettingGo DEF AddAccount, LetsGo
  <2>9. ASSUME NEW u \in Users, FinishRead(v, u) PROVE HeldBefore(x)
    <3>1. Goto(v, [Idle EXCEPT !.at = "take", !.on = wa[u].on, !.user = u])
      BY <2>9, Begun DEF FinishRead
    <3>2. wa[u].on \in Invites => invites[wa[u].on].st = "open"
      BY <2>9 DEF FinishRead
    <3>3. visit'[v].on = wa[u].on /\ (x # v => visit'[x] = visit[x])
      BY <1>a, <3>1 DEF Goto, Idle
    <3> QED
      BY <3>2, <3>3 DEF HeldBefore
  <2>10. CASE FinishTake(v)
    <3>1. visit[v].at = "take" /\ \E at : visit' = [visit EXCEPT ![v] = [visit[v] EXCEPT !.at = at]]
      BY <2>10 DEF FinishTake, GotoAt, Goto
    <3>2. visit'[v].on = visit[v].on /\ (x # v => visit'[x] = visit[x])
      BY <1>a, <3>1 DEF Request
    <3> QED
      BY <3>1, <3>2 DEF HeldBefore, Seen, Redeemers
  <2>11. CASE FinishCheck(v) \/ Bind(v)
    <3>1. "bind" \notin Seen /\ [visit[v] EXCEPT !.at = "drop user", !.ceremony = "lost"].at \notin Seen
      BY RowTypes DEF Request, Seen, Redeemers
    <3> QED
      BY <1>2, <2>11, <3>1, LettingGo DEF FinishCheck, Bind, LetsGo
  <2> QED
    BY <1>2, <1>3, <2>1, <2>2, <2>3, <2>4, <2>5, <2>6, <2>7, <2>8, <2>9, <2>10, <2>11 DEF Applicant
<1>4. ASSUME NEW v \in Visitors, Inviting(v) PROVE HeldBefore(x)
  <2>1. ASSUME NEW r \in Regs, ApproveRead(v, r) PROVE LetsGo(v)
    <3>1. [Idle EXCEPT !.at = "approve", !.on = r, !.user = regs[r].user, !.addr = regs[r].addr].at \notin Seen
      BY DEF Idle, Seen, Redeemers
    <3> QED
      BY <2>1, <3>1, Begun DEF ApproveRead, LetsGo
  <2>2. CASE ApproveAccount(v) \/ Reconnect(v) \/ BindInvitee(v) \/ Abort(v)
    BY <1>2, <2>2, LettingGo DEF ApproveAccount, Reconnect, BindInvitee, Abort
  <2>3. ASSUME FindReg(v) PROVE LetsGo(v)
    <3>1. \A r \in Regs : [Idle EXCEPT !.at = "drop", !.on = r].at \notin Seen
      BY DEF Idle, Seen, Redeemers
    <3> QED
      BY <2>3, <3>1, LettingGo DEF FindReg, LetsGo
  <2>4. CASE DeleteInvite(v)
    <3>1. "reissue" \notin Seen
      BY DEF Seen, Redeemers
    <3> QED
      BY <1>2, <2>4, <3>1, LettingGo DEF DeleteInvite
  <2>5. CASE \/ \E i \in Invites : ApproveInvite(v, i) \/ Reissue(v, i)
             \/ \E u \in Users : Redeem(v, u) \/ AddInvitee(v, u)
    BY <1>2, <2>5, LettingGo DEF ApproveInvite, Reissue, Redeem, AddInvitee
  <2>6. ASSUME NEW i \in Invites, NEW at \in {"revoke", "renew"}, RevokeRead(v, i, at) PROVE LetsGo(v)
    <3>1. [Idle EXCEPT !.at = at, !.on = i, !.addr = invites[i].preset].at \notin Seen
      BY DEF Idle, Seen, Redeemers
    <3> QED
      BY <2>6, <3>1, Begun DEF RevokeRead, LetsGo
  <2>7. ASSUME NEW i \in Invites, NEW at \in {"redeem", "add invitee"}, NEW a \in Addresses, InviteRead(v, i, at, a)
        PROVE  HeldBefore(x)
    <3>1. Goto(v, [Idle EXCEPT !.at = at, !.on = i, !.addr = a]) /\ invites[i].st = "open"
      BY <2>7, Begun DEF InviteRead, Redeemable
    <3>2. visit'[v].on = i /\ (x # v => visit'[x] = visit[x])
      BY <1>a, <3>1 DEF Goto, Idle
    <3> QED
      BY <3>1, <3>2 DEF HeldBefore
  <2>8. ASSUME NEW u \in Users, EnableByHand(v, u) PROVE LetsGo(v)
    <3>1. [Idle EXCEPT !.at = "find", !.user = u].at \notin Seen
      BY DEF Idle, Seen, Redeemers
    <3> QED
      BY <2>8, <3>1, Begun DEF EnableByHand, LetsGo
  <2> QED
    BY <1>2, <1>4, <2>1, <2>2, <2>3, <2>4, <2>5, <2>6, <2>7, <2>8 DEF Inviting
<1>5. CASE Housekeeping
  BY <1>1, <1>5 DEF Housekeeping, SweepList, SweepReg, SweepUser, SweepInvites, SweepCeremonies, CreateInvite,
     InviteExpires, RegExpires, CeremonyExpires, Late
<1> QED
  BY <1>1, <1>3, <1>4, <1>5 DEF RegNext, regVars

LEMMA StepCeremonies == RegTypeInv /\ SpentInv /\ [RegNext]_regVars => \A u \in Users : CeremonyBefore(u)
<1> SUFFICES ASSUME RegTypeInv, SpentInv, [RegNext]_regVars, NEW u \in Users PROVE CeremonyBefore(u)
  OBVIOUS
<1>a. wa \in [Users -> Ceremony] /\ \A x \in Users : wa[x] \in Ceremony
  BY DEF RegTypeInv, RegTypeOK
<1>b. \A v \in Visitors : /\ visit[v].at \in OnUser => visit[v].user \in Users
                          /\ visit[v].at \in OnReg => visit[v].on \in Regs
                          /\ visit[v].at \in OnInvite => visit[v].on \in Invites
  BY RowTypes DEF Fits
<1>1. CASE wa'[u].on = wa[u].on
  BY <1>1 DEF CeremonyBefore
<1>2. ASSUME NEW v \in Visitors, LinkAccount(v) PROVE CeremonyBefore(u)
  <2>1. visit[v].user \in Users /\ visit[v].on \in Regs
    BY <1>2, <1>b DEF LinkAccount, OnUser, OnReg
  <2>2. wa'[u].on = wa[u].on \/ wa'[u].on = visit[v].on
    BY <1>2, <1>a, <2>1 DEF LinkAccount
  <2> QED
    BY <2>1, <2>2, RegistrationAssumption DEF CeremonyBefore
<1>3. ASSUME NEW v \in Visitors, FinishTake(v) PROVE CeremonyBefore(u)
  <2>1. wa'[u].on = wa[u].on
    BY <1>3, <1>a DEF FinishTake, Ceremony
  <2> QED
    BY <1>1, <2>1
<1>4. ASSUME NEW v \in Visitors, NEW x \in Users, AddInvitee(v, x) PROVE CeremonyBefore(u)
  <2>1. visit[v].on \in Invites /\ invites[visit[v].on].st # "none"
    BY <1>4, <1>b DEF AddInvitee, OnInvite, SpentInv, Seen
  <2>2. \/ wa' = wa
        \/ wa' = [wa EXCEPT ![x] = [st |-> "open", on |-> visit[v].on, due |-> FALSE]]
    BY <1>4 DEF AddInvitee
  <2>3. wa'[u].on = wa[u].on \/ wa'[u].on = visit[v].on
    <3>1. CASE u = x
      BY <1>a, <2>2, <3>1
    <3>2. CASE u # x
      BY <1>a, <2>2, <3>2
    <3> QED
      BY <3>1, <3>2
  <2> QED
    BY <2>1, <2>3 DEF CeremonyBefore
<1>5. CASE Housekeeping
  <2>1. CASE SweepCeremonies
    <3>1. wa'[u] = wa[u] \/ wa'[u] = [wa[u] EXCEPT !.st = "done"]
      BY <2>1 DEF SweepCeremonies
    <3> QED
      BY <1>1, <1>a, <3>1 DEF Ceremony
  <2>2. ASSUME NEW x \in Users, CeremonyExpires(x) PROVE CeremonyBefore(u)
    <3>1. wa'[u].on = wa[u].on
      BY <1>a, <2>2 DEF CeremonyExpires, Ceremony
    <3> QED
      BY <1>1, <3>1
  <2> QED
    BY <1>1, <1>5, <2>1, <2>2 DEF Housekeeping, SweepList, SweepReg, SweepUser, SweepInvites, CreateInvite,
       InviteExpires, RegExpires
<1>6. ASSUME NEW v \in Visitors, Applicant(v) PROVE CeremonyBefore(u)
  BY <1>1, <1>2, <1>3, <1>6 DEF Applicant, RegisterCheck, RegisterInsert, VerifyRead, WithdrawRead, PasswordRead,
     PasskeyBegin, SetVerified, DropReg, DropUser, ClearUser, DropPlaceholder, AddAccount, FinishRead, FinishCheck, Bind
<1>7. ASSUME NEW v \in Visitors, Inviting(v) PROVE CeremonyBefore(u)
  BY <1>1, <1>4, <1>7 DEF Inviting, ApproveRead, ApproveAccount, FindReg, Reconnect, BindInvitee, DeleteInvite,
     Abort, ApproveInvite, Reissue, RevokeRead, InviteRead, EnableByHand, Redeem
<1> QED
  BY <1>1, <1>5, <1>6, <1>7 DEF RegNext, regVars

LEMMA StepUses ==
  RegTypeInv /\ [RegNext]_regVars => \A i \in Invites : uses'[i] = uses[i] \/ Redeems(i)
<1> SUFFICES ASSUME RegTypeInv, [RegNext]_regVars, NEW i \in Invites PROVE uses'[i] = uses[i] \/ Redeems(i)
  OBVIOUS
<1>a. uses \in [Invites -> Nat]
  BY DEF RegTypeInv, RegTypeOK
<1>1. CASE uses' = uses
  BY <1>1
<1>2. ASSUME NEW v \in Visitors, Reconnect(v) \/ BindInvitee(v) \/ (\E u \in Users : Redeem(v, u))
      PROVE  uses'[i] = uses[i] \/ Redeems(i)
  <2>1. visit[v].at \in {"redeem", "bind invitee"}
    BY <1>2 DEF Reconnect, BindInvitee, Redeem
  <2>2. \/ uses' = uses
        \/ uses' = [uses EXCEPT ![visit[v].on] = @ + 1] /\ invites' = Marked(visit[v].on)
    BY <1>2 DEF Reconnect, BindInvitee, Redeem
  <2>3. CASE visit[v].on = i
    BY <2>1, <2>2, <2>3 DEF Redeems
  <2>4. CASE visit[v].on # i
    BY <1>a, <2>2, <2>4
  <2> QED
    BY <2>3, <2>4
<1>3. CASE Housekeeping
  BY <1>3 DEF Housekeeping, SweepList, SweepReg, SweepUser, SweepInvites, SweepCeremonies, CreateInvite,
     InviteExpires, RegExpires, CeremonyExpires
<1>4. ASSUME NEW v \in Visitors, Applicant(v) PROVE uses' = uses
  BY <1>4 DEF Applicant, RegisterCheck, RegisterInsert, VerifyRead, WithdrawRead, PasswordRead, PasskeyBegin,
     SetVerified, DropReg, DropUser, ClearUser, DropPlaceholder, AddAccount, FinishRead, LinkAccount, FinishTake,
     FinishCheck, Bind
<1>5. ASSUME NEW v \in Visitors, Inviting(v) PROVE uses'[i] = uses[i] \/ Redeems(i)
  BY <1>1, <1>2, <1>5 DEF Inviting, ApproveRead, ApproveAccount, FindReg, DeleteInvite, Abort, ApproveInvite,
     Reissue, RevokeRead, InviteRead, EnableByHand, AddInvitee
<1> QED
  BY <1>1, <1>3, <1>4, <1>5 DEF RegNext, regVars

LEMMA SpentStep == RegTypeInv /\ SpentInv /\ [RegNext]_regVars => SpentInv'
<1> SUFFICES ASSUME RegTypeInv, SpentInv, [RegNext]_regVars PROVE SpentInv'
  OBVIOUS
<1>a. LinksForward
  BY StepLinks
<1>b. \A i \in Invites : invites[i].st \in {"none", "open", "used", "gone"} /\ invites \in [Invites -> Invite]
  BY RowTypes DEF Invite, RegTypeInv, RegTypeOK
<1>1. ASSUME NEW i \in Invites, uses'[i] > 0 PROVE invites'[i].st \in {"used", "gone"}
  <2>1. CASE uses'[i] = uses[i]
    BY <1>1, <1>a, <2>1 DEF SpentInv, LinksForward
  <2>2. CASE Redeems(i)
    <3>1. invites[i].st # "none"
      BY <2>2 DEF Redeems, SpentInv, Seen, Redeemers
    <3> QED
      BY <1>b, <2>2, <3>1 DEF Redeems, Marked, Invite
  <2> QED
    BY <2>1, <2>2, StepUses
<1>2. ASSUME NEW x \in Visitors, visit'[x].at \in Seen, visit'[x].on \in Invites
      PROVE  invites'[visit'[x].on].st # "none"
  <2>1. HeldBefore(x)
    BY StepHeld
  <2>2. invites[visit'[x].on].st # "none"
    BY <1>2, <2>1 DEF HeldBefore, SpentInv
  <2> QED
    BY <1>2, <1>a, <2>2 DEF LinksForward
<1>3. ASSUME NEW u \in Users, wa'[u].on \in Invites PROVE invites'[wa'[u].on].st # "none"
  <2>1. CeremonyBefore(u)
    BY StepCeremonies
  <2>2. invites[wa'[u].on].st # "none"
    BY <1>3, <2>1 DEF CeremonyBefore, SpentInv
  <2> QED
    BY <1>3, <1>a, <2>2 DEF LinksForward
<1> QED
  BY <1>1, <1>2, <1>3 DEF SpentInv, Seen

LEMMA SpentInit == RegInit => SpentInv
<1> SUFFICES ASSUME RegInit PROVE SpentInv
  OBVIOUS
<1>1. \A i \in Invites : ~(uses[i] > 0)
  BY DEF RegInit
<1>2. \A v \in Visitors : visit[v].at = "idle"
  BY IdleFits DEF RegInit
<1>3. \A v \in Visitors : visit[v].at \notin Seen
  BY <1>2 DEF Seen, Redeemers
<1>4. \A u \in Users : wa[u].on = Nothing
  BY DEF RegInit
<1>5. \A u \in Users : wa[u].on \notin Invites
  BY <1>4, RegistrationAssumption
<1> QED
  BY <1>1, <1>3, <1>5 DEF SpentInv

\* A redeemed link that nobody holds: nobody gets hold of it, and nobody redeems it.
LEMMA SpentStays ==
  ASSUME RegTypeInv, SpentInv, [RegNext]_regVars, NEW i \in Invites, uses[i] > 0, ~Held(i)
  PROVE  uses'[i] = uses[i] /\ ~Held(i)'
<1>1. invites[i].st \in {"used", "gone"}
  BY DEF SpentInv
<1>2. uses'[i] = uses[i]
  BY StepUses DEF Redeems, Held
<1>3. ASSUME NEW x \in Visitors, visit'[x].on = i, visit'[x].at \in Redeemers PROVE FALSE
  <2>1. HeldBefore(x)
    BY StepHeld
  <2>2. visit[x].on = i /\ visit[x].at \in Redeemers
    BY <1>1, <1>3, <2>1 DEF HeldBefore, Seen
  <2> QED
    BY <2>2 DEF Held, Redeemers
<1> QED
  BY <1>2, <1>3 DEF Held, Redeemers

\* Once a link was redeemed and nobody holds it, it is never redeemed again, by whatever
\* mixture of passwords, passkeys, sign-ons, renewals and revocations.
THEOREM SpentInviteTheorem == RegSpec => SpentInviteStaysSpent
<1>1. RegTypeInv /\ SpentInv /\ [RegNext]_regVars =>
        [\A i \in Invites : uses[i] > 0 /\ ~Held(i) => uses'[i] = uses[i] /\ ~Held(i)']_regVars
  BY SpentStays
<1> QED
  BY <1>1, RegInitTypes, RegStepTypes, SpentInit, SpentStep, PTL DEF RegSpec, SpentInviteStaysSpent

-----------------------------------------------------------------------------
(* Registration: who deletes an approved account.                           *)

\* An account that exists keeps its membership, and its number is not given again.
AccountKept(u) == users[u].st # "none" => users'[u].st # "none" /\ (users[u].member => users'[u].member)
LEMMA UserFormsKept ==
  ASSUME RegTypeInv, NEW u \in Users, NEW x \in Users,
         \/ users' = users \/ users' = WithoutUser(x) \/ users' = Joined(x) \/ users' = Enabled(x)
         \/ users' = [users EXCEPT ![x].st = "gone"] \/ users' = [users EXCEPT ![x].st = "enabled"]
         \/ users' = [users EXCEPT ![x].auth = "passkey"]
  PROVE  AccountKept(u)
<1>a. users \in [Users -> Account] /\ users[u] \in Account /\ users[x] \in Account
  BY DEF RegTypeInv, RegTypeOK
<1>1. CASE u # x
  <2>1. users'[u] = users[u]
    BY <1>1, <1>a DEF WithoutUser, Joined, Enabled
  <2> QED
    BY <2>1 DEF AccountKept
<1>2. CASE u = x
  BY <1>2, <1>a DEF WithoutUser, Joined, Enabled, AccountKept, Account
<1> QED
  BY <1>1, <1>2

LEMMA StepAccounts == RegTypeInv /\ [RegNext]_regVars => \A u \in Users : AccountKept(u)
<1> SUFFICES ASSUME RegTypeInv, [RegNext]_regVars, NEW u \in Users PROVE AccountKept(u)
  OBVIOUS
<1>a. users \in [Users -> Account]
  BY DEF RegTypeInv, RegTypeOK
<1>b. \A v \in Visitors : visit[v].at \in OnUser => visit[v].user \in Users
  BY RowTypes DEF Fits
<1>c. sweep.user \in Users \cup {Nobody}
  BY DEF RegTypeInv, RegTypeOK
<1>1. CASE users' = users
  BY <1>1 DEF AccountKept
<1>2. ASSUME NEW x \in Users, users[x].st = "none", NEW row, users' = [users EXCEPT ![x] = row] PROVE AccountKept(u)
  BY <1>2, <1>a DEF AccountKept
<1>3. ASSUME NEW v \in Visitors, Applicant(v) PROVE AccountKept(u)
  <2>1. CASE DropUser(v)
    BY <1>b, <2>1, UserFormsKept DEF DropUser, OnUser
  <2>2. CASE DropPlaceholder(v)
    BY <1>b, <2>2, UserFormsKept DEF DropPlaceholder, OnUser
  <2>3. ASSUME NEW x \in Users, AddAccount(v, x) PROVE AccountKept(u)
    BY <1>1, <1>2, <2>3 DEF AddAccount
  <2>4. CASE Bind(v)
    <3>1. visit[v].user \in Users /\ (users' = users \/ users' = [users EXCEPT ![visit[v].user].auth = "passkey"])
      BY <1>b, <2>4 DEF Bind, OnUser
    <3> QED
      BY <3>1, UserFormsKept
  <2> QED
    BY <1>1, <1>3, <2>1, <2>2, <2>3, <2>4
       DEF Applicant, RegisterCheck, RegisterInsert, VerifyRead, WithdrawRead, PasswordRead, PasskeyBegin,
           SetVerified, DropReg, ClearUser, FinishRead, LinkAccount, FinishTake, FinishCheck
<1>4. ASSUME NEW v \in Visitors, Inviting(v) PROVE AccountKept(u)
  <2>1. CASE ApproveAccount(v)
    <3>1. visit[v].user \in Users /\ users' = Enabled(visit[v].user)
      BY <2>1, RowTypes DEF ApproveAccount
    <3> QED
      BY <3>1, UserFormsKept
  <2>2. CASE FindReg(v)
    <3>1. visit[v].user \in Users /\ (users' = users \/ users' = Joined(visit[v].user))
      BY <1>b, <2>2 DEF FindReg, OnUser
    <3> QED
      BY <3>1, UserFormsKept
  <2>3. CASE BindInvitee(v)
    <3>1. visit[v].user \in Users /\ (users' = users \/ users' = [users EXCEPT ![visit[v].user].auth = "passkey"])
      BY <1>b, <2>3 DEF BindInvitee, OnUser
    <3> QED
      BY <3>1, UserFormsKept
  <2>4. ASSUME NEW x \in Users, EnableByHand(v, x) PROVE AccountKept(u)
    BY <2>4, UserFormsKept DEF EnableByHand
  <2>5. ASSUME NEW x \in Users, Redeem(v, x) PROVE AccountKept(u)
    BY <1>1, <1>2, <2>5 DEF Redeem
  <2>6. ASSUME NEW x \in Users, AddInvitee(v, x) PROVE AccountKept(u)
    BY <1>1, <1>2, <2>6 DEF AddInvitee
  <2> QED
    BY <1>1, <1>4, <2>1, <2>2, <2>3, <2>4, <2>5, <2>6
       DEF Inviting, ApproveRead, Reconnect, DeleteInvite, Abort, ApproveInvite, Reissue, RevokeRead, InviteRead
<1>5. CASE Housekeeping
  <2>1. CASE SweepUser
    BY <1>c, <2>1, UserFormsKept DEF SweepUser
  <2>2. CASE SweepCeremonies
    <3>1. users'[u] = users[u] \/ users'[u] = [users[u] EXCEPT !.st = "gone"]
      BY <2>2 DEF SweepCeremonies
    <3> QED
      BY <1>a, <3>1 DEF AccountKept, Account
  <2> QED
    BY <1>1, <1>5, <2>1, <2>2
       DEF Housekeeping, SweepList, SweepReg, SweepInvites, CreateInvite, InviteExpires, RegExpires, CeremonyExpires
<1> QED
  BY <1>1, <1>3, <1>4, <1>5 DEF RegNext, regVars

\* Which registration an account belongs to, and who may still delete it: a pending
\* registration names no approved account, an account is named by one registration,
\* and an approval under way names the account of its own.
Naming == {"link", "approve"}
Early(x) == x.at \in {"drop", "drop user"} /\ x.user \in Users /\ x.ceremony = "" => x.early
Belongs ==
  /\ \A r \in Regs : regs[r].user \in Users => users[regs[r].user].st # "none"
  /\ \A v \in Visitors : visit[v].at \in Naming /\ visit[v].user \in Users => users[visit[v].user].st # "none"
  /\ \A r \in Regs : regs[r].st = "open" => regs[r].user \notin admitted
  /\ \A r, q \in Regs : regs[r].user \in Users /\ regs[r].user = regs[q].user => r = q
Linking ==
  \A v \in Visitors : visit[v].at = "link" =>
    /\ visit[v].user \notin admitted
    /\ \A r \in Regs : regs[r].user # visit[v].user
    /\ \A w \in Visitors : w # v /\ visit[w].at \in Naming => visit[w].user # visit[v].user
Approving ==
  \A v \in Visitors, r \in Regs :
    visit[v].at = "approve" /\ visit[v].user \in Users /\ regs[r].user = visit[v].user => r = visit[v].on
Deleting ==
  /\ \A v \in Visitors : Early(visit[v])
  /\ \A p \in sweep.todo : p[2] \in Users => p[3]
  /\ sweep.user \in Users => sweep.early
  /\ \A u \in admitted : users[u].member
LostInv == Belongs /\ Linking /\ Approving /\ Deleting

\* A request goes on without naming an account, or as one that read it early.
Unnaming(v) == \E step : Goto(v, step) /\ step.at \notin Naming /\ Early(step)

LEMMA UnnamingSteps ==
  ASSUME RegTypeInv, NEW v \in Visitors, Early(visit[v])
  PROVE  /\ Goto(v, Idle) => Unnaming(v)
         /\ \A at : at \notin Naming \cup {"drop", "drop user"} /\ GotoAt(v, at) => Unnaming(v)
         /\ visit[v].at = "drop" /\ GotoAt(v, "drop user") => Unnaming(v)
         /\ \A c \in {"lost", "failed"} :
              Goto(v, [visit[v] EXCEPT !.at = "drop user", !.ceremony = c]) => Unnaming(v)
<1>1. visit[v] \in Request
  BY RowTypes
<1>2. Goto(v, Idle) => Unnaming(v)
  BY IdleFits DEF Unnaming, Naming, Early
<1>3. ASSUME NEW at, at \notin Naming \cup {"drop", "drop user"}, GotoAt(v, at) PROVE Unnaming(v)
  <2>1. [visit[v] EXCEPT !.at = at].at = at
    BY <1>1 DEF Request
  <2> QED
    BY <1>3, <2>1 DEF Unnaming, GotoAt, Early
<1>4. ASSUME visit[v].at = "drop", GotoAt(v, "drop user") PROVE Unnaming(v)
  <2> DEFINE x == [visit[v] EXCEPT !.at = "drop user"]
  <2>1. x.at = "drop user" /\ x.user = visit[v].user /\ x.ceremony = visit[v].ceremony /\ x.early = visit[v].early
    BY <1>1 DEF Request
  <2>2. Early(x) /\ x.at \notin Naming
    BY <1>4, <2>1 DEF Early, Naming
  <2> QED
    BY <1>4, <2>2 DEF Unnaming, GotoAt
<1>5. ASSUME NEW c \in {"lost", "failed"}, Goto(v, [visit[v] EXCEPT !.at = "drop user", !.ceremony = c]) PROVE Unnaming(v)
  <2> DEFINE x == [visit[v] EXCEPT !.at = "drop user", !.ceremony = c]
  <2>1. x.at = "drop user" /\ x.ceremony = c
    BY <1>1 DEF Request
  <2>2. Early(x) /\ x.at \notin Naming
    BY <2>1 DEF Early, Naming
  <2> QED
    BY <1>5, <2>2 DEF Unnaming
<1> QED
  BY <1>2, <1>3, <1>4, <1>5

\* A request that begins is at a step that names no account.
LEMMA UnnamingBegin ==
  ASSUME RegTypeInv, NEW v \in Visitors, NEW step, Begin(v, step), step.at \notin Naming, Early(step)
  PROVE  Unnaming(v)
  BY Begun DEF Unnaming

LEMMA ApplicantNames ==
  ASSUME RegTypeInv, LostInv, NEW v \in Visitors, Applicant(v)
  PROVE  Unnaming(v) \/ \E u \in Users : AddAccount(v, u)
<1>a. Early(visit[v])
  BY DEF LostInv, Deleting
<1>1. ASSUME NEW b \in Addresses, RegisterCheck(v, b) PROVE Unnaming(v)
  <2>1. [Idle EXCEPT !.at = "insert", !.addr = b].at = "insert"
    BY DEF Idle
  <2> QED
    BY <1>1, <2>1, UnnamingBegin DEF RegisterCheck, Naming, Early
<1>2. ASSUME NEW r \in Regs, VerifyRead(v, r) PROVE Unnaming(v)
  <2>1. ASSUME NEW at \in {"drop", "verify"}
        PROVE  [Idle EXCEPT !.at = at, !.on = r].at = at /\ [Idle EXCEPT !.at = at, !.on = r].user = Nobody
    BY DEF Idle
  <2> QED
    BY <1>2, <2>1, UnnamingBegin, RegistrationAssumption DEF VerifyRead, Naming, Early
<1>3. ASSUME NEW r \in Regs, WithdrawRead(v, r) PROVE Unnaming(v)
  <2> DEFINE x == [Idle EXCEPT !.at = "drop", !.on = r, !.user = regs[r].user,
                               !.early = regs[r].user \notin admitted]
  <2>1. regs[r].user \notin admitted
    BY <1>3 DEF WithdrawRead, Withdrawable, LostInv, Belongs
  <2>2. x.at = "drop" /\ x.early = (regs[r].user \notin admitted)
    BY DEF Idle
  <2>3. Begin(v, x) /\ Early(x) /\ x.at \notin Naming
    BY <1>3, <2>1, <2>2 DEF WithdrawRead, Early, Naming
  <2> HIDE DEF x
  <2> QED
    BY <2>3, UnnamingBegin
<1>4. ASSUME NEW r \in Regs, PasswordRead(v, r) PROVE Unnaming(v)
  <2>1. [Idle EXCEPT !.at = "add", !.on = r, !.addr = regs[r].addr, !.auth = "password"].at = "add"
    BY DEF Idle
  <2> QED
    BY <1>4, <2>1, UnnamingBegin DEF PasswordRead, Naming, Early
<1>5. ASSUME NEW r \in Regs, PasskeyBegin(v, r) PROVE Unnaming(v)
  <2> DEFINE x == [Idle EXCEPT !.at = IF regs[r].user = Nobody THEN "add" ELSE "freshen",
                               !.on = r, !.addr = regs[r].addr, !.user = regs[r].user]
  <2>1. x.at \in {"add", "freshen"}
    BY DEF Idle
  <2>2. Begin(v, x) /\ Early(x) /\ x.at \notin Naming
    BY <1>5, <2>1 DEF PasskeyBegin, Early, Naming
  <2> HIDE DEF x
  <2> QED
    BY <2>2, UnnamingBegin
<1>6. CASE SetVerified(v) \/ LinkAccount(v) \/ \E r \in Regs : RegisterInsert(v, r)
  BY <1>6, <1>a, UnnamingSteps DEF SetVerified, LinkAccount, RegisterInsert
<1>7. CASE DropReg(v)
  BY <1>7, <1>a, UnnamingSteps DEF DropReg
<1>8. CASE DropUser(v) \/ ClearUser(v) \/ DropPlaceholder(v) \/ FinishTake(v)
  <2>1. {"clear", "add", "clear old", "bind invitee", "check"} \cap (Naming \cup {"drop", "drop user"}) = {}
    BY DEF Naming
  <2> QED
    BY <1>8, <1>a, <2>1, UnnamingSteps DEF DropUser, ClearUser, DropPlaceholder, FinishTake
<1>9. ASSUME NEW u \in Users, FinishRead(v, u) PROVE Unnaming(v)
  <2>1. [Idle EXCEPT !.at = "take", !.on = wa[u].on, !.user = u].at = "take"
    BY DEF Idle
  <2> QED
    BY <1>9, <2>1, UnnamingBegin DEF FinishRead, Naming, Early
<1>10. CASE FinishCheck(v) \/ Bind(v)
  <2>1. "bind" \notin Naming \cup {"drop", "drop user"}
    BY DEF Naming
  <2> QED
    BY <1>10, <1>a, <2>1, UnnamingSteps DEF FinishCheck, Bind, Fails
<1> QED
  BY <1>1, <1>2, <1>3, <1>4, <1>5, <1>6, <1>7, <1>8, <1>9, <1>10 DEF Applicant

LEMMA InvitingNames ==
  ASSUME RegTypeInv, LostInv, NEW v \in Visitors, Inviting(v)
  PROVE  Unnaming(v) \/ \E r \in Regs : ApproveRead(v, r)
<1>a. Early(visit[v])
  BY DEF LostInv, Deleting
<1>1. CASE ApproveAccount(v) \/ Reconnect(v) \/ Abort(v)
  BY <1>1, <1>a, UnnamingSteps DEF ApproveAccount, Reconnect, Abort
<1>2. CASE BindInvitee(v)
  BY <1>2, <1>a, UnnamingSteps DEF BindInvitee, Fails
<1>3. CASE FindReg(v)
  <2>1. ASSUME NEW r \in Regs
        PROVE  [Idle EXCEPT !.at = "drop", !.on = r].at = "drop" /\ [Idle EXCEPT !.at = "drop", !.on = r].user = Nobody
    BY DEF Idle
  <2> QED
    BY <1>3, <1>a, <2>1, UnnamingSteps, RegistrationAssumption DEF FindReg, Unnaming, Naming, Early
<1>4. CASE DeleteInvite(v)
  <2>1. "reissue" \notin Naming \cup {"drop", "drop user"}
    BY DEF Naming
  <2> QED
    BY <1>4, <1>a, <2>1, UnnamingSteps DEF DeleteInvite
<1>5. CASE \/ \E i \in Invites : ApproveInvite(v, i) \/ Reissue(v, i)
           \/ \E u \in Users : Redeem(v, u) \/ AddInvitee(v, u)
  BY <1>5, <1>a, UnnamingSteps DEF ApproveInvite, Reissue, Redeem, AddInvitee
<1>6. ASSUME NEW i \in Invites, NEW at \in {"revoke", "renew"}, RevokeRead(v, i, at) PROVE Unnaming(v)
  <2>1. [Idle EXCEPT !.at = at, !.on = i, !.addr = invites[i].preset].at = at
    BY DEF Idle
  <2> QED
    BY <1>6, <2>1, UnnamingBegin DEF RevokeRead, Naming, Early
<1>7. ASSUME NEW i \in Invites, NEW at \in {"redeem", "add invitee"}, NEW b \in Addresses, InviteRead(v, i, at, b)
      PROVE  Unnaming(v)
  <2>1. [Idle EXCEPT !.at = at, !.on = i, !.addr = b].at = at
    BY DEF Idle
  <2> QED
    BY <1>7, <2>1, UnnamingBegin DEF InviteRead, Naming, Early
<1>8. ASSUME NEW u \in Users, EnableByHand(v, u) PROVE Unnaming(v)
  <2>1. [Idle EXCEPT !.at = "find", !.user = u].at = "find"
    BY DEF Idle
  <2> QED
    BY <1>8, <2>1, UnnamingBegin DEF EnableByHand, Naming, Early
<1> QED
  BY <1>1, <1>2, <1>3, <1>4, <1>5, <1>6, <1>7, <1>8 DEF Inviting

\* What a step does to the registrations: an account is detached, or linked.
RegKept(r) ==
  /\ regs'[r].user \in {regs[r].user, Nobody}
  /\ regs'[r].st = "open" /\ regs'[r].user # Nobody => regs[r].st = "open"
LEMMA RegFormsKept ==
  ASSUME RegTypeInv, NEW r \in Regs, NEW q \in Regs, NEW u,
         \/ regs' = regs \/ regs' = WithoutReg(q) \/ regs' = Unreferenced(u) \/ regs' = Detached(q) \/ regs' = Approved(q)
         \/ regs' = [regs EXCEPT ![q].verified = TRUE] \/ regs' = [regs EXCEPT ![q].due = TRUE]
         \/ regs' = [regs EXCEPT ![q].st = "approved"]
  PROVE  RegKept(r)
<1>a. regs \in [Regs -> Reg] /\ regs[r] \in Reg /\ regs[q] \in Reg
  BY DEF RegTypeInv, RegTypeOK
<1>1. CASE regs' = Unreferenced(u)
  <2>1. regs'[r] = regs[r] \/ regs'[r] = [regs[r] EXCEPT !.user = Nobody]
    BY <1>1 DEF Unreferenced
  <2> QED
    BY <1>a, <2>1 DEF RegKept, Reg
<1>2. CASE regs' # Unreferenced(u)
  <2>1. CASE r # q
    <3>1. regs'[r] = regs[r]
      BY <1>2, <1>a, <2>1 DEF WithoutReg, Detached, Approved
    <3> QED
      BY <3>1 DEF RegKept
  <2>2. CASE r = q
    BY <1>2, <1>a, <2>2 DEF WithoutReg, Detached, Approved, RegKept, Reg
  <2> QED
    BY <2>1, <2>2
<1> QED
  BY <1>1, <1>2

LEMMA StepRegs ==
  ASSUME RegTypeInv, [RegNext]_regVars, NEW r \in Regs
  PROVE  RegKept(r) \/ \E v \in Visitors : LinkAccount(v)
<1>a. regs \in [Regs -> Reg]
  BY DEF RegTypeInv, RegTypeOK
<1>b. \A v \in Visitors : visit[v].at \in OnReg => visit[v].on \in Regs
  BY RowTypes DEF Fits
<1>1. ASSUME regs' = regs PROVE RegKept(r)
  BY <1>1 DEF RegKept
<1>2. ASSUME NEW v \in Visitors, Applicant(v), ~LinkAccount(v) PROVE RegKept(r)
  <2>1. ASSUME NEW q \in Regs, RegisterInsert(v, q) PROVE RegKept(r)
    <3>1. regs'[r] = regs[r] \/ regs'[r].user = Nobody
      BY <1>a, <2>1 DEF RegisterInsert
    <3> QED
      BY <3>1 DEF RegKept
  <2>2. CASE SetVerified(v)
    BY <1>b, <2>2, RegFormsKept DEF SetVerified, OnReg
  <2>3. CASE DropReg(v)
    BY <1>b, <2>3, RegFormsKept DEF DropReg, OnReg
  <2>4. CASE DropUser(v)
    BY <2>4, RegFormsKept DEF DropUser
  <2>5. CASE ClearUser(v)
    BY <1>b, <2>5, RegFormsKept DEF ClearUser, OnReg
  <2>6. \/ \E q \in Regs : RegisterInsert(v, q)
        \/ SetVerified(v) \/ DropReg(v) \/ DropUser(v) \/ ClearUser(v) \/ regs' = regs
    BY <1>2 DEF Applicant, RegisterCheck, VerifyRead, WithdrawRead, PasswordRead, PasskeyBegin,
           DropPlaceholder, AddAccount, FinishRead, FinishTake, FinishCheck, Bind
  <2> QED
    BY <1>1, <2>1, <2>2, <2>3, <2>4, <2>5, <2>6
<1>3. ASSUME NEW v \in Visitors, Inviting(v) PROVE RegKept(r)
  <2>1. CASE ApproveAccount(v)
    BY <1>b, <2>1, RegFormsKept DEF ApproveAccount, OnReg
  <2>2. ASSUME NEW i \in Invites, ApproveInvite(v, i) PROVE RegKept(r)
    <3>1. /\ visit[v].on \in Regs
          /\ \/ regs' = regs \/ regs' = WithoutReg(visit[v].on)
             \/ regs' = [regs EXCEPT ![visit[v].on].st = "approved"]
      BY <1>b, <2>2 DEF ApproveInvite, OnReg
    <3> QED
      BY <3>1, RegFormsKept
  <2>3. ApproveAccount(v) \/ (\E i \in Invites : ApproveInvite(v, i)) \/ regs' = regs
    BY <1>3 DEF Inviting, ApproveRead, FindReg, Reconnect, BindInvitee, DeleteInvite, Abort, Reissue, RevokeRead,
           InviteRead, EnableByHand, Redeem, AddInvitee
  <2> QED
    BY <1>1, <2>1, <2>2, <2>3
<1>4. CASE Housekeeping
  <2>1. CASE SweepList
    <3>1. regs'[r] = regs[r] \/ regs'[r] = [regs[r] EXCEPT !.st = "gone"]
      BY <2>1 DEF SweepList
    <3> QED
      BY <1>a, <3>1 DEF RegKept, Reg
  <2>2. CASE SweepReg
    <3>1. \A p \in sweep.todo : p[1] \in Regs
      BY DEF RegTypeInv, RegTypeOK
    <3> QED
      BY <2>2, <3>1, RegFormsKept DEF SweepReg
  <2>3. CASE SweepUser
    BY <2>3, RegFormsKept DEF SweepUser
  <2>4. ASSUME NEW q \in Regs, RegExpires(q) PROVE RegKept(r)
    BY <2>4, RegFormsKept DEF RegExpires
  <2> QED
    BY <1>1, <1>4, <2>1, <2>2, <2>3, <2>4
       DEF Housekeeping, SweepInvites, SweepCeremonies, CreateInvite, InviteExpires, CeremonyExpires
<1> QED
  BY <1>1, <1>2, <1>3, <1>4 DEF RegNext, regVars

LEMMA StepAdmitted ==
  ASSUME [RegNext]_regVars
  PROVE  admitted' = admitted \/ \E v \in Visitors : ApproveAccount(v)
<1>1. ASSUME NEW v \in Visitors, Applicant(v) PROVE admitted' = admitted
  BY <1>1 DEF Applicant, RegisterCheck, RegisterInsert, VerifyRead, WithdrawRead, PasswordRead, PasskeyBegin,
     SetVerified, DropReg, DropUser, ClearUser, DropPlaceholder, AddAccount, FinishRead, LinkAccount, FinishTake,
     FinishCheck, Bind
<1>2. ASSUME NEW v \in Visitors, Inviting(v), ~ApproveAccount(v) PROVE admitted' = admitted
  BY <1>2 DEF Inviting, ApproveRead, FindReg, Reconnect, BindInvitee, DeleteInvite, Abort, ApproveInvite, Reissue,
     RevokeRead, InviteRead, EnableByHand, Redeem, AddInvitee
<1>3. ASSUME Housekeeping PROVE admitted' = admitted
  BY <1>3 DEF Housekeeping, SweepList, SweepReg, SweepUser, SweepInvites, SweepCeremonies, CreateInvite,
     InviteExpires, RegExpires, CeremonyExpires
<1> QED
  BY <1>1, <1>2, <1>3 DEF RegNext, regVars

\* What a step does to the requests.
NamingKept == \A w \in Visitors : visit'[w] = visit[w] \/ (visit'[w].at \notin Naming /\ Early(visit'[w]))
LEMMA StepNaming ==
  ASSUME RegTypeInv, LostInv, [RegNext]_regVars
  PROVE  \/ NamingKept
         \/ \E v \in Visitors, u \in Users : AddAccount(v, u)
         \/ \E v \in Visitors, r \in Regs : ApproveRead(v, r)
<1>1. ASSUME NEW v \in Visitors, Unnaming(v) PROVE NamingKept
  <2>1. PICK step : Goto(v, step) /\ step.at \notin Naming /\ Early(step)
    BY <1>1 DEF Unnaming
  <2>2. visit'[v] = step /\ \A w \in Visitors : w # v => visit'[w] = visit[w]
    BY <2>1 DEF Goto, RegTypeInv, RegTypeOK
  <2> QED
    BY <2>1, <2>2 DEF NamingKept
<1>2. ASSUME Housekeeping \/ UNCHANGED regVars PROVE visit' = visit
  BY <1>2 DEF Housekeeping, SweepList, SweepReg, SweepUser, SweepInvites, SweepCeremonies, CreateInvite,
     InviteExpires, RegExpires, CeremonyExpires, regVars
<1> QED
  BY <1>1, <1>2, ApplicantNames, InvitingNames DEF RegNext, NamingKept

LEMMA StepSweeps ==
  ASSUME RegTypeInv, LostInv, [RegNext]_regVars
  PROVE  /\ \A p \in sweep'.todo : p[2] \in Users => p[3]
         /\ sweep'.user \in Users => sweep'.early
<1>1. CASE sweep' = sweep
  BY <1>1 DEF LostInv, Deleting
<1>2. CASE SweepList
  <2>1. \A r \in Overdue : regs[r].user \notin admitted
    BY DEF Overdue, LostInv, Belongs
  <2>2. /\ sweep'.todo = {<<r, regs[r].user, regs[r].user \notin admitted>> : r \in Overdue}
        /\ sweep'.user = sweep.user /\ sweep'.early = sweep.early
    BY <1>2 DEF SweepList, RegTypeInv, Sweep
  <2>3. ASSUME NEW p \in sweep'.todo PROVE p[3]
    <3>1. PICK r \in Overdue : p = <<r, regs[r].user, regs[r].user \notin admitted>>
      BY <2>2
    <3> QED
      BY <2>1, <3>1
  <2>4. sweep'.user \in Users => sweep'.early
    BY <2>2 DEF LostInv, Deleting
  <2> QED
    BY <2>3, <2>4
<1>3. CASE SweepReg
  BY <1>3 DEF SweepReg, LostInv, Deleting
<1>4. CASE SweepUser
  <2>1. sweep'.todo = sweep.todo /\ sweep'.user = Nobody
    BY <1>4 DEF SweepUser, RegTypeInv, Sweep
  <2> QED
    BY <2>1, RegistrationAssumption DEF LostInv, Deleting
<1>5. ASSUME NEW v \in Visitors, Applicant(v) PROVE sweep' = sweep
  BY <1>5 DEF Applicant, RegisterCheck, RegisterInsert, VerifyRead, WithdrawRead, PasswordRead, PasskeyBegin,
     SetVerified, DropReg, DropUser, ClearUser, DropPlaceholder, AddAccount, FinishRead, LinkAccount, FinishTake,
     FinishCheck, Bind
<1>6. ASSUME NEW v \in Visitors, Inviting(v) PROVE sweep' = sweep
  BY <1>6 DEF Inviting, ApproveRead, ApproveAccount, FindReg, Reconnect, BindInvitee, DeleteInvite, Abort,
     ApproveInvite, Reissue, RevokeRead, InviteRead, EnableByHand, Redeem, AddInvitee
<1>7. CASE Housekeeping
  BY <1>1, <1>2, <1>3, <1>4, <1>7 DEF Housekeeping, SweepInvites, SweepCeremonies, CreateInvite, InviteExpires,
     RegExpires, CeremonyExpires
<1> QED
  BY <1>1, <1>5, <1>6, <1>7 DEF RegNext, regVars

LEMMA DeletingStep == RegTypeInv /\ LostInv /\ [RegNext]_regVars => Deleting'
<1> SUFFICES ASSUME RegTypeInv, LostInv, [RegNext]_regVars PROVE Deleting'
  OBVIOUS
<1>1. ASSUME NEW w \in Visitors PROVE Early(visit'[w])
  <2>a. Early(visit[w])
    BY DEF LostInv, Deleting
  <2>1. CASE NamingKept
    BY <2>1, <2>a DEF NamingKept
  <2>2. ASSUME NEW v \in Visitors, NEW u \in Users, AddAccount(v, u) PROVE Early(visit'[w])
    <3>1. [visit[v] EXCEPT !.at = "link", !.user = u].at = "link" /\ Idle.at = "idle"
      BY RowTypes, IdleFits DEF Request
    <3>2. visit'[w] = visit[w] \/ visit'[w].at \in {"link", "idle"}
      BY <2>2, <3>1 DEF AddAccount, Goto, RegTypeInv, RegTypeOK
    <3> QED
      BY <2>a, <3>2 DEF Early
  <2>3. ASSUME NEW v \in Visitors, NEW r \in Regs, ApproveRead(v, r) PROVE Early(visit'[w])
    <3>1. [Idle EXCEPT !.at = "approve", !.on = r, !.user = regs[r].user, !.addr = regs[r].addr].at = "approve"
      BY DEF Idle
    <3>a. Goto(v, [Idle EXCEPT !.at = "approve", !.on = r, !.user = regs[r].user, !.addr = regs[r].addr])
      BY <2>3, Begun DEF ApproveRead
    <3>2. visit'[w] = visit[w] \/ visit'[w].at = "approve"
      BY <3>a, <3>1 DEF Goto, RegTypeInv, RegTypeOK
    <3> QED
      BY <2>a, <3>2 DEF Early
  <2> QED
    BY <2>1, <2>2, <2>3, StepNaming
<1>2. ASSUME NEW u \in admitted' PROVE users'[u].member
  <2>1. CASE u \in admitted
    <3>1. u \in Users /\ users[u].st # "none"
      BY <2>1 DEF RegTypeInv, RegTypeOK
    <3> QED
      BY <2>1, <3>1, StepAccounts DEF AccountKept, LostInv, Deleting
  <2>2. CASE u \notin admitted
    <3>1. PICK v \in Visitors : ApproveAccount(v)
      BY <1>2, <2>2, StepAdmitted
    <3>2. u = visit[v].user /\ Exists(u) /\ users' = Enabled(u)
      BY <1>2, <2>2, <3>1 DEF ApproveAccount
    <3> QED
      BY <3>2 DEF Enabled, Exists, RegTypeInv, RegTypeOK, Account
  <2> QED
    BY <2>1, <2>2
<1> QED
  BY <1>1, <1>2, StepSweeps DEF Deleting

\* Steps that detach accounts and bring no request to name one.
LEMMA BelongsByKept ==
  ASSUME RegTypeInv, LostInv, [RegNext]_regVars, \A r \in Regs : RegKept(r), NamingKept, admitted' = admitted
  PROVE  Belongs' /\ Linking' /\ Approving'
<1>a. \A r \in Regs : regs'[r].user \in Users => regs'[r].user = regs[r].user
  BY RegistrationAssumption DEF RegKept
<1>b. \A v \in Visitors : visit'[v].at \in Naming => visit'[v] = visit[v]
  BY DEF NamingKept
<1>c. \A u \in Users : users[u].st # "none" => users'[u].st # "none"
  BY StepAccounts DEF AccountKept
<1>d. admitted \subseteq Users
  BY DEF RegTypeInv, RegTypeOK
<1>1. Belongs'
  <2>1. \A r \in Regs : regs'[r].user \in Users => users'[regs'[r].user].st # "none"
    BY <1>a, <1>c DEF LostInv, Belongs
  <2>2. \A v \in Visitors : visit'[v].at \in Naming /\ visit'[v].user \in Users => users'[visit'[v].user].st # "none"
    BY <1>b, <1>c DEF LostInv, Belongs
  <2>3. \A r \in Regs : regs'[r].st = "open" => regs'[r].user \notin admitted
    BY <1>a, <1>d, RegistrationAssumption DEF LostInv, Belongs, RegKept
  <2>4. \A r, q \in Regs : regs'[r].user \in Users /\ regs'[r].user = regs'[q].user => r = q
    BY <1>a DEF LostInv, Belongs
  <2> QED
    BY <2>1, <2>2, <2>3, <2>4 DEF Belongs
<1>2. Linking'
  <2> SUFFICES ASSUME NEW v \in Visitors, visit'[v].at = "link"
               PROVE  /\ visit'[v].user \notin admitted'
                      /\ \A r \in Regs : regs'[r].user # visit'[v].user
                      /\ \A w \in Visitors : w # v /\ visit'[w].at \in Naming => visit'[w].user # visit'[v].user
    BY DEF Linking
  <2>1. visit'[v] = visit[v] /\ visit[v].user \in Users
    BY <1>b, RowTypes DEF Naming, Fits, OnUser
  <2> QED
    BY <1>a, <1>b, <2>1 DEF LostInv, Linking
<1>3. Approving'
  <2> SUFFICES ASSUME NEW v \in Visitors, NEW r \in Regs, visit'[v].at = "approve", visit'[v].user \in Users,
                      regs'[r].user = visit'[v].user
               PROVE  r = visit'[v].on
    BY DEF Approving
  <2>1. visit'[v] = visit[v] /\ regs[r].user = visit[v].user
    BY <1>a, <1>b DEF Naming
  <2> QED
    BY <2>1 DEF LostInv, Approving
<1> QED
  BY <1>1, <1>2, <1>3

LEMMA LinkKeeps ==
  ASSUME RegTypeInv, LostInv, [RegNext]_regVars, NEW v \in Visitors, LinkAccount(v)
  PROVE  Belongs' /\ Linking' /\ Approving'
<1> DEFINE u == visit[v].user
           o == visit[v].on
<1>a. /\ visit[v].at = "link" /\ u \in Users /\ o \in Regs /\ admitted' = admitted /\ users' = users
      /\ regs' = regs \/ regs' = [regs EXCEPT ![o].user = u]
  BY RowTypes DEF LinkAccount, Fits, OnUser, OnReg
<1>b. \A w \in Visitors : IF w = v THEN visit'[w].at = "idle" ELSE visit'[w] = visit[w]
  BY IdleFits DEF LinkAccount, Goto, RegTypeInv, RegTypeOK
<1>c. \A r \in Regs : regs'[r].st = regs[r].st
                      /\ (regs'[r].user = regs[r].user \/ (r = o /\ regs'[r].user = u))
  BY <1>a DEF RegTypeInv, RegTypeOK, Reg
<1>d. /\ u \notin admitted /\ users[u].st # "none"
      /\ \A r \in Regs : regs[r].user # u
      /\ \A w \in Visitors : w # v /\ visit[w].at \in Naming => visit[w].user # u
  BY <1>a DEF LostInv, Linking, Belongs, Naming
<1>1. Belongs'
  <2>1. \A r \in Regs : regs'[r].user \in Users => users'[regs'[r].user].st # "none"
    BY <1>a, <1>c, <1>d DEF LostInv, Belongs
  <2>2. \A w \in Visitors : visit'[w].at \in Naming /\ visit'[w].user \in Users => users'[visit'[w].user].st # "none"
    BY <1>a, <1>b DEF LostInv, Belongs, Naming
  <2>3. \A r \in Regs : regs'[r].st = "open" => regs'[r].user \notin admitted'
    BY <1>a, <1>c, <1>d DEF LostInv, Belongs
  <2>4. \A r, q \in Regs : regs'[r].user \in Users /\ regs'[r].user = regs'[q].user => r = q
    BY <1>a, <1>c, <1>d DEF LostInv, Belongs
  <2> QED
    BY <2>1, <2>2, <2>3, <2>4 DEF Belongs
<1>2. Linking'
  <2> SUFFICES ASSUME NEW x \in Visitors, visit'[x].at = "link"
               PROVE  /\ visit'[x].user \notin admitted'
                      /\ \A r \in Regs : regs'[r].user # visit'[x].user
                      /\ \A w \in Visitors : w # x /\ visit'[w].at \in Naming => visit'[w].user # visit'[x].user
    BY DEF Linking
  <2>1. x # v /\ visit'[x] = visit[x] /\ visit[x].user # u
    BY <1>b, <1>d DEF Naming
  <2>2. \A w \in Visitors : visit'[w].at \in Naming => visit'[w] = visit[w]
    BY <1>b DEF Naming
  <2> QED
    BY <1>a, <1>c, <2>1, <2>2 DEF LostInv, Linking
<1>3. Approving'
  <2> SUFFICES ASSUME NEW x \in Visitors, NEW r \in Regs, visit'[x].at = "approve", visit'[x].user \in Users,
                      regs'[r].user = visit'[x].user
               PROVE  r = visit'[x].on
    BY DEF Approving
  <2>1. visit'[x] = visit[x] /\ visit[x].user # u
    BY <1>b, <1>d DEF Naming
  <2> QED
    BY <1>c, <2>1 DEF LostInv, Approving
<1> QED
  BY <1>1, <1>2, <1>3

LEMMA ApproveKeeps ==
  ASSUME RegTypeInv, LostInv, [RegNext]_regVars, NEW v \in Visitors, ApproveAccount(v)
  PROVE  Belongs' /\ Linking' /\ Approving'
<1> DEFINE u == visit[v].user
           o == visit[v].on
<1>a. /\ visit[v].at = "approve" /\ u \in Users /\ o \in Regs /\ regs' = Approved(o)
      /\ admitted' = admitted \/ admitted' = admitted \cup {u}
  BY RowTypes DEF ApproveAccount, Fits, OnReg
<1>b. \A w \in Visitors : IF w = v THEN visit'[w].at = "idle" ELSE visit'[w] = visit[w]
  BY IdleFits DEF ApproveAccount, Goto, RegTypeInv, RegTypeOK
<1>c. \A r \in Regs : /\ regs'[r].user = regs[r].user
                      /\ regs'[r].st = "open" => regs[r].st = "open" /\ r # o
  BY <1>a DEF Approved, Present, RegTypeInv, RegTypeOK, Reg
<1>d. \A r \in Regs : regs[r].user = u => r = o
  BY <1>a DEF LostInv, Approving
<1>e. \A x \in Users : users[x].st # "none" => users'[x].st # "none"
  BY StepAccounts DEF AccountKept
<1>1. Belongs'
  <2>1. \A r \in Regs : regs'[r].user \in Users => users'[regs'[r].user].st # "none"
    BY <1>c, <1>e DEF LostInv, Belongs
  <2>2. \A w \in Visitors : visit'[w].at \in Naming /\ visit'[w].user \in Users => users'[visit'[w].user].st # "none"
    BY <1>b, <1>e DEF LostInv, Belongs, Naming
  <2>3. \A r \in Regs : regs'[r].st = "open" => regs'[r].user \notin admitted'
    BY <1>a, <1>c, <1>d DEF LostInv, Belongs
  <2>4. \A r, q \in Regs : regs'[r].user \in Users /\ regs'[r].user = regs'[q].user => r = q
    BY <1>c DEF LostInv, Belongs
  <2> QED
    BY <2>1, <2>2, <2>3, <2>4 DEF Belongs
<1>2. Linking'
  <2> SUFFICES ASSUME NEW x \in Visitors, visit'[x].at = "link"
               PROVE  /\ visit'[x].user \notin admitted'
                      /\ \A r \in Regs : regs'[r].user # visit'[x].user
                      /\ \A w \in Visitors : w # x /\ visit'[w].at \in Naming => visit'[w].user # visit'[x].user
    BY DEF Linking
  <2>1. x # v /\ visit'[x] = visit[x]
    BY <1>b
  <2>2. visit[x].user # u
    BY <1>a, <2>1 DEF LostInv, Linking, Naming
  <2>3. \A w \in Visitors : visit'[w].at \in Naming => visit'[w] = visit[w]
    BY <1>b DEF Naming
  <2> QED
    BY <1>a, <1>c, <2>1, <2>2, <2>3 DEF LostInv, Linking
<1>3. Approving'
  BY <1>b, <1>c DEF LostInv, Approving
<1> QED
  BY <1>1, <1>2, <1>3

LEMMA AddKeeps ==
  ASSUME RegTypeInv, LostInv, [RegNext]_regVars, NEW v \in Visitors, NEW u \in Users, AddAccount(v, u)
  PROVE  Belongs' /\ Linking' /\ Approving'
<1>a. /\ visit[v].at = "add" /\ users[u].st = "none" /\ regs' = regs /\ admitted' = admitted
      /\ \A x \in Users : users[x].st # "none" => users'[x].st # "none"
  BY StepAccounts DEF AddAccount, AccountKept
<1>b. /\ \A r \in Regs : regs[r].user # u
      /\ \A w \in Visitors : visit[w].at \in Naming => visit[w].user # u
      /\ u \notin admitted
  BY <1>a DEF LostInv, Belongs, RegTypeInv, RegTypeOK
<1>1. CASE Goto(v, Idle)
  <2>1. visit'[v] = Idle /\ \A w \in Visitors : w # v => visit'[w] = visit[w]
    BY <1>1 DEF Goto, RegTypeInv, RegTypeOK
  <2>2. NamingKept
    BY <2>1, IdleFits DEF NamingKept, Naming, Early
  <2>3. \A r \in Regs : RegKept(r)
    BY <1>a DEF RegKept
  <2> QED
    BY <1>a, <2>2, <2>3, BelongsByKept
<1>2. CASE ~Goto(v, Idle)
  <2>1. Goto(v, [visit[v] EXCEPT !.at = "link", !.user = u]) /\ users' = [users EXCEPT ![u] = NewAccount(v)]
    BY <1>2 DEF AddAccount
  <2>2. users'[u].st # "none"
    BY <2>1 DEF NewAccount, RegTypeInv, RegTypeOK
  <2>3. visit'[v].at = "link" /\ visit'[v].user = u
    BY <2>1, RowTypes DEF Goto, RegTypeInv, RegTypeOK, Request
  <2>4. \A w \in Visitors : w # v => visit'[w] = visit[w]
    BY <2>1 DEF Goto, RegTypeInv, RegTypeOK
  <2>5. Belongs'
    <3>1. \A r \in Regs : regs[r].user \in Users => users'[regs[r].user].st # "none"
      BY <1>a DEF LostInv, Belongs
    <3>2. \A w \in Visitors : visit'[w].at \in Naming /\ visit'[w].user \in Users => users'[visit'[w].user].st # "none"
      BY <1>a, <2>2, <2>3, <2>4 DEF LostInv, Belongs
    <3> QED
      BY <1>a, <3>1, <3>2 DEF LostInv, Belongs
  <2>6. Linking'
    <3> SUFFICES ASSUME NEW x \in Visitors, visit'[x].at = "link"
                 PROVE  /\ visit'[x].user \notin admitted'
                        /\ \A r \in Regs : regs'[r].user # visit'[x].user
                        /\ \A w \in Visitors : w # x /\ visit'[w].at \in Naming => visit'[w].user # visit'[x].user
      BY DEF Linking
    <3>1. CASE x = v
      BY <1>a, <1>b, <2>3, <2>4, <3>1
    <3>2. CASE x # v
      <4>1. visit'[x] = visit[x] /\ visit[x].user # u
        BY <1>b, <2>4, <3>2 DEF Naming
      <4> QED
        BY <1>a, <2>3, <2>4, <4>1 DEF LostInv, Linking
    <3> QED
      BY <3>1, <3>2
  <2>7. Approving'
    BY <1>a, <2>3, <2>4 DEF LostInv, Approving
  <2> QED
    BY <2>5, <2>6, <2>7
<1> QED
  BY <1>1, <1>2

LEMMA ReadKeeps ==
  ASSUME RegTypeInv, LostInv, [RegNext]_regVars, NEW v \in Visitors, NEW r \in Regs, ApproveRead(v, r)
  PROVE  Belongs' /\ Linking' /\ Approving'
<1>a. regs' = regs /\ admitted' = admitted /\ users' = users
  BY DEF ApproveRead
<1>1. Goto(v, [Idle EXCEPT !.at = "approve", !.on = r, !.user = regs[r].user, !.addr = regs[r].addr])
  BY Begun DEF ApproveRead
<1>2. visit'[v].at = "approve" /\ visit'[v].on = r /\ visit'[v].user = regs[r].user
  BY <1>1 DEF Goto, Idle, RegTypeInv, RegTypeOK
<1>3. \A w \in Visitors : w # v => visit'[w] = visit[w]
  BY <1>1 DEF Goto, RegTypeInv, RegTypeOK
<1>4. Belongs'
  <2>1. \A w \in Visitors : visit'[w].at \in Naming /\ visit'[w].user \in Users => users[visit'[w].user].st # "none"
    BY <1>2, <1>3 DEF LostInv, Belongs
  <2> QED
    BY <1>a, <2>1 DEF LostInv, Belongs
<1>5. Linking'
  <2> SUFFICES ASSUME NEW x \in Visitors, visit'[x].at = "link"
               PROVE  /\ visit'[x].user \notin admitted'
                      /\ \A q \in Regs : regs'[q].user # visit'[x].user
                      /\ \A w \in Visitors : w # x /\ visit'[w].at \in Naming => visit'[w].user # visit'[x].user
    BY DEF Linking
  <2>1. x # v /\ visit'[x] = visit[x]
    BY <1>2, <1>3
  <2>2. regs[r].user # visit[x].user
    BY <2>1 DEF LostInv, Linking
  <2> QED
    BY <1>a, <1>2, <1>3, <2>1, <2>2 DEF LostInv, Linking
<1>6. Approving'
  <2> SUFFICES ASSUME NEW x \in Visitors, NEW q \in Regs, visit'[x].at = "approve", visit'[x].user \in Users,
                      regs'[q].user = visit'[x].user
               PROVE  q = visit'[x].on
    BY DEF Approving
  <2>1. CASE x = v
    BY <1>a, <1>2, <2>1 DEF LostInv, Belongs
  <2>2. CASE x # v
    BY <1>a, <1>3, <2>2 DEF LostInv, Approving
  <2> QED
    BY <2>1, <2>2
<1> QED
  BY <1>4, <1>5, <1>6

LEMMA LostStep == RegTypeInv /\ LostInv /\ [RegNext]_regVars => LostInv'
<1> SUFFICES ASSUME RegTypeInv, LostInv, [RegNext]_regVars PROVE LostInv'
  OBVIOUS
<1>1. Belongs' /\ Linking' /\ Approving'
  <2>1. CASE \E v \in Visitors : LinkAccount(v)
    BY <2>1, LinkKeeps
  <2>2. CASE \E v \in Visitors : ApproveAccount(v)
    BY <2>2, ApproveKeeps
  <2>3. CASE \E v \in Visitors, u \in Users : AddAccount(v, u)
    BY <2>3, AddKeeps
  <2>4. CASE \E v \in Visitors, r \in Regs : ApproveRead(v, r)
    BY <2>4, ReadKeeps
  <2> QED
    BY <2>1, <2>2, <2>3, <2>4, StepRegs, StepAdmitted, StepNaming, BelongsByKept
<1> QED
  BY <1>1, DeletingStep DEF LostInv

\* An account that is approved is deleted by a request or by the sweep.
LEMMA LostBy ==
  ASSUME RegTypeInv, LostInv, [RegNext]_regVars, NEW u \in admitted, Exists(u), ~Exists(u)'
  PROVE  \/ \E v \in Visitors : DropUser(v) /\ visit[v].user = u
         \/ SweepUser /\ sweep.user = u
<1>a. /\ users \in [Users -> Account] /\ users[u] \in Account /\ u \in Users
      /\ users[u].st = "enabled" /\ users[u].member
  BY DEF RegTypeInv, RegTypeOK, Exists, LostInv, Deleting
<1>b. users'[u].st \notin {"disabled", "enabled"}
  BY <1>a DEF Exists
<1>c. \A x \in Users : u # x => Joined(x)[u] = users[u] /\ Enabled(x)[u] = users[u] /\ WithoutUser(x)[u] = users[u]
  BY <1>a DEF Joined, Enabled, WithoutUser
<1>d. Joined(u)[u].st = "enabled" /\ Enabled(u)[u].st = "enabled"
  BY <1>a DEF Joined, Enabled, Account
<1>e. \A v \in Visitors : visit[v].at \in OnUser => visit[v].user \in Users
  BY RowTypes DEF Fits
<1>1. ASSUME NEW v \in Visitors, Applicant(v), ~DropUser(v) PROVE FALSE
  <2>1. CASE DropPlaceholder(v)
    BY <1>a, <1>b, <2>1 DEF DropPlaceholder
  <2>2. ASSUME NEW x \in Users, AddAccount(v, x) PROVE FALSE
    BY <1>a, <1>b, <2>2 DEF AddAccount
  <2>3. ASSUME Bind(v) PROVE FALSE
    BY <1>a, <1>b, <2>3 DEF Bind, Account
  <2> QED
    BY <1>1, <1>a, <1>b, <2>1, <2>2, <2>3
       DEF Applicant, RegisterCheck, RegisterInsert, VerifyRead, WithdrawRead, PasswordRead, PasskeyBegin,
           SetVerified, DropReg, ClearUser, FinishRead, LinkAccount, FinishTake, FinishCheck
<1>2. ASSUME NEW v \in Visitors, DropUser(v) PROVE visit[v].user = u
  BY <1>2, <1>a, <1>b, <1>c, <1>e DEF DropUser, OnUser
<1>3. ASSUME NEW v \in Visitors, Inviting(v) PROVE FALSE
  <2>1. ASSUME ApproveAccount(v) PROVE FALSE
    <3>1. visit[v].user \in Users /\ users' = Enabled(visit[v].user)
      BY <2>1, RowTypes DEF ApproveAccount
    <3> QED
      BY <1>a, <1>b, <1>c, <1>d, <3>1
  <2>2. ASSUME FindReg(v) PROVE FALSE
    <3>1. visit[v].user \in Users /\ (users' = users \/ users' = Joined(visit[v].user))
      BY <1>e, <2>2 DEF FindReg, OnUser
    <3> QED
      BY <1>a, <1>b, <1>c, <1>d, <3>1
  <2>3. ASSUME BindInvitee(v) PROVE FALSE
    <3>1. users' = users \/ users' = [users EXCEPT ![visit[v].user].auth = "passkey"]
      BY <2>3 DEF BindInvitee
    <3>2. users'[u].st = users[u].st
      BY <1>a, <3>1 DEF Account
    <3> QED
      BY <1>a, <1>b, <3>2
  <2>4. ASSUME NEW x \in Users, EnableByHand(v, x) PROVE FALSE
    BY <1>a, <1>b, <2>4 DEF EnableByHand
  <2>5. ASSUME NEW x \in Users, Redeem(v, x) PROVE FALSE
    BY <1>a, <1>b, <2>5 DEF Redeem
  <2>6. ASSUME NEW x \in Users, AddInvitee(v, x) PROVE FALSE
    BY <1>a, <1>b, <2>6 DEF AddInvitee
  <2> QED
    BY <1>3, <1>a, <1>b, <2>1, <2>2, <2>3, <2>4, <2>5, <2>6
       DEF Inviting, ApproveRead, Reconnect, DeleteInvite, Abort, ApproveInvite, Reissue, RevokeRead, InviteRead
<1>4. ASSUME Housekeeping PROVE SweepUser /\ sweep.user = u
  <2>1. ASSUME SweepUser PROVE sweep.user = u
    <3>1. sweep.user \in Users /\ users' = WithoutUser(sweep.user)
      BY <2>1 DEF SweepUser, RegTypeInv, RegTypeOK
    <3> QED
      BY <1>a, <1>b, <1>c, <3>1
  <2>2. ASSUME SweepCeremonies PROVE FALSE
    <3>1. users'[u] = users[u]
      BY <1>a, <2>2 DEF SweepCeremonies, Abandoned
    <3> QED
      BY <1>a, <1>b, <3>1
  <2> QED
    BY <1>4, <1>a, <1>b, <2>1, <2>2
       DEF Housekeeping, SweepList, SweepReg, SweepInvites, CreateInvite, InviteExpires, RegExpires, CeremonyExpires
<1> QED
  BY <1>1, <1>2, <1>3, <1>4, <1>a, <1>b DEF RegNext, regVars

LEMMA LostInit == RegInit => LostInv
<1> SUFFICES ASSUME RegInit PROVE LostInv
  OBVIOUS
<1>1. \A r \in Regs : regs[r].user = Nobody
  BY DEF RegInit
<1>2. \A v \in Visitors : visit[v].at = "idle"
  BY IdleFits DEF RegInit
<1>3. sweep.todo = {} /\ sweep.user = Nobody /\ admitted = {}
  BY DEF RegInit
<1> QED
  BY <1>1, <1>2, <1>3, RegistrationAssumption DEF LostInv, Belongs, Linking, Approving, Deleting, Early, Naming

\* An approved account is deleted only by a request or a sweep that read the registration
\* before the approval, or by the applicant's own ceremony, however many of them overlap.
THEOREM ApprovedTheorem == RegSpec => ApprovedLostOnlyEarly
<1>1. RegTypeInv /\ LostInv /\ [RegNext]_regVars =>
        [\A u \in admitted : Exists(u) /\ ~Exists(u)' =>
           \/ \E v \in Visitors : /\ visit[v].at = "drop user" /\ visit[v].user = u
                                  /\ visit[v].early \/ visit[v].ceremony # ""
           \/ sweep.user = u /\ sweep.early]_regVars
  <2> SUFFICES ASSUME RegTypeInv, LostInv, [RegNext]_regVars, NEW u \in admitted, Exists(u), ~Exists(u)'
               PROVE  \/ \E v \in Visitors : /\ visit[v].at = "drop user" /\ visit[v].user = u
                                             /\ visit[v].early \/ visit[v].ceremony # ""
                      \/ sweep.user = u /\ sweep.early
    OBVIOUS
  <2>1. u \in Users
    BY DEF Exists
  <2>2. ASSUME NEW v \in Visitors, DropUser(v), visit[v].user = u
        PROVE  visit[v].at = "drop user" /\ (visit[v].early \/ visit[v].ceremony # "")
    BY <2>1, <2>2 DEF DropUser, LostInv, Deleting, Early
  <2>3. sweep.user = u => sweep.early
    BY <2>1 DEF LostInv, Deleting
  <2> QED
    BY <2>2, <2>3, LostBy
<1> QED
  BY <1>1, RegInitTypes, RegStepTypes, LostInit, LostStep, PTL DEF RegSpec, ApprovedLostOnlyEarly

-----------------------------------------------------------------------------
(* Webhooks: types, and why a subscription is off.                          *)

\* A goroutine or a patch is about a row that was inserted.
WhTypeInv ==
  /\ WhTypeOK
  /\ \A d \in Deliveries : /\ delivery[d].at # "off" => delivery[d].hook \in Hooks
                           /\ delivery[d].hook \in Hooks => hooks[delivery[d].hook].st # "none"
  /\ \A o \in Owners : owner[o].at = "update" => owner[o].hook \in Hooks /\ owner[o].read.st = "there"

\* What a step may do to the rows: columns of a row that stands, or a new row.
Columns(h, row) == Standing(h) /\ row \in HookRow /\ row.st # "none" /\ hooks' = [hooks EXCEPT ![h] = row]
Keeps == hooks' = hooks \/ \E h \in Hooks, row \in HookRow : Columns(h, row)

LEMMA WhRows ==
  ASSUME WhTypeInv
  PROVE  /\ \A h \in Hooks : hooks[h] \in HookRow
         /\ \A d \in Deliveries : delivery[d] \in Delivery
         /\ \A o \in Owners : owner[o] \in Patch /\ owner[o].read \in HookRow
<1>1. \A o \in Owners : owner[o] \in Patch
  BY DEF WhTypeInv, WhTypeOK
<1> QED
  BY <1>1 DEF WhTypeInv, WhTypeOK, Patch

LEMMA StandsOn ==
  ASSUME WhTypeInv, Keeps
  PROVE  hooks' \in [Hooks -> HookRow] /\ \A h \in Hooks : hooks[h].st # "none" => hooks'[h].st # "none"
<1>1. hooks \in [Hooks -> HookRow]
  BY DEF WhTypeInv, WhTypeOK
<1>2. ASSUME NEW h \in Hooks, NEW row \in HookRow, Columns(h, row)
      PROVE  hooks' \in [Hooks -> HookRow] /\ \A x \in Hooks : hooks[x].st # "none" => hooks'[x].st # "none"
  BY <1>1, <1>2 DEF Columns
<1> QED
  BY <1>1, <1>2 DEF Keeps

\* The columns that a delivery and a patch write.
LEMMA WroteColumns ==
  ASSUME WhTypeInv, NEW h, NEW row, Standing(h) => row \in HookRow /\ row.st # "none", Wrote(h, row)
  PROVE  /\ Keeps
         /\ Standing(h) => hooks' = [hooks EXCEPT ![h] = row]
         /\ ~Standing(h) => hooks' = hooks
  BY DEF Wrote, Keeps, Columns, Standing

LEMMA HookForms ==
  ASSUME WhTypeInv, NEW h \in Hooks, Standing(h)
  PROVE  /\ [hooks[h] EXCEPT !.failures = 0] \in HookRow
         /\ [hooks[h] EXCEPT !.failures = 0].st # "none"
         /\ [hooks[h] EXCEPT !.failures = @ + 1] \in HookRow
         /\ [hooks[h] EXCEPT !.failures = @ + 1].st # "none"
         /\ [hooks[h] EXCEPT !.active = FALSE] \in HookRow
         /\ [hooks[h] EXCEPT !.active = FALSE].st # "none"
         /\ [hooks[h] EXCEPT !.st = "gone"] \in HookRow
         /\ [hooks[h] EXCEPT !.st = "gone"].st # "none"
<1>1. hooks[h] \in HookRow /\ hooks[h].st = "there"
  BY WhRows DEF Standing
<1>2. /\ [hooks[h] EXCEPT !.failures = 0] \in HookRow
      /\ [hooks[h] EXCEPT !.failures = 0].st = "there"
  BY <1>1 DEF HookRow
<1>3. /\ [hooks[h] EXCEPT !.failures = @ + 1] \in HookRow
      /\ [hooks[h] EXCEPT !.failures = @ + 1].st = "there"
  BY <1>1 DEF HookRow
<1>4. /\ [hooks[h] EXCEPT !.active = FALSE] \in HookRow
      /\ [hooks[h] EXCEPT !.active = FALSE].st = "there"
  BY <1>1 DEF HookRow
<1>5. /\ [hooks[h] EXCEPT !.st = "gone"] \in HookRow
      /\ [hooks[h] EXCEPT !.st = "gone"].st = "gone"
  BY <1>1 DEF HookRow
<1> QED
  BY <1>2, <1>3, <1>4, <1>5

LEMMA PatchForms ==
  ASSUME WhTypeInv, NEW o \in Owners, owner[o].at = "update"
  PROVE  Patched(owner[o]) \in HookRow /\ Patched(owner[o]).st = "there"
<1>1. owner[o].read \in HookRow /\ owner[o].read.st = "there" /\ owner[o].switch \in {"keep", "on", "off"}
  BY WhRows DEF WhTypeInv, Patch
<1> QED
  BY <1>1 DEF Patched, Reactivates, HookRow

LEMMA WhInitTypes == WhInit => WhTypeInv
<1> SUFFICES ASSUME WhInit PROVE WhTypeInv
  OBVIOUS
<1>1. NoRow \in HookRow /\ Stopped \in Delivery /\ Stopped.at = "off" /\ Stopped.hook = NoHook
  BY WebhooksAssumption DEF NoRow, HookRow, Stopped, Delivery
<1>2. NoPatch \in Patch /\ NoPatch.at = "off"
  BY <1>1 DEF NoPatch, Patch
<1>3. spent \in [posts : 0 .. MaxPosts, patches : 0 .. MaxPatches, crashes : 0 .. MaxCrashes]
  BY WebhooksAssumption DEF WhInit
<1> QED
  BY <1>1, <1>2, <1>3, WebhooksAssumption DEF WhInit, WhTypeInv, WhTypeOK
\* The steps of a goroutine.
LEMMA StoppedForm == Stopped \in Delivery /\ Stopped.at = "off" /\ Stopped.hook = NoHook /\ NoHook \notin Hooks
<1>1. Backoffs \in Nat /\ NoHook \notin Hooks
  BY WebhooksAssumption
<1> QED
  BY <1>1 DEF Stopped, Delivery

LEMMA StartForm ==
  ASSUME NEW h \in Hooks
  PROVE  /\ [Stopped EXCEPT !.at = "select", !.hook = h] \in Delivery
         /\ [Stopped EXCEPT !.at = "select", !.hook = h].hook = h
         /\ [Stopped EXCEPT !.at = "select", !.hook = h].at = "select"
<1> DEFINE x == Stopped
<1>1. x \in Delivery
  BY StoppedForm
<1> HIDE DEF x
<1>2. [x EXCEPT !.at = "select", !.hook = h] \in Delivery
  BY <1>1 DEF Delivery
<1>3. [x EXCEPT !.at = "select", !.hook = h].hook = h /\ [x EXCEPT !.at = "select", !.hook = h].at = "select"
  BY <1>1 DEF Delivery
<1> QED
  BY <1>2, <1>3 DEF x

LEMMA AtForms ==
  ASSUME WhTypeInv, NEW d \in Deliveries,
         NEW at \in {"select", "post", "success", "count", "compare", "disable"}
  PROVE  /\ [delivery[d] EXCEPT !.at = at] \in Delivery
         /\ [delivery[d] EXCEPT !.at = at].hook = delivery[d].hook
         /\ [delivery[d] EXCEPT !.at = at].at = at
<1>1. delivery[d] \in Delivery
  BY WhRows
<1> QED
  BY <1>1 DEF Delivery

LEMMA LastForm ==
  ASSUME WhTypeInv, NEW d \in Deliveries
  PROVE  /\ [delivery[d] EXCEPT !.at = "count", !.last = TRUE] \in Delivery
         /\ [delivery[d] EXCEPT !.at = "count", !.last = TRUE].hook = delivery[d].hook
         /\ [delivery[d] EXCEPT !.at = "count", !.last = TRUE].at = "count"
<1>1. delivery[d] \in Delivery
  BY WhRows
<1> QED
  BY <1>1 DEF Delivery

LEMMA RetryForm ==
  ASSUME WhTypeInv, NEW d \in Deliveries
  PROVE  /\ ~(delivery[d].attempt >= Backoffs) => [delivery[d] EXCEPT !.at = "select", !.attempt = @ + 1] \in Delivery
         /\ [delivery[d] EXCEPT !.at = "select", !.attempt = @ + 1].hook = delivery[d].hook
         /\ [delivery[d] EXCEPT !.at = "select", !.attempt = @ + 1].at = "select"
<1>1. delivery[d] \in Delivery /\ Backoffs \in Nat
  BY WhRows, WebhooksAssumption
<1>2. delivery[d].attempt \in 0 .. Backoffs
  BY <1>1 DEF Delivery
<1>3. ~(delivery[d].attempt >= Backoffs) => delivery[d].attempt + 1 \in 0 .. Backoffs
  BY <1>1, <1>2
<1>4. delivery[d].attempt + 1 \in 0 .. Backoffs => [delivery[d] EXCEPT !.at = "select", !.attempt = @ + 1] \in Delivery
  BY <1>1 DEF Delivery
<1>5. /\ [delivery[d] EXCEPT !.at = "select", !.attempt = @ + 1].hook = delivery[d].hook
      /\ [delivery[d] EXCEPT !.at = "select", !.attempt = @ + 1].at = "select"
  BY <1>1 DEF Delivery
<1> QED
  BY <1>3, <1>4, <1>5

\* A goroutine that goes on about its row, or about one that stands, leaves the types.
LEMMA WhTypeByStep ==
  ASSUME WhTypeInv, NEW d \in Deliveries, NEW step \in Delivery, Step(d, step),
         \/ step.hook = delivery[d].hook /\ delivery[d].at # "off"
         \/ step = Stopped
         \/ step.hook \in Hooks /\ hooks'[step.hook].st # "none",
         hooks' \in [Hooks -> HookRow],
         \A h \in Hooks : hooks[h].st # "none" => hooks'[h].st # "none",
         spent' \in [posts : 0 .. MaxPosts, patches : 0 .. MaxPatches, crashes : 0 .. MaxCrashes],
         owner' \in [Owners -> Patch],
         \A o \in Owners : owner'[o].at = "update" => owner'[o].hook \in Hooks /\ owner'[o].read.st = "there",
         byOwner' \subseteq Hooks, doubt' \subseteq Hooks
  PROVE  WhTypeInv'
<1>1. delivery \in [Deliveries -> Delivery]
  BY DEF WhTypeInv, WhTypeOK
<1>2. delivery' \in [Deliveries -> Delivery]
  BY <1>1 DEF Step
<1>3. ASSUME NEW x \in Deliveries
      PROVE  /\ delivery'[x].at # "off" => delivery'[x].hook \in Hooks
             /\ delivery'[x].hook \in Hooks => hooks'[delivery'[x].hook].st # "none"
  <2>1. CASE x # d
    <3>1. delivery'[x] = delivery[x]
      BY <1>1, <2>1 DEF Step
    <3> QED
      BY <3>1 DEF WhTypeInv
  <2>2. CASE x = d
    <3>1. delivery'[x] = step
      BY <1>1, <2>2 DEF Step
    <3>2. Stopped.at = "off" /\ Stopped.hook \notin Hooks
      BY WebhooksAssumption DEF Stopped
    <3> QED
      BY <3>1, <3>2 DEF WhTypeInv
  <2> QED
    BY <2>1, <2>2
<1> QED
  BY <1>2, <1>3 DEF WhTypeInv, WhTypeOK

LEMMA DeliveryTypes ==
  ASSUME WhTypeInv, NEW d \in Deliveries,
         \/ \E h \in Hooks : Dispatch(d, h)
         \/ Select(d) \/ PostWebhook(d) \/ ResetFailures(d)
         \/ CountFailure(d) \/ CompareCount(d) \/ DisableHook(d)
  PROVE  WhTypeInv'
<1>a. /\ hooks \in [Hooks -> HookRow] /\ owner \in [Owners -> Patch]
      /\ byOwner \subseteq Hooks /\ doubt \subseteq Hooks
      /\ spent \in [posts : 0 .. MaxPosts, patches : 0 .. MaxPatches, crashes : 0 .. MaxCrashes]
      /\ \A o \in Owners : owner[o].at = "update" => owner[o].hook \in Hooks /\ owner[o].read.st = "there"
  BY DEF WhTypeInv, WhTypeOK
<1>b. delivery[d].at # "off" => delivery[d].hook \in Hooks
  BY DEF WhTypeInv
<1>1. ASSUME NEW h \in Hooks, Dispatch(d, h) PROVE WhTypeInv'
  <2>1. hooks[h].st # "none"
    BY <1>1 DEF Dispatch, Standing
  <2> QED
    BY <1>1, <1>a, <2>1, StartForm, WhTypeByStep DEF Dispatch
<1>2. CASE Select(d)
  <2>1. spent' \in [posts : 0 .. MaxPosts, patches : 0 .. MaxPatches, crashes : 0 .. MaxCrashes]
    BY <1>2, <1>a, WebhooksAssumption DEF Select
  <2>2. \E step \in Delivery : Step(d, step) /\ (step.hook = delivery[d].hook \/ step = Stopped)
    BY <1>2, AtForms, LastForm, StoppedForm DEF Select, StepAt
  <2> QED
    BY <1>2, <1>a, <2>1, <2>2, WhTypeByStep DEF Select
<1>3. CASE PostWebhook(d)
  <2>1. \E step \in Delivery : Step(d, step) /\ step.hook = delivery[d].hook
    BY <1>3, AtForms DEF PostWebhook, StepAt
  <2> QED
    BY <1>3, <1>a, <2>1, WhTypeByStep DEF PostWebhook
<1>4. CASE ResetFailures(d)
  <2>1. Keeps
    BY <1>4, <1>b, HookForms, WroteColumns DEF ResetFailures
  <2>2. doubt' \subseteq Hooks
    BY <1>4, <1>a, <1>b DEF ResetFailures
  <2> QED
    BY <1>4, <1>a, <2>1, <2>2, StandsOn, StoppedForm, WhTypeByStep DEF ResetFailures
<1>5. CASE CountFailure(d)
  <2>1. Keeps
    BY <1>5, <1>b, HookForms, WroteColumns DEF CountFailure
  <2>2. \E step \in Delivery : Step(d, step) /\ step.hook = delivery[d].hook
    BY <1>5, AtForms DEF CountFailure, StepAt
  <2> QED
    BY <1>5, <1>a, <2>1, <2>2, StandsOn, WhTypeByStep DEF CountFailure
<1>6. CASE CompareCount(d)
  <2>2. \E step \in Delivery : Step(d, step) /\ (step.hook = delivery[d].hook \/ step = Stopped)
    BY <1>6, AtForms, RetryForm, StoppedForm DEF CompareCount, StepAt
  <2> QED
    BY <1>6, <1>a, <2>2, WhTypeByStep DEF CompareCount
<1>7. CASE DisableHook(d)
  <2>1. Keeps
    BY <1>7, <1>b, HookForms, WroteColumns DEF DisableHook
  <2> QED
    BY <1>7, <1>a, <2>1, StandsOn, StoppedForm, WhTypeByStep DEF DisableHook
<1> QED
  BY <1>1, <1>2, <1>3, <1>4, <1>5, <1>6, <1>7

LEMMA OwnerTypes ==
  ASSUME WhTypeInv, NEW o \in Owners,
         \/ CreateHook(o)
         \/ \E h \in Hooks, d \in Deliveries : InsertHook(o, h, d)
         \/ \E h \in Hooks, switch \in {"keep", "on", "off"} : PatchRead(o, h, switch)
         \/ PatchWrite(o)
  PROVE  WhTypeInv'
<1>a. /\ hooks \in [Hooks -> HookRow] /\ owner \in [Owners -> Patch]
      /\ byOwner \subseteq Hooks /\ doubt \subseteq Hooks
      /\ spent \in [posts : 0 .. MaxPosts, patches : 0 .. MaxPatches, crashes : 0 .. MaxCrashes]
      /\ delivery \in [Deliveries -> Delivery]
  BY DEF WhTypeInv, WhTypeOK
<1>b. /\ NoRow \in HookRow /\ NoPatch \in Patch /\ NoPatch.at = "off"
      /\ [NoPatch EXCEPT !.at = "insert"] \in Patch /\ [NoPatch EXCEPT !.at = "insert"].at = "insert"
  BY DEF NoRow, NoPatch, HookRow, Patch
<1>c. ASSUME NEW p \in Patch, Ask(o, p), p.at = "update" => p.hook \in Hooks /\ p.read.st = "there",
             UNCHANGED <<hooks, delivery, byOwner, doubt>>
      PROVE  WhTypeInv'
  <2>1. spent' \in [posts : 0 .. MaxPosts, patches : 0 .. MaxPatches, crashes : 0 .. MaxCrashes]
    BY <1>a, <1>c, WebhooksAssumption DEF Ask
  <2>2. owner' \in [Owners -> Patch] /\ \A x \in Owners : owner'[x] = owner[x] \/ owner'[x] = p
    BY <1>a, <1>c DEF Ask
  <2> QED
    BY <1>c, <2>1, <2>2 DEF WhTypeInv, WhTypeOK
<1>d. ASSUME Answer(o)
      PROVE  /\ owner' \in [Owners -> Patch]
             /\ \A x \in Owners : owner'[x].at = "update" => owner'[x].hook \in Hooks /\ owner'[x].read.st = "there"
  <2>1. owner' \in [Owners -> Patch] /\ \A x \in Owners : owner'[x] = owner[x] \/ owner'[x] = NoPatch
    BY <1>a, <1>b, <1>d DEF Answer
  <2> QED
    BY <1>b, <2>1 DEF WhTypeInv
<1>1. CASE CreateHook(o)
  BY <1>1, <1>b, <1>c DEF CreateHook
<1>2. ASSUME NEW h \in Hooks, NEW d \in Deliveries, InsertHook(o, h, d) PROVE WhTypeInv'
  <2>1. /\ hooks' \in [Hooks -> HookRow] /\ hooks'[h].st # "none"
        /\ \A x \in Hooks : hooks[x].st # "none" => hooks'[x].st # "none"
    BY <1>2, <1>a DEF InsertHook, HookRow
  <2>2. /\ Step(d, [Stopped EXCEPT !.at = "select", !.hook = h]) /\ Answer(o)
        /\ spent' = spent /\ byOwner' = byOwner /\ doubt' = doubt
    BY <1>2 DEF InsertHook
  <2>3. /\ [Stopped EXCEPT !.at = "select", !.hook = h] \in Delivery
        /\ [Stopped EXCEPT !.at = "select", !.hook = h].hook = h
    BY StartForm
  <2> QED
    BY <1>a, <1>d, <2>1, <2>2, <2>3, WhTypeByStep
<1>3. ASSUME NEW h \in Hooks, NEW switch \in {"keep", "on", "off"}, PatchRead(o, h, switch) PROVE WhTypeInv'
  <2>1. [at |-> "update", hook |-> h, read |-> hooks[h], switch |-> switch] \in Patch
    BY WhRows DEF Patch
  <2> QED
    BY <1>3, <1>c, <2>1 DEF PatchRead, Standing
<1>4. CASE PatchWrite(o)
  <2>1. owner[o].at = "update" /\ owner[o].hook \in Hooks
    BY <1>4 DEF PatchWrite, WhTypeInv
  <2>2. Keeps
    BY <1>4, <2>1, PatchForms, WroteColumns DEF PatchWrite
  <2>3. byOwner' \subseteq Hooks /\ doubt' \subseteq Hooks
    BY <1>4, <1>a, <2>1 DEF PatchWrite
  <2>4. delivery' = delivery /\ spent' = spent /\ Answer(o)
    BY <1>4 DEF PatchWrite
  <2> QED
    BY <1>a, <1>d, <2>2, <2>3, <2>4, StandsOn DEF WhTypeInv, WhTypeOK
<1> QED
  BY <1>1, <1>2, <1>3, <1>4

LEMMA WhStepTypes == WhTypeInv /\ [WhNext]_whVars => WhTypeInv'
<1> SUFFICES ASSUME WhTypeInv, [WhNext]_whVars PROVE WhTypeInv'
  OBVIOUS
<1>1. CASE UNCHANGED whVars
  BY <1>1 DEF whVars, WhTypeInv, WhTypeOK
<1>2. ASSUME NEW h \in Hooks, DeleteHook(h) PROVE WhTypeInv'
  <2>1. hooks' = [hooks EXCEPT ![h] = [hooks[h] EXCEPT !.st = "gone"]]
    BY <1>2 DEF DeleteHook, WhTypeInv, WhTypeOK
  <2>2. Keeps
    BY <1>2, <2>1, HookForms DEF DeleteHook, Keeps, Columns
  <2> QED
    BY <1>2, <2>2, StandsOn DEF DeleteHook, WhTypeInv, WhTypeOK
<1>3. CASE WhCrash
  <2>1. Stopped \in Delivery /\ Stopped.at = "off" /\ Stopped.hook \notin Hooks
    BY WebhooksAssumption DEF Stopped, Delivery
  <2>2. NoPatch \in Patch /\ NoPatch.at = "off"
    BY DEF NoPatch, Patch, NoRow, HookRow
  <2>3. spent' \in [posts : 0 .. MaxPosts, patches : 0 .. MaxPatches, crashes : 0 .. MaxCrashes]
    BY <1>3, WebhooksAssumption DEF WhCrash, WhTypeInv, WhTypeOK
  <2>4. delivery' \in [Deliveries -> Delivery] /\ \A d \in Deliveries : delivery'[d] = Stopped
    BY <1>3, <2>1 DEF WhCrash
  <2>5. owner' \in [Owners -> Patch] /\ \A o \in Owners : owner'[o] = NoPatch
    BY <1>3, <2>2 DEF WhCrash
  <2>6. hooks' = hooks /\ byOwner' = byOwner /\ doubt' \subseteq Hooks
    BY <1>3 DEF WhCrash, WhTypeInv, WhTypeOK
  <2>7. WhTypeOK'
    BY <2>3, <2>4, <2>5, <2>6 DEF WhTypeInv, WhTypeOK
  <2>8. \A d \in Deliveries : delivery'[d].at = "off" /\ delivery'[d].hook \notin Hooks
    BY <2>1, <2>4
  <2>9. \A o \in Owners : owner'[o].at = "off"
    BY <2>2, <2>5
  <2> QED
    BY <2>7, <2>8, <2>9 DEF WhTypeInv
<1> QED
  BY <1>1, <1>2, <1>3, DeliveryTypes, OwnerTypes DEF WhNext

\* Every row, goroutine and patch of the webhooks keeps its type.
THEOREM WhTypeCorrect == WhSpec => []WhTypeOK
<1>1. WhTypeInv => WhTypeOK
  BY DEF WhTypeInv
<1> QED
  BY <1>1, WhInitTypes, WhStepTypes, PTL DEF WhSpec

\* Who is about to switch a subscription off has counted the failures it still has.
PauseInv ==
  /\ PauseExplained
  /\ \A d \in Deliveries : delivery[d].at = "disable" /\ Standing(delivery[d].hook) /\ delivery[d].hook \notin doubt
                             => TooMany(hooks[delivery[d].hook].failures)

\* The same for one subscription.
PausedRight(h) ==
  /\ hooks[h].active \/ h \in byOwner \/ TooMany(hooks[h].failures)
  /\ hooks[h].active /\ TooMany(hooks[h].failures) => Deciding(h)
  /\ \A d \in Deliveries : delivery[d].at = "disable" /\ delivery[d].hook = h => TooMany(hooks[h].failures)

LEMMA PauseByHook ==
  /\ PauseInv => \A h \in Hooks : Standing(h) /\ h \notin doubt => PausedRight(h)
  /\ (\A h \in Hooks : Standing(h) /\ h \notin doubt => PausedRight(h)) => PauseInv
<1>1. PauseInv => \A h \in Hooks : Standing(h) /\ h \notin doubt => PausedRight(h)
  BY DEF PauseInv, PauseExplained, PausedRight
<1>2. (\A h \in Hooks : Standing(h) /\ h \notin doubt => PausedRight(h)) => PauseInv
  BY DEF PauseInv, PauseExplained, PausedRight, Standing
<1> QED
  BY <1>1, <1>2

\* A step of a goroutine that leaves the rows: the decision it had begun about h is
\* taken further, or dropped because the failures are few.
LEMMA PauseByStep ==
  ASSUME WhTypeInv, NEW h \in Hooks, PausedRight(h), NEW d \in Deliveries, NEW step, Step(d, step),
         hooks'[h] = hooks[h], h \in byOwner => h \in byOwner',
         \/ delivery[d].hook # h
         \/ delivery[d].at \notin {"compare", "disable"}
         \/ ~TooMany(hooks[h].failures)
         \/ step.hook = h /\ step.at \in {"compare", "disable"},
         step.hook = h /\ step.at = "disable" => TooMany(hooks[h].failures)
  PROVE  PausedRight(h)'
<1>1. delivery \in [Deliveries -> Delivery]
  BY DEF WhTypeInv, WhTypeOK
<1>2. delivery'[d] = step /\ \A x \in Deliveries : x # d => delivery'[x] = delivery[x]
  BY <1>1 DEF Step
<1>3. hooks'[h].active /\ TooMany(hooks'[h].failures) => Deciding(h)'
  BY <1>2 DEF PausedRight, Deciding
<1>4. \A x \in Deliveries : delivery'[x].at = "disable" /\ delivery'[x].hook = h => TooMany(hooks'[h].failures)
  BY <1>2 DEF PausedRight
<1> QED
  BY <1>3, <1>4 DEF PausedRight, TooMany

LEMMA PauseByDelivery ==
  ASSUME WhTypeInv, NEW h \in Hooks, NEW d \in Deliveries,
         \/ \E x \in Hooks : Dispatch(d, x)
         \/ Select(d) \/ PostWebhook(d) \/ ResetFailures(d)
         \/ CountFailure(d) \/ CompareCount(d) \/ DisableHook(d),
         Standing(h) /\ h \notin doubt => PausedRight(h), Standing(h)', h \notin doubt'
  PROVE  PausedRight(h)'
<1>a. /\ hooks \in [Hooks -> HookRow] /\ delivery \in [Deliveries -> Delivery]
      /\ \A x \in Hooks : hooks[x] \in HookRow /\ hooks[x].failures \in Nat
      /\ delivery[d].at # "off" => delivery[d].hook \in Hooks
  BY WhRows DEF WhTypeInv, WhTypeOK, HookRow
<1>b. DisableAfter \in Nat \ {0}
  BY WebhooksAssumption
<1>1. ASSUME NEW x \in Hooks, Dispatch(d, x) PROVE PausedRight(h)'
  <2>1. delivery[d].at = "off" /\ Step(d, [Stopped EXCEPT !.at = "select", !.hook = x])
    BY <1>1, StoppedForm DEF Dispatch
  <2> QED
    BY <1>1, <2>1, StartForm, PauseByStep DEF Dispatch, Standing
<1>2. CASE Select(d) \/ PostWebhook(d)
  <2>a. /\ [delivery[d] EXCEPT !.at = "count", !.last = TRUE].at = "count" /\ Stopped.at = "off"
        /\ [delivery[d] EXCEPT !.at = "post"].at = "post"
        /\ [delivery[d] EXCEPT !.at = "success"].at = "success"
        /\ [delivery[d] EXCEPT !.at = "count"].at = "count"
    BY LastForm, StoppedForm, <1>a DEF Delivery
  <2>b. delivery[d].at \notin {"compare", "disable"}
    BY <1>2 DEF Select, PostWebhook
  <2>c. \E step : Step(d, step) /\ step.at # "disable"
    <3>1. CASE Select(d)
      BY <2>a, <3>1 DEF Select, StepAt
    <3>2. CASE PostWebhook(d)
      BY <2>a, <3>2 DEF PostWebhook, StepAt
    <3> QED
      BY <1>2, <3>1, <3>2
  <2>1. /\ delivery[d].at \notin {"compare", "disable"}
        /\ \E step : Step(d, step) /\ step.at # "disable"
    BY <2>b, <2>c
  <2> QED
    BY <1>2, <2>1, PauseByStep DEF Select, PostWebhook, Standing
<1>3. CASE ResetFailures(d)
  <2>1. /\ delivery[d].at = "success" /\ delivery[d].hook \in Hooks
        /\ Wrote(delivery[d].hook, [hooks[delivery[d].hook] EXCEPT !.failures = 0])
        /\ Step(d, Stopped) /\ byOwner' = byOwner
    BY <1>3, <1>a DEF ResetFailures
  <2>2. CASE delivery[d].hook # h \/ hooks' = hooks
    <3>1. hooks'[h] = hooks[h] /\ PausedRight(h)
      BY <1>3, <1>a, <2>1, <2>2 DEF Wrote, Standing, ResetFailures
    <3>2. \A x \in Deliveries : x # d => delivery'[x] = delivery[x]
      BY <1>a, <2>1 DEF Step
    <3>3. delivery'[d].at = "off"
      BY <1>a, <2>1, StoppedForm DEF Step
    <3>4. Deciding(h) => Deciding(h)'
      BY <2>1, <3>2 DEF Deciding
    <3> QED
      BY <2>1, <3>1, <3>2, <3>3, <3>4 DEF PausedRight, TooMany
  <2>3. CASE delivery[d].hook = h /\ hooks' # hooks
    <3>1. Standing(h) /\ hooks[h].active /\ ~Deciding(h)
      BY <1>3, <2>1, <2>3 DEF ResetFailures, Wrote
    <3>2. hooks'[h].active /\ ~TooMany(hooks'[h].failures)
      BY <1>a, <1>b, <2>1, <2>3, <3>1 DEF Wrote, TooMany, HookRow
    <3>3. \A x \in Deliveries : delivery'[x] = delivery[x] \/ delivery'[x] = Stopped
      BY <1>a, <2>1 DEF Step
    <3>4. \A x \in Deliveries : delivery'[x].hook = h => delivery'[x].at # "disable"
      BY <3>1, <3>3, StoppedForm DEF Deciding
    <3> QED
      BY <3>2, <3>4 DEF PausedRight
  <2> QED
    BY <2>2, <2>3
<1>4. CASE CountFailure(d)
  <2>1. /\ delivery[d].at = "count" /\ delivery[d].hook \in Hooks
        /\ Wrote(delivery[d].hook, [hooks[delivery[d].hook] EXCEPT !.failures = @ + 1])
        /\ StepAt(d, "compare") /\ byOwner' = byOwner /\ doubt' = doubt
    BY <1>4, <1>a DEF CountFailure
  <2>2. /\ hooks'[h].active = hooks[h].active /\ hooks'[h].st = hooks[h].st
        /\ TooMany(hooks[h].failures) => TooMany(hooks'[h].failures)
    BY <1>a, <1>b, <2>1 DEF Wrote, TooMany, HookRow
  <2>3. delivery[d].hook # h => hooks'[h] = hooks[h]
    BY <1>a, <2>1 DEF Wrote
  <2>4. delivery'[d].hook = delivery[d].hook /\ delivery'[d].at = "compare"
    BY <1>a, <2>1, AtForms DEF StepAt, Step
  <2>5. \A x \in Deliveries : x # d => delivery'[x] = delivery[x]
    BY <1>a, <2>1 DEF StepAt, Step
  <2>6. Standing(h) /\ PausedRight(h)
    BY <2>1, <2>2 DEF Standing
  <2>7. delivery[d].hook = h => Deciding(h)'
    BY <2>4 DEF Deciding
  <2>8. Deciding(h) => Deciding(h)'
    BY <2>1, <2>5 DEF Deciding
  <2>9. \A x \in Deliveries : delivery'[x].at = "disable" /\ delivery'[x].hook = h => TooMany(hooks'[h].failures)
    BY <2>2, <2>4, <2>5, <2>6 DEF PausedRight
  <2> QED
    BY <2>1, <2>2, <2>3, <2>6, <2>7, <2>8, <2>9 DEF PausedRight
<1>5. CASE CompareCount(d)
  <2>1. delivery[d].at = "compare" /\ delivery[d].hook \in Hooks /\ hooks' = hooks /\ doubt' = doubt /\ byOwner' = byOwner
    BY <1>5, <1>a DEF CompareCount
  <2>2. Standing(h) /\ PausedRight(h)
    BY <2>1 DEF Standing
  <2>3. CASE delivery[d].hook = h /\ TooMany(hooks[h].failures)
    <3>1. StepAt(d, "disable")
      BY <1>5, <2>2, <2>3 DEF CompareCount
    <3>2. [delivery[d] EXCEPT !.at = "disable"].hook = h /\ [delivery[d] EXCEPT !.at = "disable"].at = "disable"
      BY <2>3, AtForms
    <3> QED
      BY <2>1, <2>2, <2>3, <3>1, <3>2, PauseByStep DEF StepAt
  <2>4. CASE delivery[d].hook = h /\ ~TooMany(hooks[h].failures)
    <3>1. \/ Step(d, Stopped)
          \/ Step(d, [delivery[d] EXCEPT !.at = "select", !.attempt = @ + 1])
      BY <1>5, <2>2, <2>4 DEF CompareCount
    <3>2. [delivery[d] EXCEPT !.at = "select", !.attempt = @ + 1].at = "select" /\ Stopped.at = "off"
      BY RetryForm, StoppedForm
    <3> QED
      BY <2>1, <2>2, <2>4, <3>1, <3>2, PauseByStep
  <2>5. CASE delivery[d].hook # h
    <3>a. [delivery[d] EXCEPT !.at = "disable"].hook = delivery[d].hook
      BY AtForms
    <3>b. [delivery[d] EXCEPT !.at = "select", !.attempt = @ + 1].hook = delivery[d].hook
      BY RetryForm
    <3>1. \E step : Step(d, step) /\ (step.hook = delivery[d].hook \/ step = Stopped)
      BY <1>5, <3>a, <3>b DEF CompareCount, StepAt
    <3>2. Stopped.hook # h
      BY StoppedForm
    <3> QED
      BY <2>1, <2>2, <2>5, <3>1, <3>2, PauseByStep
  <2> QED
    BY <2>3, <2>4, <2>5
<1>6. CASE DisableHook(d)
  <2>1. /\ delivery[d].at = "disable" /\ delivery[d].hook \in Hooks
        /\ Wrote(delivery[d].hook, [hooks[delivery[d].hook] EXCEPT !.active = FALSE])
        /\ Step(d, Stopped) /\ doubt' = doubt /\ byOwner' = byOwner
    BY <1>6, <1>a DEF DisableHook
  <2>2. /\ hooks'[h].failures = hooks[h].failures /\ hooks'[h].st = hooks[h].st
        /\ delivery[d].hook # h => hooks'[h] = hooks[h]
    BY <1>a, <2>1 DEF Wrote, HookRow
  <2>3. Standing(h) /\ PausedRight(h)
    BY <2>1, <2>2 DEF Standing
  <2>4. delivery[d].hook = h => ~hooks'[h].active /\ TooMany(hooks'[h].failures)
    BY <1>a, <2>1, <2>2, <2>3 DEF Wrote, PausedRight, HookRow
  <2>5. delivery'[d].at = "off" /\ \A x \in Deliveries : x # d => delivery'[x] = delivery[x]
    BY <1>a, <2>1, StoppedForm DEF Step
  <2>6. delivery[d].hook # h /\ Deciding(h) => Deciding(h)'
    BY <2>5 DEF Deciding
  <2> QED
    BY <2>1, <2>2, <2>3, <2>4, <2>5, <2>6 DEF PausedRight
<1> QED
  BY <1>1, <1>2, <1>3, <1>4, <1>5, <1>6

LEMMA PauseByOwner ==
  ASSUME WhTypeInv, NEW h \in Hooks, NEW o \in Owners,
         \/ CreateHook(o)
         \/ \E x \in Hooks, d \in Deliveries : InsertHook(o, x, d)
         \/ \E x \in Hooks, switch \in {"keep", "on", "off"} : PatchRead(o, x, switch)
         \/ PatchWrite(o),
         Standing(h) /\ h \notin doubt => PausedRight(h), Standing(h)', h \notin doubt'
  PROVE  PausedRight(h)'
<1>a. /\ hooks \in [Hooks -> HookRow] /\ \A x \in Hooks : hooks[x] \in HookRow
      /\ DisableAfter \in Nat \ {0}
  BY WhRows, WebhooksAssumption DEF WhTypeInv, WhTypeOK
<1>1. CASE CreateHook(o) \/ \E x \in Hooks, switch \in {"keep", "on", "off"} : PatchRead(o, x, switch)
  BY <1>1 DEF CreateHook, PatchRead, PausedRight, Deciding, Standing
<1>2. ASSUME NEW x \in Hooks, NEW d \in Deliveries, InsertHook(o, x, d) PROVE PausedRight(h)'
  <2>1. /\ hooks[x].st = "none" /\ delivery[d] = Stopped /\ doubt' = doubt /\ byOwner' = byOwner
        /\ hooks' = [hooks EXCEPT ![x] = [st |-> "there", active |-> TRUE, failures |-> 0]]
        /\ Step(d, [Stopped EXCEPT !.at = "select", !.hook = x])
    BY <1>2 DEF InsertHook
  <2>2. CASE x # h
    <3>1. hooks'[h] = hooks[h]
      BY <1>a, <2>1, <2>2
    <3>2. PausedRight(h)
      BY <2>1, <3>1 DEF Standing
    <3>3. delivery[d].at \notin {"compare", "disable"} /\ [Stopped EXCEPT !.at = "select", !.hook = x].at # "disable"
      BY <2>1, StoppedForm, StartForm
    <3> QED
      BY <2>1, <3>1, <3>2, <3>3, PauseByStep
  <2>3. CASE x = h
    <3>1. hooks'[h].active /\ hooks'[h].failures = 0
      BY <1>a, <2>1, <2>3
    <3>2. ~TooMany(hooks'[h].failures)
      BY <1>a, <3>1 DEF TooMany
    <3>3. \A y \in Deliveries : delivery[y].hook # h
      BY <2>1, <2>3 DEF WhTypeInv
    <3>4. \A y \in Deliveries : y # d => delivery'[y] = delivery[y]
      BY <2>1 DEF Step, WhTypeInv, WhTypeOK
    <3>5. delivery'[d].at = "select"
      BY <2>1, StartForm DEF Step, WhTypeInv, WhTypeOK
    <3> QED
      BY <3>1, <3>2, <3>3, <3>4, <3>5 DEF PausedRight
  <2> QED
    BY <2>2, <2>3
<1>3. CASE PatchWrite(o)
  <2> DEFINE p == owner[o]
  <2>1. p.at = "update" /\ p.hook \in Hooks /\ Wrote(p.hook, Patched(p)) /\ delivery' = delivery
    BY <1>3 DEF PatchWrite, WhTypeInv
  <2>2. p.hook # h => h \in byOwner' <=> h \in byOwner
    BY <1>3 DEF PatchWrite
  <2>3. CASE p.hook # h
    <3>1. hooks'[h] = hooks[h]
      BY <1>a, <2>1, <2>3 DEF Wrote
    <3>2. h \notin doubt
      BY <1>3, <2>3 DEF PatchWrite
    <3> QED
      BY <2>1, <2>2, <2>3, <3>1, <3>2 DEF Standing, PausedRight, Deciding, TooMany
  <2>4. CASE p.hook = h
    <3>1. Standing(h)
      BY <2>1, <2>4 DEF Wrote, Standing
    <3>2. p.read = hooks[h] /\ ~Deciding(h)
      BY <1>3, <2>4, <3>1 DEF PatchWrite
    <3>3. hooks'[h] = Patched(p)
      BY <1>a, <2>1, <2>4, <3>1 DEF Wrote
    <3>4. \A y \in Deliveries : delivery'[y].hook = h => delivery'[y].at # "disable"
      BY <2>1, <3>2 DEF Deciding
    <3>5. CASE Reactivates(p)
      <4>1. hooks'[h].active /\ hooks'[h].failures = 0
        BY <1>a, <3>2, <3>3, <3>5 DEF Patched, Reactivates, HookRow
      <4> QED
        BY <1>a, <3>4, <4>1 DEF PausedRight, TooMany
    <3>6. CASE ~Reactivates(p)
      <4>1. PausedRight(h) /\ ~(hooks[h].active /\ TooMany(hooks[h].failures))
        BY <1>3, <2>4, <3>1, <3>2, <3>6 DEF PatchWrite, PausedRight
      <4>2. hooks'[h].failures = hooks[h].failures
        BY <1>a, <3>2, <3>3, <3>6 DEF Patched, HookRow
      <4>3. hooks'[h].active = IF p.switch = "keep" THEN hooks[h].active ELSE p.switch = "on"
        BY <1>a, <3>2, <3>3, <3>6 DEF Patched, HookRow
      <4>4. h \in byOwner' <=> p.switch = "off" \/ (p.switch # "on" /\ h \in byOwner)
        BY <1>3, <2>4 DEF PatchWrite
      <4>5. p.switch = "on" => hooks[h].active
        BY <3>2, <3>6 DEF Reactivates
      <4>6. p.switch \in {"keep", "on", "off"}
        BY WhRows DEF Patch
      <4>7. hooks'[h].active \/ h \in byOwner' \/ TooMany(hooks'[h].failures)
        BY <4>1, <4>2, <4>3, <4>4, <4>5, <4>6 DEF PausedRight
      <4>8. ~(hooks'[h].active /\ TooMany(hooks'[h].failures))
        BY <4>1, <4>2, <4>3, <4>5, <4>6
      <4> QED
        BY <3>4, <4>7, <4>8 DEF PausedRight, TooMany
    <3> QED
      BY <3>5, <3>6
  <2> QED
    BY <2>3, <2>4
<1> QED
  BY <1>1, <1>2, <1>3

LEMMA PauseStep == WhTypeInv /\ PauseInv /\ [WhNext]_whVars => PauseInv'
<1> SUFFICES ASSUME WhTypeInv, PauseInv, [WhNext]_whVars PROVE PauseInv'
  OBVIOUS
<1>1. ASSUME NEW h \in Hooks, Standing(h)', h \notin doubt' PROVE PausedRight(h)'
  <2>a. Standing(h) /\ h \notin doubt => PausedRight(h)
    BY PauseByHook
  <2>1. CASE UNCHANGED whVars
    BY <1>1, <2>1, <2>a DEF whVars, Standing, PausedRight, Deciding, TooMany
  <2>2. ASSUME NEW x \in Hooks, DeleteHook(x) PROVE PausedRight(h)'
    <3>1. hooks'[h] = hooks[h]
      BY <1>1, <2>2 DEF DeleteHook, Standing, WhTypeInv, WhTypeOK, HookRow
    <3> QED
      BY <1>1, <2>2, <2>a, <3>1 DEF DeleteHook, Standing, PausedRight, Deciding, TooMany
  <2>3. CASE WhCrash
    <3>1. Standing(h) /\ PausedRight(h) /\ ~Deciding(h)
      BY <1>1, <2>3, <2>a DEF WhCrash, Standing
    <3>2. \A d \in Deliveries : delivery'[d].at # "disable"
      BY <2>3, StoppedForm DEF WhCrash
    <3> QED
      BY <2>3, <3>1, <3>2 DEF WhCrash, PausedRight, TooMany
  <2> QED
    BY <1>1, <2>1, <2>2, <2>3, <2>a, PauseByDelivery, PauseByOwner DEF WhNext
<1>2. (\A h \in Hooks : Standing(h) /\ h \notin doubt => PausedRight(h))' => PauseInv'
  BY PauseByHook, PTL
<1> QED
  BY <1>1, <1>2

\* Whatever deliveries overlap and whatever the publisher patches meanwhile: a
\* subscription is off because its owner or its failures switched it off, and one that
\* failed too often is off or about to be, unless statements crossed.
THEOREM PauseTheorem == WhSpec => []PauseExplained
<1>1. WhInit => PauseInv
  BY StoppedForm DEF WhInit, PauseInv, PauseExplained, Standing, NoRow
<1>2. PauseInv => PauseExplained
  BY DEF PauseInv
<1> QED
  BY <1>1, <1>2, WhInitTypes, WhStepTypes, PauseStep, PTL DEF WhSpec

-----------------------------------------------------------------------------
(* Logins: types.                                                           *)

AccountRow == [failed : Nat, since : 0 .. Never, disabled : BOOLEAN, password : Passwords,
               secret : Secrets \cup {NoSecret}, pending : Secrets \cup {NoSecret}, keys : SUBSET Keys]
History == [accepted : SUBSET Codes, replayed : BOOLEAN, links : SUBSET Links, relinked : BOOLEAN,
            streak : Nat, overtaken : BOOLEAN, crossed : BOOLEAN, leftover : BOOLEAN, seen : SUBSET Secrets]
LogTypeInv == LogTypeOK /\ history \in History

LEMMA Clocks ==
  /\ 0 \in 0 .. Never /\ Never \in 0 .. Never /\ Never \in Nat
  /\ \A n \in 0 .. MaxStep : n \in Nat /\ n \in 0 .. Never
  BY LoginsAssumption DEF Never

LEMMA LogRows ==
  ASSUME LogTypeInv
  PROVE  /\ account \in AccountRow /\ entry \in [Entrants -> Entry]
         /\ \A e \in Entrants : entry[e] \in Entry
         /\ clock \in [step : 0 .. MaxStep, entries : 0 .. MaxEntries]
         /\ clock.step \in 0 .. MaxStep /\ clock.step \in Nat
         /\ links \in [Links -> [st : {"none", "open", "gone"}, until : Nat]]
<1>1. clock.step \in 0 .. MaxStep
  BY DEF LogTypeInv, LogTypeOK
<1> QED
  BY <1>1, Clocks DEF LogTypeInv, LogTypeOK, AccountRow

LEMMA RestingForm == Resting \in Entry /\ Resting.at = "idle" /\ Resting.read = 0 /\ Resting.secret = NoSecret
                     /\ Resting.key = NoKey /\ Resting.link = NoLink /\ Resting.next = "enter" /\ Resting.late = FALSE
  BY Clocks DEF Resting, Entry, EntrySteps

\* The requests that begin.
LEMMA BeginForms ==
  ASSUME LogTypeInv
  PROVE  /\ \A at \in EntrySteps : [Resting EXCEPT !.at = at] \in Entry
         /\ \A at \in EntrySteps, n \in Nat : [Resting EXCEPT !.at = at, !.read = n] \in Entry
         /\ \A at \in EntrySteps, n \in Nat, m \in 0 .. Never, k \in Nat :
              [Resting EXCEPT !.at = at, !.failed = n, !.since = m, !.read = k] \in Entry
         /\ \A at \in EntrySteps, l \in Links : [Resting EXCEPT !.link = l, !.at = at] \in Entry
         /\ \A at \in EntrySteps, s \in Secrets \cup {NoSecret} : [Resting EXCEPT !.at = at, !.secret = s] \in Entry
         /\ \A at \in EntrySteps, x \in {"enter", "turn off"}, s \in Secrets \cup {NoSecret} :
              [Resting EXCEPT !.at = at, !.next = x, !.secret = s] \in Entry
         /\ \A at \in EntrySteps, k \in Keys : [Resting EXCEPT !.at = at, !.key = k] \in Entry
<1> DEFINE x == Resting
<1>1. x \in Entry
  BY RestingForm
<1> HIDE DEF x
<1>2. \A at \in EntrySteps : [x EXCEPT !.at = at] \in Entry
  BY <1>1 DEF Entry
<1>3. \A at \in EntrySteps, n \in Nat : [x EXCEPT !.at = at, !.read = n] \in Entry
  BY <1>1 DEF Entry
<1>4. ASSUME NEW at \in EntrySteps, NEW n \in Nat, NEW m \in 0 .. Never, NEW k \in Nat
      PROVE  [x EXCEPT !.at = at, !.failed = n, !.since = m, !.read = k] \in Entry
  BY <1>1 DEF Entry
<1>5. \A at \in EntrySteps, l \in Links : [x EXCEPT !.link = l, !.at = at] \in Entry
  BY <1>1 DEF Entry
<1>6. \A at \in EntrySteps, s \in Secrets \cup {NoSecret} : [x EXCEPT !.at = at, !.secret = s] \in Entry
  BY <1>1 DEF Entry
<1>7. ASSUME NEW at \in EntrySteps, NEW y \in {"enter", "turn off"}, NEW s \in Secrets \cup {NoSecret}
      PROVE  [x EXCEPT !.at = at, !.next = y, !.secret = s] \in Entry
  BY <1>1 DEF Entry
<1>8. \A at \in EntrySteps, k \in Keys : [x EXCEPT !.at = at, !.key = k] \in Entry
  BY <1>1 DEF Entry
<1> QED
  BY <1>2, <1>3, <1>4, <1>5, <1>6, <1>7, <1>8 DEF x

\* The requests that go on.
LEMMA GoForms ==
  ASSUME LogTypeInv, NEW e \in Entrants
  PROVE  /\ \A at \in EntrySteps : [entry[e] EXCEPT !.at = at] \in Entry
         /\ \A at \in EntrySteps, s \in Secrets : [entry[e] EXCEPT !.at = at, !.secret = s] \in Entry
         /\ \A at \in EntrySteps, l \in Links : [entry[e] EXCEPT !.at = at, !.link = l] \in Entry
         /\ \A at \in EntrySteps, n \in Nat : [entry[e] EXCEPT !.at = at, !.read = n] \in Entry
         /\ [entry[e] EXCEPT !.late = TRUE] \in Entry
         /\ entry[e].next \in EntrySteps
<1>1. entry[e] \in Entry
  BY LogRows
<1>2. \A at \in EntrySteps : [entry[e] EXCEPT !.at = at] \in Entry
  BY <1>1 DEF Entry
<1>3. \A at \in EntrySteps, s \in Secrets : [entry[e] EXCEPT !.at = at, !.secret = s] \in Entry
  BY <1>1 DEF Entry
<1>4. \A at \in EntrySteps, l \in Links : [entry[e] EXCEPT !.at = at, !.link = l] \in Entry
  BY <1>1 DEF Entry
<1>5. \A at \in EntrySteps, n \in Nat : [entry[e] EXCEPT !.at = at, !.read = n] \in Entry
  BY <1>1 DEF Entry
<1>6. [entry[e] EXCEPT !.late = TRUE] \in Entry
  BY <1>1 DEF Entry
<1>7. entry[e].next \in EntrySteps
  BY <1>1 DEF Entry, EntrySteps
<1> QED
  BY <1>2, <1>3, <1>4, <1>5, <1>6, <1>7

LEMMA GoTypes ==
  ASSUME LogTypeInv, NEW e \in Entrants, NEW step \in Entry
  PROVE  /\ Go(e, step) => entry' \in [Entrants -> Entry]
         /\ Overtake(e, step) => entry' \in [Entrants -> Entry]
         /\ Enters(e, step) => entry' \in [Entrants -> Entry]
<1>1. Go(e, step) => entry' \in [Entrants -> Entry]
  BY LogRows DEF Go
<1>2. Overtake(e, step) => entry' \in [Entrants -> Entry]
  BY LogRows, GoForms DEF Overtake
<1> QED
  BY <1>1, <1>2 DEF Enters

LEMMA EntryTyped == LogTypeInv /\ [LogNext]_logVars => entry' \in [Entrants -> Entry]
<1> SUFFICES ASSUME LogTypeInv, [LogNext]_logVars PROVE entry' \in [Entrants -> Entry]
  OBVIOUS
<1>1. CASE entry' = entry
  BY <1>1, LogRows
<1>2. ASSUME NEW e \in Entrants, NEW step \in Entry, Go(e, step) \/ Overtake(e, step) \/ Enters(e, step)
      PROVE  entry' \in [Entrants -> Entry]
  BY <1>2, GoTypes
<1>3. ASSUME NEW e \in Entrants, NEW at \in EntrySteps, GoAt(e, at) PROVE entry' \in [Entrants -> Entry]
  BY <1>2, <1>3, GoForms DEF GoAt
<1>a. Resting \in Entry
  BY RestingForm
<1>b. {"idle", "fail", "drop tokens", "migrate", "reset", "factor", "code", "enter",
       "replace", "new link", "send", "consume", "spoil", "admit",
       "activate", "turn off", "remove", "clear password", "set password"} \subseteq EntrySteps
  BY DEF EntrySteps
<1>c. /\ account.failed \in Nat /\ account.since \in 0 .. Never /\ locks \in Nat
      /\ account.secret \in Secrets \cup {NoSecret} /\ account.pending \in Secrets \cup {NoSecret}
  BY DEF LogTypeInv, LogTypeOK
<1>4. ASSUME NEW e \in Entrants, Signing(e) PROVE entry' \in [Entrants -> Entry]
  <2>1. ASSUME NEW right \in BOOLEAN, PasswordLogin(e, right) PROVE entry' \in [Entrants -> Entry]
    <3>1. \E at \in EntrySteps : Enters(e, [Resting EXCEPT !.at = at, !.failed = account.failed,
                                                            !.since = account.since, !.read = locks])
      BY <1>b, <2>1 DEF PasswordLogin
    <3> QED
      BY <1>2, <1>c, <3>1, BeginForms
  <2>2. CASE RecordFailure(e) \/ DropSessions(e) \/ Migrate(e) \/ ResetCount(e)
    BY <1>2, <1>3, <1>a, <1>b, <2>2 DEF RecordFailure, DropSessions, Migrate, ResetCount
  <2>3. CASE ReadFactor(e)
    BY <1>2, <1>3, <1>b, <1>c, <2>3, GoForms DEF ReadFactor
  <2>4. ASSUME NEW c \in Codes, CheckCode(e, c) PROVE entry' \in [Entrants -> Entry]
    BY <1>2, <1>3, <1>a, <2>4, GoForms DEF CheckCode
  <2>5. CASE EnterAccount(e) \/ ReplaceLinks(e) \/ SendLink(e) \/ ConsumeLink(e)
    BY <1>2, <1>3, <1>a, <1>b, <2>5 DEF EnterAccount, ReplaceLinks, SendLink, ConsumeLink
  <2>6. ASSUME NEW at \in {"factor", "enter"}, KeyLogin(e, at) PROVE entry' \in [Entrants -> Entry]
    BY <1>2, <1>b, <1>c, <2>6, BeginForms DEF KeyLogin
  <2>7. CASE RequestLink(e)
    BY <1>2, <1>b, <2>7, BeginForms DEF RequestLink
  <2>8. CASE AdmitByLink(e)
    BY <1>2, <1>a, <1>b, <1>c, <2>8, GoForms DEF AdmitByLink
  <2>9. ASSUME NEW l \in Links, InsertLink(e, l) PROVE entry' \in [Entrants -> Entry]
    BY <1>2, <1>b, <2>9, GoForms DEF InsertLink
  <2>10. ASSUME NEW l \in Links, SelectLink(e, l) PROVE entry' \in [Entrants -> Entry]
    <3>1. \E at \in EntrySteps : Enters(e, [Resting EXCEPT !.link = l, !.at = at])
      BY <1>b, <2>10 DEF SelectLink
    <3> QED
      BY <1>2, <3>1, BeginForms
  <2> QED
    BY <1>4, <2>1, <2>2, <2>3, <2>4, <2>5, <2>6, <2>7, <2>8, <2>9, <2>10 DEF Signing
<1>5. ASSUME NEW e \in Entrants, Managing(e) PROVE entry' \in [Entrants -> Entry]
  <2>1. CASE Activate(e) \/ TurnOff(e) \/ RemoveKey(e) \/ WritePassword(e) \/ EnableAccount(e) \/ Drop(e)
             \/ \E s \in Secrets : SetUp(e, s)
    BY <1>2, <1>a, <2>1 DEF Activate, TurnOff, RemoveKey, WritePassword, EnableAccount, Drop, SetUp
  <2>2. CASE ConfirmPending(e)
    BY <1>2, <1>b, <1>c, <2>2, BeginForms DEF ConfirmPending
  <2>3. CASE DisableFactor(e)
    BY <1>2, <1>b, <1>c, <2>3, BeginForms DEF DisableFactor
  <2>4. ASSUME NEW k \in Keys, CheckRemoval(e, k) PROVE entry' \in [Entrants -> Entry]
    BY <1>2, <1>b, <2>4, BeginForms DEF CheckRemoval
  <2>5. CASE CheckClearing(e) \/ CheckPasswordChange(e)
    BY <1>2, <1>b, <2>5, BeginForms DEF CheckClearing, CheckPasswordChange
  <2>6. ASSUME NEW at \in {"drop tokens", "idle"}, DisableAccount(e, at) PROVE entry' \in [Entrants -> Entry]
    BY <1>2, <1>b, <2>6, BeginForms DEF DisableAccount
  <2> QED
    BY <1>5, <2>1, <2>2, <2>3, <2>4, <2>5, <2>6 DEF Managing
<1> QED
  BY <1>1, <1>4, <1>5 DEF LogNext, logVars, AddKey, LogTick

\* The actions that leave the account, and those that leave the ghosts, unnamed.
LEMMA CountNat ==
  ASSUME LogTypeInv, NEW e \in Entrants
  PROVE  Counted(e) \in Nat /\ Counted(e) > 0 /\ entry[e].failed \in Nat
<1>1. entry[e] \in Entry
  BY LogRows
<1>2. entry[e].failed \in Nat
  BY <1>1 DEF Entry
<1> QED
  BY <1>2 DEF Counted

LEMMA AccountTyped == LogTypeInv /\ [LogNext]_logVars => account' \in AccountRow
<1> SUFFICES ASSUME LogTypeInv, [LogNext]_logVars PROVE account' \in AccountRow
  OBVIOUS
<1>a. account \in AccountRow /\ clock.step \in 0 .. Never
  BY LogRows, Clocks
<1>b. account.since \in 0 .. Never /\ account.pending \in Secrets \cup {NoSecret} /\ account.keys \subseteq Keys
      /\ account.disabled \in BOOLEAN
  BY <1>a DEF AccountRow
<1>c. "hash" \in Passwords /\ "none" \in Passwords
  BY DEF Passwords
<1>1. CASE account' = account
  BY <1>1, <1>a
<1>2. ASSUME NEW e \in Entrants, Signing(e) PROVE account' \in AccountRow
  <2>1. CASE RecordFailure(e)
    <3>1. \E n \in Nat, d \in BOOLEAN, t \in 0 .. Never :
            account' = [account EXCEPT !.failed = n, !.disabled = d, !.since = t]
      <4> DEFINE t == IF Running(entry[e].since) THEN account.since ELSE clock.step
                 d == account.disabled \/ Locked(Counted(e))
      <4>1. t \in 0 .. Never /\ d \in BOOLEAN
        BY <1>a, <1>b
      <4>2. account' = [account EXCEPT !.failed = Counted(e), !.disabled = d, !.since = t]
        BY <2>1 DEF RecordFailure
      <4> QED
        BY <4>1, <4>2, CountNat
    <3> QED
      BY <1>a, <3>1 DEF AccountRow
  <2>2. CASE Migrate(e)
    BY <1>a, <1>c, <2>2 DEF Migrate, AccountRow
  <2>3. CASE ResetCount(e)
    BY <1>a, <2>3, Clocks DEF ResetCount, AccountRow
  <2> QED
    BY <1>1, <1>2, <2>1, <2>2, <2>3 DEF Signing, PasswordLogin, DropSessions, ReadFactor, CheckCode, EnterAccount,
       KeyLogin, RequestLink, ReplaceLinks, SendLink, ConsumeLink, AdmitByLink, InsertLink, SelectLink
<1>3. ASSUME NEW e \in Entrants, Managing(e) PROVE account' \in AccountRow
  <2>1. ASSUME NEW s \in Secrets, SetUp(e, s) PROVE account' \in AccountRow
    BY <1>a, <2>1 DEF SetUp, AccountRow
  <2>2. CASE Activate(e) \/ TurnOff(e)
    BY <1>a, <1>b, <2>2 DEF Activate, TurnOff, AccountRow
  <2>3. CASE RemoveKey(e)
    BY <1>a, <1>b, <2>3 DEF RemoveKey, AccountRow
  <2>4. CASE WritePassword(e)
    BY <1>a, <1>c, <2>4 DEF WritePassword, AccountRow
  <2>5. ASSUME NEW at, DisableAccount(e, at) PROVE account' \in AccountRow
    BY <1>a, <2>5 DEF DisableAccount, AccountRow
  <2>6. CASE EnableAccount(e)
    BY <1>a, <2>6, Clocks DEF EnableAccount, AccountRow
  <2> QED
    BY <1>1, <1>3, <2>1, <2>2, <2>3, <2>4, <2>5, <2>6
       DEF Managing, ConfirmPending, DisableFactor, CheckRemoval, CheckClearing, CheckPasswordChange, Drop
<1>4. ASSUME NEW k \in Keys, AddKey(k) PROVE account' \in AccountRow
  BY <1>a, <1>b, <1>4 DEF AddKey, AccountRow
<1> QED
  BY <1>1, <1>2, <1>3, <1>4 DEF LogNext, logVars, LogTick

LEMMA HistoryTyped == LogTypeInv /\ [LogNext]_logVars => history' \in History
<1> SUFFICES ASSUME LogTypeInv, [LogNext]_logVars PROVE history' \in History
  OBVIOUS
<1>a. history \in History
  BY DEF LogTypeInv
<1>b. /\ history.accepted \subseteq Codes /\ history.links \subseteq Links /\ history.seen \subseteq Secrets
      /\ history.streak \in Nat
      /\ history.replayed \in BOOLEAN /\ history.relinked \in BOOLEAN /\ history.overtaken \in BOOLEAN
      /\ history.crossed \in BOOLEAN /\ history.leftover \in BOOLEAN
  BY <1>a DEF History
<1>1. CASE history' = history
  BY <1>1, <1>a
<1>2. ASSUME NEW e \in Entrants, Signing(e) PROVE history' \in History
  <2>1. CASE RecordFailure(e)
    <3>1. \E n \in Nat, b \in BOOLEAN : history' = [history EXCEPT !.streak = n, !.overtaken = b]
      <4> DEFINE n == IF Running(account.since) THEN history.streak + 1 ELSE 1
                 b == history.overtaken \/ <<entry[e].failed, entry[e].since>> # <<account.failed, account.since>>
      <4>1. n \in Nat /\ b \in BOOLEAN
        BY <1>b
      <4>2. history' = [history EXCEPT !.streak = n, !.overtaken = b]
        BY <2>1 DEF RecordFailure
      <4> QED
        BY <4>1, <4>2
    <3> QED
      BY <1>a, <3>1 DEF History
  <2>2. CASE ResetCount(e)
    BY <1>a, <2>2 DEF ResetCount, History
  <2>3. ASSUME NEW c \in Codes, CheckCode(e, c) PROVE history' \in History
    <3> DEFINE b == history.replayed \/ c \in history.accepted
               a == history.accepted \cup {c}
    <3>1. b \in BOOLEAN /\ a \in SUBSET Codes
      BY <1>b
    <3>2. history' = history \/ history' = [history EXCEPT !.accepted = a, !.replayed = b]
      BY <2>3 DEF CheckCode
    <3> HIDE DEF a, b
    <3> QED
      BY <1>a, <3>1, <3>2 DEF History
  <2>4. CASE EnterAccount(e)
    <3>1. entry[e].link # NoLink => entry[e].link \in Links
      BY LogRows DEF Entry
    <3> QED
      BY <1>a, <1>b, <2>4, <3>1 DEF EnterAccount, History
  <2>5. ASSUME NEW l \in Links, SelectLink(e, l) PROVE history' \in History
    <3> DEFINE b == history.relinked \/ l \in history.links
    <3>1. b \in BOOLEAN /\ history' = [history EXCEPT !.relinked = b]
      BY <1>b, <2>5 DEF SelectLink
    <3> QED
      BY <1>a, <3>1 DEF History
  <2> QED
    BY <1>1, <1>2, <2>1, <2>2, <2>3, <2>4, <2>5 DEF Signing, PasswordLogin, DropSessions, Migrate, ReadFactor,
       KeyLogin, RequestLink, ReplaceLinks, SendLink, ConsumeLink, AdmitByLink, InsertLink
<1>3. ASSUME NEW e \in Entrants, Managing(e) PROVE history' \in History
  <2>1. ASSUME NEW s \in Secrets, SetUp(e, s) PROVE history' \in History
    BY <1>a, <1>b, <2>1 DEF SetUp, History
  <2>2. ASSUME history' = Crossing PROVE history' \in History
    <3> DEFINE b == history.crossed \/ \E x \in Entrants : Removing(x)
    <3>1. b \in BOOLEAN /\ history' = [history EXCEPT !.crossed = b]
      BY <1>b, <2>2 DEF Crossing
    <3> QED
      BY <1>a, <3>1 DEF History
  <2>3. ASSUME NEW at, DisableAccount(e, at) PROVE history' \in History
    <3> DEFINE b == history.leftover \/ at = "idle"
    <3>1. b \in BOOLEAN /\ history' = [history EXCEPT !.leftover = b]
      BY <1>b, <2>3 DEF DisableAccount
    <3> QED
      BY <1>a, <3>1 DEF History
  <2>4. CASE EnableAccount(e)
    BY <1>a, <2>4 DEF EnableAccount, History
  <2>5. CASE Drop(e)
    <3> DEFINE b == history.leftover \/ entry[e].at = "drop tokens"
    <3>1. b \in BOOLEAN /\ history' = [history EXCEPT !.leftover = b]
      BY <1>b, <2>5 DEF Drop
    <3> QED
      BY <1>a, <3>1 DEF History
  <2> QED
    BY <1>1, <1>3, <2>1, <2>2, <2>3, <2>4, <2>5
       DEF Managing, ConfirmPending, Activate, DisableFactor, TurnOff, CheckRemoval, RemoveKey, CheckClearing,
           WritePassword, CheckPasswordChange
<1> QED
  BY <1>1, <1>2, <1>3 DEF LogNext, logVars, AddKey, LogTick

LEMMA ClosedForm ==
  ASSUME LogTypeInv, NEW ls
  PROVE  /\ Closed(ls) \in [Links -> [st : {"none", "open", "gone"}, until : Nat]]
         /\ \A l \in Links : /\ links[l].st = "none" <=> Closed(ls)[l].st = "none"
                             /\ links[l].st = "gone" => Closed(ls)[l].st = "gone"
                             /\ l \in ls => Closed(ls)[l].st # "open"
<1>1. links \in [Links -> [st : {"none", "open", "gone"}, until : Nat]]
  BY LogRows
<1>2. \A l \in Links : [links[l] EXCEPT !.st = "gone"] \in [st : {"none", "open", "gone"}, until : Nat]
                       /\ [links[l] EXCEPT !.st = "gone"].st = "gone"
  BY <1>1
<1> QED
  BY <1>1, <1>2 DEF Closed

\* A link is opened once.
LEMMA LinksTyped ==
  LogTypeInv /\ [LogNext]_logVars =>
    /\ links' \in [Links -> [st : {"none", "open", "gone"}, until : Nat]]
    /\ \A l \in Links : /\ links[l].st # "none" => links'[l].st # "none"
                        /\ links[l].st = "gone" => links'[l].st = "gone"
<1> SUFFICES ASSUME LogTypeInv, [LogNext]_logVars
             PROVE  /\ links' \in [Links -> [st : {"none", "open", "gone"}, until : Nat]]
                    /\ \A l \in Links : /\ links[l].st # "none" => links'[l].st # "none"
                                        /\ links[l].st = "gone" => links'[l].st = "gone"
  OBVIOUS
<1> DEFINE Goal == /\ links' \in [Links -> [st : {"none", "open", "gone"}, until : Nat]]
                   /\ \A l \in Links : /\ links[l].st # "none" => links'[l].st # "none"
                                       /\ links[l].st = "gone" => links'[l].st = "gone"
<1>1. ASSUME links' = links PROVE Goal
  BY <1>1, LogRows
<1>2. ASSUME NEW ls, links' = Closed(ls) PROVE Goal
  BY <1>2, ClosedForm
<1>3. ASSUME NEW e \in Entrants, NEW l \in Links, InsertLink(e, l) PROVE Goal
  <2>1. clock.step + LinkLife \in Nat
    BY LogRows, LoginsAssumption
  <2> QED
    BY <1>3, <2>1, LogRows DEF InsertLink
<1> HIDE DEF Goal
<1>4. ASSUME NEW e \in Entrants, Signing(e) PROVE Goal
  BY <1>1, <1>2, <1>3, <1>4 DEF Signing, PasswordLogin, RecordFailure, DropSessions, Migrate, ResetCount, ReadFactor,
     CheckCode, EnterAccount, KeyLogin, RequestLink, ReplaceLinks, SendLink, ConsumeLink, AdmitByLink, SelectLink
<1>5. ASSUME NEW e \in Entrants, Managing(e) PROVE Goal
  BY <1>1, <1>5 DEF Managing, SetUp, ConfirmPending, Activate, DisableFactor, TurnOff, CheckRemoval, RemoveKey,
     CheckClearing, WritePassword, CheckPasswordChange, DisableAccount, EnableAccount, Drop
<1>6. Goal
  BY <1>1, <1>4, <1>5 DEF LogNext, logVars, AddKey, LogTick
<1> QED
  BY <1>6 DEF Goal

LEMMA RestTyped ==
  LogTypeInv /\ [LogNext]_logVars =>
    /\ sessions' \subseteq Session /\ used' \subseteq [code : Codes, until : Nat]
    /\ clock' \in [step : 0 .. MaxStep, entries : 0 .. MaxEntries] /\ locks' \in Nat
    /\ clock'.step >= clock.step
<1> SUFFICES ASSUME LogTypeInv, [LogNext]_logVars
             PROVE  /\ sessions' \subseteq Session /\ used' \subseteq [code : Codes, until : Nat]
                    /\ clock' \in [step : 0 .. MaxStep, entries : 0 .. MaxEntries] /\ locks' \in Nat
                    /\ clock'.step >= clock.step
  OBVIOUS
<1>a. /\ sessions \subseteq Session /\ used \subseteq [code : Codes, until : Nat]
      /\ clock \in [step : 0 .. MaxStep, entries : 0 .. MaxEntries] /\ locks \in Nat
      /\ clock.step \in Nat /\ clock.entries \in Nat
  BY LogRows DEF LogTypeInv, LogTypeOK
<1> DEFINE Clocked == clock' \in [step : 0 .. MaxStep, entries : 0 .. MaxEntries] /\ clock'.step >= clock.step
<1>b. ASSUME clock' = clock PROVE Clocked
  BY <1>a, <1>b
<1>c. ASSUME NEW e, NEW step, Enters(e, step) PROVE Clocked
  BY <1>a, <1>c, LoginsAssumption DEF Enters
<1>d. ASSUME LogTick PROVE Clocked
  BY <1>a, <1>d, LoginsAssumption DEF LogTick
<1>e. ASSUME NEW e, NEW at, At(e, at) PROVE Clocked
  BY <1>b, <1>e DEF At
<1> HIDE DEF Clocked
<1>1. Clocked
  <2>1. ASSUME NEW e \in Entrants, Signing(e) PROVE Clocked
    BY <1>c, <1>e, <2>1 DEF Signing, PasswordLogin, RecordFailure, DropSessions, Migrate, ResetCount, ReadFactor,
       CheckCode, EnterAccount, KeyLogin, RequestLink, ReplaceLinks, SendLink, ConsumeLink, AdmitByLink, InsertLink,
       SelectLink
  <2>2. ASSUME NEW e \in Entrants, Managing(e) PROVE Clocked
    BY <1>b, <1>c, <1>e, <2>2 DEF Managing, SetUp, ConfirmPending, Activate, DisableFactor, TurnOff, CheckRemoval,
       RemoveKey, CheckClearing, WritePassword, CheckPasswordChange, DisableAccount, EnableAccount, Drop
  <2> QED
    BY <1>b, <1>d, <2>1, <2>2 DEF LogNext, logVars, AddKey
<1>2. sessions' \subseteq Session
  <2>1. ASSUME NEW e \in Entrants, EnterAccount(e) PROVE sessions' \subseteq Session
    <3>1. [read |-> entry[e].read, made |-> locks] \in Session
      BY <1>a, LogRows DEF Entry, Session
    <3> QED
      BY <1>a, <2>1, <3>1 DEF EnterAccount
  <2>2. ASSUME NEW e \in Entrants, Signing(e) PROVE sessions' \subseteq Session
    BY <1>a, <2>1, <2>2 DEF Signing, PasswordLogin, RecordFailure, DropSessions, Migrate, ResetCount, ReadFactor,
       CheckCode, KeyLogin, RequestLink, ReplaceLinks, SendLink, ConsumeLink, AdmitByLink, InsertLink, SelectLink
  <2>3. ASSUME NEW e \in Entrants, Managing(e) PROVE sessions' \subseteq Session
    BY <1>a, <2>3 DEF Managing, SetUp, ConfirmPending, Activate, DisableFactor, TurnOff, CheckRemoval,
       RemoveKey, CheckClearing, WritePassword, CheckPasswordChange, DisableAccount, EnableAccount, Drop
  <2> QED
    BY <1>a, <2>2, <2>3 DEF LogNext, logVars, AddKey, LogTick
<1>3. used' \subseteq [code : Codes, until : Nat]
  <2>1. ASSUME NEW e \in Entrants, NEW c \in Codes, CheckCode(e, c) PROVE used' \subseteq [code : Codes, until : Nat]
    <3>1. Mark(c) \in [code : Codes, until : Nat]
      BY <1>a, LoginsAssumption DEF Mark
    <3>2. used' \subseteq used \cup {Mark(c)}
      BY <2>1 DEF CheckCode, Remembered
    <3> QED
      BY <1>a, <3>1, <3>2
  <2>2. ASSUME NEW e \in Entrants, Signing(e) PROVE used' \subseteq [code : Codes, until : Nat]
    BY <1>a, <2>1, <2>2 DEF Signing, PasswordLogin, RecordFailure, DropSessions, Migrate, ResetCount, ReadFactor,
       EnterAccount, KeyLogin, RequestLink, ReplaceLinks, SendLink, ConsumeLink, AdmitByLink, InsertLink, SelectLink
  <2>3. ASSUME NEW e \in Entrants, Managing(e) PROVE used' \subseteq [code : Codes, until : Nat]
    BY <1>a, <2>3 DEF Managing, SetUp, ConfirmPending, Activate, DisableFactor, TurnOff, CheckRemoval,
       RemoveKey, CheckClearing, WritePassword, CheckPasswordChange, DisableAccount, EnableAccount, Drop
  <2> QED
    BY <1>a, <2>2, <2>3 DEF LogNext, logVars, AddKey, LogTick
<1>4. locks' \in Nat
  <2>1. ASSUME NEW e \in Entrants, RecordFailure(e) PROVE locks' = locks \/ locks' = locks + 1
    BY <2>1 DEF RecordFailure
  <2>2. ASSUME NEW e \in Entrants, NEW at, DisableAccount(e, at) PROVE locks' = locks + 1
    BY <2>2 DEF DisableAccount
  <2>3. ASSUME NEW e \in Entrants, Signing(e), ~RecordFailure(e) PROVE locks' = locks
    BY <2>3 DEF Signing, PasswordLogin, DropSessions, Migrate, ResetCount, ReadFactor,
       CheckCode, EnterAccount, KeyLogin, RequestLink, ReplaceLinks, SendLink, ConsumeLink, AdmitByLink, InsertLink,
       SelectLink
  <2>4. ASSUME NEW e \in Entrants, Managing(e), ~\E at \in {"drop tokens", "idle"} : DisableAccount(e, at)
        PROVE  locks' = locks
    BY <2>4 DEF Managing, SetUp, ConfirmPending, Activate, DisableFactor, TurnOff, CheckRemoval,
       RemoveKey, CheckClearing, WritePassword, CheckPasswordChange, EnableAccount, Drop
  <2>5. locks' = locks \/ locks' = locks + 1
    BY <2>1, <2>2, <2>3, <2>4 DEF LogNext, logVars, AddKey, LogTick
  <2> QED
    BY <1>a, <2>5
<1> QED
  BY <1>1, <1>2, <1>3, <1>4 DEF Clocked

LEMMA LogStepTypes == LogTypeInv /\ [LogNext]_logVars => LogTypeInv'
  BY EntryTyped, AccountTyped, HistoryTyped, LinksTyped, RestTyped DEF LogTypeInv, LogTypeOK, AccountRow

LEMMA LogInitTypes == LogInit => LogTypeInv
<1> SUFFICES ASSUME LogInit PROVE LogTypeInv
  OBVIOUS
<1>1. PICK p \in Passwords, ks \in SUBSET Keys, s \in Secrets \cup {NoSecret} :
        /\ account = [failed |-> 0, since |-> Never, disabled |-> FALSE, password |-> p,
                      secret |-> s, pending |-> NoSecret, keys |-> ks]
        /\ history = [accepted |-> {}, replayed |-> FALSE, links |-> {}, relinked |-> FALSE, streak |-> 0,
                      overtaken |-> FALSE, crossed |-> FALSE, leftover |-> FALSE,
                      seen |-> IF s = NoSecret THEN {} ELSE {s}]
  BY DEF LogInit
<1>2. account \in AccountRow
  BY <1>1, Clocks DEF AccountRow
<1>3. history \in History
  BY <1>1 DEF History
<1>4. links \in [Links -> [st : {"none", "open", "gone"}, until : Nat]]
  BY DEF LogInit
<1>5. entry \in [Entrants -> Entry]
  BY RestingForm DEF LogInit
<1>6. clock \in [step : 0 .. MaxStep, entries : 0 .. MaxEntries] /\ locks \in Nat /\ sessions = {} /\ used = {}
  BY LoginsAssumption DEF LogInit
<1> QED
  BY <1>2, <1>3, <1>4, <1>5, <1>6 DEF LogTypeInv, LogTypeOK, AccountRow

\* Every column, request and ghost of the logins keeps its type.
THEOREM LogTypeCorrect == LogSpec => []LogTypeOK
<1>1. LogTypeInv => LogTypeOK
  BY DEF LogTypeInv
<1> QED
  BY <1>1, LogInitTypes, LogStepTypes, PTL DEF LogSpec

-----------------------------------------------------------------------------
(* Logins: the lock.                                                        *)

LEMMA LockExactStep == LogTypeInv /\ LockExact /\ [LogNext]_logVars => LockExact'
<1> SUFFICES ASSUME LogTypeInv, LockExact, [LogNext]_logVars PROVE LockExact'
  OBVIOUS
<1>a. /\ account \in AccountRow /\ account.failed \in Nat /\ history \in History /\ history.streak \in Nat
      /\ LoginMaxFailures \in Nat \ {0}
  BY LogRows, LoginsAssumption DEF LogTypeInv, AccountRow, History
<1> DEFINE Rest == /\ account'.failed = account.failed /\ (account.disabled => account'.disabled)
                   /\ history'.streak = history.streak /\ (history.overtaken => history'.overtaken)
           Over == account'.failed = 0 /\ history'.streak = 0
<1>b. ASSUME Rest PROVE LockExact'
  BY <1>b DEF LockExact, Locked
<1>c. ASSUME Over PROVE LockExact'
  <2>1. ~Locked(0)
    BY <1>a DEF Locked
  <2> QED
    BY <1>c, <2>1 DEF LockExact, Locked
<1>1. ASSUME NEW e \in Entrants, RecordFailure(e) PROVE LockExact'
  <2>1. SUFFICES ASSUME ~history'.overtaken PROVE account'.failed = history'.streak /\ (Locked(history'.streak) => account'.disabled)
    BY DEF LockExact, Locked
  <2>2. /\ history'.streak = IF Running(account.since) THEN history.streak + 1 ELSE 1
        /\ ~history.overtaken /\ entry[e].failed = account.failed /\ entry[e].since = account.since
    BY <1>1, <1>a, <2>1 DEF RecordFailure, History
  <2>3. /\ account'.failed = Counted(e)
        /\ account'.disabled = (account.disabled \/ Locked(Counted(e)))
    BY <1>1, <1>a DEF RecordFailure, AccountRow
  <2>4. Counted(e) = history'.streak
    BY <2>2 DEF Counted, LockExact
  <2> QED
    BY <2>3, <2>4
<1>2. ASSUME NEW e \in Entrants, ResetCount(e) \/ EnableAccount(e) PROVE Over
  BY <1>2, <1>a DEF ResetCount, EnableAccount, AccountRow, History
<1>3. ASSUME account' = account, history' = history PROVE Rest
  BY <1>3
<1>4. ASSUME NEW e \in Entrants, Signing(e), ~RecordFailure(e), ~ResetCount(e) PROVE Rest
  <2>1. CASE Migrate(e)
    BY <1>a, <2>1 DEF Migrate, AccountRow
  <2>2. ASSUME NEW c \in Codes, CheckCode(e, c) PROVE Rest
    BY <1>a, <2>2 DEF CheckCode, History
  <2>3. CASE EnterAccount(e)
    BY <1>a, <2>3 DEF EnterAccount, History
  <2>4. ASSUME NEW l \in Links, SelectLink(e, l) PROVE Rest
    BY <1>a, <2>4 DEF SelectLink, History
  <2> HIDE DEF Rest
  <2> QED
    BY <1>3, <1>4, <2>1, <2>2, <2>3, <2>4 DEF Signing, PasswordLogin, DropSessions, ReadFactor, KeyLogin, RequestLink,
       ReplaceLinks, SendLink, ConsumeLink, AdmitByLink, InsertLink
<1>5. ASSUME NEW e \in Entrants, Managing(e), ~EnableAccount(e) PROVE Rest
  <2>1. ASSUME NEW s \in Secrets, SetUp(e, s) PROVE Rest
    BY <1>a, <2>1 DEF SetUp, AccountRow, History
  <2>2. CASE Activate(e) \/ TurnOff(e) \/ RemoveKey(e) \/ WritePassword(e)
    BY <1>a, <2>2 DEF Activate, TurnOff, RemoveKey, WritePassword, AccountRow
  <2>3. ASSUME account' = account, history' = Crossing PROVE Rest
    BY <1>a, <2>3 DEF Crossing, History
  <2>4. ASSUME NEW at \in {"drop tokens", "idle"}, DisableAccount(e, at) PROVE Rest
    BY <1>a, <2>4 DEF DisableAccount, AccountRow, History
  <2>5. CASE Drop(e)
    BY <1>a, <2>5 DEF Drop, History
  <2> HIDE DEF Rest
  <2> QED
    BY <1>3, <1>5, <2>1, <2>2, <2>3, <2>4, <2>5
       DEF Managing, ConfirmPending, DisableFactor, CheckRemoval, CheckClearing, CheckPasswordChange
<1>6. ASSUME NEW k \in Keys, AddKey(k) PROVE Rest
  BY <1>a, <1>6 DEF AddKey, AccountRow
<1> HIDE DEF Rest, Over
<1> QED
  BY <1>b, <1>c, <1>1, <1>2, <1>3, <1>4, <1>5, <1>6 DEF LogNext, logVars, LogTick

\* Unless failures overlapped, the counter is the number of wrong passwords in the
\* window, and too many of them have disabled the account.
THEOREM LockTheorem == LogSpec => []LockExact
<1>1. LogInit => LockExact
  BY LoginsAssumption DEF LogInit, LockExact, Locked
<1> QED
  BY <1>1, LogInitTypes, LogStepTypes, LockExactStep, PTL DEF LogSpec

\* A request that another one moves past keeps its step.
LEMMA Others ==
  ASSUME LogTypeInv, NEW e \in Entrants, NEW x \in Entrants, x # e
  PROVE  /\ Signing(e) => entry'[x] = entry[x]
         /\ Managing(e) => entry'[x] = entry[x] \/ entry'[x] = [entry[x] EXCEPT !.late = TRUE]
<1>a. entry \in [Entrants -> Entry]
  BY LogRows
<1>1. \A step : Go(e, step) => entry'[x] = entry[x]
  BY <1>a DEF Go
<1>2. \A at : GoAt(e, at) => entry'[x] = entry[x]
  BY <1>1 DEF GoAt
<1>3. \A step : Enters(e, step) => entry'[x] = entry[x]
  BY <1>1 DEF Enters
<1>4. \A step : Overtake(e, step) => entry'[x] = entry[x] \/ entry'[x] = [entry[x] EXCEPT !.late = TRUE]
  BY DEF Overtake
<1>5. ASSUME Signing(e) PROVE entry'[x] = entry[x]
  BY <1>1, <1>2, <1>3, <1>5 DEF Signing, PasswordLogin, RecordFailure, DropSessions, Migrate, ResetCount, ReadFactor,
     CheckCode, EnterAccount, KeyLogin, RequestLink, ReplaceLinks, SendLink, ConsumeLink, AdmitByLink, InsertLink,
     SelectLink
<1>6. ASSUME Managing(e) PROVE entry'[x] = entry[x] \/ entry'[x] = [entry[x] EXCEPT !.late = TRUE]
  BY <1>1, <1>3, <1>4, <1>6 DEF Managing, SetUp, ConfirmPending, Activate, DisableFactor, TurnOff, CheckRemoval,
     RemoveKey, CheckClearing, WritePassword, CheckPasswordChange, DisableAccount, EnableAccount, Drop
<1> QED
  BY <1>5, <1>6

\* A login read the account before a lock, when the account is locked now.
ReadBefore ==
  /\ account.disabled => locks > 0
  /\ \A e \in Entrants : entry[e].read <= locks /\ (account.disabled => entry[e].read < locks)
LockInv == ReadBefore /\ LockEndsSessions

\* What a step does to the number of locks.
Unlocked == locks' = locks /\ (account'.disabled => account.disabled) /\ (history.leftover => history'.leftover)
LockedNow == locks' = locks + 1 /\ (Dropping' \/ history'.leftover)
LEMMA StepLocks == LogTypeInv /\ [LogNext]_logVars => Unlocked \/ LockedNow
<1> SUFFICES ASSUME LogTypeInv, [LogNext]_logVars PROVE Unlocked \/ LockedNow
  OBVIOUS
<1>a. account \in AccountRow /\ history \in History /\ entry \in [Entrants -> Entry]
  BY LogRows DEF LogTypeInv
<1>1. ASSUME NEW e \in Entrants, RecordFailure(e) PROVE Unlocked \/ LockedNow
  <2>1. account'.disabled = (account.disabled \/ Locked(Counted(e))) /\ history'.leftover = history.leftover
    BY <1>1, <1>a DEF RecordFailure, AccountRow, History
  <2>2. CASE Locked(Counted(e))
    <3>1. locks' = locks + 1 /\ entry' = [entry EXCEPT ![e] = [entry[e] EXCEPT !.at = "drop tokens"]]
      BY <1>1, <2>2 DEF RecordFailure, GoAt, Go
    <3>2. entry'[e].at = "drop tokens"
      BY <1>a, <3>1 DEF Entry
    <3> QED
      BY <3>1, <3>2 DEF LockedNow, Dropping
  <2>3. CASE ~Locked(Counted(e))
    BY <1>1, <2>1, <2>3 DEF RecordFailure, Unlocked
  <2> QED
    BY <2>2, <2>3
<1>2. ASSUME NEW e \in Entrants, NEW at \in {"drop tokens", "idle"}, DisableAccount(e, at) PROVE LockedNow
  <2>1. locks' = locks + 1 /\ history'.leftover = (history.leftover \/ at = "idle")
    BY <1>2, <1>a DEF DisableAccount, History
  <2>2. entry'[e].at = at
    BY <1>2, <1>a, RestingForm DEF DisableAccount, Enters, Go, Entry
  <2> QED
    BY <2>1, <2>2 DEF LockedNow, Dropping
<1>3. ASSUME locks' = locks, account' = account, history' = history PROVE Unlocked
  BY <1>3 DEF Unlocked
<1>4. ASSUME NEW e \in Entrants, Signing(e), ~RecordFailure(e) PROVE Unlocked
  <2>1. CASE Migrate(e) \/ ResetCount(e)
    BY <1>a, <2>1 DEF Migrate, ResetCount, AccountRow, History, Unlocked
  <2>2. ASSUME NEW c \in Codes, CheckCode(e, c) PROVE Unlocked
    BY <1>a, <2>2 DEF CheckCode, History, Unlocked
  <2>3. CASE EnterAccount(e)
    BY <1>a, <2>3 DEF EnterAccount, History, Unlocked
  <2>4. ASSUME NEW l \in Links, SelectLink(e, l) PROVE Unlocked
    BY <1>a, <2>4 DEF SelectLink, History, Unlocked
  <2> QED
    BY <1>3, <1>4, <2>1, <2>2, <2>3, <2>4 DEF Signing, PasswordLogin, DropSessions, ReadFactor, KeyLogin, RequestLink,
       ReplaceLinks, SendLink, ConsumeLink, AdmitByLink, InsertLink
<1>5. ASSUME NEW e \in Entrants, Managing(e) PROVE Unlocked \/ LockedNow
  <2>1. ASSUME NEW s \in Secrets, SetUp(e, s) PROVE Unlocked
    BY <1>a, <2>1 DEF SetUp, AccountRow, History, Unlocked
  <2>2. CASE Activate(e) \/ TurnOff(e) \/ RemoveKey(e) \/ WritePassword(e)
    BY <1>a, <2>2 DEF Activate, TurnOff, RemoveKey, WritePassword, AccountRow, Unlocked
  <2>3. ASSUME account' = account, history' = Crossing, locks' = locks PROVE Unlocked
    BY <1>a, <2>3 DEF Crossing, History, Unlocked
  <2>4. CASE EnableAccount(e)
    BY <1>a, <2>4 DEF EnableAccount, AccountRow, History, Unlocked
  <2>5. CASE Drop(e)
    BY <1>a, <2>5 DEF Drop, History, Unlocked
  <2> QED
    BY <1>2, <1>3, <1>5, <2>1, <2>2, <2>3, <2>4, <2>5
       DEF Managing, ConfirmPending, DisableFactor, CheckRemoval, CheckClearing, CheckPasswordChange
<1>6. ASSUME NEW k \in Keys, AddKey(k) PROVE Unlocked
  BY <1>a, <1>6 DEF AddKey, AccountRow, Unlocked
<1> QED
  BY <1>1, <1>3, <1>4, <1>5, <1>6 DEF LogNext, logVars, LogTick

\* What a request holds after a step of its own.
LEMMA OwnEntry ==
  ASSUME LogTypeInv, NEW e \in Entrants, NEW step
  PROVE  /\ Go(e, step) \/ Overtake(e, step) \/ Enters(e, step) => entry'[e] = step
         /\ GoAt(e, step) => entry'[e] = [entry[e] EXCEPT !.at = step]
<1>1. entry \in [Entrants -> Entry]
  BY LogRows
<1> QED
  BY <1>1 DEF Go, GoAt, Enters, Overtake

LEMMA StepReads ==
  ASSUME LogTypeInv, [LogNext]_logVars, NEW x \in Entrants
  PROVE  \/ entry'[x].read = entry[x].read
         \/ entry'[x].read = 0
         \/ entry'[x].read = locks /\ ~account.disabled /\ account' = account
<1> DEFINE Fine == \/ entry'[x].read = entry[x].read
                   \/ entry'[x].read = 0
                   \/ entry'[x].read = locks /\ ~account.disabled /\ account' = account
<1> SUFFICES Fine
  OBVIOUS
<1>a. \A y \in Entrants : entry[y] \in Entry
  BY LogRows
<1>1. ASSUME entry' = entry PROVE Fine
  BY <1>1
<1>2. ASSUME NEW e \in Entrants, e # x, Signing(e) \/ Managing(e) PROVE Fine
  <2>1. entry'[x] = entry[x] \/ entry'[x] = [entry[x] EXCEPT !.late = TRUE]
    BY <1>2, Others
  <2> QED
    BY <1>a, <2>1 DEF Entry
<1>3. ASSUME NEW at, GoAt(x, at) PROVE Fine
  BY <1>3, <1>a, OwnEntry DEF Entry
<1>4. ASSUME Go(x, Resting) \/ Overtake(x, Resting) \/ Enters(x, Resting) PROVE Fine
  BY <1>4, OwnEntry, RestingForm
<1>5. ASSUME NEW step, Enters(x, step), step.read = 0 PROVE Fine
  BY <1>5, OwnEntry
<1>6. ASSUME NEW step, Go(x, step), step.read = entry[x].read PROVE Fine
  BY <1>6, OwnEntry
<1>7. ASSUME Signing(x) PROVE Fine
  <2>1. ASSUME NEW right \in BOOLEAN, PasswordLogin(x, right) PROVE Fine
    <3>1. PICK at : Enters(x, [Resting EXCEPT !.at = at, !.failed = account.failed,
                                              !.since = account.since, !.read = locks])
      BY <2>1 DEF PasswordLogin
    <3>2. [Resting EXCEPT !.at = at, !.failed = account.failed, !.since = account.since, !.read = locks].read = locks
      BY DEF Resting
    <3>3. entry'[x].read = locks
      BY <3>1, <3>2, OwnEntry
    <3> QED
      BY <2>1, <3>3 DEF PasswordLogin
  <2>2. CASE RecordFailure(x) \/ DropSessions(x) \/ Migrate(x) \/ ResetCount(x) \/ EnterAccount(x)
             \/ ReplaceLinks(x) \/ SendLink(x) \/ ConsumeLink(x)
    BY <1>3, <1>4, <2>2 DEF RecordFailure, DropSessions, Migrate, ResetCount, EnterAccount, ReplaceLinks, SendLink,
       ConsumeLink
  <2>3. CASE ReadFactor(x)
    <3>1. [entry[x] EXCEPT !.at = "code", !.secret = account.secret].read = entry[x].read
      BY <1>a DEF Entry
    <3> QED
      BY <1>3, <1>6, <2>3, <3>1 DEF ReadFactor
  <2>4. ASSUME NEW c \in Codes, CheckCode(x, c) PROVE Fine
    BY <1>3, <1>4, <2>4 DEF CheckCode
  <2>5. ASSUME NEW at \in {"factor", "enter"}, KeyLogin(x, at) PROVE Fine
    <3>1. entry'[x].read = locks
      BY <2>5, OwnEntry DEF KeyLogin, Resting
    <3> QED
      BY <2>5, <3>1 DEF KeyLogin
  <2>6. CASE RequestLink(x)
    <3>1. [Resting EXCEPT !.at = "replace"].read = 0
      BY DEF Resting
    <3> QED
      BY <1>5, <2>6, <3>1 DEF RequestLink
  <2>7. CASE AdmitByLink(x)
    <3>1. [entry[x] EXCEPT !.at = "enter", !.read = locks].read = locks
      BY <1>a DEF Entry
    <3> QED
      BY <1>4, <2>7, <3>1, OwnEntry DEF AdmitByLink
  <2>8. ASSUME NEW l \in Links, InsertLink(x, l) PROVE Fine
    <3>1. [entry[x] EXCEPT !.at = "send", !.link = l].read = entry[x].read
      BY <1>a DEF Entry
    <3> QED
      BY <1>6, <2>8, <3>1 DEF InsertLink
  <2>9. ASSUME NEW l \in Links, SelectLink(x, l) PROVE Fine
    <3>1. \A at : [Resting EXCEPT !.link = l, !.at = at].read = 0
      BY DEF Resting
    <3> QED
      BY <1>5, <2>9, <3>1 DEF SelectLink
  <2> HIDE DEF Fine
  <2> QED
    BY <1>7, <2>1, <2>2, <2>3, <2>4, <2>5, <2>6, <2>7, <2>8, <2>9 DEF Signing
<1>8. ASSUME Managing(x) PROVE Fine
  <2>1. CASE Activate(x) \/ TurnOff(x) \/ RemoveKey(x) \/ WritePassword(x) \/ EnableAccount(x) \/ Drop(x)
             \/ \E s \in Secrets : SetUp(x, s)
    BY <1>4, <2>1 DEF Activate, TurnOff, RemoveKey, WritePassword, EnableAccount, Drop, SetUp
  <2>3. /\ \A s : [Resting EXCEPT !.at = "activate", !.secret = s].read = 0
        /\ \A s : [Resting EXCEPT !.at = "code", !.next = "turn off", !.secret = s].read = 0
        /\ \A k : [Resting EXCEPT !.at = "remove", !.key = k].read = 0
        /\ \A at : [Resting EXCEPT !.at = at].read = 0
    BY DEF Resting
  <2> HIDE DEF Fine
  <2>4. CASE ConfirmPending(x) \/ DisableFactor(x)
    BY <1>5, <2>3, <2>4 DEF ConfirmPending, DisableFactor
  <2>5. ASSUME NEW k \in Keys, CheckRemoval(x, k) PROVE Fine
    BY <1>5, <2>3, <2>5 DEF CheckRemoval
  <2>6. CASE CheckClearing(x) \/ CheckPasswordChange(x)
    BY <1>5, <2>3, <2>6 DEF CheckClearing, CheckPasswordChange
  <2>7. ASSUME NEW at \in {"drop tokens", "idle"}, DisableAccount(x, at) PROVE Fine
    BY <1>5, <2>3, <2>7 DEF DisableAccount
  <2> QED
    BY <1>8, <2>1, <2>4, <2>5, <2>6, <2>7 DEF Managing
<1> HIDE DEF Fine
<1> QED
  BY <1>1, <1>2, <1>7, <1>8 DEF LogNext, logVars, AddKey, LogTick

\* A request that is about to drop the tokens stays so until it drops them or goes away.
LEMMA StepDropping ==
  ASSUME LogTypeInv, [LogNext]_logVars, NEW x \in Entrants, entry[x].at = "drop tokens"
  PROVE  Dropping' \/ sessions' = {} \/ history'.leftover
<1>a. entry[x] \in Entry /\ entry[x] # Resting /\ history \in History /\ entry \in [Entrants -> Entry]
  BY LogRows, RestingForm DEF LogTypeInv
<1>1. ASSUME entry'[x] = entry[x] \/ entry'[x] = [entry[x] EXCEPT !.late = TRUE] PROVE Dropping'
  <2>1. entry'[x].at = "drop tokens"
    BY <1>a, <1>1 DEF Entry
  <2> QED
    BY <2>1 DEF Dropping
<1>2. ASSUME NEW e \in Entrants, e # x, Signing(e) \/ Managing(e) PROVE Dropping'
  BY <1>1, <1>2, Others
<1>3. ASSUME Signing(x) PROVE sessions' = {}
  BY <1>3, <1>a DEF Signing, PasswordLogin, RecordFailure, DropSessions, Migrate, ResetCount, ReadFactor,
     CheckCode, EnterAccount, KeyLogin, RequestLink, ReplaceLinks, SendLink, ConsumeLink, AdmitByLink, InsertLink,
     SelectLink, At, Enters
<1>4. ASSUME Managing(x) PROVE history'.leftover
  <2>1. Drop(x)
    BY <1>4, <1>a DEF Managing, SetUp, ConfirmPending, Activate, DisableFactor, TurnOff, CheckRemoval,
       RemoveKey, CheckClearing, WritePassword, CheckPasswordChange, DisableAccount, EnableAccount, At, Enters
  <2> QED
    BY <1>a, <2>1 DEF Drop, History
<1> QED
  BY <1>1, <1>2, <1>3, <1>4 DEF LogNext, logVars, AddKey, LogTick

LEMMA StepSessions ==
  ASSUME [LogNext]_logVars
  PROVE  \/ sessions' = sessions \/ sessions' = {}
         \/ \E e \in Entrants : sessions' = sessions \cup {[read |-> entry[e].read, made |-> locks]} /\ locks' = locks
<1>1. ASSUME NEW e \in Entrants, Signing(e), ~EnterAccount(e) PROVE sessions' = sessions \/ sessions' = {}
  BY <1>1 DEF Signing, PasswordLogin, RecordFailure, DropSessions, Migrate, ResetCount, ReadFactor,
     CheckCode, KeyLogin, RequestLink, ReplaceLinks, SendLink, ConsumeLink, AdmitByLink, InsertLink, SelectLink
<1>2. ASSUME NEW e \in Entrants, Managing(e) PROVE sessions' = sessions
  BY <1>2 DEF Managing, SetUp, ConfirmPending, Activate, DisableFactor, TurnOff, CheckRemoval,
     RemoveKey, CheckClearing, WritePassword, CheckPasswordChange, DisableAccount, EnableAccount, Drop
<1> QED
  BY <1>1, <1>2 DEF LogNext, logVars, AddKey, LogTick, EnterAccount

LEMMA LockInvStep == LogTypeInv /\ LockInv /\ [LogNext]_logVars => LockInv'
<1> SUFFICES ASSUME LogTypeInv, LockInv, [LogNext]_logVars PROVE LockInv'
  OBVIOUS
<1>a. locks \in Nat /\ \A x \in Entrants : entry[x].read \in Nat
  BY LogRows DEF LogTypeInv, LogTypeOK, Entry
<1>b. ReadBefore /\ LockEndsSessions
  BY DEF LockInv
<1>c. Unlocked \/ LockedNow
  BY StepLocks
<1>1. ReadBefore'
  <2>1. account'.disabled => locks' > 0
    BY <1>a, <1>b, <1>c DEF ReadBefore, Unlocked, LockedNow
  <2>2. ASSUME NEW x \in Entrants PROVE entry'[x].read <= locks' /\ (account'.disabled => entry'[x].read < locks')
    <3>1. entry[x].read \in Nat /\ entry[x].read <= locks /\ (account.disabled => entry[x].read < locks)
      BY <1>a, <1>b DEF ReadBefore
    <3>2. \/ entry'[x].read = entry[x].read
          \/ entry'[x].read = 0
          \/ entry'[x].read = locks /\ ~account.disabled /\ account' = account
      BY StepReads
    <3>3. CASE Unlocked
      BY <1>a, <1>b, <3>1, <3>2, <3>3 DEF Unlocked, ReadBefore
    <3>4. CASE LockedNow
      BY <1>a, <3>1, <3>2, <3>4 DEF LockedNow
    <3> QED
      BY <1>c, <3>3, <3>4
  <2> QED
    BY <2>1, <2>2 DEF ReadBefore
<1>2. LockEndsSessions'
  <2>1. SUFFICES ASSUME account'.disabled, ~Dropping', ~history'.leftover, NEW s \in sessions'
                 PROVE  s.read < locks' /\ s.made = locks'
    BY DEF LockEndsSessions, Dropping
  <2>2. locks' = locks /\ account.disabled /\ ~history.leftover
    BY <1>c, <2>1 DEF Unlocked, LockedNow
  <2>3. sessions' # {}
    BY <2>1
  <2>4. ~Dropping
    BY <2>1, <2>3, StepDropping DEF Dropping
  <2>5. CASE s \in sessions
    BY <1>b, <2>2, <2>4, <2>5 DEF LockEndsSessions
  <2>6. CASE s \notin sessions
    <3>1. PICK e \in Entrants : s = [read |-> entry[e].read, made |-> locks]
      BY <2>1, <2>6, StepSessions
    <3> QED
      BY <1>b, <2>2, <3>1 DEF ReadBefore
  <2> QED
    BY <2>5, <2>6
<1> QED
  BY <1>1, <1>2 DEF LockInv

\* A session that outlives a lock was begun before it and inserted after its deletion.
THEOREM LockEndsSessionsTheorem == LogSpec => []LockEndsSessions
<1>1. LogInit => LockInv
  BY RestingForm DEF LogInit, LockInv, ReadBefore, LockEndsSessions
<1>2. LockInv => LockEndsSessions
  BY DEF LockInv
<1> QED
  BY <1>1, <1>2, LogInitTypes, LogStepTypes, LockInvStep, PTL DEF LogSpec

-----------------------------------------------------------------------------
(* Logins: what a step does to a request.                                   *)

Same(x) == /\ entry'[x].link = entry[x].link /\ entry'[x].secret = entry[x].secret /\ entry'[x].key = entry[x].key
           /\ entry'[x].next = entry[x].next /\ entry'[x].late = entry[x].late
Goes(x, from, to) == entry[x].at = from /\ entry'[x].at = to /\ Same(x)
Begins(x, ats) == entry'[x].at \in ats /\ entry'[x].link = NoLink /\ entry'[x].next = "enter"
Moves(x) ==
  \/ entry'[x].at = "idle" /\ entry'[x].link = NoLink
  \/ Goes(x, "fail", "drop tokens") \/ Goes(x, "migrate", "reset") \/ Goes(x, "factor", "enter")
  \/ Goes(x, "replace", "new link") \/ Goes(x, "reset", "admit") \/ Goes(x, "admit", "enter")
  \/ Goes(x, "reset", "factor") /\ entry[x].link = NoLink
  \/ Goes(x, "code", entry[x].next)
  \/ Goes(x, "consume", "reset") /\ links' = Closed({entry[x].link})
  \/ /\ entry[x].at = "factor" /\ entry'[x].at = "code" /\ entry'[x].link = entry[x].link
     /\ account.secret # NoSecret /\ entry'[x].secret = account.secret
  \/ entry'[x].at = "send" /\ links'[entry'[x].link].st = "open"
  \/ entry'[x].at \in {"spoil", "consume"} /\ links'[entry'[x].link].st = "open"
  \/ Begins(x, {"fail", "migrate", "reset", "factor", "enter", "replace", "set password", "drop tokens"})
  \/ Begins(x, {"activate"}) /\ entry'[x].secret = account.pending /\ account.pending # NoSecret
  \/ /\ entry'[x].at = "code" /\ entry'[x].link = NoLink
     /\ entry'[x].secret = account.secret /\ account.secret # NoSecret
  \/ /\ Begins(x, {"remove"}) /\ HasOtherLoginMethod(entry'[x].key)
     /\ account' = account /\ history' = Crossing
  \/ /\ Begins(x, {"clear password"}) /\ account.keys # {}
     /\ account' = account /\ history' = Crossing

LEMMA SigningMoves ==
  ASSUME LogTypeInv, NEW x \in Entrants, Signing(x)
  PROVE  Moves(x)
<1>a. entry[x] \in Entry /\ entry[x].at \in EntrySteps /\ links \in [Links -> [st : {"none", "open", "gone"}, until : Nat]]
  BY LogRows DEF Entry
<1>1. ASSUME NEW at, entry'[x] = [entry[x] EXCEPT !.at = at] PROVE entry'[x].at = at /\ Same(x)
  BY <1>1, <1>a DEF Entry, Same
<1>2. ASSUME NEW at, GoAt(x, at) PROVE Goes(x, entry[x].at, at)
  BY <1>1, <1>2, OwnEntry DEF Goes
<1>3. ASSUME Go(x, Resting) PROVE Moves(x)
  BY <1>3, OwnEntry, RestingForm DEF Moves
<1>4. ASSUME NEW right \in BOOLEAN, PasswordLogin(x, right) PROVE Moves(x)
  <2>1. PICK at \in {"fail", "migrate", "reset"} :
          Enters(x, [Resting EXCEPT !.at = at, !.failed = account.failed, !.since = account.since, !.read = locks])
    BY <1>4 DEF PasswordLogin
  <2> DEFINE r == [Resting EXCEPT !.at = at, !.failed = account.failed, !.since = account.since, !.read = locks]
  <2>2. r.at = at /\ r.link = NoLink /\ r.next = "enter"
    BY DEF Resting
  <2>3. entry'[x] = r
    BY <2>1, OwnEntry
  <2> HIDE DEF r
  <2> QED
    BY <2>2, <2>3 DEF Moves, Begins
<1>5. CASE RecordFailure(x)
  BY <1>2, <1>3, <1>5 DEF RecordFailure, At, Moves
<1>6. CASE Migrate(x)
  BY <1>2, <1>6 DEF Migrate, At, Moves
<1>7. CASE ResetCount(x)
  BY <1>2, <1>7 DEF ResetCount, At, Moves
<1>8. CASE ReadFactor(x)
  <2>1. CASE account.secret = NoSecret
    BY <1>2, <1>8, <2>1 DEF ReadFactor, At, Moves
  <2>2. CASE account.secret # NoSecret
    <3> DEFINE r == [entry[x] EXCEPT !.at = "code", !.secret = account.secret]
    <3>1. r.at = "code" /\ r.link = entry[x].link /\ r.secret = account.secret
      BY <1>a DEF Entry
    <3>2. entry'[x] = r /\ entry[x].at = "factor"
      BY <1>8, <2>2, OwnEntry DEF ReadFactor, At
    <3> HIDE DEF r
    <3> QED
      BY <2>2, <3>1, <3>2 DEF Moves
  <2> QED
    BY <2>1, <2>2
<1>9. ASSUME NEW c \in Codes, CheckCode(x, c) PROVE Moves(x)
  BY <1>2, <1>3, <1>9 DEF CheckCode, At, Moves
<1>10. ASSUME NEW at \in {"factor", "enter"}, KeyLogin(x, at) PROVE Moves(x)
  <2> DEFINE r == [Resting EXCEPT !.at = at, !.read = locks]
  <2>1. r.at = at /\ r.link = NoLink /\ r.next = "enter"
    BY DEF Resting
  <2>2. entry'[x] = r
    BY <1>10, OwnEntry DEF KeyLogin
  <2> HIDE DEF r
  <2> QED
    BY <2>1, <2>2 DEF Moves, Begins
<1>11. CASE RequestLink(x)
  <2> DEFINE r == [Resting EXCEPT !.at = "replace"]
  <2>1. r.at = "replace" /\ r.link = NoLink /\ r.next = "enter"
    BY DEF Resting
  <2>2. entry'[x] = r
    BY <1>11, OwnEntry DEF RequestLink
  <2> HIDE DEF r
  <2> QED
    BY <2>1, <2>2 DEF Moves, Begins
<1>12. CASE ReplaceLinks(x)
  BY <1>2, <1>12 DEF ReplaceLinks, At, Moves
<1>13. CASE ConsumeLink(x)
  BY <1>2, <1>3, <1>13 DEF ConsumeLink, At, Moves
<1>14. CASE AdmitByLink(x)
  <2> DEFINE r == [entry[x] EXCEPT !.at = "enter", !.read = locks]
  <2>1. entry'[x] = r => entry'[x].at = "enter" /\ Same(x)
    BY <1>a DEF Entry, Same
  <2>2. Go(x, Resting) \/ entry'[x] = r
    BY <1>14, OwnEntry DEF AdmitByLink
  <2>3. entry[x].at = "admit"
    BY <1>14 DEF AdmitByLink, At
  <2> HIDE DEF r
  <2> QED
    BY <1>3, <2>1, <2>2, <2>3 DEF Moves, Goes
<1>15. ASSUME NEW l \in Links, InsertLink(x, l) PROVE Moves(x)
  <2> DEFINE r == [entry[x] EXCEPT !.at = "send", !.link = l]
  <2>1. r.at = "send" /\ r.link = l
    BY <1>a DEF Entry
  <2>2. entry'[x] = r /\ links'[l].st = "open"
    BY <1>15, <1>a, OwnEntry DEF InsertLink
  <2> HIDE DEF r
  <2> QED
    BY <2>1, <2>2 DEF Moves
<1>16. ASSUME NEW l \in Links, SelectLink(x, l) PROVE Moves(x)
  <2>1. PICK at \in {"spoil", "consume"} : Enters(x, [Resting EXCEPT !.link = l, !.at = at])
    BY <1>16 DEF SelectLink
  <2> DEFINE r == [Resting EXCEPT !.link = l, !.at = at]
  <2>2. r.at = at /\ r.link = l
    BY DEF Resting
  <2>3. entry'[x] = r /\ links'[l].st = "open"
    BY <1>16, <2>1, OwnEntry DEF SelectLink
  <2> HIDE DEF r
  <2> QED
    BY <2>2, <2>3 DEF Moves
<1> QED
  BY <1>3, <1>4, <1>5, <1>6, <1>7, <1>8, <1>9, <1>10, <1>11, <1>12, <1>13, <1>14, <1>15, <1>16
     DEF Signing, DropSessions, EnterAccount, SendLink

LEMMA ManagingMoves ==
  ASSUME LogTypeInv, NEW x \in Entrants, Managing(x)
  PROVE  Moves(x)
<1>1. ASSUME Go(x, Resting) \/ Overtake(x, Resting) \/ Enters(x, Resting) PROVE Moves(x)
  BY <1>1, OwnEntry, RestingForm DEF Moves
<1>2. CASE Activate(x) \/ TurnOff(x) \/ RemoveKey(x) \/ WritePassword(x) \/ EnableAccount(x) \/ Drop(x)
           \/ \E s \in Secrets : SetUp(x, s)
  BY <1>1, <1>2 DEF Activate, TurnOff, RemoveKey, WritePassword, EnableAccount, Drop, SetUp
<1>3. CASE ConfirmPending(x)
  <2> DEFINE r == [Resting EXCEPT !.at = "activate", !.secret = account.pending]
  <2>1. r.at = "activate" /\ r.link = NoLink /\ r.next = "enter" /\ r.secret = account.pending
    BY DEF Resting
  <2>2. entry'[x] = r /\ account.pending # NoSecret
    BY <1>3, OwnEntry DEF ConfirmPending
  <2> HIDE DEF r
  <2> QED
    BY <2>1, <2>2 DEF Moves, Begins
<1>4. CASE DisableFactor(x)
  <2> DEFINE r == [Resting EXCEPT !.at = "code", !.next = "turn off", !.secret = account.secret]
  <2>1. r.at = "code" /\ r.link = NoLink /\ r.secret = account.secret
    BY DEF Resting
  <2>2. entry'[x] = r /\ account.secret # NoSecret
    BY <1>4, OwnEntry DEF DisableFactor
  <2> HIDE DEF r
  <2> QED
    BY <2>1, <2>2 DEF Moves
<1>5. ASSUME NEW k \in Keys, CheckRemoval(x, k) PROVE Moves(x)
  <2> DEFINE r == [Resting EXCEPT !.at = "remove", !.key = k]
  <2>1. r.at = "remove" /\ r.link = NoLink /\ r.next = "enter" /\ r.key = k
    BY DEF Resting
  <2>2. entry'[x] = r /\ HasOtherLoginMethod(k) /\ account' = account /\ history' = Crossing
    BY <1>5, OwnEntry DEF CheckRemoval
  <2> HIDE DEF r
  <2> QED
    BY <2>1, <2>2 DEF Moves, Begins
<1>6. \A at : [Resting EXCEPT !.at = at].at = at /\ [Resting EXCEPT !.at = at].link = NoLink
              /\ [Resting EXCEPT !.at = at].next = "enter"
  BY DEF Resting
<1>7. CASE CheckClearing(x)
  <2> DEFINE r == [Resting EXCEPT !.at = "clear password"]
  <2>1. /\ entry'[x] = r
        /\ account.keys # {} /\ account' = account /\ history' = Crossing
    BY <1>7, OwnEntry DEF CheckClearing
  <2>2. r.at = "clear password" /\ r.link = NoLink /\ r.next = "enter"
    BY <1>6
  <2> HIDE DEF r
  <2> QED
    BY <2>1, <2>2 DEF Moves, Begins
<1>8. CASE CheckPasswordChange(x)
  <2> DEFINE r == [Resting EXCEPT !.at = "set password"]
  <2>1. entry'[x] = r
    BY <1>8, OwnEntry DEF CheckPasswordChange
  <2>2. r.at = "set password" /\ r.link = NoLink /\ r.next = "enter"
    BY <1>6
  <2> HIDE DEF r
  <2> QED
    BY <2>1, <2>2 DEF Moves, Begins
<1>9. ASSUME NEW at \in {"drop tokens", "idle"}, DisableAccount(x, at) PROVE Moves(x)
  <2>1. entry'[x] = [Resting EXCEPT !.at = at]
    BY <1>9, OwnEntry DEF DisableAccount
  <2> QED
    BY <1>6, <1>9, <2>1 DEF Moves, Begins
<1> QED
  BY <1>2, <1>3, <1>4, <1>5, <1>7, <1>8, <1>9 DEF Managing

\* A request stays as it is, is overtaken, or takes one of these steps.
LEMMA StepMoves ==
  ASSUME LogTypeInv, [LogNext]_logVars, NEW x \in Entrants
  PROVE  \/ entry'[x].at = entry[x].at /\ entry'[x].link = entry[x].link /\ entry'[x].secret = entry[x].secret
            /\ entry'[x].key = entry[x].key /\ entry'[x].next = entry[x].next
            /\ (entry[x].late => entry'[x].late)
         \/ Moves(x)
<1>a. entry[x] \in Entry
  BY LogRows
<1>1. ASSUME entry'[x] = entry[x] \/ entry'[x] = [entry[x] EXCEPT !.late = TRUE]
      PROVE  /\ entry'[x].at = entry[x].at /\ entry'[x].link = entry[x].link /\ entry'[x].secret = entry[x].secret
             /\ entry'[x].key = entry[x].key /\ entry'[x].next = entry[x].next
             /\ (entry[x].late => entry'[x].late)
  BY <1>a, <1>1 DEF Entry
<1>2. CASE entry'[x] = entry[x] \/ entry'[x] = [entry[x] EXCEPT !.late = TRUE]
  BY <1>1, <1>2
<1>3. CASE Signing(x) \/ Managing(x)
  BY <1>3, SigningMoves, ManagingMoves
<1>4. ASSUME NEW e \in Entrants, e # x, Signing(e) \/ Managing(e)
      PROVE  entry'[x] = entry[x] \/ entry'[x] = [entry[x] EXCEPT !.late = TRUE]
  BY <1>4, Others
<1>5. entry' = entry => entry'[x] = entry[x]
  OBVIOUS
<1> QED
  BY <1>2, <1>3, <1>4, <1>5 DEF LogNext, logVars, AddKey, LogTick

-----------------------------------------------------------------------------
(* Logins: the last login method.                                           *)

\* Without crossing, one removal is under way at a time, and what it leaves is enough.
Spare(e) == /\ entry[e].at = "remove" => HasOtherLoginMethod(entry[e].key)
            /\ entry[e].at = "clear password" => account.keys # {}
RemovalInv ==
  ~history.crossed =>
    /\ \A e, f \in Entrants : Removing(e) /\ Removing(f) => e = f
    /\ \A e \in Entrants : Spare(e)
    /\ ~NoLoginMethod

\* Who removes goes on removing, or has begun.
LEMMA StepRemoving ==
  ASSUME LogTypeInv, [LogNext]_logVars, NEW x \in Entrants, Removing(x)'
  PROVE  \/ Removing(x) /\ entry'[x].at = entry[x].at /\ entry'[x].key = entry[x].key
         \/ /\ account' = account /\ history' = Crossing
            /\ entry'[x].at = "remove" => HasOtherLoginMethod(entry'[x].key)
            /\ entry'[x].at = "clear password" => account.keys # {}
<1>1. CASE Moves(x)
  <2>1. entry'[x].at \in {"remove", "clear password"}
    BY DEF Removing
  <2>2. entry[x].next \in {"enter", "turn off"}
    BY LogRows DEF Entry
  <2> QED
    BY <1>1, <2>1, <2>2 DEF Moves, Goes, Begins
<1>2. CASE ~Moves(x)
  BY <1>2, StepMoves DEF Removing
<1> QED
  BY <1>1, <1>2

\* What a step takes away from the login methods.
LEMMA StepMethods ==
  ASSUME LogTypeInv, [LogNext]_logVars
  PROVE  /\ history.crossed => history'.crossed
         /\ \/ (account.password # "none" => account'.password # "none") /\ account.keys \subseteq account'.keys
            \/ \E e \in Entrants :
                 /\ Removing(e) /\ ~Removing(e)'
                 /\ \/ /\ entry[e].at = "remove" /\ account'.password = account.password
                       /\ account'.keys = account.keys \ {entry[e].key}
                    \/ entry[e].at = "clear password" /\ account'.keys = account.keys
<1> DEFINE Kept == (account.password # "none" => account'.password # "none") /\ account.keys \subseteq account'.keys
           Stays == history.crossed => history'.crossed
           Less(e) == /\ Removing(e) /\ ~Removing(e)'
                      /\ \/ /\ entry[e].at = "remove" /\ account'.password = account.password
                            /\ account'.keys = account.keys \ {entry[e].key}
                         \/ entry[e].at = "clear password" /\ account'.keys = account.keys
<1>a. account \in AccountRow /\ history \in History
  BY LogRows DEF LogTypeInv
<1>1. ASSUME account' = account, history' = history PROVE Kept /\ Stays
  BY <1>1
<1>2. ASSUME NEW e \in Entrants, Signing(e) PROVE Kept /\ Stays
  <2>1. CASE RecordFailure(e) \/ ResetCount(e)
    BY <1>a, <2>1 DEF RecordFailure, ResetCount, AccountRow, History
  <2>2. CASE Migrate(e)
    BY <1>a, <2>2 DEF Migrate, AccountRow
  <2>3. ASSUME NEW c \in Codes, CheckCode(e, c) PROVE Kept /\ Stays
    BY <1>a, <2>3 DEF CheckCode, History
  <2>4. CASE EnterAccount(e)
    BY <1>a, <2>4 DEF EnterAccount, History
  <2>5. ASSUME NEW l \in Links, SelectLink(e, l) PROVE Kept /\ Stays
    BY <1>a, <2>5 DEF SelectLink, History
  <2> HIDE DEF Kept, Stays
  <2> QED
    BY <1>1, <1>2, <2>1, <2>2, <2>3, <2>4, <2>5 DEF Signing, PasswordLogin, DropSessions, ReadFactor, KeyLogin,
       RequestLink, ReplaceLinks, SendLink, ConsumeLink, AdmitByLink, InsertLink
<1>3. ASSUME NEW e \in Entrants, Managing(e) PROVE Stays /\ (Kept \/ Less(e))
  <2>1. ASSUME NEW s \in Secrets, SetUp(e, s) PROVE Kept /\ Stays
    BY <1>a, <2>1 DEF SetUp, AccountRow, History
  <2>2. CASE Activate(e) \/ TurnOff(e)
    BY <1>a, <2>2 DEF Activate, TurnOff, AccountRow
  <2>3. ASSUME account' = account, history' = Crossing PROVE Kept /\ Stays
    BY <1>a, <2>3 DEF Crossing, History
  <2>4. ASSUME NEW at, DisableAccount(e, at) PROVE Kept /\ Stays
    BY <1>a, <2>4 DEF DisableAccount, AccountRow, History
  <2>5. CASE EnableAccount(e)
    BY <1>a, <2>5 DEF EnableAccount, AccountRow, History
  <2>6. CASE Drop(e)
    BY <1>a, <2>6 DEF Drop, History
  <2>7. Go(e, Resting) => ~Removing(e)'
    BY OwnEntry, RestingForm DEF Removing
  <2>8. CASE RemoveKey(e)
    <3>1. account'.keys = account.keys \ {entry[e].key} /\ account'.password = account.password
      BY <1>a, <2>8 DEF RemoveKey, AccountRow
    <3> QED
      BY <2>7, <2>8, <3>1 DEF RemoveKey, At, Removing
  <2>9. CASE WritePassword(e)
    <3>1. account'.keys = account.keys
          /\ account'.password = IF entry[e].at = "set password" THEN "hash" ELSE "none"
      BY <1>a, <2>9 DEF WritePassword, AccountRow
    <3>2. entry[e].at \in {"clear password", "set password"}
      BY <2>9 DEF WritePassword, At
    <3>3. ~Removing(e)'
      BY <2>7, <2>9 DEF WritePassword
    <3>4. history' = history
      BY <2>9 DEF WritePassword
    <3>5. CASE entry[e].at = "set password"
      BY <3>1, <3>4, <3>5
    <3>6. CASE entry[e].at = "clear password"
      BY <3>1, <3>3, <3>4, <3>6 DEF Removing
    <3> QED
      BY <3>2, <3>5, <3>6
  <2> HIDE DEF Kept, Stays, Less
  <2> QED
    BY <1>1, <1>3, <2>1, <2>2, <2>3, <2>4, <2>5, <2>6, <2>8, <2>9
       DEF Managing, ConfirmPending, DisableFactor, CheckRemoval, CheckClearing, CheckPasswordChange
<1>4. ASSUME NEW k \in Keys, AddKey(k) PROVE Kept /\ Stays
  BY <1>a, <1>4 DEF AddKey, AccountRow
<1>5. Stays /\ (Kept \/ \E e \in Entrants : Less(e))
  <2> HIDE DEF Kept, Stays, Less
  <2> QED
    BY <1>1, <1>2, <1>3, <1>4 DEF LogNext, logVars, LogTick
<1> QED
  BY <1>5

\* One step begins one removal.
LEMMA BothBegin ==
  ASSUME LogTypeInv, [LogNext]_logVars, NEW x \in Entrants, NEW y \in Entrants,
         Removing(x)', Removing(y)', ~Removing(x), ~Removing(y)
  PROVE  x = y
<1>a. entry[x] \in Entry /\ entry[y] \in Entry
  BY LogRows
<1>b. /\ entry'[x] # entry[x] /\ entry'[x] # [entry[x] EXCEPT !.late = TRUE]
      /\ entry'[y] # entry[y] /\ entry'[y] # [entry[y] EXCEPT !.late = TRUE]
  BY <1>a DEF Removing, Entry
<1>c. entry' # entry
  BY <1>b
<1>1. PICK e \in Entrants : Signing(e) \/ Managing(e)
  BY <1>c DEF LogNext, logVars, AddKey, LogTick
<1>2. e = x /\ e = y
  BY <1>1, <1>b, Others
<1> QED
  BY <1>2

LEMMA RemovalInvStep == LogTypeInv /\ RemovalInv /\ [LogNext]_logVars => RemovalInv'
<1> SUFFICES ASSUME LogTypeInv, RemovalInv, [LogNext]_logVars, ~history'.crossed
             PROVE  /\ \A e, f \in Entrants : Removing(e)' /\ Removing(f)' => e = f
                    /\ \A e \in Entrants : Spare(e)'
                    /\ ~NoLoginMethod'
  BY DEF RemovalInv, Removing
<1>a. history \in History
  BY DEF LogTypeInv
<1>b. ~history.crossed
  BY StepMethods
<1>c. /\ \A e, f \in Entrants : Removing(e) /\ Removing(f) => e = f
      /\ \A e \in Entrants : Spare(e)
      /\ ~NoLoginMethod
  BY <1>b DEF RemovalInv
<1>d. history' = Crossing => ~\E e \in Entrants : Removing(e)
  BY <1>a DEF Crossing, History
<1>1. ASSUME NEW e \in Entrants, NEW f \in Entrants, Removing(e)', Removing(f)', e # f PROVE FALSE
  <2>1. CASE Removing(e) /\ Removing(f)
    BY <1>1, <1>c, <2>1
  <2>2. CASE ~Removing(e)
    <3>1. history' = Crossing /\ account' = account
      BY <1>1, <2>2, StepRemoving
    <3>2. ~Removing(f)
      BY <1>d, <3>1
    <3> QED
      BY <1>1, <2>2, <3>1, <3>2, BothBegin
  <2>3. CASE ~Removing(f)
    <3>1. history' = Crossing /\ account' = account
      BY <1>1, <2>3, StepRemoving
    <3>2. ~Removing(e)
      BY <1>d, <3>1
    <3> QED
      BY <1>1, <2>3, <3>1, <3>2, BothBegin
  <2> QED
    BY <2>1, <2>2, <2>3
<1>2. ASSUME NEW x \in Entrants, Removing(x)' PROVE Spare(x)'
  <2>1. CASE account' = account /\ ~Removing(x)
    BY <1>2, <2>1, StepRemoving DEF Spare, HasOtherLoginMethod
  <2>3. ASSUME Removing(x), (account.password # "none" => account'.password # "none"), account.keys \subseteq account'.keys
        PROVE  Spare(x)'
    BY <1>2, <1>c, <1>d, <2>3, StepRemoving DEF Spare, HasOtherLoginMethod
  <2>4. ASSUME Removing(x), NEW e \in Entrants, Removing(e), ~Removing(e)' PROVE FALSE
    BY <1>2, <1>c, <2>4
  <2>5. ~Removing(x) => account' = account
    BY <1>2, StepRemoving
  <2> QED
    BY <2>1, <2>3, <2>4, <2>5, StepMethods
<1>3. ~NoLoginMethod'
  <2>1. CASE (account.password # "none" => account'.password # "none") /\ account.keys \subseteq account'.keys
    BY <1>c, <2>1 DEF NoLoginMethod
  <2>2. ASSUME NEW e \in Entrants, Removing(e),
               \/ /\ entry[e].at = "remove" /\ account'.password = account.password
                  /\ account'.keys = account.keys \ {entry[e].key}
               \/ entry[e].at = "clear password" /\ account'.keys = account.keys
        PROVE  ~NoLoginMethod'
    BY <1>c, <2>2 DEF NoLoginMethod, Spare, HasOtherLoginMethod
  <2> QED
    BY <2>1, <2>2, StepMethods
<1>4. \A x \in Entrants : ~Removing(x)' => Spare(x)'
  BY DEF Removing, Spare
<1> QED
  BY <1>1, <1>2, <1>3, <1>4

\* Unless two removals overlapped, a login method is left.
THEOREM LastMethodTheorem == LogSpec => []LastMethodKept
<1>1. LogInit => RemovalInv
  <2> SUFFICES ASSUME LogInit PROVE RemovalInv
    OBVIOUS
  <2>1. \A e \in Entrants : entry[e].at = "idle"
    BY RestingForm DEF LogInit
  <2>2. ~NoLoginMethod
    BY DEF LogInit, NoLoginMethod
  <2> QED
    BY <2>1, <2>2 DEF RemovalInv, Removing, Spare
<1>2. RemovalInv => LastMethodKept
  BY DEF RemovalInv, LastMethodKept
<1> QED
  BY <1>1, <1>2, LogInitTypes, LogStepTypes, RemovalInvStep, PTL DEF LogSpec

-----------------------------------------------------------------------------
(* Logins: what proves an identity proves it once.                          *)

\* A code that was accepted is too old or remembered long enough; a link that let
\* someone in is deleted, as is the one of whoever is about to be let in.
Outlived(c) == \/ clock.step > c[2] + 1
               \/ \E m \in used : m.code = c /\ m.until >= c[2] + 1
CodesInv == ~history.replayed /\ \A c \in history.accepted : Outlived(c)
Beyond(e) == /\ entry[e].link # NoLink => links[entry[e].link].st # "none"
             /\ entry[e].at \in {"reset", "admit", "enter"} /\ entry[e].link # NoLink => links[entry[e].link].st = "gone"
             /\ entry[e].at \in {"factor", "code", "migrate"} => entry[e].link = NoLink
LinksInv == /\ ~history.relinked
            /\ \A l \in history.links : links[l].st = "gone"
            /\ \A e \in Entrants : Beyond(e)

LEMMA StepCodes ==
  ASSUME LogTypeInv, [LogNext]_logVars
  PROVE  \/ used' = used /\ history'.accepted = history.accepted /\ history'.replayed = history.replayed
         \/ clock' = clock /\ \E e \in Entrants, c \in Codes :
              /\ Valid(c, entry[e].secret)
              /\ \/ \E m \in Remembered : m.code = c /\ used' = Remembered /\ history' = history
                 \/ /\ ~\E m \in Remembered : m.code = c
                    /\ used' = Remembered \cup {Mark(c)}
                    /\ history'.accepted = history.accepted \cup {c}
                    /\ history'.replayed = (history.replayed \/ c \in history.accepted)
<1> DEFINE Kept == used' = used /\ history'.accepted = history.accepted /\ history'.replayed = history.replayed
<1>a. history \in History
  BY DEF LogTypeInv
<1>1. ASSUME used' = used, history' = history PROVE Kept
  BY <1>1
<1>2. ASSUME NEW e \in Entrants, NEW c \in Codes, CheckCode(e, c)
      PROVE  /\ clock' = clock /\ Valid(c, entry[e].secret)
             /\ \/ \E m \in Remembered : m.code = c /\ used' = Remembered /\ history' = history
                \/ /\ ~\E m \in Remembered : m.code = c
                   /\ used' = Remembered \cup {Mark(c)}
                   /\ history'.accepted = history.accepted \cup {c}
                   /\ history'.replayed = (history.replayed \/ c \in history.accepted)
  <2>1. CASE \E m \in Remembered : m.code = c
    BY <1>2, <2>1 DEF CheckCode, At
  <2>2. CASE ~\E m \in Remembered : m.code = c
    <3>1. /\ clock' = clock /\ Valid(c, entry[e].secret) /\ used' = Remembered \cup {Mark(c)}
          /\ history' = [history EXCEPT !.accepted = history.accepted \cup {c},
                                        !.replayed = history.replayed \/ c \in history.accepted]
      BY <1>2, <2>2 DEF CheckCode, At
    <3> QED
      BY <1>a, <2>2, <3>1 DEF History
  <2> QED
    BY <2>1, <2>2
<1>3. ASSUME NEW e \in Entrants, Signing(e), ~\E c \in Codes : CheckCode(e, c) PROVE Kept
  <2>1. CASE RecordFailure(e)
    BY <1>a, <2>1 DEF RecordFailure, History
  <2>2. CASE ResetCount(e)
    BY <1>a, <2>2 DEF ResetCount, History
  <2>3. CASE EnterAccount(e)
    BY <1>a, <2>3 DEF EnterAccount, History
  <2>4. ASSUME NEW l \in Links, SelectLink(e, l) PROVE Kept
    BY <1>a, <2>4 DEF SelectLink, History
  <2> HIDE DEF Kept
  <2> QED
    BY <1>1, <1>3, <2>1, <2>2, <2>3, <2>4 DEF Signing, PasswordLogin, DropSessions, Migrate, ReadFactor, KeyLogin,
       RequestLink, ReplaceLinks, SendLink, ConsumeLink, AdmitByLink, InsertLink
<1>4. ASSUME NEW e \in Entrants, Managing(e) PROVE Kept
  <2>1. ASSUME NEW s \in Secrets, SetUp(e, s) PROVE Kept
    BY <1>a, <2>1 DEF SetUp, History
  <2>2. ASSUME used' = used, history' = Crossing PROVE Kept
    BY <1>a, <2>2 DEF Crossing, History
  <2>3. ASSUME NEW at, DisableAccount(e, at) PROVE Kept
    BY <1>a, <2>3 DEF DisableAccount, History
  <2>4. CASE EnableAccount(e) \/ Drop(e)
    BY <1>a, <2>4 DEF EnableAccount, Drop, History
  <2> HIDE DEF Kept
  <2> QED
    BY <1>1, <1>4, <2>1, <2>2, <2>3, <2>4 DEF Managing, ConfirmPending, Activate, DisableFactor, TurnOff,
       CheckRemoval, RemoveKey, CheckClearing, WritePassword, CheckPasswordChange
<1>5. Kept \/ \E e \in Entrants, c \in Codes : CheckCode(e, c)
  <2> HIDE DEF Kept
  <2> QED
    BY <1>1, <1>3, <1>4 DEF LogNext, logVars, AddKey, LogTick
<1> QED
  BY <1>2, <1>5

LEMMA ClockForward == LogTypeInv /\ [LogNext]_logVars => clock'.step = clock.step \/ clock'.step = clock.step + 1
<1> SUFFICES ASSUME LogTypeInv, [LogNext]_logVars PROVE clock'.step = clock.step \/ clock'.step = clock.step + 1
  OBVIOUS
<1>a. clock \in [step : 0 .. MaxStep, entries : 0 .. MaxEntries]
  BY LogRows
<1>1. \A e, step : Enters(e, step) => clock'.step = clock.step
  BY <1>a DEF Enters
<1>2. ASSUME NEW e \in Entrants, Signing(e) PROVE clock'.step = clock.step
  BY <1>1, <1>2 DEF Signing, PasswordLogin, RecordFailure, DropSessions, Migrate, ResetCount, ReadFactor,
     CheckCode, EnterAccount, KeyLogin, RequestLink, ReplaceLinks, SendLink, ConsumeLink, AdmitByLink, InsertLink,
     SelectLink, At
<1>3. ASSUME NEW e \in Entrants, Managing(e) PROVE clock'.step = clock.step
  BY <1>1, <1>3 DEF Managing, SetUp, ConfirmPending, Activate, DisableFactor, TurnOff, CheckRemoval,
     RemoveKey, CheckClearing, WritePassword, CheckPasswordChange, DisableAccount, EnableAccount, Drop, At
<1>4. CASE LogTick
  BY <1>a, <1>4 DEF LogTick
<1> QED
  BY <1>2, <1>3, <1>4 DEF LogNext, logVars, AddKey

LEMMA CodesInvStep == LogTypeInv /\ CodesInv /\ [LogNext]_logVars => CodesInv'
<1> SUFFICES ASSUME LogTypeInv, CodesInv, [LogNext]_logVars PROVE CodesInv'
  OBVIOUS
<1>a. /\ clock.step \in Nat /\ clock'.step \in Nat /\ clock'.step >= clock.step
      /\ Memory \in Nat /\ Memory >= 2
      /\ history.accepted \subseteq Codes /\ \A c \in Codes : c[2] \in Nat
      /\ \A m \in used : m.until \in Nat
  <2>1. LogTypeInv'
    BY LogStepTypes
  <2>2. clock.step \in Nat /\ clock'.step \in Nat
    BY <2>1, LogRows, Clocks DEF LogTypeInv, LogTypeOK
  <2>3. clock'.step >= clock.step
    BY <2>2, ClockForward
  <2>4. \A c \in Codes : c[2] \in Nat
    BY LoginsAssumption DEF Codes
  <2>5. history.accepted \subseteq Codes /\ \A m \in used : m.until \in Nat
    BY DEF LogTypeInv, LogTypeOK, History
  <2> QED
    BY <2>2, <2>3, <2>4, <2>5, LoginsAssumption
<1>1. ASSUME used' = used, history'.accepted = history.accepted, history'.replayed = history.replayed
      PROVE  CodesInv'
  BY <1>a, <1>1 DEF CodesInv, Outlived
<1>2. ASSUME NEW c \in history.accepted, Remembered \subseteq used', clock' = clock PROVE Outlived(c)'
  <2>0. c[2] \in Nat
    BY <1>a
  <2>1. CASE clock.step > c[2] + 1
    BY <1>2, <2>1 DEF Outlived
  <2>2. CASE ~(clock.step > c[2] + 1)
    <3>1. PICK m \in used : m.code = c /\ m.until >= c[2] + 1
      BY <2>2 DEF CodesInv, Outlived
    <3>2. m \in Remembered
      BY <1>a, <2>0, <2>2, <3>1 DEF Remembered
    <3> QED
      BY <1>2, <3>1, <3>2 DEF Outlived
  <2> QED
    BY <2>1, <2>2
<1>3. ASSUME NEW e \in Entrants, NEW c \in Codes, Valid(c, entry[e].secret), clock' = clock,
             ~\E m \in Remembered : m.code = c,
             used' = Remembered \cup {Mark(c)},
             history'.accepted = history.accepted \cup {c},
             history'.replayed = (history.replayed \/ c \in history.accepted)
      PROVE  CodesInv'
  <2>0. c[2] \in Nat /\ c[2] <= clock.step + 1 /\ clock.step <= c[2] + 1
    BY <1>a, <1>3 DEF Valid
  <2>1. c \notin history.accepted
    <3> SUFFICES ASSUME c \in history.accepted PROVE FALSE
      OBVIOUS
    <3>1. PICK m \in used : m.code = c /\ m.until >= c[2] + 1
      BY <1>a, <2>0 DEF CodesInv, Outlived
    <3>2. m \in Remembered
      BY <1>a, <2>0, <3>1 DEF Remembered
    <3> QED
      BY <1>3, <3>1, <3>2
  <2>2. Outlived(c)'
    <3>1. Mark(c) \in used' /\ Mark(c).code = c /\ Mark(c).until = clock.step + Memory
      BY <1>3 DEF Mark
    <3>2. Mark(c).until >= c[2] + 1
      BY <1>a, <2>0, <3>1
    <3> QED
      BY <3>1, <3>2 DEF Outlived
  <2> QED
    BY <1>2, <1>3, <2>1, <2>2 DEF CodesInv
<1>4. ASSUME clock' = clock, used' = Remembered, history' = history PROVE CodesInv'
  BY <1>2, <1>4 DEF CodesInv
<1> QED
  BY <1>1, <1>3, <1>4, StepCodes

\* A link that is deleted stays so, and one that was sent has a row of its own.
LEMMA StepLinkRows ==
  ASSUME LogTypeInv, [LogNext]_logVars, NEW l \in Links
  PROVE  /\ links[l].st = "gone" => links'[l].st = "gone"
         /\ links[l].st # "none" => links'[l].st # "none"
<1> DEFINE Fine == /\ links[l].st = "gone" => links'[l].st = "gone"
                   /\ links[l].st # "none" => links'[l].st # "none"
<1>a. links \in [Links -> [st : {"none", "open", "gone"}, until : Nat]]
  BY LogRows
<1>1. ASSUME links' = links PROVE Fine
  BY <1>1
<1>2. ASSUME NEW ls, links' = Closed(ls) PROVE Fine
  <2>1. CASE l \in ls /\ links[l].st = "open"
    <3>1. links'[l] = [links[l] EXCEPT !.st = "gone"]
      BY <1>2, <2>1 DEF Closed
    <3>2. links'[l].st = "gone"
      BY <1>a, <3>1
    <3> QED
      BY <3>2
  <2>2. CASE ~(l \in ls /\ links[l].st = "open")
    BY <1>2, <2>2 DEF Closed
  <2> QED
    BY <2>1, <2>2
<1>3. ASSUME NEW e \in Entrants, NEW k \in Links, InsertLink(e, k) PROVE Fine
  BY <1>a, <1>3 DEF InsertLink
<1>4. Fine
  <2>1. ASSUME NEW e \in Entrants, Signing(e) PROVE Fine
    <3> HIDE DEF Fine
    <3> QED
      BY <1>1, <1>2, <1>3, <2>1 DEF Signing, PasswordLogin, RecordFailure, DropSessions, Migrate, ResetCount, ReadFactor,
         CheckCode, EnterAccount, KeyLogin, RequestLink, ReplaceLinks, SendLink, ConsumeLink, AdmitByLink, SelectLink
  <2>2. ASSUME NEW e \in Entrants, Managing(e) PROVE links' = links
    BY <2>2 DEF Managing, SetUp, ConfirmPending, Activate, DisableFactor, TurnOff, CheckRemoval,
       RemoveKey, CheckClearing, WritePassword, CheckPasswordChange, DisableAccount, EnableAccount, Drop
  <2> HIDE DEF Fine
  <2> QED
    BY <1>1, <2>1, <2>2 DEF LogNext, logVars, AddKey, LogTick
<1> QED
  BY <1>4

\* Who enters leaves his link in the history, and who selects one looks there.
LEMMA StepEntered ==
  ASSUME LogTypeInv, [LogNext]_logVars
  PROVE  \/ history'.links = history.links /\ history'.relinked = history.relinked
         \/ \E e \in Entrants :
              /\ entry[e].at = "enter" /\ entry[e].link # NoLink /\ history'.relinked = history.relinked
              /\ history'.links = history.links \cup {entry[e].link}
         \/ \E l \in Links : /\ links[l].st = "open" /\ history'.links = history.links
                             /\ history'.relinked = (history.relinked \/ l \in history.links)
<1> DEFINE Kept == history'.links = history.links /\ history'.relinked = history.relinked
           Enters1(e) == /\ entry[e].at = "enter" /\ entry[e].link # NoLink /\ history'.relinked = history.relinked
                         /\ history'.links = history.links \cup {entry[e].link}
           Selects(l) == /\ links[l].st = "open" /\ history'.links = history.links
                         /\ history'.relinked = (history.relinked \/ l \in history.links)
<1>a. history \in History
  BY DEF LogTypeInv
<1>1. ASSUME history' = history PROVE Kept
  BY <1>1
<1>2. ASSUME NEW e \in Entrants, EnterAccount(e) PROVE Kept \/ Enters1(e)
  BY <1>a, <1>2 DEF EnterAccount, At, History
<1>3. ASSUME NEW e \in Entrants, NEW l \in Links, SelectLink(e, l) PROVE Selects(l)
  BY <1>a, <1>3 DEF SelectLink, History
<1>4. ASSUME NEW e \in Entrants, Signing(e), ~EnterAccount(e), ~\E l \in Links : SelectLink(e, l) PROVE Kept
  <2>1. CASE RecordFailure(e)
    BY <1>a, <2>1 DEF RecordFailure, History
  <2>2. CASE ResetCount(e)
    BY <1>a, <2>2 DEF ResetCount, History
  <2>3. ASSUME NEW c \in Codes, CheckCode(e, c) PROVE Kept
    BY <1>a, <2>3 DEF CheckCode, History
  <2> HIDE DEF Kept
  <2> QED
    BY <1>1, <1>4, <2>1, <2>2, <2>3 DEF Signing, PasswordLogin, DropSessions, Migrate, ReadFactor, KeyLogin,
       RequestLink, ReplaceLinks, SendLink, ConsumeLink, AdmitByLink, InsertLink
<1>5. ASSUME NEW e \in Entrants, Managing(e) PROVE Kept
  <2>1. ASSUME NEW s \in Secrets, SetUp(e, s) PROVE Kept
    BY <1>a, <2>1 DEF SetUp, History
  <2>2. ASSUME history' = Crossing PROVE Kept
    BY <1>a, <2>2 DEF Crossing, History
  <2>3. ASSUME NEW at, DisableAccount(e, at) PROVE Kept
    BY <1>a, <2>3 DEF DisableAccount, History
  <2>4. CASE EnableAccount(e) \/ Drop(e)
    BY <1>a, <2>4 DEF EnableAccount, Drop, History
  <2> HIDE DEF Kept
  <2> QED
    BY <1>1, <1>5, <2>1, <2>2, <2>3, <2>4 DEF Managing, ConfirmPending, Activate, DisableFactor, TurnOff,
       CheckRemoval, RemoveKey, CheckClearing, WritePassword, CheckPasswordChange
<1>6. Kept \/ (\E e \in Entrants : Enters1(e)) \/ (\E l \in Links : Selects(l))
  <2> HIDE DEF Kept, Enters1, Selects
  <2> QED
    BY <1>1, <1>2, <1>3, <1>4, <1>5 DEF LogNext, logVars, AddKey, LogTick
<1> QED
  BY <1>6

LEMMA StepBeyond ==
  ASSUME LogTypeInv, LinksInv, [LogNext]_logVars, NEW x \in Entrants
  PROVE  Beyond(x)'
<1>a. Beyond(x) /\ (entry[x].link # NoLink => entry[x].link \in Links) /\ entry[x].next \in {"enter", "turn off"}
  BY LogRows DEF LinksInv, Entry
<1>b. entry'[x].link # NoLink => entry'[x].link \in Links
  <2>1. entry' \in [Entrants -> Entry]
    BY EntryTyped
  <2> QED
    BY <2>1 DEF Entry
<1>c. \A l \in Links : /\ links[l].st = "gone" => links'[l].st = "gone"
                       /\ links[l].st # "none" => links'[l].st # "none"
  BY StepLinkRows
<1>1. ASSUME entry'[x].at = entry[x].at, entry'[x].link = entry[x].link PROVE Beyond(x)'
  BY <1>1, <1>a, <1>c DEF Beyond
<1>2. ASSUME Goes(x, "consume", "reset"), links' = Closed({entry[x].link}) PROVE Beyond(x)'
  <2>1. entry'[x].link = entry[x].link /\ entry'[x].at = "reset"
    BY <1>2 DEF Goes, Same
  <2>2. ASSUME entry[x].link # NoLink PROVE links'[entry[x].link].st = "gone"
    <3> DEFINE l == entry[x].link
    <3>1. l \in Links /\ links[l].st # "none" /\ links[l] \in [st : {"none", "open", "gone"}, until : Nat]
      BY <2>2, <1>a, LogRows DEF Beyond
    <3>2. CASE links[l].st = "open"
      <4>1. links'[l] = [links[l] EXCEPT !.st = "gone"]
        BY <1>2, <3>1, <3>2 DEF Closed
      <4> QED
        BY <3>1, <4>1
    <3>3. CASE links[l].st = "gone"
      BY <1>c, <3>1, <3>3
    <3> QED
      BY <3>1, <3>2, <3>3
  <2> QED
    BY <2>1, <2>2 DEF Beyond
<1>3. ASSUME Moves(x), ~(Goes(x, "consume", "reset") /\ links' = Closed({entry[x].link})) PROVE Beyond(x)'
  BY <1>3, <1>a, <1>b, <1>c DEF Moves, Goes, Same, Begins, Beyond
<1> QED
  BY <1>1, <1>2, <1>3, StepMoves

LEMMA LinksInvStep == LogTypeInv /\ LinksInv /\ [LogNext]_logVars => LinksInv'
<1> SUFFICES ASSUME LogTypeInv, LinksInv, [LogNext]_logVars PROVE LinksInv'
  OBVIOUS
<1>a. /\ history.links \subseteq Links
      /\ \A e \in Entrants : entry[e].link # NoLink => entry[e].link \in Links
  BY LogRows DEF LogTypeInv, History, Entry
<1>b. ~history.relinked /\ (\A l \in history.links : links[l].st = "gone") /\ \A e \in Entrants : Beyond(e)
  BY DEF LinksInv
<1>1. \A e \in Entrants : Beyond(e)'
  BY StepBeyond
<1>2. \A l \in Links : links[l].st = "gone" => links'[l].st = "gone"
  BY StepLinkRows
<1>3. ~history'.relinked
  BY <1>a, <1>b, StepEntered
<1>4. ASSUME NEW e \in Entrants, entry[e].at = "enter", entry[e].link # NoLink
      PROVE  entry[e].link \in Links /\ links[entry[e].link].st = "gone"
  BY <1>4, <1>a, <1>b DEF Beyond
<1>5. \A l \in history'.links : l \in Links /\ links[l].st = "gone"
  BY <1>a, <1>b, <1>4, StepEntered
<1> QED
  BY <1>1, <1>2, <1>3, <1>5 DEF LinksInv

\* No code is accepted twice as it was typed, and a link lets in nobody who selected it after
\* someone had entered with it.
THEOREM SpentOnceTheorem == LogSpec => []ProofsSpentOnce
<1>1. LogInit => CodesInv
  BY DEF LogInit, CodesInv
<1>2. LogInit => LinksInv
  <2> SUFFICES ASSUME LogInit PROVE LinksInv
    OBVIOUS
  <2>1. \A e \in Entrants : entry[e].at = "idle" /\ entry[e].link = NoLink
    BY RestingForm DEF LogInit
  <2> QED
    BY <2>1 DEF LogInit, LinksInv, Beyond
<1>3. CodesInv /\ LinksInv => ProofsSpentOnce
  BY DEF CodesInv, LinksInv, ProofsSpentOnce
<1> QED
  BY <1>1, <1>2, <1>3, LogInitTypes, LogStepTypes, CodesInvStep, LinksInvStep, PTL DEF LogSpec

-----------------------------------------------------------------------------
(* Logins: the second factor.                                               *)

\* Who was not overtaken holds the columns as they are.
Current(e) ==
  /\ entry[e].at = "activate" => /\ entry[e].secret # NoSecret
                                 /\ entry[e].late \/ entry[e].secret = account.pending
  /\ entry[e].at = "turn off" \/ (entry[e].at = "code" /\ entry[e].next = "turn off") =>
       /\ entry[e].secret # NoSecret
       /\ entry[e].late \/ entry[e].secret = account.secret
FactorInv == \A e \in Entrants : Current(e)

Passed(x) ==
  \/ entry'[x].at = "idle"
  \/ entry[x].secret = NoSecret /\ entry'[x] = entry[x]
  \/ /\ entry'[x].late /\ entry'[x].at = entry[x].at
     /\ entry'[x].secret = entry[x].secret /\ entry'[x].next = entry[x].next

LEMMA StepSecrets ==
  ASSUME LogTypeInv, [LogNext]_logVars
  PROVE  \/ account'.secret = account.secret /\ account'.pending = account.pending
         \/ /\ \A x \in Entrants : Passed(x)
            /\ \/ account'.secret = account.secret
               \/ \E e \in Entrants : \/ entry[e].at = "activate" /\ account'.secret = account.pending
                                      \/ entry[e].at = "turn off"
<1> DEFINE Kept == account'.secret = account.secret /\ account'.pending = account.pending
           All == \A x \in Entrants : Passed(x)
           By == \/ account'.secret = account.secret
                 \/ \E e \in Entrants : \/ entry[e].at = "activate" /\ account'.secret = account.pending
                                        \/ entry[e].at = "turn off"
<1>a. account \in AccountRow /\ entry \in [Entrants -> Entry]
  BY LogRows
<1>1. ASSUME NEW e \in Entrants, Overtake(e, Resting) PROVE All
  <2> SUFFICES ASSUME NEW x \in Entrants PROVE Passed(x)
    OBVIOUS
  <2>1. CASE x = e
    BY <1>1, <2>1, RestingForm DEF Overtake, Passed
  <2>2. CASE x # e /\ entry[x].secret = NoSecret
    BY <1>1, <2>2 DEF Overtake, Passed
  <2>3. CASE x # e /\ entry[x].secret # NoSecret
    <3>1. entry'[x] = [entry[x] EXCEPT !.late = TRUE] /\ entry[x] \in Entry
      BY <1>1, <1>a, <2>3 DEF Overtake
    <3> QED
      BY <3>1 DEF Entry, Passed
  <2> QED
    BY <2>1, <2>2, <2>3
<1>2. ASSUME account' = account PROVE Kept
  BY <1>2
<1>3. ASSUME NEW e \in Entrants, Signing(e) PROVE Kept
  <2>1. CASE RecordFailure(e) \/ ResetCount(e) \/ Migrate(e)
    BY <1>a, <2>1 DEF RecordFailure, ResetCount, Migrate, AccountRow
  <2> HIDE DEF Kept
  <2> QED
    BY <1>2, <1>3, <2>1 DEF Signing, PasswordLogin, DropSessions, ReadFactor, CheckCode, EnterAccount, KeyLogin,
       RequestLink, ReplaceLinks, SendLink, ConsumeLink, AdmitByLink, InsertLink, SelectLink
<1>4. ASSUME NEW e \in Entrants, Managing(e) PROVE Kept \/ (All /\ By)
  <2>1. ASSUME NEW s \in Secrets, SetUp(e, s) PROVE All /\ By
    <3>1. account'.secret = account.secret
      BY <1>a, <2>1 DEF SetUp, AccountRow
    <3> HIDE DEF All
    <3> QED
      BY <1>1, <2>1, <3>1 DEF SetUp
  <2>2. CASE Activate(e)
    <3>1. account'.secret = account.pending /\ entry[e].at = "activate"
      BY <1>a, <2>2 DEF Activate, At, AccountRow
    <3> HIDE DEF All
    <3> QED
      BY <1>1, <2>2, <3>1 DEF Activate
  <2>3. CASE TurnOff(e)
    <3> HIDE DEF All
    <3> QED
      BY <1>1, <2>3 DEF TurnOff, At
  <2>4. CASE RemoveKey(e) \/ WritePassword(e) \/ EnableAccount(e)
    BY <1>a, <2>4 DEF RemoveKey, WritePassword, EnableAccount, AccountRow
  <2>5. ASSUME NEW at, DisableAccount(e, at) PROVE Kept
    BY <1>a, <2>5 DEF DisableAccount, AccountRow
  <2> HIDE DEF Kept, All, By
  <2> QED
    BY <1>2, <1>4, <2>1, <2>2, <2>3, <2>4, <2>5
       DEF Managing, ConfirmPending, DisableFactor, CheckRemoval, CheckClearing, CheckPasswordChange, Drop
<1>5. ASSUME NEW k \in Keys, AddKey(k) PROVE Kept
  BY <1>a, <1>5 DEF AddKey, AccountRow
<1>6. Kept \/ (All /\ By)
  <2> HIDE DEF Kept, All, By
  <2> QED
    BY <1>2, <1>3, <1>4, <1>5 DEF LogNext, logVars, LogTick
<1> QED
  BY <1>6

LEMMA FactorInvStep == LogTypeInv /\ FactorInv /\ [LogNext]_logVars => FactorInv'
<1> SUFFICES ASSUME LogTypeInv, FactorInv, [LogNext]_logVars, NEW x \in Entrants PROVE Current(x)'
  BY DEF FactorInv
<1>a. Current(x) /\ entry[x].next \in {"enter", "turn off"}
  BY LogRows DEF FactorInv, Entry
<1>1. CASE account'.secret = account.secret /\ account'.pending = account.pending
  <2>1. CASE Moves(x)
    BY <1>1, <1>a, <2>1 DEF Moves, Goes, Same, Begins, Current
  <2>2. CASE ~Moves(x)
    BY <1>1, <1>a, <2>2, StepMoves DEF Current
  <2> QED
    BY <2>1, <2>2
<1>2. CASE Passed(x)
  BY <1>2, <1>a DEF Current, Passed
<1> QED
  BY <1>1, <1>2, StepSecrets

\* An active second factor gives way only to one that was shown, or to a removal
\* with a code of its own.
THEOREM FactorTheorem == LogSpec => FactorKept
<1> DEFINE Rule == account.secret # NoSecret /\ account'.secret # account.secret =>
                     \E e \in Entrants :
                       \/ entry[e].late
                       \/ entry[e].at = "activate" /\ account'.secret = entry[e].secret
                       \/ entry[e].at = "turn off" /\ account.secret = entry[e].secret
<1>1. LogInit => FactorInv
  BY RestingForm DEF LogInit, FactorInv, Current
<1>2. LogTypeInv /\ FactorInv /\ [LogNext]_logVars => [Rule]_logVars
  <2> SUFFICES ASSUME LogTypeInv, FactorInv, [LogNext]_logVars, account'.secret # account.secret
               PROVE  \E e \in Entrants :
                        \/ entry[e].late
                        \/ entry[e].at = "activate" /\ account'.secret = entry[e].secret
                        \/ entry[e].at = "turn off" /\ account.secret = entry[e].secret
    OBVIOUS
  <2>1. PICK e \in Entrants : \/ entry[e].at = "activate" /\ account'.secret = account.pending
                              \/ entry[e].at = "turn off"
    BY StepSecrets
  <2>2. Current(e)
    BY DEF FactorInv
  <2> QED
    BY <2>1, <2>2 DEF Current
<1> QED
  BY <1>1, <1>2, LogInitTypes, LogStepTypes, FactorInvStep, PTL DEF LogSpec, FactorKept

-----------------------------------------------------------------------------
(* The three parts side by side, as the run checks them.                    *)

\* Beside the other two, each part behaves as it does alone, so what is proved
\* of Registration, Logins and Webhooks holds of them together.
THEOREM AccountsParts == AccountsSpec => RegSpec /\ LogSpec /\ WhSpec
<1>1. AccountsInit => RegInit /\ LogInit /\ WhInit
  BY DEF AccountsInit
<1>2. [AccountsNext]_<<part, regVars, logVars, whVars>>
        => [RegNext]_regVars /\ [LogNext]_logVars /\ [WhNext]_whVars
  BY DEF AccountsNext
<1> QED
  BY <1>1, <1>2, PTL DEF AccountsSpec, RegSpec, LogSpec, WhSpec

\* Every variable of every part keeps the type its tables and handlers give it.
THEOREM AccountsTypeCorrect == AccountsSpec => []AccountsTypeOK
<1>1. RegTypeOK /\ LogTypeOK /\ WhTypeOK => AccountsTypeOK
  BY DEF AccountsTypeOK
<1> QED
  BY <1>1, AccountsParts, RegTypeCorrect, LogTypeCorrect, WhTypeCorrect, PTL
===============================================================================
