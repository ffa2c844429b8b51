-------------------------- MODULE CredCacheProofs ---------------------------
(* Machine-checked proofs about CredCache, for every value of its constants. *)
EXTENDS CredCache, TLAPS

LEMMA MinPair ==
  ASSUME NEW a \in Int, NEW b \in Int
  PROVE  /\ Min({a, b}) = a \/ Min({a, b}) = b
         /\ Min({a, b}) <= a
         /\ Min({a, b}) <= b
<1>1. CASE a <= b
  <2>1. a \in {a, b} /\ \A y \in {a, b} : a <= y
    BY <1>1
  <2>. QED  BY <2>1 DEF Min
<1>2. CASE b <= a
  <2>1. b \in {a, b} /\ \A y \in {a, b} : b <= y
    BY <1>2
  <2>. QED  BY <2>1 DEF Min
<1>. QED  BY <1>1, <1>2

LEMMA MinNat ==
  ASSUME NEW a \in Nat, NEW b \in Nat
  PROVE  /\ Min({a, b}) \in Nat
         /\ Min({a, b}) = a \/ Min({a, b}) = b
         /\ Min({a, b}) <= a
         /\ Min({a, b}) <= b
<1>1. a \in Int /\ b \in Int
  OBVIOUS
<1>2. /\ Min({a, b}) = a \/ Min({a, b}) = b
      /\ Min({a, b}) <= a
      /\ Min({a, b}) <= b
  BY <1>1, MinPair
<1>. QED  BY <1>2

\* What a request's program counter says about its fields.
LEMMA RequestShapes ==
  ASSUME NEW q \in Request
  PROVE  /\ q.at = "fill" => q.c \in Creds /\ q.role \in Roles /\ q.expires \in Nat
         /\ q.at = "evict" => q.cs \in SUBSET Creds /\ q.then \in {"idle", "drop_tokens"}
         /\ q.at = "put" => q.account \in Account
         /\ q.at = "renew" => q.k \in Keys
  BY DEF Request

LEMMA RequestForms ==
  /\ \A a \in {"idle", "drop_tokens", "trim", "pin"} : [at |-> a] \in Request
  /\ \A c \in Creds, role \in Roles, e \in Nat :
       [at |-> "fill", c |-> c, role |-> role, expires |-> e] \in Request
  /\ \A cs \in SUBSET Creds, then \in {"idle", "drop_tokens"} :
       [at |-> "evict", cs |-> cs, then |-> then] \in Request
  /\ \A a \in Account : [at |-> "put", account |-> a] \in Request
  /\ \A k \in Keys : [at |-> "renew", k |-> k] \in Request
  BY DEF Request

LEMMA GotoType ==
  ASSUME NEW r \in Requests, NEW s \in Request, req \in [Requests -> Request], Goto(r, s)
  PROVE  req' \in [Requests -> Request]
  BY DEF Goto

LEMMA RowShapes ==
  ASSUME NEW row \in Row
  PROVE  /\ row.expires \in Nat /\ row.pinned \in BOOLEAN
         /\ [row EXCEPT !.state = "gone"] \in Row
         /\ [row EXCEPT !.state = "gone"].expires = row.expires
         /\ [row EXCEPT !.state = "gone"].state = "gone"
  BY DEF Row

LEMMA NewRowType ==
  ASSUME now \in Nat, NEW pinned \in BOOLEAN
  PROVE  NewRow(pinned) \in Row
  BY CredCacheAssumption DEF NewRow, Row

LEMMA DropType ==
  ASSUME NEW cs, rows \in [Creds -> Row], Drop(cs)
  PROVE  rows' \in [Creds -> Row]
  BY RowShapes DEF Drop

LEMMA EvictType ==
  ASSUME NEW cs, cache \in [Creds -> Entry \cup {NoEntry}], Evict(cs)
  PROVE  cache' \in [Creds -> Entry \cup {NoEntry}]
  BY DEF Evict

-----------------------------------------------------------------------------
(* Type correctness                                                        *)

LEMMA InitType == Init => TypeOK
  BY CredCacheAssumption, RequestForms
  DEF Init, TypeOK, Account, Row, Entry, Idle

LEMMA HandlerType ==
  ASSUME TypeOK, NEW r \in Requests, Handler(r)
  PROVE  TypeOK'
<1>. USE DEF TypeOK
<1>. /\ Idle \in Request
     /\ req[r] \in Request
  BY RequestForms DEF Idle
<1>2. ASSUME NEW c \in Creds, ValidateRead(r, c)  PROVE TypeOK'
  <2>1. rows[c].expires \in Nat /\ account.role \in Roles
    BY RowShapes DEF Account
  <2>2. [at |-> "fill", c |-> c, role |-> account.role, expires |-> rows[c].expires] \in Request
    BY <2>1, RequestForms
  <2>. QED  BY <1>2, <2>2, GotoType DEF ValidateRead
<1>3. ASSUME NEW c \in Creds, NEW cs \in SUBSET Creds, RevokeEvicting(r, c, cs)  PROVE TypeOK'
  BY <1>3, RequestForms, GotoType, DropType DEF RevokeEvicting
<1>4. CASE ValidateFill(r)
  <2>1. /\ req[r].c \in Creds /\ req[r].role \in Roles /\ req[r].expires \in Nat
        /\ req[r].at = "fill"
    BY <1>4, RequestShapes DEF ValidateFill, FillUntil
  <2>2. Min({now + TTL, req[r].expires}) \in Nat
    <3>1. now + TTL \in Nat
      BY CredCacheAssumption
    <3>. HIDE DEF TypeOK
    <3>. QED  BY <2>1, <3>1, MinNat
  <2>3. [role |-> req[r].role, until |-> Min({now + TTL, req[r].expires})] \in Entry
    BY <2>1, <2>2 DEF Entry
  <2>4. cache' \in [Creds -> Entry \cup {NoEntry}] /\ overtaken' \in SUBSET Creds
    BY <1>4, <2>1, <2>3 DEF ValidateFill, FillUntil
  <2>5. req' \in [Requests -> Request]
    BY <1>4, GotoType DEF ValidateFill, FillUntil
  <2>. QED  BY <1>4, <2>4, <2>5 DEF ValidateFill, FillUntil
<1>6. CASE EvictStep(r)
  <2>1. [at |-> req[r].then] \in Request
    BY <1>6, RequestShapes, RequestForms DEF EvictStep
  <2>. QED  BY <1>6, <2>1, GotoType, EvictType DEF EvictStep
<1>7. ASSUME NEW k \in Keys, RegenerateEvicting(r, k, Creds)  PROVE TypeOK'
  <2>1. rows' \in [Creds -> Row]
    BY <1>7, NewRowType, RowShapes DEF RegenerateEvicting
  <2>. QED  BY <1>7, <2>1, RequestForms, GotoType DEF RegenerateEvicting
<1>8. ASSUME NEW k \in Keys, RenewRead(r, k)  PROVE TypeOK'
  BY <1>8, RequestForms, GotoType DEF RenewRead
<1>9. ASSUME NEW k \in Keys, RenewCommit(r, k)  PROVE TypeOK'
  <2>1. rows' \in [Creds -> Row]
    BY <1>9, NewRowType, RowShapes DEF RenewCommit
  <2>2. req[r].k \in Creds
    BY <1>9, RequestShapes DEF RenewCommit, Creds
  <2>. QED  BY <1>9, <2>1, <2>2, RequestForms, GotoType DEF RenewCommit
<1>10. ASSUME NEW t \in Tokens, IssueToken(r, t)  PROVE TypeOK'
  BY <1>10, NewRowType, RequestForms, GotoType DEF IssueToken
<1>11. CASE TrimTokens(r)
  <2>1. rows' \in [Creds -> Row]
    BY <1>11, DropType DEF TrimTokens
  <2>2. overtaken' \in SUBSET Creds
    BY <1>11 DEF TrimTokens, Creds
  <2>. QED  BY <1>11, <2>1, <2>2, GotoType DEF TrimTokens
<1>12. CASE PinDelete(r)
  <2>1. rows' \in [Creds -> Row]
    BY <1>12, DropType DEF PinDelete
  <2>2. overtaken' \in SUBSET Creds
    BY <1>12 DEF PinDelete, Creds
  <2>. QED  BY <1>12, <2>1, <2>2, RequestForms, GotoType DEF PinDelete
<1>13. ASSUME NEW t \in Tokens, PinInsert(r, t)  PROVE TypeOK'
  BY <1>13, NewRowType, RequestForms, GotoType DEF PinInsert, InsertPinned
<1>14. CASE Disable(r)
  <2>1. [account EXCEPT !.disabled = TRUE] \in Account
    BY DEF Account
  <2>2. [at |-> "evict", cs |-> Creds, then |-> "drop_tokens"] \in Request
    BY RequestForms
  <2>. QED  BY <1>14, <2>1, <2>2, GotoType DEF Disable
<1>15. CASE DropTokens(r)
  <2>1. rows' \in [Creds -> Row] /\ overtaken' \in SUBSET Creds
    BY <1>15, DropType DEF DropTokens, Creds
  <2>. QED  BY <1>15, <2>1, GotoType DEF DropTokens
<1>16. CASE PutRead(r)
  BY <1>16, RequestForms, GotoType DEF PutRead
<1>17. ASSUME NEW a \in Account, PutWrite(r, a)  PROVE TypeOK'
  <2>1. [at |-> "evict", cs |-> Creds, then |-> "idle"] \in Request
    BY RequestForms
  <2>. QED  BY <1>17, <2>1, GotoType DEF PutWrite
<1>18. req[r].at = "put" => req[r].account \in Account
  BY RequestShapes
<1>19. Keys \subseteq Creds /\ Tokens \subseteq Creds
  BY DEF Creds
<1>. QED
  BY <1>2, <1>3, <1>4, <1>6, <1>7, <1>8, <1>9, <1>10, <1>11, <1>12, <1>13,
     <1>14, <1>15, <1>16, <1>17, <1>18, <1>19
  DEF Handler, Revoke, DeleteKey, RegenerateKey, PutProfile, PutByAdmin, PutWrite


LEMMA TypeStep ==
  ASSUME TypeOK, [Next]_vars
  PROVE  TypeOK'
<1>1. ASSUME NEW r \in Requests, Handler(r)  PROVE TypeOK'
  BY <1>1, HandlerType
<1>2. ASSUME NEW k \in Keys, IssueKey(k)  PROVE TypeOK'
  BY <1>2, NewRowType DEF TypeOK, IssueKey, Creds
<1>3. CASE Enable
  <2>1. account \in Account => [account EXCEPT !.disabled = FALSE] \in Account
    BY DEF Account
  <2>. QED  BY <1>3, <2>1 DEF TypeOK, Enable
<1>4. CASE SweepTokens
  BY <1>4, DropType DEF TypeOK, SweepTokens
<1>5. CASE SweepCache
  BY <1>5, EvictType DEF TypeOK, SweepCache
<1>6. CASE Tick
  BY <1>6 DEF TypeOK, Tick
<1>7. CASE Restart
  <2>1. req' \in [Requests -> Request]
    BY <1>7, RequestForms DEF Restart, Idle
  <2>. QED  BY <1>7, <2>1, EvictType DEF TypeOK, Restart
<1>8. CASE UNCHANGED vars
  BY <1>8 DEF TypeOK, vars
<1>. QED  BY <1>1, <1>2, <1>3, <1>4, <1>5, <1>6, <1>7, <1>8 DEF Next

\* Every reachable state is well-typed.
THEOREM TypeCorrect == Spec => []TypeOK
<1>1. TypeOK /\ [Next]_vars => TypeOK'
  BY TypeStep
<1>. QED  BY <1>1, InitType, PTL DEF Spec

-----------------------------------------------------------------------------
(* Why a stale entry needs a race                                          *)

\* A validation in flight carries the expiry of an issued row.
FillsAreIssued ==
  \A r \in Requests : req[r].at = "fill" =>
    /\ rows[req[r].c].state # "none"
    /\ req[r].expires = rows[req[r].c].expires

\* So does every entry.
EntriesAreIssued ==
  \A c \in Creds : cache[c] # NoEntry => rows[c].state # "none"

\* What an entry was filled from still holds, or a race or an expiry explains it.
EntriesExplained ==
  \A c \in Creds : cache[c] # NoEntry =>
    \/ Live(c) /\ ~account.disabled /\ cache[c].role = account.role
    \/ rows[c].expires < now
    \/ c \in overtaken
    \/ Evicting(c)

CacheInv == FillsAreIssued /\ EntriesAreIssued /\ EntryBounded /\ EntriesExplained

IInv == TypeOK /\ CacheInv

\* An issued row is never issued again and keeps its expiry.
RowsOnlyDie ==
  \A c \in Creds :
    /\ rows[c].state # "none" => rows'[c].state # "none" /\ rows'[c].expires = rows[c].expires

LEMMA DropOnlyKills ==
  ASSUME NEW cs, rows \in [Creds -> Row], Drop(cs)
  PROVE  RowsOnlyDie
  BY RowShapes DEF Drop, RowsOnlyDie

LEMMA NextOnlyKills ==
  ASSUME TypeOK, [Next]_vars
  PROVE  RowsOnlyDie
<1>. USE DEF TypeOK
<1>1. ASSUME NEW r \in Requests, Handler(r)  PROVE RowsOnlyDie
  <2>1. ASSUME NEW c \in Creds, NEW cs, RevokeEvicting(r, c, cs)  PROVE RowsOnlyDie
    BY <2>1, DropOnlyKills DEF RevokeEvicting
  <2>2. ASSUME NEW k \in Keys, RegenerateEvicting(r, k, Creds)  PROVE RowsOnlyDie
    BY <2>2, RowShapes DEF RegenerateEvicting, RowsOnlyDie
  <2>3. ASSUME NEW k \in Keys, RenewCommit(r, k)  PROVE RowsOnlyDie
    BY <2>3, RowShapes DEF RenewCommit, RowsOnlyDie
  <2>4. ASSUME NEW t \in Tokens, IssueToken(r, t)  PROVE RowsOnlyDie
    BY <2>4 DEF IssueToken, RowsOnlyDie, Creds
  <2>5. ASSUME NEW t \in Tokens, PinInsert(r, t)  PROVE RowsOnlyDie
    BY <2>5 DEF PinInsert, InsertPinned, RowsOnlyDie, Creds
  <2>6. CASE TrimTokens(r)
    BY <2>6, DropOnlyKills DEF TrimTokens
  <2>7. CASE PinDelete(r)
    BY <2>7, DropOnlyKills DEF PinDelete
  <2>8. CASE DropTokens(r)
    BY <2>8, DropOnlyKills DEF DropTokens
  <2>9. CASE rows' = rows
    BY <2>9 DEF RowsOnlyDie
  <2>10. Keys \subseteq Creds
    BY DEF Creds
  <2>. QED
    BY <1>1, <2>1, <2>2, <2>3, <2>4, <2>5, <2>6, <2>7, <2>8, <2>9, <2>10
    DEF Handler, Revoke, DeleteKey, RegenerateKey, PutProfile, PutByAdmin, PutWrite,
        ValidateRead, ValidateFill, FillUntil, EvictStep, RenewRead,
        Disable, PutRead
<1>2. ASSUME NEW k \in Keys, IssueKey(k)  PROVE RowsOnlyDie
  BY <1>2 DEF IssueKey, RowsOnlyDie, Creds
<1>3. CASE SweepTokens
  BY <1>3, DropOnlyKills DEF SweepTokens
<1>4. CASE rows' = rows
  BY <1>4 DEF RowsOnlyDie
<1>. QED
  BY <1>1, <1>2, <1>3, <1>4 DEF Next, Enable, SweepCache, Tick, Restart, vars

\* Only ValidateRead starts a fill, with the row it has just read.
LEMMA FillsStep ==
  ASSUME IInv, [Next]_vars
  PROVE  FillsAreIssued'
<1>. USE DEF IInv, CacheInv
<1>1. RowsOnlyDie
  BY NextOnlyKills
<1>2. SUFFICES ASSUME NEW r \in Requests, req'[r].at = "fill"
               PROVE  /\ rows'[req'[r].c].state # "none"
                      /\ req'[r].expires = rows'[req'[r].c].expires
  BY DEF FillsAreIssued
<1>3. CASE req'[r] = req[r]
  <2>1. req[r].c \in Creds
    BY <1>2, <1>3, RequestShapes DEF TypeOK
  <2>. QED  BY <1>1, <1>2, <1>3, <2>1 DEF FillsAreIssued, RowsOnlyDie
<1>4. ASSUME req'[r] # req[r]
      PROVE  \E c \in Creds : ValidateRead(r, c)
  <2>1. req \in [Requests -> Request]
    BY DEF TypeOK
  <2>2. PICK q \in Requests : Handler(q)
    <3>1. ~Restart
      BY <1>2 DEF Restart, Idle
    <3>2. req' # req
      BY <1>4
    <3>. QED
      BY <3>1, <3>2 DEF Next, vars, IssueKey, Enable, SweepTokens, SweepCache, Tick
  <2>3. req[q].at = "evict" => req[q].then # "fill"
    BY RequestShapes, <2>1
  <2>4. ASSUME \A c \in Creds : ~ValidateRead(q, c)
        PROVE  \E s : (s.at # "fill" /\ Goto(q, s)) \/ req' = req
    BY <2>2, <2>3, <2>4
    DEF Handler, ValidateFill, FillUntil, EvictStep, Revoke, DeleteKey,
        RevokeEvicting, RegenerateKey, RegenerateEvicting, RenewRead, RenewCommit,
        IssueToken, PinInsert, InsertPinned, TrimTokens, PinDelete, Disable, DropTokens,
        PutRead, PutProfile, PutByAdmin, PutWrite, Idle
  <2>5. \E c \in Creds : ValidateRead(q, c)
    BY <1>2, <1>4, <2>1, <2>4 DEF Goto
  <2>6. q = r
    BY <1>4, <2>1, <2>5 DEF ValidateRead, Goto
  <2>. QED  BY <2>5, <2>6
<1>5. ASSUME NEW c \in Creds, ValidateRead(r, c)
      PROVE  /\ rows'[req'[r].c].state # "none"
             /\ req'[r].expires = rows'[req'[r].c].expires
  <2>1. req'[r] = [at |-> "fill", c |-> c, role |-> account.role, expires |-> rows[c].expires]
    BY <1>5 DEF ValidateRead, Goto, TypeOK
  <2>. QED  BY <1>5, <2>1 DEF ValidateRead, Validates, Live
<1>. QED  BY <1>3, <1>4, <1>5

LEMMA ClockAdvances ==
  ASSUME TypeOK, [Next]_vars
  PROVE  now \in Nat /\ now' \in Nat /\ now <= now'
<1>1. now \in Nat
  BY DEF TypeOK
<1>2. ASSUME NEW r \in Requests, Handler(r)  PROVE now' = now
  BY <1>2
  DEF Handler, ValidateRead, ValidateFill, FillUntil,
      EvictStep, Revoke, DeleteKey, RevokeEvicting, RegenerateKey, RegenerateEvicting,
      RenewRead, RenewCommit, IssueToken, PinInsert, InsertPinned, TrimTokens, PinDelete,
      Disable, DropTokens, PutRead, PutProfile, PutByAdmin, PutWrite
<1>3. now' = now \/ now' = now + 1
  BY <1>2 DEF Next, vars, IssueKey, Enable, SweepTokens, SweepCache, Tick, Restart
<1>. QED  BY <1>1, <1>3

\* Only a validation puts an entry into the cache.
LEMMA OnlyFillsFill ==
  ASSUME TypeOK, [Next]_vars, NEW c \in Creds, cache'[c] # NoEntry, cache'[c] # cache[c]
  PROVE  \E r \in Requests : ValidateFill(r) /\ req[r].c = c
<1>1. ~(\E cs : Evict(cs))
  BY DEF Evict
<1>2. PICK r \in Requests : Handler(r)
  BY <1>1 DEF Next, vars, IssueKey, Enable, SweepTokens, SweepCache, Tick, Restart
<1>3. ValidateFill(r)
  BY <1>1, <1>2
  DEF Handler, ValidateRead, EvictStep, Revoke, DeleteKey,
      RevokeEvicting, RegenerateKey, RegenerateEvicting, RenewRead, RenewCommit,
      IssueToken, PinInsert, InsertPinned, TrimTokens, PinDelete, Disable, DropTokens,
      PutRead, PutProfile, PutByAdmin, PutWrite
<1>. QED  BY <1>3 DEF ValidateFill, FillUntil, TypeOK

LEMMA EntriesStep ==
  ASSUME IInv, [Next]_vars
  PROVE  EntriesAreIssued' /\ EntryBounded'
<1>. USE DEF IInv, CacheInv
<1>1. RowsOnlyDie /\ TypeOK
  BY NextOnlyKills
<1>2. now \in Nat /\ now' \in Nat /\ now <= now'
  BY ClockAdvances
<1>3. SUFFICES ASSUME NEW c \in Creds, cache'[c] # NoEntry
               PROVE  /\ rows'[c].state # "none"
                      /\ cache'[c].until <= Min({now' + TTL, rows'[c].expires})
  BY DEF EntriesAreIssued, EntryBounded
<1>4. CASE cache'[c] = cache[c]
  <2>1. /\ rows[c].state # "none" /\ rows[c].expires \in Nat /\ cache[c].until \in Nat
        /\ cache[c].until <= Min({now + TTL, rows[c].expires})
    BY <1>1, <1>3, <1>4, RowShapes DEF EntriesAreIssued, EntryBounded, TypeOK, Entry
  <2>2. rows'[c].state # "none" /\ rows'[c].expires = rows[c].expires
    BY <1>1, <2>1 DEF RowsOnlyDie
  <2>3. now + TTL \in Nat /\ now' + TTL \in Nat /\ now + TTL <= now' + TTL
    BY <1>2, CredCacheAssumption
  <2>4. /\ Min({now + TTL, rows[c].expires}) <= now + TTL
        /\ Min({now + TTL, rows[c].expires}) <= rows[c].expires
        /\ Min({now + TTL, rows[c].expires}) \in Nat
    <3>1. now + TTL \in Nat /\ rows[c].expires \in Nat
      BY <2>1, <2>3
    <3>. HIDE DEF IInv, CacheInv
    <3>. QED  BY <3>1, MinNat
  <2>5. \/ Min({now' + TTL, rows[c].expires}) = now' + TTL
        \/ Min({now' + TTL, rows[c].expires}) = rows[c].expires
    <3>1. now' + TTL \in Nat /\ rows[c].expires \in Nat
      BY <2>1, <2>3
    <3>. HIDE DEF IInv, CacheInv
    <3>. QED  BY <3>1, MinNat
  <2>. QED  BY <1>4, <2>1, <2>2, <2>3, <2>4, <2>5
<1>5. cache'[c] # cache[c] => \E r \in Requests : ValidateFill(r) /\ req[r].c = c
  BY <1>1, <1>3, OnlyFillsFill
<1>6. ASSUME NEW r \in Requests, ValidateFill(r), req[r].c = c
      PROVE  /\ rows'[c].state # "none"
             /\ cache'[c].until <= Min({now' + TTL, rows'[c].expires})
  <2>1. /\ rows' = rows /\ now' = now /\ req[r].at = "fill"
        /\ cache'[c].until = Min({now + TTL, req[r].expires})
    BY <1>1, <1>6 DEF ValidateFill, FillUntil, TypeOK
  <2>2. rows[c].state # "none" /\ req[r].expires = rows[c].expires
    BY <1>6, <2>1 DEF FillsAreIssued
  <2>3. Min({now + TTL, rows[c].expires}) \in Nat
    <3>1. now + TTL \in Nat /\ rows[c].expires \in Nat
      <4>1. rows[c] \in Row /\ TTL \in Nat
        BY <1>1, CredCacheAssumption DEF TypeOK
      <4>2. rows[c].expires \in Nat
        BY <4>1, RowShapes
      <4>3. now + TTL \in Nat
        BY <1>2, <4>1
      <4>. QED  BY <4>2, <4>3
    <3>. QED  BY <3>1, MinNat
  <2>. QED  BY <2>1, <2>2, <2>3
<1>. QED  BY <1>4, <1>5, <1>6

\* Every handler step moves its own request only, and one that waits for its
\* eviction can do nothing else.
LEMMA HandlerMoves ==
  ASSUME TypeOK, NEW r \in Requests, Handler(r)
  PROVE  /\ \A q \in Requests : q # r => req'[q] = req[q]
         /\ req[r].at = "evict" => EvictStep(r)
<1>1. \E s : Goto(r, s)
  BY DEF Handler, ValidateRead, ValidateFill, FillUntil,
     EvictStep, Revoke, DeleteKey, RevokeEvicting, RegenerateKey, RegenerateEvicting,
     RenewRead, RenewCommit, IssueToken, PinInsert, InsertPinned, TrimTokens, PinDelete,
     Disable, DropTokens, PutRead, PutProfile, PutByAdmin, PutWrite
<1>2. \A q \in Requests : q # r => req'[q] = req[q]
  BY <1>1 DEF Goto, TypeOK
<1>3. req[r] = Idle => req[r].at # "evict"
  BY DEF Idle
<1>4. req[r].at # "evict" \/ EvictStep(r)
  BY <1>3 DEF Handler, ValidateRead, ValidateFill, FillUntil,
     Revoke, DeleteKey, RevokeEvicting, RegenerateKey, RegenerateEvicting,
     RenewRead, RenewCommit, IssueToken, PinInsert, InsertPinned, TrimTokens, PinDelete,
     Disable, DropTokens, PutRead, PutProfile, PutByAdmin, PutWrite
<1>. QED  BY <1>2, <1>4

\* A pending eviction stays pending until the entry is gone.
LEMMA EvictingPersists ==
  ASSUME TypeOK, [Next]_vars, NEW c \in Creds, cache'[c] # NoEntry, Evicting(c)
  PROVE  Evicting(c)'
<1>1. PICK q \in Requests : req[q].at = "evict" /\ c \in req[q].cs
  BY DEF Evicting
<1>2. SUFFICES req'[q] = req[q]
  BY <1>1 DEF Evicting
<1>3. ~Restart
  BY DEF Restart, Evict
<1>4. ASSUME NEW r \in Requests, Handler(r)  PROVE req'[q] = req[q]
  <2>1. CASE r # q
    BY <1>4, <2>1, HandlerMoves
  <2>2. CASE r = q
    <3>1. EvictStep(q)
      BY <1>1, <1>4, <2>2, HandlerMoves
    <3>. QED  BY <1>1, <3>1 DEF EvictStep, Evict
  <2>. QED  BY <2>1, <2>2
<1>. QED
  BY <1>3, <1>4 DEF Next, vars, IssueKey, Enable, SweepTokens, SweepCache, Tick

\* A credential stays marked until its entry is gone.
LEMMA OvertakenPersists ==
  ASSUME TypeOK, [Next]_vars, NEW c \in overtaken, cache'[c] # NoEntry
  PROVE  c \in overtaken'
<1>1. c \in Creds
  BY DEF TypeOK
<1>2. ~Restart
  BY <1>1 DEF Restart, Evict
<1>3. ASSUME NEW r \in Requests, Handler(r)  PROVE c \in overtaken'
  <2>1. CASE EvictStep(r)
    BY <1>1, <2>1 DEF EvictStep, Evict
  <2>. QED
    BY <1>3, <2>1
    DEF Handler, ValidateRead, ValidateFill, FillUntil, Revoke, DeleteKey,
        RevokeEvicting, RegenerateKey, RegenerateEvicting, RenewRead, RenewCommit,
        IssueToken, PinInsert, InsertPinned, TrimTokens, PinDelete, Disable, DropTokens,
        PutRead, PutProfile, PutByAdmin, PutWrite
<1>. QED
  BY <1>2, <1>3 DEF Next, vars, IssueKey, Enable, SweepTokens, SweepCache, Tick

\* What the entry was filled from changes only with an eviction to come, with
\* the mark, or by expiry.
LEMMA BackedUntilExplained ==
  ASSUME TypeOK, [Next]_vars, NEW c \in Creds, cache'[c] = cache[c], cache[c] # NoEntry,
         Live(c), ~account.disabled, cache[c].role = account.role
  PROVE  \/ Live(c)' /\ ~account'.disabled /\ cache'[c].role = account'.role
         \/ rows[c].expires < now
         \/ c \in overtaken'
         \/ Evicting(c)'
<1>. DEFINE Goal == \/ Live(c)' /\ ~account'.disabled /\ cache'[c].role = account'.role
                    \/ rows[c].expires < now
                    \/ c \in overtaken'
                    \/ Evicting(c)'
<1>1. ASSUME rows' = rows, account' = account  PROVE Goal
  BY <1>1 DEF Live
<1>2. ASSUME account' = account, rows'[c] = rows[c]  PROVE Goal
  BY <1>2 DEF Live
<1>3. ASSUME NEW r \in Requests, NEW cs, NEW then, c \in cs,
             Goto(r, [at |-> "evict", cs |-> cs, then |-> then])
      PROVE  Goal
  BY <1>3 DEF Goto, Evicting, TypeOK
<1>4. ASSUME NEW r \in Requests, Handler(r)  PROVE Goal
  <2>1. ASSUME NEW d \in Creds, NEW cs \in SUBSET Creds, d \in cs, RevokeEvicting(r, d, cs)
        PROVE  Goal
    <3>1. CASE c \in cs
      BY <1>3, <2>1, <3>1 DEF RevokeEvicting
    <3>2. CASE c \notin cs
      <4>1. rows'[c] = rows[c]
        BY <2>1, <3>2 DEF RevokeEvicting, Drop
      <4>. QED  BY <1>2, <2>1, <4>1 DEF RevokeEvicting
    <3>. QED  BY <3>1, <3>2
  <2>2. ASSUME NEW k \in Keys, RegenerateKey(r, k)  PROVE Goal
    BY <1>3, <2>2 DEF RegenerateKey, RegenerateEvicting
  <2>3. ASSUME NEW k \in Keys, RenewCommit(r, k)  PROVE Goal
    <3>1. CASE c = req[r].k
      BY <1>3, <2>3, <3>1 DEF RenewCommit
    <3>2. CASE c # req[r].k
      <4>1. rows'[c] = rows[c]
        BY <2>3, <3>2 DEF RenewCommit, Live
      <4>. QED  BY <1>2, <2>3, <4>1 DEF RenewCommit
    <3>. QED  BY <3>1, <3>2
  <2>4. ASSUME NEW t \in Tokens, IssueToken(r, t) \/ PinInsert(r, t)  PROVE Goal
    <3>1. c # t
      BY <2>4 DEF IssueToken, PinInsert, InsertPinned, Live
    <3>2. rows'[c] = rows[c] /\ account' = account
      BY <2>4, <3>1 DEF IssueToken, PinInsert, InsertPinned, TypeOK
    <3>. QED  BY <1>2, <3>2
  <2>5. ASSUME NEW old, Drop(old), old \subseteq overtaken', account' = account  PROVE Goal
    <3>1. CASE c \in old
      BY <2>5, <3>1
    <3>2. CASE c \notin old
      <4>1. rows'[c] = rows[c]
        BY <2>5, <3>2 DEF Drop
      <4>. QED  BY <1>2, <2>5, <4>1
    <3>. QED  BY <3>1, <3>2
  <2>6. CASE TrimTokens(r) \/ PinDelete(r)
    BY <2>5, <2>6 DEF TrimTokens, PinDelete
  <2>7. CASE DropTokens(r)
    <3>1. CASE c \in Tokens
      BY <2>7, <3>1 DEF DropTokens
    <3>2. CASE c \notin Tokens
      <4>1. rows'[c] = rows[c]
        BY <2>7, <3>2 DEF DropTokens, Drop
      <4>. QED  BY <1>2, <2>7, <4>1 DEF DropTokens
    <3>. QED  BY <3>1, <3>2
  <2>8. CASE Disable(r)
    BY <1>3, <2>8 DEF Disable
  <2>9. ASSUME NEW a, PutWrite(r, a)  PROVE Goal
    BY <1>3, <2>9 DEF PutWrite
  <2>10. CASE rows' = rows /\ account' = account
    BY <1>1, <2>10
  <2>11. Keys \subseteq Creds
    BY DEF Creds
  <2>. HIDE DEF Goal
  <2>. QED
    BY <1>4, <2>1, <2>2, <2>3, <2>4, <2>6, <2>7, <2>8, <2>9, <2>10, <2>11
    DEF Handler, Revoke, DeleteKey, PutProfile, PutByAdmin, ValidateRead,
        ValidateFill, FillUntil, EvictStep, RenewRead, PutRead
<1>5. ASSUME NEW k \in Keys, IssueKey(k)  PROVE Goal
  <2>1. c # k
    BY <1>5 DEF IssueKey, Live
  <2>2. rows'[c] = rows[c] /\ account' = account
    BY <1>5, <2>1 DEF IssueKey, TypeOK
  <2>. QED  BY <1>2, <2>2
<1>6. ASSUME SweepTokens  PROVE Goal
  <2>1. CASE c \in {t \in Tokens : rows[t].expires < now}
    BY <2>1
  <2>2. CASE c \notin {t \in Tokens : rows[t].expires < now}
    <3>1. rows'[c] = rows[c]
      BY <1>6, <2>2 DEF SweepTokens, Drop
    <3>. QED  BY <1>2, <1>6, <3>1 DEF SweepTokens
  <2>. QED  BY <2>1, <2>2
<1>7. ~Enable
  BY DEF Enable
<1>. HIDE DEF Goal
<1>8. SweepCache \/ Tick \/ Restart \/ UNCHANGED vars => Goal
  BY <1>1 DEF vars, SweepCache, Tick, Restart
<1>9. Goal
  BY <1>4, <1>5, <1>6, <1>7, <1>8 DEF Next
<1>. QED  BY <1>9 DEF Goal

LEMMA ExplainedStep ==
  ASSUME IInv, [Next]_vars
  PROVE  EntriesExplained'
<1>1. TypeOK /\ TypeOK' /\ RowsOnlyDie /\ EntriesAreIssued /\ EntriesExplained
  BY NextOnlyKills, TypeStep DEF IInv, CacheInv
<1>2. SUFFICES ASSUME NEW c \in Creds, cache'[c] # NoEntry
               PROVE  \/ Live(c)' /\ ~account'.disabled /\ cache'[c].role = account'.role
                      \/ rows'[c].expires < now'
                      \/ c \in overtaken'
                      \/ Evicting(c)'
  BY DEF EntriesExplained
<1>3. CASE cache'[c] = cache[c]
  <2>1. /\ rows[c].state # "none" /\ rows[c].expires \in Nat
        /\ rows'[c].expires = rows[c].expires
    BY <1>1, <1>2, <1>3, RowShapes DEF EntriesAreIssued, RowsOnlyDie, TypeOK
  <2>2. now \in Nat /\ now' \in Nat /\ now <= now'
    BY <1>1, ClockAdvances
  <2>3. rows[c].expires < now => rows'[c].expires < now'
    BY <2>1, <2>2
  <2>4. CASE Live(c) /\ ~account.disabled /\ cache[c].role = account.role
    BY <1>1, <1>2, <1>3, <2>3, <2>4, BackedUntilExplained
  <2>5. CASE Evicting(c)
    BY <1>1, <1>2, <2>5, EvictingPersists
  <2>6. CASE c \in overtaken
    BY <1>1, <1>2, <2>6, OvertakenPersists
  <2>. QED  BY <1>1, <1>2, <1>3, <2>3, <2>4, <2>5, <2>6 DEF EntriesExplained
<1>4. CASE cache'[c] # cache[c]
  <2>1. PICK r \in Requests : ValidateFill(r) /\ req[r].c = c
    BY <1>1, <1>2, <1>4, OnlyFillsFill
  <2>2. cache'[c].role = req[r].role
    BY <1>1, <2>1 DEF ValidateFill, FillUntil, TypeOK
  <2>. QED  BY <2>1, <2>2 DEF ValidateFill, FillUntil, Validates, Live
<1>. QED  BY <1>3, <1>4

\* The theorem's inductive core.
THEOREM CacheInvariant == Spec => []IInv
<1>1. Init => IInv
  <2>1. Init => CacheInv
    BY DEF Init, CacheInv, FillsAreIssued, EntriesAreIssued, EntryBounded, EntriesExplained, Idle
  <2>. QED  BY <2>1, InitType DEF IInv
<1>2. IInv /\ [Next]_vars => IInv'
  BY TypeStep, FillsStep, EntriesStep, ExplainedStep DEF IInv, CacheInv
<1>. QED  BY <1>1, <1>2, PTL DEF Spec

\* No cached credential outlives its row's expiry or credCacheTTL.
THEOREM EntriesBoundedTheorem == Spec => []EntryBounded
<1>1. IInv => EntryBounded
  BY DEF IInv, CacheInv
<1>. QED  BY <1>1, CacheInvariant, PTL

\* A cached credential the database no longer backs was lost to a race, to code
\* that evicts nothing, or is about to be evicted.
THEOREM StaleTheorem == Spec => []StaleOnlyByRace
<1>1. IInv => StaleOnlyByRace
  <2>. SUFFICES ASSUME IInv, NEW c \in Creds, Accepts(c), ~Backed(c)
                PROVE  c \in overtaken \/ Evicting(c)
    BY DEF StaleOnlyByRace
  <2>1. rows[c].expires \in Nat /\ now \in Nat /\ cache[c].until \in Nat
    BY RowShapes DEF IInv, TypeOK, Accepts, Entry
  <2>2. now + TTL \in Nat
    BY <2>1, CredCacheAssumption
  <2>3. Min({now + TTL, rows[c].expires}) <= rows[c].expires
        /\ Min({now + TTL, rows[c].expires}) \in Nat
    BY <2>1, <2>2, MinNat
  <2>4. now <= rows[c].expires
    BY <2>1, <2>3 DEF IInv, CacheInv, EntryBounded, Accepts
  <2>. QED  BY <2>1, <2>4 DEF IInv, CacheInv, EntriesExplained, Accepts, Backed, Validates
<1>. QED  BY <1>1, CacheInvariant, PTL

=============================================================================
